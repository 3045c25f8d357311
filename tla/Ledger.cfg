SPECIFICATION FairSpec
CONSTANTS
  Accounts = {"a", "b"}
  Zero = "zero"
  NoEvent = NoEvent
  Events <- MintMoveBurn
  BlockEvents <- MintMoveBurn
  FinalityDepth = 2
  Faults = {"rpc"}
  MaxHead = 3
  MaxReorgs = 1
INVARIANT TypeOK
INVARIANT SnapshotIsChain
INVARIANT FinalIsCanonical
PROPERTY Converges
