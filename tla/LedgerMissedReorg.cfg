SPECIFICATION Spec
CONSTANTS
  Accounts = {"a", "b"}
  Zero = "zero"
  NoEvent = NoEvent
  Events <- MintMoveBurn
  BlockEvents <- MintOrNothing
  FinalityDepth = 2
  Faults = {}
  MaxHead = 3
  MaxReorgs = 1
INVARIANT SnapshotIsChain
