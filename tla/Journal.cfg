SPECIFICATION FairSpec
CONSTANTS
  Ids = {a, b, c}
  WriteErrors = {"none", "torn", "unended", "sync"}
  CrashCuts = {"torn", "unended", "sync"}
  MaxFaults = 2
  None = None
INVARIANT PublishedWasSent
INVARIANT LossIsBounded
PROPERTY SentInOrder
PROPERTY EventuallySent
CHECK_DEADLOCK FALSE
