SPECIFICATION Spec
CONSTANTS
  Ids = {a, b}
  WriteErrors = {}
  CrashCuts = {"torn"}
  MaxFaults = 1
  None = None
INVARIANT AckedSurvives
CHECK_DEADLOCK FALSE
