SPECIFICATION Spec
CONSTANTS
  a1 = a1
  a2 = a2
  m1 = m1
  m2 = m2
  Runs = {a1, a2}
  Resources = {"dear", "cheap"}
  Prices = {2, 3}
  InitPrice <- TwoPrices
  Mandates = {m1, m2}
  Terms <- TwoTerms
  Signers = {"delegator", "other"}
  GrantTable <- PayUpToThree
  AcceptTable <- AskedAtMostOnce
  AskOnExceed = TRUE
  PayFor = 1
  ConfirmFor = 2
  MandateFor = 2
  MaxTime = 2
  MaxNonces = 2
  MaxConfirms = 2
  MaxRevokes = 1
  MaxForeign = 1
  MaxSends = 2
  MaxReprices = 1
SYMMETRY RunSymmetry
INVARIANT TypeOK
INVARIANT UnapprovedWithinMandate
INVARIANT ConfirmationClears
INVARIANT ConfirmedIsEntitled
INVARIANT AuditComplete
INVARIANT AuditSound
CHECK_DEADLOCK FALSE
