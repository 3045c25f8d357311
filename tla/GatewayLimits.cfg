SPECIFICATION Spec
CONSTANTS
  h1 = h1
  h2 = h2
  n1 = n1
  n2 = n2
  m1 = m1
  None = None
  Handlers = {h1, h2}
  Nonces = {n1, n2}
  Mandates = {m1}
  Payloads <- Confirmable
  Amount <- AmountMixed
  Budget <- Limit2
  MaxAmountPerPayment <- Limit2
  MaxPaymentsPerWindow <- Limit2
  DeferAbove = 2
  ConfirmDepth = 1
  TableActions = {"approve", "defer", "refuse"}
  HasDeliverer = TRUE
  HasRefunder = TRUE
  Signers = {"delegator"}
  SingleFlight = TRUE
  Faults <- LimitFaults
  MaxHead = 1
  MaxReorgs = 1
SYMMETRY HandlerSymmetry
INVARIANT SettledIsCounted
INVARIANT LimitsRespected
INVARIANT NoSilentLoss
