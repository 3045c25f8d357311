SPECIFICATION Spec
CONSTANTS
  h1 = h1
  h2 = h2
  n1 = n1
  n2 = n2
  m1 = m1
  None = None
  Handlers = {h1, h2}
  Nonces = {n1, n2}
  Mandates = {m1}
  Payloads <- TwoPayments
  Amount <- AmountMixed
  Budget <- Limit2
  MaxAmountPerPayment <- Limit0
  MaxPaymentsPerWindow <- Limit0
  DeferAbove = 2
  ConfirmDepth = 1
  TableActions = {"approve"}
  HasDeliverer = TRUE
  HasRefunder = TRUE
  Signers = {"delegator"}
  SingleFlight = TRUE
  Faults <- CrashFaults
  MaxHead = 2
  MaxReorgs = 0
SYMMETRY HandlerSymmetry
INVARIANT ToldIsCounted
INVARIANT RevocationHolds
INVARIANT DeliveredDeep
PROPERTY PaymentLife
