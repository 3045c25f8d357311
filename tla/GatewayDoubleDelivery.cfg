SPECIFICATION Spec
CONSTANTS
  h1 = h1
  h2 = h2
  n1 = n1
  n2 = n2
  m1 = m1
  None = None
  Handlers = {h1, h2}
  Nonces = {n2}
  Mandates = {m1}
  Payloads <- DeferredPayment
  Amount <- AmountMixed
  Budget <- Limit2
  MaxAmountPerPayment <- Limit0
  MaxPaymentsPerWindow <- Limit0
  DeferAbove = 2
  ConfirmDepth = 1
  TableActions = {"approve"}
  HasDeliverer = TRUE
  HasRefunder = TRUE
  Signers = {"delegator"}
  SingleFlight = FALSE
  Faults = {}
  MaxHead = 1
  MaxReorgs = 0
INVARIANT DeliverOnce
