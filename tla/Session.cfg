SPECIFICATION FairSpec
CONSTANTS
  a1 = a1
  a2 = a2
  None = None
  Handlers = {h1, h2}
  Ids = {i1, i2}
  Auths = {a1, a2}
  Value <- SmallBudgets
  Price = 2
  BudgetAmount = 6
  TableActions = {"approve", "refuse"}
  SingleOpen = TRUE
  Expiring = {a1}
  MaxRestarts = 1
  Faults <- FaultKinds
INVARIANT TypeOK
INVARIANT ServedIsCovered
INVARIANT SellerKeepsServed
INVARIANT ToldIsDurable
INVARIANT ToldIsSquare
INVARIANT NoSilentCharge
INVARIANT MandateBudgetHolds
PROPERTY RequestsFinish
CHECK_DEADLOCK FALSE
