SPECIFICATION Spec
CONSTANTS
  c1 = c1
  c2 = c2
  r1 = r1
  r2 = r2
  Commands = {c1, c2}
  Requests = {r1, r2}
  Value <- TwoRequests
  Amounts = {2}
  Ops = {"mint", "reserve-add", "reserve-sub", "redeem", "reconcile"}
  Faults = {"rpc", "revert", "crash"}
  MaxStarts = 6
INVARIANT TypeOK
INVARIANT SupplyBacked
INVARIANT RedeemOnce
INVARIANT ReconcileSound
CHECK_DEADLOCK FALSE
