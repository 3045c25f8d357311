SPECIFICATION Spec
CONSTANTS
  n1 = n1
  n2 = n2
  n3 = n3
  n4 = n4
  Nonces = {n1, n2, n3, n4}
  Amount <- Amounts
  Confirmed = {n4}
  BudgetAmount = 2
  BudgetWindowSeconds = 2
  MaxPaymentsPerWindow = 2
  RateWindowSeconds = 3
  Second = 2
  DurationModulus = 64
  MaxTime = 8
SYMMETRY NonceSymmetry
INVARIANT PruneIsInvisible
INVARIANT BudgetInEveryWindow
INVARIANT RateInEveryWindow
