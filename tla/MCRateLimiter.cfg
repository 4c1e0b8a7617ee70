SPECIFICATION Spec
CONSTANTS
  Key = {k1, k2, k3}
  Request = {r1, r2, r3}
  Limit = 1
  Capacity = 2
  RedisEnabled = TRUE
  MaxMinute = 2
  MaxRestarts = 1
SYMMETRY Symmetry
CHECK_DEADLOCK FALSE
INVARIANTS
  BudgetKept
  RejectedOverBudgetOnly
PROPERTY LocalMapBounded
