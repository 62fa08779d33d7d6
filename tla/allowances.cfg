SPECIFICATION Spec
CONSTANTS
  Savers = {s1, s2}
  Ticks = {t1, t2}
  Requests = {r1}
  Funds = 1
  Limit = 1
  Horizon = 1
  MaxRequests = 1
  MaxFaults = 1
  MaxRollbacks = 1
SYMMETRY Alike
INVARIANTS UnsavedIsMarked LimitNearlyHolds PaidOncePerPeriod PositionsAddUp
CHECK_DEADLOCK FALSE
