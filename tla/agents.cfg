SPECIFICATION Spec
CONSTANTS
  Requests = {r1, r2}
  Users = {u1, u2}
  Policies = {p1}
  NoPolicy = NoPolicy
  Limit = 1
  Window = 1
  Horizon = 2
  MaxIssued = 2
  MaxBinds = 1
  Funds = 1
  MaxFaults = 1
  MaxRestarts = 1
INVARIANTS WithinBudget LedgerMatchesSpend FundsStayWhole
PROPERTY EveryRequestEnds
CHECK_DEADLOCK FALSE
