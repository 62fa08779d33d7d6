SPECIFICATION Spec
CONSTANTS
  Users = {u1}
  Contracts = {escrow}
  Authorities = {a1}
  NoAddr = NoAddr
  Offset = 10000
  UserShare = 6
  AuthorityShare = 2
  BpsDenominator = 8
  MinHarvestYield = 2
  HarvestInterval = 1
  ChangeDelay = 1
  Amounts = {12}
  Parts = {1}
  Receivers = {u1}
  PoolPulls = TRUE
  Approvals = {12}
  MaxDeposited = 24
  MaxAccrued = 12
  MinYieldThreshold = 4
  MinTargetInterval = 1
  MaxBatchSize = 1
  MaxHistory = 2
  MaxTargets = 1
  MaxAttempts = 3
INVARIANTS TypeOK EscrowBacked HistoryIsLatest NobodyShutOut
PROPERTIES NobodyDilutes HarvestKeepsPrincipal
