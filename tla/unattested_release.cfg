SPECIFICATION Spec
CONSTANTS
  Wallets = {w1}
  Indices = {1}
  Accounts = {oracle, relayer}
  Contracts = {}
  NoAddress = NoAddress
  Triggers = {t1}
  NoTrigger = NoTrigger
  Requests = {r1}
  Sweepers = {s1}
  Oracle = oracle
  Relayer = relayer
  OracleEnabled = TRUE
  OracleOwned = FALSE
  HighValue = {w1}
  Cooldowns = {1}
  DefaultCooldown = 1
  CancelWait = 1
  MaxBlockedResets = 1
  MaxRestarts = 0
  Horizon = 1
PROPERTY AttestedBeforeFinalized
CHECK_DEADLOCK FALSE
