SPECIFICATION FairDueSpec
CONSTANTS
  Wallets = {w1}
  Indices = {1}
  Accounts = {oracle, relayer}
  Contracts = {}
  NoAddress = NoAddress
  Triggers = {t1}
  NoTrigger = NoTrigger
  Requests = {r1}
  Sweepers = {s1}
  Oracle = oracle
  Relayer = relayer
  OracleEnabled = TRUE
  OracleOwned = TRUE
  HighValue = {w1}
  Cooldowns = {2}
  DefaultCooldown = 2
  CancelWait = 1
  MaxBlockedResets = 1
  MaxRestarts = 1
  Horizon = 3
INVARIANT CooldownServed
PROPERTY CooldownResolves
CHECK_DEADLOCK FALSE
