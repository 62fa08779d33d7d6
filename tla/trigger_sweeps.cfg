SPECIFICATION Spec
CONSTANTS
  Wallets = {w1}
  Indices = {1}
  Accounts = {oracle, relayer}
  Contracts = {}
  NoAddress = NoAddress
  Triggers = {t1}
  NoTrigger = NoTrigger
  Requests = {r1}
  Sweepers = {s1, s2}
  Oracle = oracle
  Relayer = relayer
  OracleEnabled = TRUE
  OracleOwned = FALSE
  HighValue = {w1}
  Cooldowns = {1}
  DefaultCooldown = 1
  CancelWait = 1
  MaxBlockedResets = 1
  MaxRestarts = 1
  Horizon = 2
SYMMETRY Slots
INVARIANTS TypeOK OneFinalizer OracleReleaseIsAttested ReleasedOnTime HighValueIsConfirmed
CHECK_DEADLOCK FALSE
