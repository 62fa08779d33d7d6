SPECIFICATION Spec
CONSTANTS
  Wallets = {w1}
  Indices = {i1, i2}
  Accounts = {owner}
  Contracts = {pool}
  Appointable = {owner}
  NoAddress = NoAddress
  Pool = pool
  InitialTokens = 2
  MaxSigned = 2
INVARIANTS TypeOK ClaimsAreSigned AllocationsBacked PoolSolvent
PROPERTY ImplementsLedger
SYMMETRY AlikePaths

