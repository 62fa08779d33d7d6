SPECIFICATION Spec
CONSTANTS
  Wallets = {w1}
  Indices = {1, 2}
  Accounts = {owner}
  Contracts = {escrow, afv}
  Appointable = {owner, afv}
  NoAddress = NoAddress
  Escrow = escrow
  Exemptible = {escrow}
  Afv = afv
  InitialShares = 2
  MaxUint = 2
INVARIANTS TypeOK ClaimedOnlyWhenReleased ReleasedIsClaimable DestroyLeavesDecision BooksBalance EscrowSolvent
PROPERTIES HeirKeepsFactor ImplementsLedger
