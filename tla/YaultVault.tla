---------------------------- MODULE YaultVault ----------------------------
(* The ERC-4626 vault: shares of depositors, the principal each is recorded  *)
(* with, the split of the yield above it, and the authority's part of the    *)
(* yield, which stays in the vault until it is claimed.  Timestamps are kept *)
(* as ages that stop growing when nothing tests them any more.               *)
EXTENDS Naturals, FiniteSets, Functions

CONSTANTS
  Users,            \* depositors
  Contracts,        \* contracts that may be made exempt (the escrow)
  Authorities, NoAddr,
  Offset,           \* virtual shares, 10^6 in the code
  UserShare, AuthorityShare, BpsDenominator,
  MinHarvestYield,
  HarvestInterval, ChangeDelay,   \* in ticks
  Amounts, Parts,   \* amounts moved at once, and parts (1/p) of a holding
  Receivers,        \* accounts somebody deposits for
  PoolPulls,        \* must the vault approve the aTokens the pool takes back
  Approvals,        \* the amounts the owner approves
  MaxDeposited, MaxAccrued        \* bounds on what users and strategy bring in

Accounts == Users \cup Contracts

ASSUME VaultAssumption ==
  /\ NoAddr \notin Authorities
  /\ Users \cap Contracts = {}
  /\ IsFiniteSet(Users) /\ IsFiniteSet(Contracts) /\ IsFiniteSet(Authorities)
  /\ {Offset, BpsDenominator, MinHarvestYield, HarvestInterval, ChangeDelay} \subseteq Nat \ {0}
  /\ UserShare \in Nat /\ AuthorityShare \in Nat
  /\ UserShare + AuthorityShare <= BpsDenominator
  /\ Amounts \subseteq Nat \ {0} /\ Parts \subseteq Nat \ {0}
  /\ Receivers \subseteq Accounts
  /\ PoolPulls \in BOOLEAN /\ Approvals \subseteq Nat

VARIABLES
  paused, exempt,
  shares, principal,              \* per account
  idle, invested, strategy,       \* tokens held, aTokens held, is a pool set
  approval,                       \* aTokens the pool may still pull
  pendingRevenue, escrowed,       \* authorities' yield, and its recorded total
  authority, proposal,            \* per user: in force, and proposed with its age
  sinceHarvest,                   \* age of lastHarvestTime
  \* history, for the bounds
  deposited, accrued              \* brought in and yielded so far

assets == <<idle, invested, approval>>
funds == <<shares, principal, assets>>
revenue == <<pendingRevenue, escrowed>>
switches == <<paused, exempt, strategy>>
governance == <<authority, proposal>>
totals == <<deposited, accrued>>
vaultVars == <<funds, revenue, switches, governance, totals, sinceHarvest>>

VaultInit ==
  /\ paused = FALSE /\ exempt = {} /\ strategy = FALSE
  /\ shares = [a \in Accounts |-> 0] /\ principal = [a \in Accounts |-> 0]
  /\ idle = 0 /\ invested = 0 /\ approval = 0 /\ escrowed = 0
  /\ pendingRevenue = [a \in Authorities |-> 0]
  /\ authority = [u \in Users |-> NoAddr]
  /\ proposal = [u \in Users |-> [to |-> NoAddr, age |-> 0]]
  /\ sinceHarvest = [a \in Accounts |-> HarvestInterval]
  /\ deposited = 0 /\ accrued = 0

-----------------------------------------------------------------------------
Least(a, b) == IF a <= b THEN a ELSE b
Up(a, b) == (a + b - 1) \div b
Supply == SumFunction(shares)
TotalAssets_WithEscrow == idle + invested
TotalAssets == IF idle + invested > escrowed THEN (idle + invested) - escrowed ELSE 0

ToShares(a) == (a * (Supply + Offset)) \div (TotalAssets + 1)
ToSharesUp(a) == Up(a * (Supply + Offset), TotalAssets + 1)
ToAssets(s) == (s * (TotalAssets + 1)) \div (Supply + Offset)
ToAssetsUp(s) == Up(s * (TotalAssets + 1), Supply + Offset)
Value(a) == ToAssets(shares[a])

(* The pool gives tokens back for aTokens: Aave burns them, a mock pulls     *)
(* them and needs the vault's approval, which it uses up.                    *)
CanUnwind(amount) ==
  strategy /\ amount <= invested /\ (PoolPulls => amount <= approval)
ApprovalLeft(amount) == IF PoolPulls THEN approval - amount ELSE approval

(* Takes "out" tokens out after bringing the idle balance to "need", from    *)
(* the strategy when it falls short.                                         *)
Shortfall_Ignored(need) == 0
Shortfall(need) == IF idle < need THEN need - idle ELSE 0
Payable(need) == Shortfall(need) = 0 \/ CanUnwind(Shortfall(need))
Pay(need, out) ==
  /\ Payable(need)
  /\ idle' = (idle + Shortfall(need)) - out
  /\ invested' = invested - Shortfall(need)
  /\ approval' = ApprovalLeft(Shortfall(need))

-----------------------------------------------------------------------------
(* deposit and mint *)
Enter(r, brought, s) ==
  /\ ~paused
  /\ deposited + brought <= MaxDeposited
  /\ deposited' = deposited + brought
  /\ shares' = [shares EXCEPT ![r] = @ + s]
  /\ principal' = [principal EXCEPT ![r] = @ + brought]
  /\ idle' = idle + brought
  /\ UNCHANGED <<invested, approval, revenue, switches, governance, accrued, sinceHarvest>>

Deposit(r) == \E a \in Amounts : Enter(r, a, ToShares(a))
Mint(r) == \E a \in Amounts : Enter(r, ToAssetsUp(a * Offset), a * Offset)

(* withdraw and redeem; a contract, the escrow, only redeems. *)
Leave(u, taken, s) ==
  LET value == Value(u)
      reduction == IF value > 0
                   THEN Least((principal[u] * taken) \div value, principal[u])
                   ELSE 0
  IN /\ principal' = [principal EXCEPT ![u] = @ - reduction]
     /\ shares' = [shares EXCEPT ![u] = @ - s]
     /\ Pay(taken, taken)
     /\ UNCHANGED <<revenue, switches, governance, totals, sinceHarvest>>

Withdraw(u) == \E a \in Amounts : a <= Value(u) /\ Leave(u, a, ToSharesUp(a))
Redeem(u) ==
  \E s \in {shares[u] \div p : p \in Parts} : s > 0 /\ Leave(u, ToAssets(s), s)

(* A transfer of shares: one of the two sides is an exempt contract. *)
TransferShares(from, to) ==
  \E s \in {shares[from] \div p : p \in Parts} :
    LET paid == IF from \notin exempt
                THEN Least((principal[from] * s) \div shares[from], principal[from])
                ELSE 0
        credited == IF from \in exempt /\ to \notin exempt THEN ToAssets(s) ELSE 0
    IN /\ s > 0 /\ from # to
       /\ from \in exempt \/ to \in exempt
       /\ principal' = [principal EXCEPT ![from] = @ - paid, ![to] = @ + credited]
       /\ shares' = [shares EXCEPT ![from] = @ - s, ![to] = @ + s]
       /\ UNCHANGED <<assets, revenue, switches, governance, totals, sinceHarvest>>

-----------------------------------------------------------------------------
(* harvest and harvestFor *)
Yield(u) == LET value == Value(u)
            IN IF value > principal[u] THEN value - principal[u] ELSE 0
UserAmount(y) == (y * UserShare) \div BpsDenominator
AuthorityAmount(u, y) ==
  IF u \in Users /\ authority[u] # NoAddr THEN (y * AuthorityShare) \div BpsDenominator ELSE 0

CanHarvest(u) ==
  /\ sinceHarvest[u] = HarvestInterval
  /\ LET y == Yield(u)
     IN y > 0 /\ y >= MinHarvestYield /\ Payable(y - UserAmount(y))

SharesToBurn_AllYield(y) == ToShares(y)
SharesToBurn(y) == ToShares(y - UserAmount(y))

Escrow(u, amount) ==
  /\ escrowed' = escrowed + amount
  /\ pendingRevenue' = [a \in Authorities |->
       pendingRevenue[a] + (IF u \in Users /\ authority[u] = a THEN amount ELSE 0)]

HarvestFor(u) ==
  LET y == Yield(u)
      fees == y - UserAmount(y)
      toAuthority == AuthorityAmount(u, y)
  IN /\ CanHarvest(u)
     /\ shares' = [shares EXCEPT ![u] = @ - SharesToBurn(y)]
     /\ principal' = [principal EXCEPT ![u] = @ + UserAmount(y)]
     /\ Escrow(u, toAuthority)
     /\ Pay(fees, fees - toAuthority)
     /\ sinceHarvest' = [sinceHarvest EXCEPT ![u] = 0]
     /\ UNCHANGED <<switches, governance, totals>>

ClaimAuthorityRevenue_KeepsTotal(a) ==
  /\ pendingRevenue[a] > 0
  /\ pendingRevenue' = [pendingRevenue EXCEPT ![a] = 0]
  /\ Pay(pendingRevenue[a], pendingRevenue[a])
  /\ UNCHANGED <<escrowed, shares, principal, switches, governance, totals, sinceHarvest>>
ClaimAuthorityRevenue(a) ==
  /\ pendingRevenue[a] > 0
  /\ pendingRevenue' = [pendingRevenue EXCEPT ![a] = 0]
  /\ escrowed' = escrowed - pendingRevenue[a]
  /\ Pay(pendingRevenue[a], pendingRevenue[a])
  /\ UNCHANGED <<shares, principal, switches, governance, totals, sinceHarvest>>

-----------------------------------------------------------------------------
(* The authority of a user: the first is set at once, a change has to stand. *)
SetAuthority(u, a) ==
  /\ IF authority[u] = NoAddr
     THEN authority' = [authority EXCEPT ![u] = a] /\ UNCHANGED proposal
     ELSE /\ proposal' = [proposal EXCEPT ![u] = [to |-> a, age |-> 0]]
          /\ UNCHANGED authority
  /\ UNCHANGED <<funds, revenue, switches, totals, sinceHarvest>>

Withdrawn == [to |-> NoAddr, age |-> 0]

ConfirmAuthority(u) ==
  /\ proposal[u].to # NoAddr /\ proposal[u].age >= ChangeDelay
  /\ authority' = [authority EXCEPT ![u] = proposal[u].to]
  /\ proposal' = [proposal EXCEPT ![u] = Withdrawn]
  /\ UNCHANGED <<funds, revenue, switches, totals, sinceHarvest>>

CancelAuthorityChange(u) ==
  /\ proposal[u].to # NoAddr
  /\ proposal' = [proposal EXCEPT ![u] = Withdrawn]
  /\ UNCHANGED <<funds, revenue, switches, totals, sinceHarvest, authority>>

-----------------------------------------------------------------------------
(* The owner's calls *)
SetPaused == paused' = ~paused /\ UNCHANGED <<funds, revenue, exempt, strategy, governance, totals, sinceHarvest>>

SetTransferExempt(c) ==
  /\ exempt' \in {exempt \cup {c}, exempt \ {c}} /\ exempt' # exempt
  /\ UNCHANGED <<funds, revenue, paused, strategy, governance, totals, sinceHarvest>>

(* The same pool again, or another one, which has no approval yet. *)
SetStrategy ==
  /\ strategy => invested = 0
  /\ strategy' = TRUE
  /\ approval' \in {approval, 0}
  /\ UNCHANGED <<shares, principal, idle, invested, revenue, paused, exempt, governance, totals, sinceHarvest>>

Invest ==
  \E a \in Amounts :
    /\ strategy /\ idle >= escrowed /\ a <= idle - escrowed
    /\ idle' = idle - a /\ invested' = invested + a
    /\ UNCHANGED <<approval, shares, principal, revenue, switches, governance, totals, sinceHarvest>>

Divest ==
  \E a \in Amounts :
    /\ CanUnwind(a)
    /\ idle' = idle + a /\ invested' = invested - a
    /\ approval' = ApprovalLeft(a)
    /\ UNCHANGED <<shares, principal, revenue, switches, governance, totals, sinceHarvest>>

ApproveStrategyToken ==
  /\ strategy
  /\ approval' \in Approvals
  /\ UNCHANGED <<shares, principal, idle, invested, revenue, switches, governance, totals,
                 sinceHarvest>>

-----------------------------------------------------------------------------
(* The world: the strategy earns, somebody sends tokens to the vault, and    *)
(* time passes.                                                              *)
Gain(a) ==
  /\ accrued + a <= MaxAccrued
  /\ accrued' = accrued + a
  /\ UNCHANGED <<shares, principal, approval, revenue, switches, governance, deposited,
                 sinceHarvest>>

Earn == \E a \in Amounts : Gain(a) /\ invested > 0 /\ invested' = invested + a /\ UNCHANGED idle
Donate == \E a \in Amounts : Gain(a) /\ idle' = idle + a /\ UNCHANGED invested

Tick ==
  /\ sinceHarvest' = [a \in Accounts |-> Least(sinceHarvest[a] + 1, HarvestInterval)]
  /\ proposal' = [u \in Users |->
       IF proposal[u].to = NoAddr THEN proposal[u]
       ELSE [proposal[u] EXCEPT !.age = Least(@ + 1, ChangeDelay)]]
  /\ UNCHANGED <<funds, revenue, switches, totals, authority>>

UserCall ==
  \/ \E r \in Receivers : Deposit(r) \/ Mint(r)
  \/ \E a \in Accounts : Redeem(a)
  \/ \E u \in Users : \/ Withdraw(u) \/ HarvestFor(u)
                      \/ ConfirmAuthority(u) \/ CancelAuthorityChange(u)
                      \/ \E a \in Authorities : SetAuthority(u, a)
  \/ \E from, to \in Accounts : TransferShares(from, to)
  \/ \E a \in Authorities : ClaimAuthorityRevenue(a)

OwnerCall == \/ SetPaused \/ SetStrategy \/ Invest \/ Divest \/ ApproveStrategyToken
             \/ \E c \in Contracts : SetTransferExempt(c)

-----------------------------------------------------------------------------
VaultTypeOK ==
  /\ paused \in BOOLEAN /\ strategy \in BOOLEAN /\ exempt \subseteq Contracts
  /\ shares \in [Accounts -> Nat] /\ principal \in [Accounts -> Nat]
  /\ idle \in Nat /\ invested \in Nat /\ approval \in Nat /\ escrowed \in Nat
  /\ pendingRevenue \in [Authorities -> Nat]
  /\ authority \in [Users -> Authorities \cup {NoAddr}]
  /\ proposal \in [Users -> [to : Authorities \cup {NoAddr}, age : 0 .. ChangeDelay]]
  /\ sinceHarvest \in [Accounts -> 0 .. HarvestInterval]

(* What the authorities are owed is in the vault, in tokens or in aTokens,   *)
(* and the recorded total is the sum of what each is owed: no deposit,       *)
(* withdrawal, investment or harvest spends it (totalAssets, _withdraw,      *)
(* investToStrategy, claimAuthorityRevenue).                                 *)
EscrowBacked ==
  /\ escrowed = SumFunction(pendingRevenue)
  /\ escrowed <= idle + invested

(* Some account was harvested in this step. *)
Harvested == \E u \in Users : sinceHarvest'[u] < sinceHarvest[u]

(* What one share is worth, rounded up: one unit while there are at least as *)
(* many shares, virtual ones included, as tokens.                            *)
OneShare == Up(TotalAssets + 1, Supply + Offset)

(* Nobody's shares lose value by what others do: deposits, withdrawals,      *)
(* claims, investments and transfers round in favour of those who stay, and  *)
(* a harvest costs any other holder at most the value of one share, by       *)
(* rounding the burn down.                                                   *)
NobodyDilutes ==
  [][~UNCHANGED <<funds, revenue>> => \A a \in Accounts : shares'[a] = shares[a] /\ shares[a] > 0 =>
       Value(a)' + (IF Harvested THEN OneShare ELSE 0) >= Value(a)]_vaultVars

(* A harvest takes from the yield only: what the depositor still holds is    *)
(* worth at least the principal recorded after it, to which the depositor's  *)
(* part of the yield has been added (_harvestInternal).                      *)
HarvestKeepsPrincipal ==
  [][\A u \in Users : sinceHarvest'[u] < sinceHarvest[u] => Value(u)' >= principal'[u]]_vaultVars
=============================================================================
