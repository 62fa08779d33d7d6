----------------------- MODULE VaultContracts_proofs -----------------------
(***************************************************************************)
(* Proofs about the contracts that hold, settle and move vault positions:  *)
(* the vault with its automation, for every set of users, contracts and    *)
(* authorities, every split of the yield, and amounts and histories of any *)
(* size; then the bridges between chains.                                  *)
(***************************************************************************)
EXTENDS AutoHarvest, CrossChainVaultBridge, Sums, SequenceTheorems, TLAPS

-----------------------------------------------------------------------------
(* Division of natural numbers, rounded down and up.                       *)

LEMMA DivBounds ==
  ASSUME NEW a \in Nat, NEW b \in Nat \ {0}
  PROVE  /\ a \div b \in Nat
         /\ (a \div b) * b <= a
         /\ a < (a \div b) * b + b
OBVIOUS

LEMMA UpBounds ==
  ASSUME NEW a \in Nat, NEW b \in Nat \ {0}
  PROVE  /\ Up(a, b) \in Nat
         /\ a <= Up(a, b) * b
         /\ Up(a, b) * b < a + b
<1>1. a + b - 1 \in Nat
  OBVIOUS
<1>. QED BY <1>1, DivBounds DEF Up

LEMMA ProductIsNat == ASSUME NEW a \in Nat, NEW b \in Nat PROVE a * b \in Nat
OBVIOUS

LEMMA TimesMono ==
  ASSUME NEW a \in Nat, NEW b \in Nat, NEW c \in Nat, a <= b
  PROVE  a * c <= b * c
OBVIOUS

(* What is multiplied by a positive number can be compared without it.     *)
LEMMA Cancel ==
  ASSUME NEW a \in Nat, NEW b \in Nat, NEW c \in Nat \ {0}, a * c < b * c + c
  PROVE  a <= b
<1>1. SUFFICES ASSUME a > b PROVE FALSE
  OBVIOUS
<1>2. a >= b + 1 /\ b + 1 \in Nat
  BY <1>1
<1>3. (b + 1) * c <= a * c
  BY <1>2, TimesMono
<1>4. (b + 1) * c = b * c + c
  OBVIOUS
<1>. QED BY <1>3, <1>4

LEMMA DivAtLeast ==
  ASSUME NEW a \in Nat, NEW b \in Nat \ {0}, NEW c \in Nat, c * b <= a
  PROVE  c <= a \div b
<1>1. a \div b \in Nat /\ a < (a \div b) * b + b
  BY DivBounds
<1>2. c * b < (a \div b) * b + b
  BY <1>1
<1>. QED BY <1>1, <1>2, Cancel

LEMMA DivAtMost ==
  ASSUME NEW a \in Nat, NEW b \in Nat \ {0}, NEW c \in Nat, a <= c * b
  PROVE  a \div b <= c
<1>1. a \div b \in Nat /\ (a \div b) * b <= a
  BY DivBounds
<1>2. (a \div b) * b < c * b + b
  BY <1>1
<1>. QED BY <1>1, <1>2, Cancel

LEMMA UpAtMost ==
  ASSUME NEW a \in Nat, NEW b \in Nat \ {0}, NEW c \in Nat, a <= c * b
  PROVE  Up(a, b) <= c
<1>1. Up(a, b) \in Nat /\ Up(a, b) * b < a + b
  BY UpBounds
<1>2. Up(a, b) * b < c * b + b
  BY <1>1
<1>. QED BY <1>1, <1>2, Cancel

(* A larger fraction has no smaller whole part.                            *)
LEMMA DivMonotone ==
  ASSUME NEW a \in Nat, NEW b \in Nat \ {0}, NEW c \in Nat, NEW d \in Nat \ {0},
         a * d <= c * b
  PROVE  a \div b <= c \div d
<1> DEFINE q == a \div b
<1>1. q \in Nat /\ q * b <= a
  BY DivBounds
<1>2. q * d \in Nat
  BY <1>1
<1> HIDE DEF q
<1>3. (q * b) * d <= a * d
  BY <1>1, TimesMono, ProductIsNat
<1>4. (q * b) * d = (q * d) * b
  BY <1>1
<1>5. (q * d) * b < c * b + b
  BY <1>3, <1>4, <1>1, <1>2
<1>6. q * d <= c
  BY <1>2, <1>5, Cancel
<1>7. q <= c \div d
  BY <1>1, <1>6, DivAtLeast
<1>. QED BY <1>7 DEF q

-----------------------------------------------------------------------------
(* The price of shares.  P tokens stand for Q shares, both with their        *)
(* virtual one; s shares are worth (s * P) \div Q tokens.                    *)

(* Fewer than all shares are worth fewer than all tokens.                    *)
LEMMA WorthLess ==
  ASSUME NEW h \in Nat, NEW P \in Nat \ {0}, NEW Q \in Nat, h < Q
  PROVE  (h * P) \div Q < P
<1> DEFINE v == (h * P) \div Q
<1>1. h * P \in Nat /\ Q \in Nat \ {0}
  OBVIOUS
<1>2. v \in Nat /\ v * Q <= h * P
  BY <1>1, DivBounds
<1> HIDE DEF v
<1>3. h * P < Q * P
  OBVIOUS
<1>4. v < P
  <2>1. SUFFICES ASSUME v >= P PROVE FALSE
    BY <1>2
  <2>2. P * Q <= v * Q
    BY <1>2, <2>1, TimesMono
  <2>. QED BY <1>2, <1>3, <2>2
<1>. QED BY <1>4 DEF v

(* Who brings in at least what the new shares are worth lowers no price.     *)
LEMMA EnterPrice ==
  ASSUME NEW P \in Nat, NEW Q \in Nat, NEW a \in Nat, NEW s \in Nat, s * P <= a * Q
  PROVE  P * (Q + s) <= (P + a) * Q
<1>1. P * (Q + s) = P * Q + s * P /\ (P + a) * Q = P * Q + a * Q
  OBVIOUS
<1>2. P * Q \in Nat /\ s * P \in Nat /\ a * Q \in Nat
  OBVIOUS
<1>. QED BY <1>1, <1>2

(* Nor does who takes out at most what the returned shares are worth.        *)
LEMMA LeavePrice ==
  ASSUME NEW P \in Nat, NEW Q \in Nat, NEW a \in Nat, NEW s \in Nat, a * Q <= s * P
  PROVE  P * (Q - s) <= (P - a) * Q
<1>1. P * (Q - s) = P * Q - s * P /\ (P - a) * Q = P * Q - a * Q
  OBVIOUS
<1>2. P * Q \in Nat /\ s * P \in Nat /\ a * Q \in Nat
  OBVIOUS
<1>. QED BY <1>1, <1>2

(* The shares burnt for a part f of what h shares are worth are among them.  *)
LEMMA BurnsHeld ==
  ASSUME NEW h \in Nat, NEW P \in Nat \ {0}, NEW Q \in Nat \ {0}, NEW f \in Nat,
         f <= (h * P) \div Q
  PROVE  (f * Q) \div P <= h /\ Up(f * Q, P) <= h /\ f * Q <= h * P
<1> DEFINE v == (h * P) \div Q
<1>1. h * P \in Nat /\ f * Q \in Nat
  OBVIOUS
<1>2. v \in Nat /\ v * Q <= h * P
  BY <1>1, DivBounds
<1>3. f <= v
  OBVIOUS
<1> HIDE DEF v
<1>4. f * Q <= v * Q
  BY <1>2, <1>3, TimesMono
<1>5. f * Q <= h * P
  <2>1. v * Q \in Nat
    BY <1>2
  <2>. QED BY <1>1, <1>2, <1>4, <2>1
<1>6. (f * Q) \div P <= h /\ Up(f * Q, P) <= h
  BY <1>1, <1>5, DivAtMost, UpAtMost
<1>. QED BY <1>5, <1>6

(* Burning the shares for f, rounded down, leaves at least the rest of what  *)
(* they were worth.                                                          *)
LEMMA HarvestLeaves ==
  ASSUME NEW h \in Nat, NEW P \in Nat \ {0}, NEW Q \in Nat, NEW f \in Nat, h < Q,
         f <= (h * P) \div Q
  PROVE  (h * P) \div Q - f
           <= ((h - (f * Q) \div P) * (P - f)) \div (Q - (f * Q) \div P)
<1> DEFINE v == (h * P) \div Q
           s == (f * Q) \div P
<1>1. h * P \in Nat /\ f * Q \in Nat /\ Q \in Nat \ {0}
  OBVIOUS
<1>2. v \in Nat /\ v * Q <= h * P
  BY <1>1, DivBounds
<1>3. s \in Nat /\ s * P <= f * Q
  BY <1>1, DivBounds
<1>4. s <= h
  BY <1>1, BurnsHeld
<1>5. v < P
  BY WorthLess
<1>6. f <= v
  OBVIOUS
<1> HIDE DEF v, s
<1>7. P * ((h - s) * (P - f) - (v - f) * (Q - s))
        = (h * P - v * Q) * (P - f) + (f * Q - s * P) * (P - v)
  BY <1>2, <1>3
<1>8. h * P - v * Q \in Nat /\ P - f \in Nat /\ f * Q - s * P \in Nat /\ P - v \in Nat
  BY <1>1, <1>2, <1>3, <1>5, <1>6
<1>9. (h * P - v * Q) * (P - f) \in Nat /\ (f * Q - s * P) * (P - v) \in Nat
  BY <1>8, ProductIsNat
<1>10. h - s \in Nat /\ P - f \in Nat /\ v - f \in Nat /\ Q - s \in Nat \ {0}
  BY <1>2, <1>3, <1>4, <1>5, <1>6
<1> DEFINE x == (h - s) * (P - f)
           y == (v - f) * (Q - s)
<1>11. x \in Nat /\ y \in Nat
  BY <1>10, ProductIsNat
<1>12. P * (x - y) >= 0
  BY <1>7, <1>9
<1> HIDE DEF x, y
<1>13. y <= x
  BY <1>11, <1>12
<1>14. v - f <= x \div (Q - s)
  BY <1>10, <1>11, <1>13, DivAtLeast DEF y
<1>. QED BY <1>14 DEF v, s, x

(* ... and costs another holder of h shares at most what one is worth.       *)
LEMMA HarvestCosts ==
  ASSUME NEW h \in Nat, NEW P \in Nat \ {0}, NEW Q \in Nat \ {0}, NEW f \in Nat, f < P,
         (f * Q) \div P < Q, h * P <= Q * (P - f) + P
  PROVE  (h * P) \div Q
           <= (h * (P - f)) \div (Q - (f * Q) \div P) + Up(P, Q)
<1> DEFINE v == (h * P) \div Q
           s == (f * Q) \div P
           k == Up(P, Q)
           z == Q * (P - f) + P
<1>1. h * P \in Nat /\ f * Q \in Nat /\ P - f \in Nat
  OBVIOUS
<1>2. v \in Nat /\ v * Q <= h * P
  BY <1>1, DivBounds
<1>3. s \in Nat /\ f * Q < s * P + P
  BY <1>1, DivBounds
<1>4. k \in Nat /\ P <= k * Q
  BY UpBounds
<1>5. h * P <= z /\ z \in Nat \ {0} /\ s < Q
  BY <1>1
<1>6. Q - s \in Nat \ {0}
  BY <1>3, <1>5
<1>7. h * (P - f) \in Nat
  BY <1>1, ProductIsNat
<1> DEFINE r == (h * (P - f)) \div (Q - s)
<1>8. r \in Nat
  BY <1>6, <1>7, DivBounds
<1>9. CASE v <= k
  <2> HIDE DEF v, s, k, z, r
  <2>1. v <= r + k
    BY <1>2, <1>4, <1>8, <1>9
  <2>. QED BY <2>1 DEF v, s, k, r
<1>10. CASE v > k
  <2> DEFINE w == v - k
  <2>1. w \in Nat
    BY <1>2, <1>4, <1>10
  <2> HIDE DEF v, s, k
  <2>2. w * Q = v * Q - k * Q
    BY <1>2, <1>4
  <2>3. w * Q <= h * P - P
    BY <1>1, <1>2, <1>4, <2>2
  <2> HIDE DEF w
  (* the shares left, at the old price, and the same for all of them *)
  <2>4. (w * (Q - s)) * P <= w * z
    <3>1. (w * (Q - s)) * P = w * (Q * P - s * P)
      BY <1>3, <2>1
    <3>2. Q * P - s * P <= z
      BY <1>1, <1>3
    <3>3. w * (Q * P - s * P) <= w * z
      BY <2>1, <3>2, <1>3, <1>5
    <3>. QED BY <3>1, <3>3
  <2>5. (w * z) * Q <= (h * P - P) * z
    <3>1. (w * z) * Q = (w * Q) * z
      BY <1>5, <2>1
    <3>2. (w * Q) * z <= (h * P - P) * z
      BY <1>1, <1>5, <2>1, <2>3
    <3>. QED BY <3>1, <3>2
  <2>6. (h * P - P) * z <= ((h * (P - f)) * Q) * P
    <3>1. (h * P - P) * z = P * (h * z - z)
      BY <1>5
    <3>2. h * z = (h * (P - f)) * Q + h * P
      OBVIOUS
    <3>3. h * z - z <= (h * (P - f)) * Q
      BY <1>1, <1>5, <1>7, <3>2
    <3>4. P * (h * z - z) <= P * ((h * (P - f)) * Q)
      BY <1>5, <1>7, <3>3
    <3>5. P * ((h * (P - f)) * Q) = ((h * (P - f)) * Q) * P
      BY <1>7
    <3>. QED BY <3>1, <3>4, <3>5
  <2> DEFINE x == w * (Q - s)
             y == h * (P - f)
  <2>7. x \in Nat /\ y \in Nat
    BY <1>6, <1>7, <2>1, ProductIsNat
  <2>8. (x * P) * Q <= (w * z) * Q
    BY <1>5, <2>1, <2>4, <2>7, TimesMono, ProductIsNat
  <2> HIDE DEF x
  <2>9. (x * P) * Q <= (y * Q) * P
    <3>1. (w * z) * Q \in Nat /\ (h * P - P) * z \in Int /\ (x * P) * Q \in Nat
      BY <1>1, <1>5, <2>1, <2>7, ProductIsNat
    <3>. QED BY <2>5, <2>6, <2>8, <3>1, <1>7
  <2> HIDE DEF y, z
  <2>10. x * (P * Q) <= y * (P * Q)
    BY <2>7, <2>9
  <2>11. x <= y
    BY <2>7, <2>10, Cancel
  <2>12. w <= r
    BY <1>6, <2>1, <2>7, <2>11, DivAtLeast DEF x, y
  <2> HIDE DEF r
  <2>13. v <= r + k
    BY <1>2, <1>4, <1>8, <2>12 DEF w
  <2>. QED BY <2>13 DEF v, s, k, r
<1>. QED BY <1>2, <1>4, <1>9, <1>10

-----------------------------------------------------------------------------
(* The inductive invariant of the vault: the types, the backing of what the  *)
(* authorities are owed, and that only a set strategy holds anything.        *)
OnlyStrategyHolds == invested > 0 => strategy

VaultInv ==
  /\ VaultTypeOK
  /\ EscrowBacked
  /\ OnlyStrategyHolds

(* The tokens held, the two sides of the price, and what holds of them.      *)
Held == idle + invested
Tokens == TotalAssets + 1
AllShares == Supply + Offset

BooksHold ==
  /\ Supply \in Nat /\ AllShares \in Nat \ {0} /\ Supply < AllShares
  /\ TotalAssets \in Nat /\ Tokens \in Nat \ {0}
  /\ Held \in Nat /\ escrowed \in Nat /\ escrowed <= Held
  /\ TotalAssets = Held - escrowed
  /\ \A a \in Accounts : shares[a] <= Supply
  /\ \A a, b \in Accounts : a # b => shares[a] + shares[b] <= Supply
  /\ \A a \in Accounts :
       Value(a) = (shares[a] * Tokens) \div AllShares /\ Value(a) \in Nat /\ Value(a) <= TotalAssets
  /\ \A a \in Authorities : pendingRevenue[a] <= escrowed

LEMMA AccountsFinite == IsFiniteSet(Accounts)
BY VaultAssumption, FS_Union DEF Accounts

LEMMA Books == VaultInv => BooksHold
<1> SUFFICES ASSUME VaultInv PROVE BooksHold
  OBVIOUS
<1>1. /\ shares \in [Accounts -> Nat] /\ pendingRevenue \in [Authorities -> Nat]
      /\ idle \in Nat /\ invested \in Nat /\ escrowed \in Nat
      /\ escrowed <= idle + invested
      /\ escrowed = SumFunctionOnSet(pendingRevenue, Authorities)
  BY DEF VaultInv, VaultTypeOK, EscrowBacked, SumFunction
<1>2. Supply = SumFunctionOnSet(shares, Accounts)
  BY <1>1 DEF Supply, SumFunction
<1>3. \A a \in Accounts : shares[a] \in Nat
  BY <1>1
<1>4. Supply \in Nat
  BY <1>2, <1>3, AccountsFinite, SumNatural
<1>5. Offset \in Nat \ {0}
  BY VaultAssumption
<1>6. AllShares \in Nat \ {0} /\ Supply < AllShares
  BY <1>4, <1>5 DEF AllShares
<1>7. /\ TotalAssets \in Nat /\ TotalAssets = Held - escrowed
      /\ Held \in Nat /\ escrowed \in Nat /\ escrowed <= Held
  BY <1>1 DEF TotalAssets, Held
<1>8. Tokens \in Nat \ {0}
  BY <1>7 DEF Tokens
<1>9. ASSUME NEW a \in Accounts PROVE shares[a] <= Supply
  BY <1>2, <1>3, AccountsFinite, SumAbove
<1>10. ASSUME NEW a \in Accounts, NEW b \in Accounts, a # b
       PROVE  shares[a] + shares[b] <= Supply
  <2> DEFINE R == Accounts \ {a}
  <2>1. IsFiniteSet(R) /\ b \in R /\ \A x \in R : shares[x] \in Nat
    BY <1>3, <1>10, AccountsFinite, FS_Subset
  <2>2. Supply = shares[a] + SumFunctionOnSet(shares, R)
    BY <1>2, <1>3, AccountsFinite, SumOneMore
  <2> HIDE DEF R
  <2>3. shares[b] <= SumFunctionOnSet(shares, R) /\ SumFunctionOnSet(shares, R) \in Nat
    BY <2>1, SumAbove, SumNatural
  <2>4. shares[a] \in Nat /\ shares[b] \in Nat
    BY <1>3
  <2>. QED BY <2>2, <2>3, <2>4
<1>11. ASSUME NEW a \in Accounts
       PROVE  /\ Value(a) = (shares[a] * Tokens) \div AllShares
              /\ Value(a) \in Nat /\ Value(a) <= TotalAssets
  <2>1. Value(a) = (shares[a] * Tokens) \div AllShares
    BY DEF Value, ToAssets, Tokens, AllShares
  <2>2. shares[a] \in Nat /\ shares[a] < AllShares
    BY <1>3, <1>4, <1>6, <1>9
  <2>3. shares[a] * Tokens \in Nat
    BY <1>8, <2>2, ProductIsNat
  <2>4. Value(a) \in Nat
    BY <1>6, <2>1, <2>3, DivBounds
  <2>5. Value(a) < Tokens
    BY <1>6, <1>8, <2>1, <2>2, WorthLess
  <2>. QED BY <1>7, <2>1, <2>4, <2>5 DEF Tokens
<1>12. ASSUME NEW a \in Authorities PROVE pendingRevenue[a] <= escrowed
  BY <1>1, VaultAssumption, SumAbove
<1>. QED BY <1>4, <1>6, <1>7, <1>8, <1>9, <1>10, <1>11, <1>12 DEF BooksHold

LEMMA InitVaultInv == VaultInit => VaultInv
<1> SUFFICES ASSUME VaultInit PROVE VaultInv
  OBVIOUS
<1>1. VaultTypeOK
  <2>1. HarvestInterval \in 0 .. HarvestInterval /\ 0 \in 0 .. ChangeDelay
    BY VaultAssumption
  <2>. QED BY <2>1 DEF VaultInit, VaultTypeOK
<1>2. SumFunctionOnSet(pendingRevenue, Authorities) = 0
  <2>1. \A a \in Authorities : pendingRevenue[a] = 0
    BY DEF VaultInit
  <2>. QED BY <2>1, VaultAssumption, SumZero
<1>3. DOMAIN pendingRevenue = Authorities
  BY DEF VaultInit
<1>4. EscrowBacked
  BY <1>2, <1>3 DEF EscrowBacked, VaultInit, SumFunction
<1>. QED BY <1>1, <1>4 DEF VaultInv, VaultInit, OnlyStrategyHolds

-----------------------------------------------------------------------------
(* What a change of one account's shares, and a payment, do to the books.    *)

LEMMA BooksAfter == VaultInv' => BooksHold'
BY Books, PTL

LEMMA SharesChange ==
  ASSUME VaultInv, NEW a \in Accounts, NEW n \in Nat,
         shares' = [shares EXCEPT ![a] = n]
  PROVE  /\ shares' \in [Accounts -> Nat]
         /\ shares'[a] = n /\ \A b \in Accounts : b # a => shares'[b] = shares[b]
         /\ Supply' = (Supply + n) - shares[a]
<1>1. shares \in [Accounts -> Nat]
  BY DEF VaultInv, VaultTypeOK
<1>2. /\ shares' \in [Accounts -> Nat]
      /\ shares'[a] = n /\ \A b \in Accounts : b # a => shares'[b] = shares[b]
  BY <1>1
<1>3. \A b \in Accounts : shares[b] \in Int /\ shares'[b] \in Int
  BY <1>1, <1>2
<1>4. SumFunctionOnSet(shares', Accounts)
        = SumFunctionOnSet(shares, Accounts) + shares'[a] - shares[a]
  BY ONLY <1>2, <1>3, AccountsFinite, a \in Accounts, SumUpdate
<1>5. /\ Supply = SumFunctionOnSet(shares, Accounts)
      /\ Supply' = SumFunctionOnSet(shares', Accounts)
  BY <1>1, <1>2 DEF Supply, SumFunction
<1>6. Supply \in Nat /\ shares[a] \in Nat
  BY <1>1, Books DEF BooksHold
<1>. QED BY <1>2, <1>4, <1>5, <1>6

LEMMA PayKeeps ==
  ASSUME VaultInv, NEW need \in Nat, NEW out \in Nat, out <= need, Pay(need, out)
  PROVE  /\ idle' \in Nat /\ invested' \in Nat /\ approval' \in Nat
         /\ Held' = Held - out
         /\ strategy' = strategy => OnlyStrategyHolds'
<1>1. idle \in Nat /\ invested \in Nat /\ approval \in Nat /\ OnlyStrategyHolds
  BY DEF VaultInv, VaultTypeOK
<1>2. /\ Shortfall(need) \in Nat /\ need <= idle + Shortfall(need)
      /\ Shortfall(need) <= invested /\ (PoolPulls => Shortfall(need) <= approval)
  BY <1>1 DEF Shortfall, Pay, Payable, CanUnwind
<1>3. /\ idle' = (idle + Shortfall(need)) - out /\ invested' = invested - Shortfall(need)
      /\ approval' = IF PoolPulls THEN approval - Shortfall(need) ELSE approval
  BY DEF Pay, ApprovalLeft
<1>4. /\ idle' \in Nat /\ invested' \in Nat /\ approval' \in Nat
      /\ idle' + invested' = (idle + invested) - out
      /\ invested' <= invested
  BY <1>1, <1>2, <1>3
<1>5. invested' > 0 => invested > 0
  BY <1>1, <1>4
<1>6. ASSUME strategy' = strategy PROVE OnlyStrategyHolds'
  BY <1>1, <1>5, <1>6, Zenon DEF OnlyStrategyHolds
<1>. QED BY <1>4, <1>6 DEF Held

(* What stays as it is when nothing is moved. *)
LEMMA NothingMoved ==
  ASSUME VaultInv, UNCHANGED <<shares, idle, invested, revenue>>
  PROVE  EscrowBacked' /\ TotalAssets' = TotalAssets /\ Supply' = Supply
BY DEF VaultInv, EscrowBacked, TotalAssets, Supply, revenue

(* The price does not fall: nobody else's shares lose any value. *)
PriceKept == Tokens * AllShares' <= Tokens' * AllShares

LEMMA ValuesKept ==
  ASSUME VaultInv, VaultInv', PriceKept, NEW a \in Accounts, shares'[a] = shares[a]
  PROVE  Value(a)' >= Value(a)
<1>1. BooksHold /\ BooksHold'
  BY Books, BooksAfter
<1>2. shares[a] \in Nat
  BY DEF VaultInv, VaultTypeOK
<1>3. /\ Value(a) = (shares[a] * Tokens) \div AllShares
      /\ Value(a)' = (shares[a] * Tokens') \div AllShares'
  BY <1>1 DEF BooksHold
<1>4. /\ Tokens \in Nat \ {0} /\ Tokens' \in Nat \ {0}
      /\ AllShares \in Nat \ {0} /\ AllShares' \in Nat \ {0}
  BY <1>1 DEF BooksHold
<1> DEFINE h == shares[a]
           P == Tokens
           Pn == Tokens'
           Q == AllShares
           Qn == AllShares'
<1>5. P * Qn <= Pn * Q
  BY DEF PriceKept
<1>6. /\ h \in Nat /\ P \in Nat \ {0} /\ Pn \in Nat \ {0} /\ Q \in Nat \ {0} /\ Qn \in Nat \ {0}
      /\ Value(a) = (h * P) \div Q /\ Value(a)' = (h * Pn) \div Qn
  BY <1>2, <1>3, <1>4
<1> HIDE DEF h, P, Pn, Q, Qn
<1>7. (h * P) * Qn <= (h * Pn) * Q
  <2>1. P * Qn \in Nat /\ Pn * Q \in Nat
    BY <1>6, ProductIsNat
  <2>2. (P * Qn) * h <= (Pn * Q) * h
    BY <1>5, <1>6, <2>1, TimesMono
  <2>3. (h * P) * Qn = (P * Qn) * h /\ (h * Pn) * Q = (Pn * Q) * h
    BY <1>6
  <2>. QED BY <2>2, <2>3
<1>8. h * P \in Nat /\ h * Pn \in Nat
  BY <1>6, ProductIsNat
<1>9. (h * P) \div Q <= (h * Pn) \div Qn
  BY <1>6, <1>7, <1>8, DivMonotone
<1>10. (h * P) \div Q \in Nat /\ (h * Pn) \div Qn \in Nat
  BY <1>6, <1>8, DivBounds
<1>. QED BY <1>6, <1>9, <1>10

-----------------------------------------------------------------------------
(* Deposits, mints, withdrawals, redemptions and transfers.                  *)

LEMMA EnterKeeps ==
  ASSUME VaultInv, NEW r \in Accounts, NEW a \in Nat, NEW s \in Nat,
         s * Tokens <= a * AllShares, Enter(r, a, s)
  PROVE  VaultInv' /\ PriceKept
<1>1. VaultTypeOK /\ EscrowBacked /\ OnlyStrategyHolds
  BY DEF VaultInv
<1>2. /\ shares' = [shares EXCEPT ![r] = @ + s]
      /\ principal' = [principal EXCEPT ![r] = @ + a]
      /\ idle' = idle + a
      /\ UNCHANGED <<invested, approval, pendingRevenue, escrowed, paused, exempt, strategy,
                     authority, proposal, sinceHarvest>>
  BY DEF Enter, revenue, switches, governance
<1>3. BooksHold
  BY Books
<1>4. shares[r] \in Nat /\ principal \in [Accounts -> Nat] /\ idle \in Nat
  BY <1>1 DEF VaultTypeOK
<1>5. shares[r] + s \in Nat
  BY <1>4
<1>6. shares' \in [Accounts -> Nat] /\ Supply' = (Supply + (shares[r] + s)) - shares[r]
  BY <1>2, <1>5, SharesChange
<1>7. Supply' = Supply + s
  BY <1>3, <1>4, <1>6 DEF BooksHold
<1>8. principal' \in [Accounts -> Nat] /\ idle' \in Nat
  BY <1>2, <1>4
<1>9. VaultTypeOK'
  BY <1>1, <1>2, <1>6, <1>8 DEF VaultTypeOK
<1>10. Held \in Nat /\ escrowed \in Nat /\ escrowed <= Held
  BY <1>3 DEF BooksHold
<1>11. Held' = Held + a
  <2>1. idle \in Nat /\ invested \in Nat /\ invested' = invested
    BY <1>1, <1>2 DEF VaultTypeOK
  <2>. QED BY <1>2, <2>1 DEF Held
<1>12. EscrowBacked'
  <2>1. escrowed' <= Held'
    BY <1>2, <1>10, <1>11
  <2>. QED BY <1>1, <1>2, <2>1 DEF EscrowBacked, Held
<1>13. OnlyStrategyHolds'
  BY <1>1, <1>2 DEF OnlyStrategyHolds
<1>14. VaultInv'
  BY <1>9, <1>12, <1>13 DEF VaultInv
<1>15. BooksHold'
  BY <1>14, BooksAfter
<1>16. Tokens' = Tokens + a /\ AllShares' = AllShares + s
  <2>1. TotalAssets = Held - escrowed /\ TotalAssets' = Held' - escrowed'
    BY <1>3, <1>15 DEF BooksHold
  <2>2. Supply \in Nat /\ Offset \in Nat
    BY <1>3, VaultAssumption DEF BooksHold
  <2>3. TotalAssets' = TotalAssets + a
    BY <1>2, <1>10, <1>11, <2>1
  <2>4. TotalAssets \in Nat
    BY <1>3 DEF BooksHold
  <2>. QED BY <1>7, <2>2, <2>3, <2>4 DEF Tokens, AllShares
<1>17. Tokens \in Nat /\ AllShares \in Nat
  BY <1>3 DEF BooksHold
<1>18. PriceKept
  BY <1>16, <1>17, EnterPrice DEF PriceKept
<1>. QED BY <1>14, <1>18

LEMMA LeaveKeeps ==
  ASSUME VaultInv, NEW u \in Accounts, NEW a \in Nat, NEW s \in Nat, s <= shares[u],
         a <= Value(u), a * AllShares <= s * Tokens, Leave(u, a, s)
  PROVE  VaultInv' /\ PriceKept
<1>1. VaultTypeOK /\ EscrowBacked /\ OnlyStrategyHolds
  BY DEF VaultInv
<1> DEFINE reduction == IF Value(u) > 0
                        THEN Least((principal[u] * a) \div Value(u), principal[u])
                        ELSE 0
<1>2. /\ shares' = [shares EXCEPT ![u] = @ - s]
      /\ principal' = [principal EXCEPT ![u] = @ - reduction]
      /\ Pay(a, a)
      /\ UNCHANGED <<pendingRevenue, escrowed, paused, exempt, strategy,
                     authority, proposal, sinceHarvest>>
  BY DEF Leave, revenue, switches, governance
<1>3. BooksHold
  BY Books
<1>4. shares[u] \in Nat /\ principal \in [Accounts -> Nat] /\ Value(u) \in Nat
  BY <1>1, <1>3 DEF VaultTypeOK, BooksHold
<1>5. reduction \in Nat /\ reduction <= principal[u]
  <2>1. principal[u] \in Nat /\ principal[u] * a \in Nat
    BY <1>4, ProductIsNat
  <2>2. Value(u) > 0 => (principal[u] * a) \div Value(u) \in Nat
    BY <1>4, <2>1, DivBounds
  <2>. QED BY <2>1, <2>2 DEF Least
<1> HIDE DEF reduction
<1>6. shares[u] - s \in Nat
  BY <1>4
<1>7. shares' \in [Accounts -> Nat] /\ Supply' = (Supply + (shares[u] - s)) - shares[u]
  BY <1>2, <1>6, SharesChange
<1>8. Supply' = Supply - s
  BY <1>3, <1>4, <1>7 DEF BooksHold
<1>9. principal' \in [Accounts -> Nat]
  BY <1>2, <1>4, <1>5
<1>10. /\ idle' \in Nat /\ invested' \in Nat /\ approval' \in Nat
       /\ Held' = Held - a /\ OnlyStrategyHolds'
  BY <1>2, PayKeeps
<1>11. VaultTypeOK'
  BY <1>1, <1>2, <1>7, <1>9, <1>10 DEF VaultTypeOK
<1>12. Held \in Nat /\ escrowed \in Nat /\ Supply \in Nat /\ Offset \in Nat
  BY <1>3, VaultAssumption DEF BooksHold
<1>13. TotalAssets = Held - escrowed /\ Value(u) <= TotalAssets
  BY <1>3 DEF BooksHold
<1>14. EscrowBacked'
  <2>1. escrowed' = escrowed
    BY <1>2
  <2>2. escrowed' <= Held'
    BY <1>4, <1>10, <1>12, <1>13, <2>1
  <2>. QED BY <1>1, <1>2, <2>2 DEF EscrowBacked, Held
<1>15. VaultInv'
  BY <1>10, <1>11, <1>14 DEF VaultInv
<1>16. BooksHold'
  BY <1>15, BooksAfter
<1>17. Tokens' = Tokens - a /\ AllShares' = AllShares - s
  <2>1. TotalAssets' = Held' - escrowed' /\ escrowed' = escrowed
    BY <1>2, <1>16 DEF BooksHold
  <2>2. TotalAssets' = TotalAssets - a
    BY <1>10, <1>12, <1>13, <2>1
  <2>3. TotalAssets \in Nat
    BY <1>3 DEF BooksHold
  <2>. QED BY <1>8, <1>12, <2>2, <2>3 DEF Tokens, AllShares
<1>18. Tokens \in Nat /\ AllShares \in Nat
  BY <1>3 DEF BooksHold
<1>19. PriceKept
  BY <1>17, <1>18, LeavePrice DEF PriceKept
<1>. QED BY <1>15, <1>19

LEMMA DepositKeeps ==
  ASSUME VaultInv, NEW r \in Accounts, Deposit(r) \/ Mint(r)
  PROVE  VaultInv' /\ PriceKept
<1>1. BooksHold
  BY Books
<1>2. Tokens \in Nat \ {0} /\ AllShares \in Nat \ {0} /\ Offset \in Nat
  BY <1>1, VaultAssumption DEF BooksHold
<1>3. CASE Deposit(r)
  <2>1. PICK a \in Amounts : Enter(r, a, ToShares(a))
    BY <1>3 DEF Deposit
  <2>2. a \in Nat
    BY VaultAssumption
  <2>3. a * AllShares \in Nat
    BY <1>2, <2>2, ProductIsNat
  <2>4. ToShares(a) = (a * AllShares) \div Tokens
    BY DEF ToShares, AllShares, Tokens
  <2>5. ToShares(a) \in Nat /\ ToShares(a) * Tokens <= a * AllShares
    BY <1>2, <2>3, <2>4, DivBounds
  <2>. QED BY <2>1, <2>2, <2>5, EnterKeeps
<1>4. CASE Mint(r)
  <2>1. PICK k \in Amounts : Enter(r, ToAssetsUp(k * Offset), k * Offset)
    BY <1>4 DEF Mint
  <2> DEFINE s == k * Offset
  <2>2. s \in Nat
    BY <1>2, VaultAssumption, ProductIsNat
  <2> HIDE DEF s
  <2>3. s * Tokens \in Nat
    BY <1>2, <2>2, ProductIsNat
  <2>4. ToAssetsUp(s) = Up(s * Tokens, AllShares)
    BY DEF ToAssetsUp, AllShares, Tokens
  <2>5. ToAssetsUp(s) \in Nat /\ s * Tokens <= ToAssetsUp(s) * AllShares
    BY <1>2, <2>3, <2>4, UpBounds
  <2>6. Enter(r, ToAssetsUp(s), s)
    BY <2>1 DEF s
  <2>. QED BY <2>2, <2>5, <2>6, EnterKeeps
<1>. QED BY <1>3, <1>4

LEMMA WithdrawKeeps ==
  ASSUME VaultInv, NEW u \in Accounts, Withdraw(u) \/ Redeem(u)
  PROVE  VaultInv' /\ PriceKept
<1>1. BooksHold
  BY Books
<1>2. Tokens \in Nat \ {0} /\ AllShares \in Nat \ {0}
  BY <1>1 DEF BooksHold
<1>3. /\ shares[u] \in Nat
      /\ Value(u) = (shares[u] * Tokens) \div AllShares
      /\ Value(u) \in Nat
  BY <1>1 DEF BooksHold, VaultInv, VaultTypeOK
<1>4. CASE Withdraw(u)
  <2>1. PICK a \in Amounts : a <= Value(u) /\ Leave(u, a, ToSharesUp(a))
    BY <1>4 DEF Withdraw
  <2>2. a \in Nat
    BY VaultAssumption
  <2>3. a * AllShares \in Nat
    BY <1>2, <2>2, ProductIsNat
  <2>4. ToSharesUp(a) = Up(a * AllShares, Tokens)
    BY DEF ToSharesUp, AllShares, Tokens
  <2>5. ToSharesUp(a) \in Nat /\ a * AllShares <= ToSharesUp(a) * Tokens
    BY <1>2, <2>3, <2>4, UpBounds
  <2>6. ToSharesUp(a) <= shares[u]
    BY <1>2, <1>3, <2>1, <2>2, <2>4, BurnsHeld
  <2>. QED BY <1>1, <2>1, <2>2, <2>5, <2>6, LeaveKeeps
<1>5. CASE Redeem(u)
  <2>1. PICK p \in Parts : Leave(u, ToAssets(shares[u] \div p), shares[u] \div p)
    BY <1>5 DEF Redeem
  <2> DEFINE s == shares[u] \div p
             a == ToAssets(s)
  <2>2. p \in Nat \ {0}
    BY VaultAssumption
  <2>3. s \in Nat
    BY <1>3, <2>2, DivBounds
  <2>4. s <= shares[u]
    BY <1>3, <2>2, DivAtMost
  <2>5. Leave(u, a, s)
    BY <2>1
  <2> HIDE DEF s
  <2>6. s * Tokens \in Nat /\ shares[u] * Tokens \in Nat
    BY <1>2, <1>3, <2>3, ProductIsNat
  <2>7. a = (s * Tokens) \div AllShares
    BY DEF ToAssets, AllShares, Tokens
  <2>8. a \in Nat /\ a * AllShares <= s * Tokens
    BY <1>2, <2>6, <2>7, DivBounds
  <2>9. a <= Value(u)
    <3>1. s * Tokens <= shares[u] * Tokens
      BY <1>2, <1>3, <2>3, <2>4, TimesMono
    <3>2. (s * Tokens) * AllShares <= (shares[u] * Tokens) * AllShares
      BY <1>2, <2>6, <3>1, TimesMono
    <3>. QED BY <1>2, <1>3, <2>6, <2>7, <3>2, DivMonotone
  <2> HIDE DEF a
  <2>. QED BY <1>1, <2>3, <2>4, <2>5, <2>8, <2>9, LeaveKeeps
<1>. QED BY <1>4, <1>5

LEMMA TransferKeeps ==
  ASSUME VaultInv, NEW from \in Accounts, NEW to \in Accounts, TransferShares(from, to)
  PROVE  VaultInv' /\ PriceKept
<1>1. VaultTypeOK /\ EscrowBacked /\ OnlyStrategyHolds /\ BooksHold
  BY Books DEF VaultInv
<1>2. PICK p \in Parts :
        LET s == shares[from] \div p
            paid == IF from \notin exempt
                    THEN Least((principal[from] * s) \div shares[from], principal[from])
                    ELSE 0
            credited == IF from \in exempt /\ to \notin exempt THEN ToAssets(s) ELSE 0
        IN /\ s > 0 /\ from # to
           /\ principal' = [principal EXCEPT ![from] = @ - paid, ![to] = @ + credited]
           /\ shares' = [shares EXCEPT ![from] = @ - s, ![to] = @ + s]
           /\ UNCHANGED <<assets, revenue, switches, governance, totals, sinceHarvest>>
  BY DEF TransferShares
<1> DEFINE s == shares[from] \div p
           paid == IF from \notin exempt
                   THEN Least((principal[from] * s) \div shares[from], principal[from])
                   ELSE 0
           credited == IF from \in exempt /\ to \notin exempt THEN ToAssets(s) ELSE 0
<1>3. /\ s > 0 /\ from # to
      /\ principal' = [principal EXCEPT ![from] = @ - paid, ![to] = @ + credited]
      /\ shares' = [shares EXCEPT ![from] = @ - s, ![to] = @ + s]
      /\ UNCHANGED <<idle, invested, approval, revenue, switches, governance, sinceHarvest>>
  BY <1>2 DEF assets
<1>4. /\ shares \in [Accounts -> Nat] /\ principal \in [Accounts -> Nat]
      /\ p \in Nat \ {0}
  BY <1>1, VaultAssumption DEF VaultTypeOK
<1>5. s \in Nat
  BY <1>4, DivBounds
<1>6. s <= shares[from]
  BY <1>4, DivAtMost
<1> HIDE DEF s
<1>7. paid \in Nat /\ paid <= principal[from]
  <2>1. principal[from] \in Nat /\ principal[from] * s \in Nat /\ shares[from] \in Nat \ {0}
    BY <1>3, <1>4, <1>5, <1>6, ProductIsNat
  <2>2. (principal[from] * s) \div shares[from] \in Nat
    BY <2>1, DivBounds
  <2>. QED BY <2>1, <2>2 DEF Least
<1>8. credited \in Nat
  <2>1. Tokens \in Nat /\ AllShares \in Nat \ {0}
    BY <1>1 DEF BooksHold
  <2>2. s * Tokens \in Nat
    BY <1>5, <2>1, ProductIsNat
  <2>3. ToAssets(s) \in Nat
    BY <2>1, <2>2, DivBounds DEF ToAssets, Tokens, AllShares
  <2>. QED BY <2>3
<1> HIDE DEF paid, credited
<1>9. principal' \in [Accounts -> Nat]
  <2>1. principal[from] - paid \in Nat /\ principal[to] + credited \in Nat
    BY <1>4, <1>7, <1>8
  <2>. QED BY <1>3, <1>4, <2>1
<1>10. /\ shares' \in [Accounts -> Nat]
       /\ shares'[from] = shares[from] - s /\ shares'[to] = shares[to] + s
       /\ \A a \in Accounts \ {from, to} : shares'[a] = shares[a]
  <2>1. shares[from] - s \in Nat /\ shares[to] + s \in Nat
    BY <1>4, <1>5, <1>6
  <2>. QED BY <1>3, <1>4, <2>1
<1>11. Supply' = Supply
  <2> DEFINE mid == [shares EXCEPT ![from] = @ - s]
  <2>1. /\ \A a \in Accounts : shares[a] \in Int /\ mid[a] \in Int /\ shares'[a] \in Int
        /\ mid[from] = shares[from] - s
        /\ \A a \in Accounts : a # from => mid[a] = shares[a]
        /\ \A a \in Accounts : a # to => shares'[a] = mid[a]
        /\ mid[to] = shares[to]
    BY <1>3, <1>4, <1>5, <1>10
  <2> HIDE DEF mid
  <2>2. SumFunctionOnSet(mid, Accounts)
          = SumFunctionOnSet(shares, Accounts) + mid[from] - shares[from]
    BY ONLY <2>1, AccountsFinite, from \in Accounts, SumUpdate
  <2>3. SumFunctionOnSet(shares', Accounts)
          = SumFunctionOnSet(mid, Accounts) + shares'[to] - mid[to]
    BY ONLY <2>1, AccountsFinite, to \in Accounts, SumUpdate
  <2>4. /\ Supply = SumFunctionOnSet(shares, Accounts)
        /\ Supply' = SumFunctionOnSet(shares', Accounts)
    BY <1>4, <1>10 DEF Supply, SumFunction
  <2>5. /\ SumFunctionOnSet(shares, Accounts) \in Int
        /\ shares[from] \in Int /\ shares[to] \in Int /\ s \in Int
    BY <1>4, <1>5, <2>1, AccountsFinite, SumType
  <2>6. SumFunctionOnSet(mid, Accounts) = SumFunctionOnSet(shares, Accounts) - s
    BY ONLY <2>1, <2>2, <2>5
  <2>7. SumFunctionOnSet(shares', Accounts) = SumFunctionOnSet(shares, Accounts)
    BY ONLY <1>10, <2>1, <2>3, <2>5, <2>6
  <2>. QED BY <2>4, <2>7
<1>12. VaultTypeOK' /\ EscrowBacked' /\ OnlyStrategyHolds'
  <2>1. VaultTypeOK'
    BY <1>1, <1>3, <1>9, <1>10 DEF VaultTypeOK, revenue, switches, governance
  <2>2. EscrowBacked' /\ OnlyStrategyHolds'
    BY <1>1, <1>3 DEF EscrowBacked, OnlyStrategyHolds, revenue, switches
  <2>. QED BY <2>1, <2>2
<1>13. Tokens' = Tokens /\ AllShares' = AllShares
  BY <1>3, <1>11 DEF Tokens, TotalAssets, AllShares, revenue
<1>14. PriceKept
  <2>1. Tokens \in Nat /\ AllShares \in Nat
    BY <1>1 DEF BooksHold
  <2>2. Tokens * AllShares \in Nat
    BY <2>1, ProductIsNat
  <2>. QED BY <1>13, <2>2 DEF PriceKept
<1>. QED BY <1>12, <1>14 DEF VaultInv

-----------------------------------------------------------------------------
(* Harvests: the split of the yield, what is burnt for it, and what it does  *)
(* to the depositor's own shares and to those of the others.                 *)

LEMMA SplitWithin ==
  ASSUME NEW y \in Nat, NEW m \in Nat, NEW n \in Nat, NEW b \in Nat \ {0}, m + n <= b
  PROVE  /\ (y * m) \div b \in Nat /\ (y * n) \div b \in Nat
         /\ (y * m) \div b + (y * n) \div b <= y
<1> DEFINE q == (y * m) \div b
           r == (y * n) \div b
<1>1. y * m \in Nat /\ y * n \in Nat
  BY ProductIsNat
<1>2. q \in Nat /\ q * b <= y * m /\ r \in Nat /\ r * b <= y * n
  BY <1>1, DivBounds
<1> HIDE DEF q, r
<1>3. (q + r) * b <= y * b
  <2>1. (q + r) * b = q * b + r * b /\ y * (m + n) = y * m + y * n
    BY <1>2
  <2>2. q * b \in Nat /\ r * b \in Nat /\ m + n \in Nat /\ y * b \in Nat
    BY <1>2, ProductIsNat
  <2>3. (m + n) * y <= b * y
    BY <2>2, TimesMono
  <2>4. (m + n) * y = y * (m + n) /\ b * y = y * b
    BY <2>2
  <2>. QED BY <1>1, <1>2, <2>1, <2>2, <2>3, <2>4
<1>4. q + r <= y
  BY <1>2, <1>3, Cancel
<1>. QED BY <1>2, <1>4 DEF q, r

(* The fees: what of the yield is not the depositor's, and their escrow.     *)
Fees(u) == Yield(u) - UserAmount(Yield(u))
ToAuthority(u) == AuthorityAmount(u, Yield(u))

LEMMA FeesWithin ==
  ASSUME VaultInv, NEW u \in Accounts
  PROVE  /\ UserAmount(Yield(u)) \in Nat /\ Fees(u) \in Nat /\ ToAuthority(u) \in Nat
         /\ ToAuthority(u) <= Fees(u)
         /\ UserAmount(Yield(u)) + Fees(u) = Yield(u)
         /\ Fees(u) <= Value(u)
         /\ Yield(u) > 0 => principal[u] + UserAmount(Yield(u)) = Value(u) - Fees(u)
<1>1. BooksHold /\ principal[u] \in Nat
  BY Books DEF VaultInv, VaultTypeOK
<1>2. Value(u) \in Nat
  BY <1>1 DEF BooksHold
<1>3. Yield(u) \in Nat /\ Yield(u) <= Value(u)
  BY <1>1, <1>2 DEF Yield
<1>4. Yield(u) > 0 => Yield(u) = Value(u) - principal[u]
  BY DEF Yield
<1> DEFINE y == Yield(u)
           m == (y * UserShare) \div BpsDenominator
           n == (y * AuthorityShare) \div BpsDenominator
<1>5. /\ UserShare \in Nat /\ AuthorityShare \in Nat /\ BpsDenominator \in Nat \ {0}
      /\ UserShare + AuthorityShare <= BpsDenominator
  BY VaultAssumption
<1>6. m \in Nat /\ n \in Nat /\ m + n <= y
  BY <1>3, <1>5, SplitWithin
<1>7. UserAmount(y) = m /\ (ToAuthority(u) = n \/ ToAuthority(u) = 0)
  BY DEF UserAmount, ToAuthority, AuthorityAmount
<1>8. Fees(u) = y - m
  BY <1>7 DEF Fees
<1> HIDE DEF m, n, y
<1>9. y \in Nat /\ y <= Value(u) /\ (y > 0 => y = Value(u) - principal[u])
  BY <1>3, <1>4 DEF y
<1>10. /\ UserAmount(y) \in Nat /\ Fees(u) \in Nat /\ ToAuthority(u) \in Nat
       /\ ToAuthority(u) <= Fees(u)
       /\ UserAmount(y) + Fees(u) = y
       /\ Fees(u) <= Value(u)
       /\ y > 0 => principal[u] + UserAmount(y) = Value(u) - Fees(u)
  BY <1>1, <1>2, <1>6, <1>7, <1>8, <1>9
<1>. QED BY <1>10 DEF y

LEMMA EscrowKeeps ==
  ASSUME VaultInv, NEW u \in Users, NEW n \in Nat, authority[u] = NoAddr => n = 0, Escrow(u, n)
  PROVE  /\ pendingRevenue' \in [Authorities -> Nat]
         /\ escrowed' = escrowed + n /\ escrowed' = SumFunction(pendingRevenue')
<1>1. /\ pendingRevenue \in [Authorities -> Nat] /\ escrowed \in Nat
      /\ authority[u] \in Authorities \cup {NoAddr}
      /\ escrowed = SumFunctionOnSet(pendingRevenue, Authorities)
  BY DEF VaultInv, VaultTypeOK, EscrowBacked, SumFunction
<1>2. /\ escrowed' = escrowed + n
      /\ pendingRevenue' = [a \in Authorities |->
           pendingRevenue[a] + (IF authority[u] = a THEN n ELSE 0)]
  BY DEF Escrow
<1>3. pendingRevenue' \in [Authorities -> Nat]
  BY <1>1, <1>2
<1>4. SumFunction(pendingRevenue') = SumFunctionOnSet(pendingRevenue', Authorities)
  BY <1>3 DEF SumFunction
<1>5. IsFiniteSet(Authorities)
  BY VaultAssumption
<1>6. \A a \in Authorities : pendingRevenue[a] \in Int /\ pendingRevenue'[a] \in Int
  BY <1>1, <1>3
<1>7. CASE authority[u] \in Authorities
  <2> DEFINE x == authority[u]
  <2>1. x \in Authorities /\ pendingRevenue'[x] = pendingRevenue[x] + n
        /\ \A a \in Authorities : a # x => pendingRevenue'[a] = pendingRevenue[a]
    BY <1>1, <1>2, <1>7
  <2> HIDE DEF x
  <2>2. SumFunctionOnSet(pendingRevenue', Authorities)
          = SumFunctionOnSet(pendingRevenue, Authorities) + pendingRevenue'[x] - pendingRevenue[x]
    BY ONLY <1>5, <1>6, <2>1, SumUpdate
  <2>3. pendingRevenue[x] \in Nat
    BY <1>1, <2>1
  <2>. QED BY <1>1, <1>2, <1>3, <1>4, <2>1, <2>2, <2>3
<1>8. CASE authority[u] = NoAddr
  <2>1. \A a \in Authorities : pendingRevenue'[a] = pendingRevenue[a]
    BY <1>1, <1>2, <1>8, VaultAssumption
  <2>2. SumFunctionOnSet(pendingRevenue', Authorities) = SumFunctionOnSet(pendingRevenue, Authorities)
    BY <1>5, <2>1, SumAlike
  <2>3. n = 0
    BY <1>8
  <2>. QED BY <1>1, <1>2, <1>3, <1>4, <2>2, <2>3
<1>. QED BY <1>1, <1>7, <1>8

LEMMA HarvestKeeps ==
  ASSUME VaultInv, NEW u \in Users, HarvestFor(u)
  PROVE  /\ VaultInv'
         /\ Fees(u) <= Value(u) /\ Fees(u) \in Nat
         /\ Tokens' = Tokens - Fees(u)
         /\ AllShares' = AllShares - SharesToBurn(Yield(u))
         /\ SharesToBurn(Yield(u)) = (Fees(u) * AllShares) \div Tokens
         /\ SharesToBurn(Yield(u)) \in Nat /\ SharesToBurn(Yield(u)) <= shares[u]
         /\ shares'[u] = shares[u] - SharesToBurn(Yield(u))
         /\ \A a \in Accounts \ {u} : shares'[a] = shares[a]
         /\ principal'[u] = Value(u) - Fees(u)
         /\ Harvested
<1>1. VaultTypeOK /\ EscrowBacked /\ OnlyStrategyHolds /\ BooksHold /\ u \in Accounts
  BY Books DEF VaultInv, Accounts
<1> DEFINE f == Fees(u)
           s == SharesToBurn(Yield(u))
           k == UserAmount(Yield(u))
           n == ToAuthority(u)
<1>2. /\ CanHarvest(u)
      /\ shares' = [shares EXCEPT ![u] = @ - s]
      /\ principal' = [principal EXCEPT ![u] = @ + k]
      /\ Escrow(u, n) /\ Pay(f, f - n)
      /\ sinceHarvest' = [sinceHarvest EXCEPT ![u] = 0]
      /\ UNCHANGED <<paused, exempt, strategy, authority, proposal>>
  BY DEF HarvestFor, Fees, ToAuthority, switches, governance
<1>3. /\ f \in Nat /\ k \in Nat /\ n \in Nat /\ n <= f /\ f <= Value(u)
      /\ principal[u] + k = Value(u) - f
  BY <1>1, <1>2, FeesWithin DEF CanHarvest
<1>4. authority[u] = NoAddr => n = 0
  BY DEF ToAuthority, AuthorityAmount
<1>5. /\ shares[u] \in Nat /\ principal \in [Accounts -> Nat] /\ Tokens \in Nat \ {0}
      /\ AllShares \in Nat \ {0} /\ Value(u) = (shares[u] * Tokens) \div AllShares
  BY <1>1 DEF VaultTypeOK, BooksHold
<1>6. s = (f * AllShares) \div Tokens
  BY DEF SharesToBurn, ToShares, Fees, AllShares, Tokens
<1> HIDE DEF f, s, k, n
<1>7. f * AllShares \in Nat
  BY <1>3, <1>5, ProductIsNat
<1>8. s \in Nat
  BY <1>5, <1>6, <1>7, DivBounds
<1>9. s <= shares[u]
  BY <1>3, <1>5, <1>6, BurnsHeld
<1>10. shares[u] - s \in Nat
  BY <1>5, <1>8, <1>9
<1>11. /\ shares' \in [Accounts -> Nat] /\ shares'[u] = shares[u] - s
       /\ \A a \in Accounts : a # u => shares'[a] = shares[a]
       /\ Supply' = (Supply + (shares[u] - s)) - shares[u]
  BY <1>1, <1>2, <1>10, SharesChange
<1>12. Supply' = Supply - s
  <2>1. Supply \in Nat
    BY <1>1 DEF BooksHold
  <2>. QED BY <1>5, <1>8, <1>11, <2>1
<1>13. principal' \in [Accounts -> Nat] /\ principal'[u] = Value(u) - f
  BY <1>1, <1>2, <1>3, <1>5
<1>14. /\ pendingRevenue' \in [Authorities -> Nat]
       /\ escrowed' = escrowed + n /\ escrowed' = SumFunction(pendingRevenue')
  BY <1>2, <1>3, <1>4, EscrowKeeps
<1>15. f - n \in Nat /\ f - n <= f
  BY <1>3
<1>16. /\ idle' \in Nat /\ invested' \in Nat /\ approval' \in Nat
       /\ Held' = Held - (f - n)
       /\ OnlyStrategyHolds'
  BY <1>2, <1>3, <1>15, PayKeeps
<1>17. /\ Held \in Nat /\ escrowed \in Nat /\ TotalAssets = Held - escrowed
       /\ TotalAssets \in Nat /\ Value(u) \in Nat /\ Value(u) <= TotalAssets
  BY <1>1 DEF BooksHold
<1>18. escrowed' \in Nat /\ escrowed' <= Held'
  BY <1>3, <1>14, <1>16, <1>17
<1>19. HarvestInterval \in Nat \ {0} /\ 0 \in 0 .. HarvestInterval
  BY VaultAssumption
<1>20. sinceHarvest' \in [Accounts -> 0 .. HarvestInterval]
  BY <1>1, <1>2, <1>19 DEF VaultTypeOK
<1>21. VaultTypeOK'
  BY <1>1, <1>2, <1>11, <1>13, <1>14, <1>16, <1>18, <1>20 DEF VaultTypeOK
<1>22. VaultInv'
  BY <1>14, <1>16, <1>18, <1>21 DEF VaultInv, EscrowBacked, Held
<1>23. Tokens' = Tokens - f
  <2>1. BooksHold'
    BY <1>22, BooksAfter
  <2>2. TotalAssets' = Held' - escrowed'
    BY <2>1 DEF BooksHold
  <2>3. TotalAssets' = TotalAssets - f
    BY <1>3, <1>14, <1>16, <1>17, <2>2
  <2>. QED BY <1>3, <1>17, <2>3 DEF Tokens
<1>24. AllShares' = AllShares - s
  <2>1. Supply \in Nat /\ Offset \in Nat
    BY <1>1, VaultAssumption DEF BooksHold
  <2>. QED BY <1>8, <1>12, <2>1 DEF AllShares
<1>25. Harvested
  <2>1. sinceHarvest[u] = HarvestInterval /\ sinceHarvest'[u] = 0
    BY <1>1, <1>2 DEF CanHarvest, VaultTypeOK
  <2>. QED BY <1>19, <2>1 DEF Harvested
<1>26. /\ VaultInv' /\ f <= Value(u) /\ f \in Nat
       /\ Tokens' = Tokens - f /\ AllShares' = AllShares - s
       /\ s = (f * AllShares) \div Tokens /\ s \in Nat /\ s <= shares[u]
       /\ shares'[u] = shares[u] - s
       /\ \A a \in Accounts \ {u} : shares'[a] = shares[a]
       /\ principal'[u] = Value(u) - f /\ Harvested
  BY <1>3, <1>6, <1>8, <1>9, <1>11, <1>13, <1>22, <1>23, <1>24, <1>25
<1>. QED BY <1>26 DEF f, s

(* What the two action properties say of a step.                             *)
NobodyLoses ==
  \A a \in Accounts : shares'[a] = shares[a] =>
    Value(a)' + (IF Harvested THEN OneShare ELSE 0) >= Value(a)
PrincipalLeft ==
  \A u \in Users : sinceHarvest'[u] < sinceHarvest[u] => Value(u)' >= principal'[u]

LEMMA HarvestDilutesLittle ==
  ASSUME VaultInv, NEW u \in Users, HarvestFor(u)
  PROVE  NobodyLoses
<1> SUFFICES ASSUME NEW a \in Accounts, shares'[a] = shares[a]
             PROVE  Value(a)' + OneShare >= Value(a)
  BY HarvestKeeps DEF NobodyLoses
<1> DEFINE h == shares[a]
           g == shares[u]
           f == Fees(u)
           s == SharesToBurn(Yield(u))
           P == Tokens
           Q == AllShares
           v == Value(u)
<1>1. BooksHold /\ BooksHold' /\ u \in Accounts /\ VaultTypeOK
  BY Books, BooksAfter, HarvestKeeps DEF Accounts, VaultInv
<1>2. /\ h \in Nat /\ g \in Nat /\ f \in Nat /\ s \in Nat /\ v \in Nat
      /\ P \in Nat \ {0} /\ Q \in Nat \ {0}
      /\ s = (f * Q) \div P /\ s <= g /\ f <= v /\ v = (g * P) \div Q
      /\ g <= Supply /\ h <= Supply /\ (a # u => h + g <= Supply)
      /\ Supply \in Nat /\ Supply < Q /\ v < P
  BY <1>1, HarvestKeeps DEF BooksHold, VaultTypeOK, Tokens
<1>3. a = u => s = 0
  <2>1. shares'[u] = g - s
    BY HarvestKeeps
  <2>2. ASSUME a = u PROVE s = 0
    <3>1. g - s = g
      BY <2>1, <2>2
    <3>. QED BY <1>2, <3>1
  <2>. QED BY <2>2
<1>4. /\ Value(a) = (h * P) \div Q
      /\ Value(a)' = (h * (P - f)) \div (Q - s)
      /\ OneShare = Up(P, Q)
  <2>1. Tokens' = P - f /\ AllShares' = Q - s
    BY HarvestKeeps
  <2>2. Value(a)' = (shares'[a] * Tokens') \div AllShares'
    BY <1>1 DEF BooksHold
  <2>3. Value(a) = (h * P) \div Q
    BY <1>1 DEF BooksHold
  <2>. QED BY <2>1, <2>2, <2>3 DEF OneShare, Tokens, AllShares
<1> HIDE DEF h, g, f, s, P, Q, v
<1>5. f < P /\ s < Q
  BY <1>2
<1>6. f * Q <= g * P
  BY <1>2, BurnsHeld
<1>7. P - f \in Nat /\ f * Q \in Nat /\ g * P \in Nat /\ h * P \in Nat
  BY <1>2, <1>5, ProductIsNat
(* the others hold what the depositor's shares leave *)
<1>8. h * P <= Q * (P - f) + P
  <2>1. Q * (P - f) = Q * P - f * Q
    BY <1>2
  <2>2. Q * P \in Nat
    BY <1>2, ProductIsNat
  <2>3. CASE a # u
    <3>1. h + g <= Q /\ h + g \in Nat
      BY <1>2, <2>3
    <3>2. (h + g) * P <= Q * P
      BY <1>2, <3>1, TimesMono
    <3>3. (h + g) * P = h * P + g * P
      BY <1>2
    <3>. QED BY <1>2, <1>6, <1>7, <2>1, <2>2, <3>2, <3>3
  <2>4. CASE a = u
    <3>1. f * Q < P
      <4>1. f * Q < s * P + P
        BY <1>2, <1>7, DivBounds
      <4>2. s = 0
        BY <1>3, <2>4
      <4>. QED BY <1>2, <1>7, <4>1, <4>2
    <3>2. h * P <= Q * P
      <4>1. h <= Q
        BY <1>2
      <4>. QED BY <1>2, <4>1, TimesMono
    <3>. QED BY <1>2, <1>7, <2>1, <2>2, <3>1, <3>2
  <2>. QED BY <2>3, <2>4
<1>9. (h * P) \div Q <= (h * (P - f)) \div (Q - s) + Up(P, Q)
  BY <1>2, <1>5, <1>8, HarvestCosts
<1>10. (h * P) \div Q \in Nat /\ (h * (P - f)) \div (Q - s) \in Nat /\ Up(P, Q) \in Nat
  <2>1. h * (P - f) \in Nat /\ Q - s \in Nat \ {0}
    BY <1>2, <1>5, <1>7, ProductIsNat
  <2>. QED BY <1>2, <1>7, <2>1, DivBounds, UpBounds
<1>. QED BY <1>4, <1>9, <1>10

LEMMA HarvestLeavesPrincipal ==
  ASSUME VaultInv, NEW u \in Users, HarvestFor(u)
  PROVE  PrincipalLeft
<1> SUFFICES ASSUME NEW w \in Users, sinceHarvest'[w] < sinceHarvest[w]
             PROVE  Value(w)' >= principal'[w]
  BY DEF PrincipalLeft
<1>1. VaultTypeOK /\ u \in Accounts /\ w \in Accounts
  BY DEF VaultInv, Accounts
<1>2. w = u
  <2>1. sinceHarvest' = [sinceHarvest EXCEPT ![u] = 0]
    BY DEF HarvestFor
  <2>2. SUFFICES ASSUME w # u PROVE FALSE
    OBVIOUS
  <2>3. sinceHarvest'[w] = sinceHarvest[w]
    BY <1>1, <2>1, <2>2 DEF VaultTypeOK
  <2>4. sinceHarvest[w] \in Nat
    BY <1>1 DEF VaultTypeOK
  <2>. QED BY <2>3, <2>4
<1>3. BooksHold /\ BooksHold'
  BY Books, BooksAfter, HarvestKeeps
<1> DEFINE g == shares[u]
           f == Fees(u)
           s == SharesToBurn(Yield(u))
           P == Tokens
           Q == AllShares
           v == Value(u)
<1>4. /\ g \in Nat /\ f \in Nat /\ s \in Nat /\ P \in Nat \ {0} /\ Q \in Nat \ {0}
      /\ s = (f * Q) \div P /\ f <= v /\ v = (g * P) \div Q /\ v \in Nat
      /\ Supply \in Nat /\ g <= Supply /\ Supply < Q
      /\ principal'[u] = v - f
  BY <1>1, <1>3, HarvestKeeps DEF BooksHold, VaultTypeOK
<1>5. Value(u)' = ((g - s) * (P - f)) \div (Q - s)
  <2>1. Tokens' = P - f /\ AllShares' = Q - s /\ shares'[u] = g - s
    BY HarvestKeeps
  <2>2. Value(u)' = (shares'[u] * Tokens') \div AllShares'
    BY <1>1, <1>3 DEF BooksHold
  <2>. QED BY <2>1, <2>2
<1>6. Value(u)' \in Nat
  BY <1>1, <1>3 DEF BooksHold
<1> HIDE DEF g, f, s, P, Q, v
<1>7. g < Q
  BY <1>4
<1>8. v - f <= ((g - s) * (P - f)) \div (Q - s)
  BY <1>4, <1>7, HarvestLeaves
<1>. QED BY <1>2, <1>4, <1>5, <1>6, <1>8

-----------------------------------------------------------------------------
(* A claim pays what is owed out of what is held for it.                     *)
LEMMA ClaimKeeps ==
  ASSUME VaultInv, NEW a \in Authorities, ClaimAuthorityRevenue(a)
  PROVE  VaultInv' /\ PriceKept
<1>1. VaultTypeOK /\ EscrowBacked /\ OnlyStrategyHolds /\ BooksHold
  BY Books DEF VaultInv
<1> DEFINE n == pendingRevenue[a]
<1>2. /\ pendingRevenue' = [pendingRevenue EXCEPT ![a] = 0]
      /\ escrowed' = escrowed - n
      /\ Pay(n, n)
      /\ UNCHANGED <<shares, principal, paused, exempt, strategy, authority, proposal, sinceHarvest>>
  BY DEF ClaimAuthorityRevenue, switches, governance
<1>3. /\ pendingRevenue \in [Authorities -> Nat] /\ n \in Nat /\ n <= escrowed
      /\ Held \in Nat /\ escrowed \in Nat /\ escrowed <= Held
      /\ TotalAssets = Held - escrowed /\ TotalAssets \in Nat
  BY <1>1 DEF VaultTypeOK, BooksHold
<1>4. pendingRevenue' \in [Authorities -> Nat] /\ pendingRevenue'[a] = 0
      /\ \A b \in Authorities : b # a => pendingRevenue'[b] = pendingRevenue[b]
  BY <1>2, <1>3
<1> HIDE DEF n
<1>5. /\ idle' \in Nat /\ invested' \in Nat /\ approval' \in Nat
      /\ Held' = Held - n /\ OnlyStrategyHolds'
  BY <1>2, <1>3, PayKeeps
<1>6. escrowed' \in Nat /\ escrowed' <= Held'
  BY <1>2, <1>3, <1>5
<1>7. escrowed' = SumFunction(pendingRevenue')
  <2>1. \A b \in Authorities : pendingRevenue[b] \in Int /\ pendingRevenue'[b] \in Int
    BY <1>3, <1>4
  <2>2. IsFiniteSet(Authorities)
    BY VaultAssumption
  <2>3. SumFunctionOnSet(pendingRevenue', Authorities)
          = SumFunctionOnSet(pendingRevenue, Authorities) + pendingRevenue'[a] - pendingRevenue[a]
    BY ONLY <1>4, <2>1, <2>2, a \in Authorities, SumUpdate
  <2>4. /\ SumFunction(pendingRevenue') = SumFunctionOnSet(pendingRevenue', Authorities)
        /\ escrowed = SumFunctionOnSet(pendingRevenue, Authorities)
    BY <1>1, <1>3, <1>4 DEF EscrowBacked, SumFunction
  <2>5. pendingRevenue[a] = n /\ pendingRevenue'[a] = 0
    BY <1>4 DEF n
  <2>. QED BY <1>2, <1>3, <2>3, <2>4, <2>5
<1>8. VaultTypeOK'
  BY <1>1, <1>2, <1>4, <1>5, <1>6 DEF VaultTypeOK
<1>9. VaultInv'
  BY <1>5, <1>6, <1>7, <1>8 DEF VaultInv, EscrowBacked, Held
<1>10. Tokens' = Tokens /\ AllShares' = AllShares
  <2>1. BooksHold'
    BY <1>9, BooksAfter
  <2>2. TotalAssets' = Held' - escrowed'
    BY <2>1 DEF BooksHold
  <2>3. TotalAssets' = TotalAssets
    BY <1>2, <1>3, <1>5, <2>2
  <2>. QED BY <1>2, <2>3 DEF Tokens, AllShares, Supply
<1>11. PriceKept
  <2>1. Tokens \in Nat /\ AllShares \in Nat
    BY <1>1 DEF BooksHold
  <2>2. Tokens * AllShares \in Nat
    BY <2>1, ProductIsNat
  <2>. QED BY <1>10, <2>2 DEF PriceKept
<1>. QED BY <1>9, <1>11

-----------------------------------------------------------------------------
(* The calls that move no shares: governance, switches, the strategy, what   *)
(* comes in from outside, and time.                                          *)

LEMMA SamePrice ==
  ASSUME VaultInv, TotalAssets' = TotalAssets, Supply' = Supply
  PROVE  PriceKept
<1>1. Tokens \in Nat /\ AllShares \in Nat
  BY Books DEF BooksHold
<1>2. Tokens' = Tokens /\ AllShares' = AllShares
  BY DEF Tokens, AllShares
<1>3. Tokens * AllShares \in Nat
  BY <1>1, ProductIsNat
<1>. QED BY <1>2, <1>3 DEF PriceKept

LEMMA GovernanceKeeps ==
  ASSUME VaultInv, NEW u \in Users,
         \/ ConfirmAuthority(u) \/ CancelAuthorityChange(u)
         \/ \E a \in Authorities : SetAuthority(u, a)
  PROVE  VaultInv' /\ PriceKept
<1> DEFINE Addr == Authorities \cup {NoAddr}
           Proposed == [to : Addr, age : 0 .. ChangeDelay]
<1>1. VaultTypeOK /\ OnlyStrategyHolds
  BY DEF VaultInv
<1>2. UNCHANGED <<shares, principal, idle, invested, approval, revenue, switches, sinceHarvest>>
  BY DEF ConfirmAuthority, CancelAuthorityChange, SetAuthority, funds, assets
<1>3. EscrowBacked' /\ TotalAssets' = TotalAssets /\ Supply' = Supply
  BY <1>2, NothingMoved
<1>4. authority \in [Users -> Addr] /\ proposal \in [Users -> Proposed]
  BY <1>1 DEF VaultTypeOK
<1>5. \A a \in Addr : [to |-> a, age |-> 0] \in Proposed
  <2>1. 0 \in 0 .. ChangeDelay
    BY VaultAssumption
  <2>. QED BY <2>1
<1>6. proposal[u].to \in Addr
  BY <1>4
<1> HIDE DEF Proposed
<1>7. authority' \in [Users -> Addr] /\ proposal' \in [Users -> Proposed]
  <2>1. CASE ConfirmAuthority(u)
    BY <1>4, <1>5, <1>6, <2>1 DEF ConfirmAuthority, Withdrawn
  <2>2. CASE CancelAuthorityChange(u)
    BY <1>4, <1>5, <2>2 DEF CancelAuthorityChange, Withdrawn
  <2>3. ASSUME NEW a \in Authorities, SetAuthority(u, a)
        PROVE  authority' \in [Users -> Addr] /\ proposal' \in [Users -> Proposed]
    <3>1. CASE authority[u] = NoAddr
      BY <1>4, <2>3, <3>1 DEF SetAuthority
    <3>2. CASE authority[u] # NoAddr
      BY <1>4, <1>5, <2>3, <3>2 DEF SetAuthority
    <3>. QED BY <3>1, <3>2
  <2>. QED BY <2>1, <2>2, <2>3
<1>8. VaultTypeOK'
  BY <1>1, <1>2, <1>7 DEF VaultTypeOK, revenue, switches, Proposed
<1>9. OnlyStrategyHolds'
  BY <1>1, <1>2 DEF OnlyStrategyHolds, switches
<1>. QED BY <1>3, <1>8, <1>9, SamePrice DEF VaultInv

LEMMA SwitchKeeps ==
  ASSUME VaultInv, SetPaused \/ SetStrategy \/ \E c \in Contracts : SetTransferExempt(c)
  PROVE  VaultInv' /\ PriceKept
<1>1. VaultTypeOK /\ OnlyStrategyHolds
  BY DEF VaultInv
<1>2. UNCHANGED <<shares, principal, idle, invested, revenue, governance, sinceHarvest>>
  BY DEF SetPaused, SetStrategy, SetTransferExempt, funds, assets
<1>3. EscrowBacked' /\ TotalAssets' = TotalAssets /\ Supply' = Supply
  BY <1>2, NothingMoved
<1>4. /\ paused' \in BOOLEAN /\ strategy' \in BOOLEAN /\ exempt' \subseteq Contracts
      /\ approval' \in Nat
  <2>1. /\ paused \in BOOLEAN /\ strategy \in BOOLEAN /\ exempt \subseteq Contracts
        /\ approval \in Nat
    BY <1>1 DEF VaultTypeOK
  <2>2. CASE SetPaused
    BY <2>1, <2>2 DEF SetPaused, funds, assets
  <2>3. CASE SetStrategy
    BY <2>1, <2>3 DEF SetStrategy
  <2>4. CASE \E c \in Contracts : SetTransferExempt(c)
    BY <2>1, <2>4 DEF SetTransferExempt, funds, assets
  <2>. QED BY <2>2, <2>3, <2>4
<1>5. strategy => strategy'
  BY Zenon DEF SetPaused, SetStrategy, SetTransferExempt
<1>6. VaultTypeOK'
  BY <1>1, <1>2, <1>4 DEF VaultTypeOK, revenue, governance
<1>7. OnlyStrategyHolds'
  BY <1>1, <1>2, <1>5 DEF OnlyStrategyHolds
<1>. QED BY <1>3, <1>6, <1>7, SamePrice DEF VaultInv

LEMMA StrategyKeeps ==
  ASSUME VaultInv, Invest \/ Divest \/ ApproveStrategyToken
  PROVE  VaultInv' /\ PriceKept
<1>1. VaultTypeOK /\ EscrowBacked /\ OnlyStrategyHolds
  BY DEF VaultInv
<1>2. UNCHANGED <<shares, principal, revenue, switches, governance, sinceHarvest>>
  BY DEF Invest, Divest, ApproveStrategyToken
<1>3. idle \in Nat /\ invested \in Nat /\ approval \in Nat /\ escrowed \in Nat
  BY <1>1 DEF VaultTypeOK
<1>4. /\ idle' \in Nat /\ invested' \in Nat /\ approval' \in Nat
      /\ idle' + invested' = idle + invested /\ strategy
  <2>1. CASE Invest
    <3>1. PICK a \in Amounts : /\ strategy /\ idle >= escrowed /\ a <= idle - escrowed
                               /\ idle' = idle - a /\ invested' = invested + a
                               /\ approval' = approval
      BY <2>1 DEF Invest
    <3>2. a \in Nat
      BY VaultAssumption
    <3>. QED BY <1>3, <3>1, <3>2
  <2>2. CASE Divest
    <3>1. PICK a \in Amounts : /\ strategy /\ a <= invested
                               /\ idle' = idle + a /\ invested' = invested - a
                               /\ (PoolPulls => a <= approval)
                               /\ approval' = IF PoolPulls THEN approval - a ELSE approval
      BY <2>2 DEF Divest, CanUnwind, ApprovalLeft
    <3>2. a \in Nat
      BY VaultAssumption
    <3>. QED BY <1>3, <3>1, <3>2
  <2>3. CASE ApproveStrategyToken
    BY <1>3, <2>3, VaultAssumption DEF ApproveStrategyToken
  <2>. QED BY <2>1, <2>2, <2>3
<1>5. VaultTypeOK'
  BY <1>1, <1>2, <1>4 DEF VaultTypeOK, revenue, switches, governance
<1>6. EscrowBacked'
  BY <1>1, <1>2, <1>4 DEF EscrowBacked, revenue
<1>7. OnlyStrategyHolds'
  BY <1>2, <1>4 DEF OnlyStrategyHolds, switches
<1>8. TotalAssets' = TotalAssets /\ Supply' = Supply
  BY <1>2, <1>4 DEF TotalAssets, Supply, revenue
<1>. QED BY <1>5, <1>6, <1>7, <1>8, SamePrice DEF VaultInv

LEMMA GainKeeps ==
  ASSUME VaultInv, Earn \/ Donate
  PROVE  VaultInv' /\ PriceKept
<1>1. VaultTypeOK /\ EscrowBacked /\ OnlyStrategyHolds /\ BooksHold
  BY Books DEF VaultInv
<1>2. UNCHANGED <<shares, principal, approval, revenue, switches, governance, sinceHarvest>>
  BY DEF Earn, Donate, Gain
<1>3. idle \in Nat /\ invested \in Nat /\ escrowed \in Nat
  BY <1>1 DEF VaultTypeOK
<1>4. PICK a \in Amounts : \/ invested > 0 /\ invested' = invested + a /\ idle' = idle
                           \/ idle' = idle + a /\ invested' = invested
  BY DEF Earn, Donate
<1>5. a \in Nat
  BY VaultAssumption
<1>6. idle' \in Nat /\ invested' \in Nat /\ Held' = Held + a
  BY <1>3, <1>4, <1>5 DEF Held
<1>7. VaultTypeOK'
  BY <1>1, <1>2, <1>6 DEF VaultTypeOK, revenue, switches, governance
<1>8. Held \in Nat /\ escrowed' = escrowed /\ escrowed <= Held
      /\ TotalAssets = Held - escrowed /\ TotalAssets \in Nat
  BY <1>1, <1>2 DEF BooksHold, revenue
<1>9. EscrowBacked'
  <2>1. escrowed' <= Held'
    BY <1>3, <1>5, <1>6, <1>8
  <2>. QED BY <1>1, <1>2, <2>1 DEF EscrowBacked, Held, revenue
<1>10. OnlyStrategyHolds'
  <2>1. invested' > 0 => invested > 0
    BY <1>3, <1>4
  <2>. QED BY <1>1, <1>2, <2>1, Zenon DEF OnlyStrategyHolds, switches
<1>11. VaultInv'
  BY <1>7, <1>9, <1>10 DEF VaultInv
<1>12. Tokens' = Tokens + a /\ AllShares' = AllShares
  <2>1. BooksHold'
    BY <1>11, BooksAfter
  <2>2. TotalAssets' = Held' - escrowed'
    BY <2>1 DEF BooksHold
  <2>3. TotalAssets' = TotalAssets + a
    BY <1>3, <1>5, <1>6, <1>8, <2>2
  <2>. QED BY <1>2, <1>5, <1>8, <2>3 DEF Tokens, AllShares, Supply
<1>13. PriceKept
  <2>1. Tokens \in Nat /\ AllShares \in Nat
    BY <1>1 DEF BooksHold
  <2>2. 0 * Tokens <= a * AllShares
    BY <1>5, <2>1, ProductIsNat
  <2>3. Tokens * (AllShares + 0) <= (Tokens + a) * AllShares
    BY <1>5, <2>1, <2>2, EnterPrice
  <2>. QED BY <1>12, <2>1, <2>3 DEF PriceKept
<1>. QED BY <1>11, <1>13

LEMMA TickKeeps ==
  ASSUME VaultInv, Tick
  PROVE  /\ VaultInv' /\ PriceKept
         /\ \A u \in Users : ~(sinceHarvest'[u] < sinceHarvest[u])
<1>1. VaultTypeOK /\ OnlyStrategyHolds
  BY DEF VaultInv
<1>2. /\ UNCHANGED <<shares, principal, idle, invested, approval, revenue, switches, authority>>
      /\ sinceHarvest' = [a \in Accounts |-> Least(sinceHarvest[a] + 1, HarvestInterval)]
      /\ proposal' = [u \in Users |->
           IF proposal[u].to = NoAddr THEN proposal[u]
           ELSE [proposal[u] EXCEPT !.age = Least(@ + 1, ChangeDelay)]]
  BY DEF Tick, funds, assets
<1>3. EscrowBacked' /\ TotalAssets' = TotalAssets /\ Supply' = Supply
  BY <1>2, NothingMoved
<1>4. HarvestInterval \in Nat /\ ChangeDelay \in Nat
  BY VaultAssumption
<1>5. ASSUME NEW a \in Accounts
      PROVE  /\ Least(sinceHarvest[a] + 1, HarvestInterval) \in 0 .. HarvestInterval
             /\ sinceHarvest[a] <= Least(sinceHarvest[a] + 1, HarvestInterval)
             /\ sinceHarvest[a] \in Nat
  BY <1>1, <1>4 DEF VaultTypeOK, Least
<1>6. sinceHarvest' \in [Accounts -> 0 .. HarvestInterval]
  BY <1>2, <1>5
<1> DEFINE Proposed == [to : Authorities \cup {NoAddr}, age : 0 .. ChangeDelay]
<1>7. ASSUME NEW p \in Proposed
      PROVE  [p EXCEPT !.age = Least(@ + 1, ChangeDelay)] \in Proposed
  <2>1. Least(p.age + 1, ChangeDelay) \in 0 .. ChangeDelay
    BY <1>4 DEF Least
  <2>. QED BY <2>1
<1>8. proposal \in [Users -> Proposed]
  BY <1>1 DEF VaultTypeOK
<1> HIDE DEF Proposed
<1>9. proposal' \in [Users -> Proposed]
  BY <1>2, <1>7, <1>8
<1>10. VaultTypeOK'
  BY <1>1, <1>2, <1>6, <1>9 DEF VaultTypeOK, revenue, switches, Proposed
<1>11. OnlyStrategyHolds'
  BY <1>1, <1>2 DEF OnlyStrategyHolds, switches
<1>12. VaultInv' /\ PriceKept
  BY <1>3, <1>10, <1>11, SamePrice DEF VaultInv
<1>13. ASSUME NEW u \in Users PROVE ~(sinceHarvest'[u] < sinceHarvest[u])
  <2>1. u \in Accounts
    BY DEF Accounts
  <2>2. sinceHarvest'[u] = Least(sinceHarvest[u] + 1, HarvestInterval)
    BY <1>2, <2>1
  <2>3. sinceHarvest'[u] \in Nat
    BY <1>6, <2>1
  <2>. QED BY <1>5, <2>1, <2>2, <2>3
<1>. QED BY <1>12, <1>13

-----------------------------------------------------------------------------
(* Every step of the vault: who may call is not asked.                       *)
VaultStep == UserCall \/ OwnerCall \/ Earn \/ Donate \/ Tick \/ UNCHANGED vaultVars

LEMMA StepKeeps ==
  ASSUME VaultInv, VaultStep
  PROVE  VaultInv' /\ NobodyLoses /\ PrincipalLeft
<1>1. /\ \A u \in Users : u \in Accounts /\ sinceHarvest[u] \in Nat
      /\ \A r \in Receivers : r \in Accounts
      /\ BooksHold
  BY Books, VaultAssumption DEF Accounts, VaultInv, VaultTypeOK
<1>2. OneShare \in Nat
  <2>1. Tokens \in Nat /\ AllShares \in Nat \ {0}
    BY <1>1 DEF BooksHold
  <2>2. Up(Tokens, AllShares) \in Nat
    BY <2>1, UpBounds
  <2>. QED BY <2>2 DEF OneShare, Tokens, AllShares
<1>3. ASSUME VaultInv', PriceKept, \A u \in Users : ~(sinceHarvest'[u] < sinceHarvest[u])
      PROVE  NobodyLoses /\ PrincipalLeft
  <2>1. PrincipalLeft
    BY <1>3 DEF PrincipalLeft
  <2>2. ~Harvested
    BY <1>3 DEF Harvested
  <2>3. ASSUME NEW a \in Accounts, shares'[a] = shares[a]
        PROVE  Value(a)' + 0 >= Value(a)
    <3>1. Value(a)' >= Value(a)
      BY <1>3, <2>3, ValuesKept
    <3>2. Value(a)' \in Nat
      BY <1>3, BooksAfter DEF BooksHold
    <3>. QED BY <3>1, <3>2
  <2>. QED BY <2>1, <2>2, <2>3 DEF NobodyLoses
<1>4. ASSUME VaultInv', PriceKept, UNCHANGED sinceHarvest
      PROVE  VaultInv' /\ NobodyLoses /\ PrincipalLeft
  <2>1. \A u \in Users : ~(sinceHarvest'[u] < sinceHarvest[u])
    BY <1>1, <1>4
  <2>. QED BY <1>3, <1>4, <2>1
<1>5. ASSUME NEW r \in Receivers, Deposit(r) \/ Mint(r)
      PROVE  VaultInv' /\ NobodyLoses /\ PrincipalLeft
  <2>1. UNCHANGED sinceHarvest
    BY <1>5 DEF Deposit, Mint, Enter
  <2>. QED BY <1>1, <1>4, <1>5, <2>1, DepositKeeps
<1>6. ASSUME NEW u \in Accounts, Withdraw(u) \/ Redeem(u)
      PROVE  VaultInv' /\ NobodyLoses /\ PrincipalLeft
  <2>1. UNCHANGED sinceHarvest
    BY <1>6 DEF Withdraw, Redeem, Leave
  <2>. QED BY <1>4, <1>6, <2>1, WithdrawKeeps
<1>7. ASSUME NEW u \in Users, HarvestFor(u)
      PROVE  VaultInv' /\ NobodyLoses /\ PrincipalLeft
  BY <1>7, HarvestKeeps, HarvestDilutesLittle, HarvestLeavesPrincipal
<1>8. ASSUME NEW u \in Users,
             \/ ConfirmAuthority(u) \/ CancelAuthorityChange(u)
             \/ \E a \in Authorities : SetAuthority(u, a)
      PROVE  VaultInv' /\ NobodyLoses /\ PrincipalLeft
  <2>1. UNCHANGED sinceHarvest
    BY <1>8 DEF ConfirmAuthority, CancelAuthorityChange, SetAuthority
  <2>. QED BY <1>4, <1>8, <2>1, GovernanceKeeps
<1>9. ASSUME NEW from \in Accounts, NEW to \in Accounts, TransferShares(from, to)
      PROVE  VaultInv' /\ NobodyLoses /\ PrincipalLeft
  <2>1. UNCHANGED sinceHarvest
    BY <1>9 DEF TransferShares
  <2>. QED BY <1>4, <1>9, <2>1, TransferKeeps
<1>10. ASSUME NEW a \in Authorities, ClaimAuthorityRevenue(a)
       PROVE  VaultInv' /\ NobodyLoses /\ PrincipalLeft
  <2>1. UNCHANGED sinceHarvest
    BY <1>10 DEF ClaimAuthorityRevenue
  <2>. QED BY <1>4, <1>10, <2>1, ClaimKeeps
<1>11. CASE OwnerCall
  <2>1. UNCHANGED sinceHarvest
    BY <1>11 DEF OwnerCall, SetPaused, SetStrategy, SetTransferExempt, Invest, Divest,
                 ApproveStrategyToken
  <2>2. VaultInv' /\ PriceKept
    BY <1>11, SwitchKeeps, StrategyKeeps DEF OwnerCall
  <2>. QED BY <1>4, <2>1, <2>2
<1>12. CASE Earn \/ Donate
  <2>1. UNCHANGED sinceHarvest
    BY <1>12 DEF Earn, Donate, Gain
  <2>. QED BY <1>4, <1>12, <2>1, GainKeeps
<1>13. CASE Tick
  BY <1>3, <1>13, TickKeeps
<1>14. CASE UNCHANGED vaultVars
  <2>1. VaultInv'
    BY <1>14 DEF VaultInv, VaultTypeOK, EscrowBacked, OnlyStrategyHolds,
                 vaultVars, funds, assets, revenue, switches, governance
  <2>2. PriceKept
    BY <1>14, NothingMoved, SamePrice DEF vaultVars, funds, assets
  <2>3. UNCHANGED sinceHarvest
    BY <1>14 DEF vaultVars
  <2>. QED BY <1>4, <2>1, <2>2, <2>3
<1>15. CASE UserCall
  BY <1>1, <1>5, <1>6, <1>7, <1>8, <1>9, <1>10, <1>15 DEF UserCall
<1>. QED BY <1>11, <1>12, <1>13, <1>14, <1>15 DEF VaultStep

-----------------------------------------------------------------------------
(* The automation.  Its history is a ring: slot k holds the one attempt of   *)
(* the latest MaxHistory whose number is k - 1 modulo MaxHistory.            *)

LEMMA ModParts ==
  ASSUME NEW n \in Nat, NEW m \in Nat \ {0}
  PROVE  n \div m \in Nat /\ n % m \in 0 .. m - 1 /\ n = (n \div m) * m + (n % m)
OBVIOUS

LEMMA SameParts ==
  ASSUME NEW q \in Nat, NEW p \in Nat, NEW m \in Nat \ {0},
         NEW r \in 0 .. m - 1, NEW s \in 0 .. m - 1, q * m + r = p * m + s
  PROVE  q = p /\ r = s
<1>1. q * m \in Nat /\ p * m \in Nat
  BY ProductIsNat
<1>2. q * m < p * m + m /\ p * m < q * m + m
  BY <1>1
<1>3. q <= p /\ p <= q
  BY <1>2, Cancel
<1>4. q = p
  BY <1>3
<1>. QED BY <1>1, <1>4

LEMMA ModIs ==
  ASSUME NEW n \in Nat, NEW m \in Nat \ {0}
  PROVE  n % m \in 0 .. m - 1 /\ (n < m => n % m = n) /\ (n >= m => (n - m) % m = n % m)
<1>1. n % m \in 0 .. m - 1
  BY ModParts
<1>2. n < m => n % m = n
  OBVIOUS
<1>3. ASSUME n >= m PROVE (n - m) % m = n % m
  <2> DEFINE k == n - m
             q == k \div m
             p == n \div m
             r == k % m
             s == n % m
  <2>1. k \in Nat /\ n = k + m
    BY <1>3
  <2> HIDE DEF k
  <2>2. /\ q \in Nat /\ r \in 0 .. m - 1 /\ k = q * m + r
        /\ p \in Nat /\ s \in 0 .. m - 1 /\ n = p * m + s
    BY <2>1, ModParts
  <2> HIDE DEF q, p, r, s
  <2>3. q + 1 \in Nat /\ (q + 1) * m = q * m + m /\ q * m \in Nat
    BY <2>2, ProductIsNat
  <2>4. (q + 1) * m + r = p * m + s
    BY <2>1, <2>2, <2>3
  <2>5. r = s
    BY <2>2, <2>3, <2>4, SameParts
  <2>. QED BY <2>5, Zenon DEF k, r, s
<1>. QED BY <1>1, <1>2, <1>3

LEMMA ModUnique ==
  ASSUME NEW a \in Nat, NEW b \in Nat, NEW m \in Nat \ {0},
         a % m = b % m, a < b + m, b < a + m
  PROVE  a = b
<1> DEFINE q == a \div m
           p == b \div m
           r == a % m
<1>1. /\ q \in Nat /\ r \in 0 .. m - 1 /\ a = q * m + r
      /\ p \in Nat /\ b = p * m + r
  BY ModParts
<1> HIDE DEF q, p, r
<1>2. q * m \in Nat /\ p * m \in Nat
  BY <1>1, ProductIsNat
<1>3. q * m < p * m + m /\ p * m < q * m + m
  BY <1>1, <1>2
<1>4. q <= p /\ p <= q
  BY <1>1, <1>3, Cancel
<1>5. q = p
  BY <1>1, <1>4
<1>. QED BY <1>1, <1>5

RingHolds ==
  /\ Len(harvestHistory) = Least(historyIndex, MaxHistory)
  /\ \A k \in 1 .. Len(harvestHistory) :
       /\ harvestHistory[k] < historyIndex /\ historyIndex <= harvestHistory[k] + MaxHistory
       /\ harvestHistory[k] % MaxHistory = k - 1

LEMMA RingIsLatest ==
  ASSUME historyIndex \in Nat, harvestHistory \in Seq(Nat), RingHolds
  PROVE  HistoryIsLatest
<1> DEFINE h == harvestHistory
           i == historyIndex
           m == MaxHistory
           Window == {n \in 0 .. i - 1 : n + m >= i}
<1>1. m \in Nat \ {0}
  BY AutoHarvestAssumption
<1>2. /\ Len(h) \in Nat /\ DOMAIN h = 1 .. Len(h) /\ \A k \in 1 .. Len(h) : h[k] \in Nat
      /\ Len(h) = Least(i, m)
      /\ \A k \in 1 .. Len(h) : h[k] < i /\ i <= h[k] + m /\ h[k] % m = k - 1
  BY LenProperties DEF RingHolds
<1>3. i \in Nat
  OBVIOUS
<1> HIDE DEF h, i, m
<1>4. ASSUME NEW k \in 1 .. Len(h) PROVE h[k] \in Window
  BY <1>1, <1>2, <1>3
<1>5. ASSUME NEW n \in Window PROVE \E k \in 1 .. Len(h) : h[k] = n
  <2> DEFINE k == (n % m) + 1
  <2>1. n \in Nat /\ n < i /\ i <= n + m
    BY <1>1, <1>3
  <2>2. n % m \in 0 .. m - 1 /\ (n < m => n % m = n)
    BY <1>1, <2>1, ModIs
  <2>3. k \in 1 .. Len(h)
    <3>1. CASE i <= m
      <4>1. Len(h) = i /\ n < m
        BY <1>1, <1>2, <1>3, <2>1, <3>1 DEF Least
      <4>2. n % m = n
        BY <2>2, <4>1
      <4>. QED BY <1>3, <2>1, <4>1, <4>2
    <3>2. CASE ~(i <= m)
      <4>1. Len(h) = m
        BY <1>2, <3>2 DEF Least
      <4>. QED BY <1>1, <2>2, <4>1
    <3>. QED BY <3>1, <3>2
  <2>4. k - 1 = n % m
    BY <1>1, <2>2
  <2> HIDE DEF k
  <2>5. h[k] \in Nat /\ h[k] < i /\ i <= h[k] + m /\ h[k] % m = n % m
    BY <1>2, <2>3, <2>4
  <2>6. h[k] < n + m /\ n < h[k] + m
    BY <1>1, <1>3, <2>1, <2>5
  <2>7. h[k] = n
    BY <1>1, <2>1, <2>5, <2>6, ModUnique
  <2>. QED BY <2>3, <2>7
<1>6. Range(h) = Window
  BY <1>2, <1>4, <1>5 DEF Range
<1>. QED BY <1>6 DEF HistoryIsLatest, h, i, m

LEMMA RecordKeepsRing ==
  ASSUME historyIndex \in Nat, harvestHistory \in Seq(Nat), RingHolds, Record
  PROVE  historyIndex' \in Nat /\ harvestHistory' \in Seq(Nat) /\ RingHolds'
<1> DEFINE h == harvestHistory
           i == historyIndex
           m == MaxHistory
           g == harvestHistory'
<1>1. m \in Nat \ {0} /\ i \in Nat /\ h \in Seq(Nat)
  BY AutoHarvestAssumption
<1>2. /\ Len(h) \in Nat /\ DOMAIN h = 1 .. Len(h) /\ h \in [1 .. Len(h) -> Nat]
      /\ Len(h) = Least(i, m)
      /\ \A k \in 1 .. Len(h) : h[k] < i /\ i <= h[k] + m /\ h[k] % m = k - 1
  BY LenProperties DEF RingHolds
<1>3. historyIndex' = i + 1
  BY DEF Record
<1>4. /\ Len(h) < m => g = Append(h, i)
      /\ ~(Len(h) < m) => g = [h EXCEPT ![(i % m) + 1] = i]
  BY DEF Record, Slot
<1> DEFINE Fits(s) ==
      /\ s \in Seq(Nat) /\ Len(s) = Least(i + 1, m)
      /\ \A k \in 1 .. Len(s) : s[k] < i + 1 /\ i + 1 <= s[k] + m /\ s[k] % m = k - 1
<1> HIDE DEF h, i, m, g
<1>5. i % m \in 0 .. m - 1 /\ (i < m => i % m = i) /\ (i >= m => (i - m) % m = i % m)
  BY <1>1, ModIs
<1>6. ASSUME Len(h) < m PROVE Fits(g)
  <2>1. Len(h) = i /\ i < m /\ i % m = i
    BY <1>1, <1>2, <1>5, <1>6 DEF Least
  <2>2. /\ g \in Seq(Nat) /\ Len(g) = i + 1 /\ g[i + 1] = i
        /\ \A k \in 1 .. i : g[k] = h[k]
    <3>1. g = Append(h, i)
      BY <1>4, <1>6
    <3>2. /\ Append(h, i) \in Seq(Nat) /\ Len(Append(h, i)) = Len(h) + 1
          /\ \A k \in 1 .. Len(h) : Append(h, i)[k] = h[k]
          /\ Append(h, i)[Len(h) + 1] = i
      BY ONLY <1>1, AppendProperties
    <3>. QED BY ONLY <2>1, <3>1, <3>2
  <2>3. Len(g) = Least(i + 1, m)
    <3>1. i + 1 <= m
      BY <1>1, <2>1
    <3>. QED BY <2>2, <3>1 DEF Least
  <2>4. ASSUME NEW k \in 1 .. i + 1
        PROVE  g[k] < i + 1 /\ i + 1 <= g[k] + m /\ g[k] % m = k - 1
    <3>1. CASE k = i + 1
      BY <1>1, <2>1, <2>2, <3>1
    <3>2. CASE k # i + 1
      <4>1. k \in 1 .. i
        BY <1>1, <3>2
      <4>2. g[k] = h[k] /\ h[k] \in Nat /\ h[k] < i /\ h[k] % m = k - 1
        BY <1>2, <2>1, <2>2, <4>1
      <4>. QED BY <1>1, <2>1, <4>2
    <3>. QED BY <3>1, <3>2
  <2>5. \A k \in 1 .. Len(g) : g[k] < i + 1 /\ i + 1 <= g[k] + m /\ g[k] % m = k - 1
    BY ONLY <2>2, <2>4
  <2>. QED BY <2>2, <2>3, <2>5
<1>7. ASSUME ~(Len(h) < m) PROVE Fits(g)
  <2> DEFINE s == (i % m) + 1
  <2>1. Len(h) = m /\ i >= m
    BY <1>1, <1>2, <1>7 DEF Least
  <2>2. s \in 1 .. m /\ i % m = s - 1
    BY <1>1, <1>5
  <2>3. g = [h EXCEPT ![s] = i]
    BY <1>4, <1>7
  <2> HIDE DEF s
  <2>4. /\ g \in [1 .. m -> Nat] /\ g[s] = i
        /\ \A k \in 1 .. m : k # s => g[k] = h[k]
    BY <1>1, <1>2, <2>1, <2>2, <2>3
  <2>5. g \in Seq(Nat) /\ Len(g) = m
    <3>1. m \in Nat
      BY <1>1
    <3>. QED BY <2>4, <3>1, LenProperties
  <2>6. Len(g) = Least(i + 1, m)
    BY <1>1, <2>1, <2>5 DEF Least
  <2>7. ASSUME NEW k \in 1 .. m
        PROVE  g[k] < i + 1 /\ i + 1 <= g[k] + m /\ g[k] % m = k - 1
    <3>1. CASE k = s
      <4>1. g[k] = i /\ i % m = k - 1
        BY <2>2, <2>4, <3>1
      <4>. QED BY <1>1, <4>1
    <3>2. CASE k # s
      <4>1. g[k] = h[k] /\ h[k] \in Nat /\ h[k] < i /\ i <= h[k] + m /\ h[k] % m = k - 1
        BY <1>2, <2>1, <2>4, <3>2
      (* a slot as old as the window is the one that is replaced *)
      <4>2. i # h[k] + m
        <5>1. SUFFICES ASSUME i = h[k] + m PROVE FALSE
          OBVIOUS
        <5>2. h[k] = i - m
          BY <1>1, <4>1, <5>1
        <5>3. (i - m) % m = i % m
          BY <1>5, <2>1
        <5>4. k - 1 = s - 1
          BY <2>2, <4>1, <5>2, <5>3
        <5>. QED BY <1>1, <2>2, <3>2, <5>4
      <4>3. h[k] + m \in Nat
        BY <1>1, <4>1
      <4>4. h[k] < i + 1 /\ i + 1 <= h[k] + m
        BY <1>1, <4>1, <4>2, <4>3
      <4>. QED BY <4>1, <4>4
    <3>. QED BY <3>1, <3>2
  <2>. QED BY <2>5, <2>6, <2>7
<1>8. Fits(g)
  BY <1>6, <1>7
<1>. QED BY <1>1, <1>3, <1>8 DEF RingHolds, h, i, m, g

-----------------------------------------------------------------------------
(* The inductive invariant of the vault with its automation.                 *)
Target == [user : Users, active : BOOLEAN]

AutoTypeOK ==
  /\ targets \in Seq(Target)
  /\ sinceRecorded \in [DOMAIN targets -> 0 .. MinTargetInterval]
  /\ historyIndex \in Nat
  /\ harvestHistory \in Seq(Nat)
  /\ batch \subseteq DOMAIN targets /\ ownsVault \in BOOLEAN

AutoInv == VaultInv /\ AutoTypeOK /\ RingHolds

LEMMA InitAutoInv == Init => AutoInv
<1> SUFFICES ASSUME Init PROVE AutoInv
  OBVIOUS
<1>1. VaultInv
  BY InitVaultInv DEF Init
<1>2. /\ targets = <<>> /\ sinceRecorded = <<>> /\ harvestHistory = <<>> /\ historyIndex = 0
      /\ batch = {} /\ ownsVault = FALSE
  BY DEF Init
<1>3. sinceRecorded \in [DOMAIN targets -> 0 .. MinTargetInterval]
  BY <1>2
<1>4. AutoTypeOK
  <2>1. targets \in Seq(Target) /\ harvestHistory \in Seq(Nat)
    BY <1>2, EmptySeq
  <2>. QED BY <1>2, <1>3, <2>1 DEF AutoTypeOK
<1>5. RingHolds
  <2>1. Len(harvestHistory) = 0
    BY <1>2
  <2>2. Least(historyIndex, MaxHistory) = 0
    BY <1>2, AutoHarvestAssumption DEF Least
  <2>. QED BY <2>1, <2>2 DEF RingHolds
<1>. QED BY <1>1, <1>4, <1>5 DEF AutoInv

(* A harvest tried: recorded, and passed to the vault when it would accept.  *)
LEMMA ExecuteKeeps ==
  ASSUME AutoInv, NEW i \in DOMAIN targets, ExecuteHarvest(i), batch' \subseteq batch
  PROVE  AutoTypeOK' /\ RingHolds' /\ VaultStep
<1>1. AutoTypeOK /\ RingHolds
  BY DEF AutoInv
<1>2. targets[i].user \in Users
  <2>1. targets[i] \in Target
    BY <1>1, ElementOfSeq, LenProperties DEF AutoTypeOK
  <2>. QED BY <2>1 DEF Target
<1>3. historyIndex' \in Nat /\ harvestHistory' \in Seq(Nat) /\ RingHolds'
  BY <1>1, RecordKeepsRing DEF AutoTypeOK, ExecuteHarvest
<1>4. VaultStep
  <2>1. HarvestFor(targets[i].user) \/ UNCHANGED vaultVars
    BY DEF ExecuteHarvest
  <2>. QED BY <1>2, <2>1 DEF VaultStep, UserCall
<1>5. sinceRecorded' \in [DOMAIN targets -> 0 .. MinTargetInterval]
  <2>1. 0 \in 0 .. MinTargetInterval
    BY AutoHarvestAssumption
  <2>2. sinceRecorded' = [sinceRecorded EXCEPT ![i] = 0] \/ sinceRecorded' = sinceRecorded
    BY DEF ExecuteHarvest
  <2>3. sinceRecorded \in [DOMAIN targets -> 0 .. MinTargetInterval]
    BY <1>1 DEF AutoTypeOK
  <2>. QED BY <2>1, <2>2, <2>3
<1>6. targets' = targets /\ ownsVault' = ownsVault
  BY DEF ExecuteHarvest
<1>7. AutoTypeOK'
  BY <1>1, <1>3, <1>5, <1>6 DEF AutoTypeOK
<1>. QED BY <1>3, <1>4, <1>7

LEMMA AddTargetKeeps ==
  ASSUME AutoInv, NEW u \in Users, AddTarget(u)
  PROVE  AutoTypeOK'
<1> DEFINE e == [user |-> u, active |-> TRUE]
           n == Len(targets)
<1>1. AutoTypeOK
  BY DEF AutoInv
<1>2. /\ targets' = Append(targets, e)
      /\ sinceRecorded' = Append(sinceRecorded, MinTargetInterval)
      /\ UNCHANGED <<harvestHistory, historyIndex, batch, ownsVault>>
  BY DEF AddTarget
<1>3. targets \in Seq(Target) /\ e \in Target /\ n \in Nat /\ DOMAIN targets = 1 .. n
  BY <1>1, LenProperties DEF AutoTypeOK, Target
<1> HIDE DEF e, n
<1>4. targets' \in Seq(Target) /\ Len(targets') = Len(targets) + 1
  BY <1>2, <1>3, AppendProperties
<1>5. DOMAIN targets' = 1 .. n + 1
  BY <1>4, LenProperties DEF n
<1>6. MinTargetInterval \in 0 .. MinTargetInterval
  BY AutoHarvestAssumption
<1>7. sinceRecorded' \in [1 .. n + 1 -> 0 .. MinTargetInterval]
  <2> DEFINE S == 0 .. MinTargetInterval
             w == Append(sinceRecorded, MinTargetInterval)
  <2> HIDE DEF S
  <2>1. sinceRecorded \in [1 .. n -> S]
    BY <1>1, <1>3 DEF AutoTypeOK, S
  <2>2. sinceRecorded \in Seq(S) /\ Len(sinceRecorded) = n
    BY <1>3, <2>1, LenProperties
  <2>3. w \in Seq(S) /\ Len(w) = n + 1
    BY <1>6, <2>2, AppendProperties DEF S
  <2>4. w \in [1 .. n + 1 -> S]
    BY <2>3, LenProperties
  <2>. QED BY <1>2, <2>4 DEF S
<1>8. batch' \subseteq DOMAIN targets'
  <2>1. batch \subseteq 1 .. n
    BY <1>1, <1>3 DEF AutoTypeOK
  <2>. QED BY <1>2, <1>3, <1>5, <2>1
<1>. QED BY <1>1, <1>2, <1>4, <1>5, <1>7, <1>8 DEF AutoTypeOK

LEMMA RemoveTargetKeeps ==
  ASSUME AutoInv, NEW i \in DOMAIN targets, RemoveTarget(i)
  PROVE  AutoTypeOK'
<1>1. AutoTypeOK
  BY DEF AutoInv
<1>2. /\ targets' = [targets EXCEPT ![i].active = FALSE]
      /\ UNCHANGED <<sinceRecorded, harvestHistory, historyIndex, batch, ownsVault>>
  BY DEF RemoveTarget
<1> DEFINE n == Len(targets)
           e == [targets[i] EXCEPT !.active = FALSE]
<1>3. n \in Nat /\ DOMAIN targets = 1 .. n /\ targets \in [1 .. n -> Target] /\ targets[i] \in Target
  BY <1>1, LenProperties, ElementOfSeq DEF AutoTypeOK
<1>4. e \in Target
  BY <1>3 DEF Target
<1>5. targets' = [targets EXCEPT ![i] = e]
  BY <1>2
<1> HIDE DEF n, e
<1>6. targets' \in [1 .. n -> Target]
  BY <1>3, <1>4, <1>5
<1>7. targets' \in Seq(Target) /\ DOMAIN targets' = DOMAIN targets
  BY <1>3, <1>6
<1>. QED BY <1>1, <1>2, <1>7 DEF AutoTypeOK

LEMMA AutoStep ==
  ASSUME AutoInv, Next \/ UNCHANGED vars
  PROVE  AutoInv' /\ NobodyLoses /\ PrincipalLeft
<1>1. VaultInv /\ AutoTypeOK /\ RingHolds
  BY DEF AutoInv
<1>2. AutoTypeOK' /\ RingHolds' /\ VaultStep
  <2>1. ASSUME UNCHANGED autoVars PROVE AutoTypeOK' /\ RingHolds'
    BY <1>1, <2>1 DEF autoVars, AutoTypeOK, RingHolds
  <2>2. CASE UNCHANGED vars
    BY <2>1, <2>2 DEF vars, VaultStep
  <2>3. CASE (UserCall \/ Earn \/ Donate) /\ UNCHANGED autoVars
    BY <2>1, <2>3 DEF VaultStep
  <2>4. CASE OwnerOfVault /\ UNCHANGED autoVars
    BY <2>1, <2>4 DEF VaultStep, OwnerOfVault, UserCall
  <2>5. CASE TransferOwnership
    BY <1>1, <2>5 DEF TransferOwnership, AutoTypeOK, RingHolds, VaultStep
  <2>6. CASE Elapse
    <3>1. MinTargetInterval \in Nat
      BY AutoHarvestAssumption
    <3>2. /\ sinceRecorded' = [i \in DOMAIN targets |-> Least(sinceRecorded[i] + 1, MinTargetInterval)]
          /\ UNCHANGED <<targets, harvestHistory, historyIndex, batch, ownsVault>> /\ Tick
      BY <2>6 DEF Elapse
    <3>3. ASSUME NEW i \in DOMAIN targets
          PROVE  Least(sinceRecorded[i] + 1, MinTargetInterval) \in 0 .. MinTargetInterval
      BY <1>1, <3>1 DEF AutoTypeOK, Least
    <3>4. sinceRecorded' \in [DOMAIN targets -> 0 .. MinTargetInterval]
      BY <3>2, <3>3
    <3>5. AutoTypeOK' /\ RingHolds'
      BY <1>1, <3>2, <3>4 DEF AutoTypeOK, RingHolds
    <3>. QED BY <3>2, <3>5 DEF VaultStep
  <2>7. ASSUME NEW u \in Users, AddTarget(u)
        PROVE  AutoTypeOK' /\ RingHolds' /\ VaultStep
    BY <1>1, <2>7, AddTargetKeeps DEF AddTarget, RingHolds, VaultStep
  <2>8. ASSUME NEW i \in DOMAIN targets, RemoveTarget(i)
        PROVE  AutoTypeOK' /\ RingHolds' /\ VaultStep
    BY <1>1, <2>8, RemoveTargetKeeps DEF RemoveTarget, RingHolds, VaultStep
  <2>9. CASE PerformUpkeep
    BY <1>1, <2>9 DEF PerformUpkeep, AutoTypeOK, RingHolds, VaultStep
  <2>10. CASE HarvestTarget
    BY <2>10, ExecuteKeeps DEF HarvestTarget
  <2>11. CASE RunBatch
    <3>1. PICK i \in batch : ExecuteHarvest(i) /\ batch' = batch \ {i}
      BY <2>11 DEF RunBatch
    <3>2. i \in DOMAIN targets
      BY <1>1 DEF AutoTypeOK
    <3>. QED BY <3>1, <3>2, ExecuteKeeps
  <2>. QED BY <2>2, <2>3, <2>4, <2>5, <2>6, <2>7, <2>8, <2>9, <2>10, <2>11 DEF Next, Call
<1>. QED BY <1>1, <1>2, StepKeeps DEF AutoInv

LEMMA AutoInvariant == Spec => []AutoInv
<1>1. AutoInv /\ [Next]_vars => AutoInv'
  BY AutoStep
<1>. QED BY <1>1, InitAutoInv, PTL DEF Spec

-----------------------------------------------------------------------------
(* The types of the vault and of the automation: no holding, balance or debt *)
(* of the vault is ever negative, whatever is rounded on the way.            *)
THEOREM VaultTypes == Spec => []TypeOK
<1>1. AutoInv => TypeOK
  BY DEF AutoInv, VaultInv, AutoTypeOK, TypeOK, Target
<1>. QED BY <1>1, AutoInvariant, PTL

(* What the authorities are owed is recorded exactly and is in the vault:    *)
(* no deposit, withdrawal, investment, harvest or claim of another spends it *)
(* (totalAssets, _withdraw, investToStrategy, claimAuthorityRevenue).        *)
THEOREM RevenueBacked == Spec => []EscrowBacked
<1>1. AutoInv => EscrowBacked
  BY DEF AutoInv, VaultInv
<1>. QED BY <1>1, AutoInvariant, PTL

(* Nobody's shares lose value by what others do, beyond the value of one     *)
(* share in another's harvest (the rounding of _convertToShares and          *)
(* _convertToAssets in deposit, withdraw, redeem, mint and _harvestInternal).*)
THEOREM DilutesNobody == Spec => NobodyDilutes
<1>1. AutoInv /\ [Next]_vars => [NobodyLoses]_vaultVars
  BY AutoStep
<1>2. AutoInv /\ [Next]_vars =>
        [~UNCHANGED <<funds, revenue>> =>
           \A a \in Accounts : shares'[a] = shares[a] /\ shares[a] > 0 =>
             Value(a)' + (IF Harvested THEN OneShare ELSE 0) >= Value(a)]_vaultVars
  BY <1>1 DEF NobodyLoses
<1>. QED BY <1>2, AutoInvariant, PTL DEF Spec, NobodyDilutes

(* A harvest takes from the yield only: the shares left to the depositor are *)
(* worth at least the principal recorded after it (_harvestInternal).        *)
THEOREM PrincipalKept == Spec => HarvestKeepsPrincipal
<1>1. AutoInv /\ [Next]_vars => [PrincipalLeft]_vaultVars
  BY AutoStep
<1>2. AutoInv /\ [Next]_vars =>
        [\A u \in Users : sinceHarvest'[u] < sinceHarvest[u] => Value(u)' >= principal'[u]]_vaultVars
  BY <1>1 DEF PrincipalLeft
<1>. QED BY <1>2, AutoInvariant, PTL DEF Spec, HarvestKeepsPrincipal

(* The history holds exactly the latest attempts, however often its ring has *)
(* wrapped (the ring buffer of _executeHarvest).                             *)
THEOREM HistoryLatest == Spec => []HistoryIsLatest
<1>1. AutoInv => HistoryIsLatest
  BY RingIsLatest DEF AutoInv, AutoTypeOK
<1>. QED BY <1>1, AutoInvariant, PTL

(* Nobody is shut out by the automation.  A target it holds back was          *)
(* harvested in the vault, too, no longer ago than it recorded, so that the   *)
(* vault holds it back as long when its interval is not the shorter one.      *)
DatesKept ==
  \A i \in DOMAIN targets : sinceRecorded[i] < MinTargetInterval =>
    sinceHarvest[targets[i].user] <= sinceRecorded[i]

LEMMA TargetUsers ==
  ASSUME AutoTypeOK, NEW i \in DOMAIN targets
  PROVE  targets[i].user \in Users /\ targets[i].user \in Accounts
<1>1. targets[i] \in Target
  BY ElementOfSeq, LenProperties DEF AutoTypeOK
<1>. QED BY <1>1 DEF Target, Accounts

(* A call of the vault makes no harvest look older.                          *)
LEMMA CallsDoNotAge ==
  ASSUME VaultInv, UserCall \/ OwnerCall \/ Earn \/ Donate \/ UNCHANGED vaultVars, NEW a \in Accounts
  PROVE  sinceHarvest'[a] <= sinceHarvest[a]
<1>1. sinceHarvest \in [Accounts -> Nat]
  BY DEF VaultInv, VaultTypeOK
<1>2. UNCHANGED sinceHarvest \/ \E u \in Users : sinceHarvest' = [sinceHarvest EXCEPT ![u] = 0]
  <2>1. CASE UserCall
    BY <2>1 DEF UserCall, Deposit, Mint, Enter, Withdraw, Redeem, Leave, HarvestFor, ConfirmAuthority,
                CancelAuthorityChange, SetAuthority, TransferShares, ClaimAuthorityRevenue
  <2>2. CASE OwnerCall
    BY <2>2 DEF OwnerCall, SetPaused, SetStrategy, SetTransferExempt, Invest, Divest,
                ApproveStrategyToken
  <2>3. CASE Earn \/ Donate
    BY <2>3 DEF Earn, Donate, Gain
  <2>4. CASE UNCHANGED vaultVars
    BY <2>4 DEF vaultVars
  <2>. QED BY <2>1, <2>2, <2>3, <2>4
<1>. QED BY <1>1, <1>2

LEMMA ExecuteKeepsDates ==
  ASSUME AutoInv, DatesKept, NEW i \in DOMAIN targets, ExecuteHarvest(i)
  PROVE  DatesKept'
<1>1. VaultInv /\ AutoTypeOK /\ targets' = targets
  BY DEF AutoInv, ExecuteHarvest
<1>2. sinceHarvest \in [Accounts -> Nat] /\ sinceRecorded \in [DOMAIN targets -> Nat]
  BY <1>1, AutoHarvestAssumption DEF VaultInv, VaultTypeOK, AutoTypeOK
<1>3. CASE HarvestFor(targets[i].user) /\ sinceRecorded' = [sinceRecorded EXCEPT ![i] = 0]
  <2>1. sinceHarvest' = [sinceHarvest EXCEPT ![targets[i].user] = 0]
    BY <1>3 DEF HarvestFor
  <2> SUFFICES ASSUME NEW j \in DOMAIN targets, sinceRecorded'[j] < MinTargetInterval
               PROVE  sinceHarvest'[targets[j].user] <= sinceRecorded'[j]
    BY <1>1 DEF DatesKept
  <2>2. targets[i].user \in Accounts /\ targets[j].user \in Accounts
    BY <1>1, TargetUsers
  <2>3. CASE targets[j].user = targets[i].user
    BY <1>2, <1>3, <2>1, <2>2, <2>3
  <2>4. CASE targets[j].user # targets[i].user
    <3>1. sinceRecorded'[j] = sinceRecorded[j]
      BY <1>2, <1>3, <2>4
    <3>2. sinceHarvest'[targets[j].user] = sinceHarvest[targets[j].user]
      BY <1>2, <2>1, <2>2, <2>4
    <3>. QED BY <3>1, <3>2 DEF DatesKept
  <2>. QED BY <2>3, <2>4
<1>4. CASE UNCHANGED <<vaultVars, sinceRecorded>>
  BY <1>1, <1>4 DEF vaultVars, DatesKept
<1>. QED BY <1>3, <1>4 DEF ExecuteHarvest

LEMMA AutoKeepsDates ==
  ASSUME AutoInv, DatesKept, Next \/ UNCHANGED vars
  PROVE  DatesKept'
<1>1. VaultInv /\ AutoTypeOK
  BY DEF AutoInv
<1>2. sinceHarvest \in [Accounts -> Nat] /\ sinceRecorded \in [DOMAIN targets -> Nat]
  BY <1>1, AutoHarvestAssumption DEF VaultInv, VaultTypeOK, AutoTypeOK
<1>3. MinTargetInterval \in Nat
  BY AutoHarvestAssumption
<1>4. ASSUME UserCall \/ OwnerCall \/ Earn \/ Donate \/ UNCHANGED vaultVars, UNCHANGED autoVars
      PROVE  DatesKept'
  <2> SUFFICES ASSUME NEW i \in DOMAIN targets, sinceRecorded[i] < MinTargetInterval
               PROVE  sinceHarvest'[targets[i].user] <= sinceRecorded[i]
    BY <1>4 DEF autoVars, DatesKept
  <2>1. targets[i].user \in Accounts /\ sinceHarvest[targets[i].user] <= sinceRecorded[i]
    BY <1>1, TargetUsers DEF DatesKept
  <2>2. sinceHarvest'[targets[i].user] <= sinceHarvest[targets[i].user]
    BY <1>1, <1>4, <2>1, CallsDoNotAge
  <2>3. VaultInv'
    BY AutoStep DEF AutoInv
  <2>4. sinceHarvest'[targets[i].user] \in Nat
    BY <2>1, <2>3 DEF VaultInv, VaultTypeOK
  <2>. QED BY <1>2, <2>1, <2>2, <2>4
<1>5. CASE UNCHANGED vars
  BY <1>4, <1>5 DEF vars
<1>6. CASE (UserCall \/ Earn \/ Donate) /\ UNCHANGED autoVars
  BY <1>4, <1>6
<1>7. CASE OwnerOfVault /\ UNCHANGED autoVars
  BY <1>4, <1>7 DEF OwnerOfVault, UserCall
<1>8. CASE TransferOwnership \/ PerformUpkeep
  BY <1>8 DEF TransferOwnership, PerformUpkeep, vaultVars, DatesKept
<1>9. CASE Elapse
  <2>1. /\ sinceRecorded' = [i \in DOMAIN targets |-> Least(sinceRecorded[i] + 1, MinTargetInterval)]
        /\ sinceHarvest' = [a \in Accounts |-> Least(sinceHarvest[a] + 1, HarvestInterval)]
        /\ targets' = targets
    BY <1>9 DEF Elapse, Tick
  <2> SUFFICES ASSUME NEW i \in DOMAIN targets, sinceRecorded'[i] < MinTargetInterval
               PROVE  sinceHarvest'[targets[i].user] <= sinceRecorded'[i]
    BY <2>1 DEF DatesKept
  <2>2. targets[i].user \in Accounts
    BY <1>1, TargetUsers
  <2>3. sinceRecorded[i] < MinTargetInterval /\ sinceRecorded'[i] = sinceRecorded[i] + 1
    BY <1>2, <1>3, <2>1 DEF Least
  <2>4. sinceHarvest[targets[i].user] <= sinceRecorded[i]
    BY <2>3 DEF DatesKept
  <2>5. sinceHarvest'[targets[i].user] <= sinceHarvest[targets[i].user] + 1
    BY <1>2, <2>1, <2>2, VaultAssumption DEF Least
  <2>6. sinceHarvest'[targets[i].user] \in Nat
    BY <1>2, <2>1, <2>2, VaultAssumption DEF Least
  <2>. QED BY <1>2, <2>2, <2>3, <2>4, <2>5, <2>6
<1>10. ASSUME NEW u \in Users, AddTarget(u)
       PROVE  DatesKept'
  <2> DEFINE n == Len(targets)
             e == [user |-> u, active |-> TRUE]
  <2>1. /\ targets' = Append(targets, e) /\ UNCHANGED sinceHarvest
        /\ sinceRecorded' = Append(sinceRecorded, MinTargetInterval)
    BY <1>10 DEF AddTarget, vaultVars
  <2>2. n \in Nat /\ DOMAIN targets = 1 .. n /\ targets \in Seq(Target) /\ e \in Target
    BY <1>1, LenProperties DEF AutoTypeOK, Target
  <2>3. sinceRecorded \in Seq(Nat) /\ Len(sinceRecorded) = n
    BY <1>2, <2>2, LenProperties
  <2> HIDE DEF n, e
  <2>4. DOMAIN targets' = 1 .. n + 1 /\ \A i \in 1 .. n : targets'[i] = targets[i]
    BY <2>1, <2>2, AppendProperties, LenProperties DEF n
  <2>5. sinceRecorded'[n + 1] = MinTargetInterval /\ \A i \in 1 .. n : sinceRecorded'[i] = sinceRecorded[i]
    BY <1>3, <2>1, <2>3, AppendProperties
  <2> SUFFICES ASSUME NEW i \in 1 .. n + 1, sinceRecorded'[i] < MinTargetInterval
               PROVE  sinceHarvest'[targets'[i].user] <= sinceRecorded'[i]
    BY <2>4 DEF DatesKept
  <2>6. i \in 1 .. n
    BY <1>3, <2>2, <2>5
  <2>. QED BY <2>1, <2>2, <2>4, <2>5, <2>6 DEF DatesKept
<1>11. ASSUME NEW i \in DOMAIN targets, RemoveTarget(i)
       PROVE  DatesKept'
  <2>1. /\ targets' = [targets EXCEPT ![i].active = FALSE]
        /\ UNCHANGED <<sinceHarvest, sinceRecorded>>
    BY <1>11 DEF RemoveTarget, vaultVars
  <2>2. \A j \in DOMAIN targets : targets[j] \in Target
    BY <1>1, ElementOfSeq, LenProperties DEF AutoTypeOK
  <2>3. DOMAIN targets' = DOMAIN targets /\ \A j \in DOMAIN targets : targets'[j].user = targets[j].user
    BY <2>1, <2>2 DEF Target
  <2>. QED BY <2>1, <2>3 DEF DatesKept
<1>12. CASE HarvestTarget
  BY <1>12, ExecuteKeepsDates DEF HarvestTarget
<1>13. CASE RunBatch
  <2>1. PICK i \in batch : ExecuteHarvest(i)
    BY <1>13 DEF RunBatch
  <2>2. i \in DOMAIN targets
    BY <1>1 DEF AutoTypeOK
  <2>. QED BY <2>1, <2>2, ExecuteKeepsDates
<1>. QED BY <1>5, <1>6, <1>7, <1>8, <1>9, <1>10, <1>11, <1>12, <1>13 DEF Next, Call

LEMMA DatesInvariant == Spec => [](AutoInv /\ DatesKept)
<1>1. Init => AutoInv /\ DatesKept
  <2>1. Init => DatesKept
    BY DEF Init, DatesKept
  <2>. QED BY <2>1, InitAutoInv
<1>2. AutoInv /\ DatesKept /\ [Next]_vars => (AutoInv /\ DatesKept)'
  BY AutoStep, AutoKeepsDates
<1>. QED BY <1>1, <1>2, PTL DEF Spec

(* A depositor the vault would harvest now, with a yield above the threshold *)
(* of the automation, is due, whatever calls, failed attempts and harvests   *)
(* by another way there were, as long as the automation's interval is no     *)
(* longer than the vault's (checkUpkeep, _executeHarvest, harvestFor).       *)
THEOREM ShutsNobodyOut ==
  ASSUME MinTargetInterval <= HarvestInterval
  PROVE  Spec => []NobodyShutOut
<1>1. AutoInv /\ DatesKept => NobodyShutOut
  <2> SUFFICES ASSUME AutoInv, DatesKept, NEW i \in DOMAIN targets, i \notin Due,
                      targets[i].active, CanHarvest(targets[i].user)
               PROVE  Yield(targets[i].user) < MinYieldThreshold
    BY DEF NobodyShutOut
  <2> DEFINE u == targets[i].user
             y == Yield(u)
  <2>1. VaultInv /\ AutoTypeOK
    BY DEF AutoInv
  <2>2. u \in Accounts
    BY <2>1, TargetUsers
  <2>3. BooksHold /\ principal[u] \in Nat /\ shares[u] \in Nat
    BY <2>1, <2>2, Books DEF VaultInv, VaultTypeOK
  <2>4. Value(u) \in Nat
    BY <2>2, <2>3 DEF BooksHold
  <2>5. y \in Nat /\ y <= Value(u)
    BY <2>3, <2>4 DEF Yield
  <2>6. y > 0 /\ sinceHarvest[u] = HarvestInterval
    BY DEF CanHarvest
  <2>7. sinceRecorded[i] = MinTargetInterval
    <3>1. sinceRecorded[i] \in 0 .. MinTargetInterval
      BY <2>1 DEF AutoTypeOK
    <3>2. ~(sinceRecorded[i] < MinTargetInterval)
      BY <2>6, <3>1, VaultAssumption, AutoHarvestAssumption DEF DatesKept
    <3>. QED BY <3>1, <3>2, AutoHarvestAssumption
  <2>8. shares[u] > 0
    <3>1. SUFFICES ASSUME shares[u] = 0 PROVE FALSE
      BY <2>3
    <3>2. Value(u) = (0 * Tokens) \div AllShares /\ Tokens \in Nat /\ AllShares \in Nat \ {0}
      BY <2>2, <2>3, <3>1 DEF BooksHold
    <3>3. Value(u) = 0
      BY <3>2
    <3>. QED BY <2>5, <2>6, <3>3
  <2>9. ~(y >= MinYieldThreshold)
    BY <2>6, <2>7, <2>8 DEF Due, Harvestable
  <2>. QED BY <2>5, <2>9, AutoHarvestAssumption
<1>. QED BY <1>1, DatesInvariant, PTL

-----------------------------------------------------------------------------
(* The bridges, for every set of chains, of deployments and of messages, and *)
(* any number of redeliveries and reconfigurations.                          *)

(* A chain messages are sent to has a bridge. *)
AllowedHasBridge ==
  \A b \in Bridges, c \in Chains :
    remoteChains[b][c].allowed => remoteChains[b][c].bridge # NoBridge

(* A nonce says who issued it, none was issued twice, and none is marked as  *)
(* processed before it was issued.                                           *)
NoncesIssued ==
  /\ \A m \in network : m.nonce[1] = m.from /\ m.nonce[2] <= outgoingNonce[m.from]
  /\ \A m, n \in network : m.nonce = n.nonce => m = n
  /\ \A b \in Bridges : \A x \in processedNonces[b] : x[2] <= outgoingNonce[x[1]]

-----------------------------------------------------------------------------
(* The list of supported chains: a sequence without repetitions, and what    *)
(* appending and swap-and-pop do to it.                                      *)
Elements(s) == {s[i] : i \in DOMAIN s}
Distinct(s) == \A i, j \in DOMAIN s : s[i] = s[j] => i = j

LEMMA AppendListed ==
  ASSUME NEW s \in Seq(Chains), NEW c \in Chains, Distinct(s), c \notin Elements(s)
  PROVE  /\ Append(s, c) \in Seq(Chains)
         /\ Distinct(Append(s, c))
         /\ Elements(Append(s, c)) = Elements(s) \union {c}
<1> DEFINE t == Append(s, c)
<1>1. /\ t \in Seq(Chains) /\ Len(t) = Len(s) + 1
      /\ \A i \in 1 .. Len(s) : t[i] = s[i]
      /\ t[Len(s) + 1] = c
  BY AppendProperties
<1>2. /\ Len(s) \in Nat /\ DOMAIN s = 1 .. Len(s)
      /\ DOMAIN t = 1 .. Len(s) + 1
  BY <1>1, LenProperties
<1>3. \A i \in 1 .. Len(s) : s[i] # c
  BY <1>2 DEF Elements
<1>4. Distinct(t)
  BY <1>1, <1>2, <1>3 DEF Distinct
<1>5. Elements(t) = Elements(s) \union {c}
  BY <1>1, <1>2 DEF Elements
<1>. QED BY <1>1, <1>4, <1>5

LEMMA WithoutListed ==
  ASSUME NEW s \in Seq(Chains), NEW c \in Elements(s), Distinct(s)
  PROVE  /\ Without(s, c) \in Seq(Chains)
         /\ Distinct(Without(s, c))
         /\ Elements(Without(s, c)) = Elements(s) \ {c}
<1> DEFINE n == Len(s)
           t == Without(s, c)
<1>1. n \in Nat /\ DOMAIN s = 1 .. n /\ s \in [1 .. n -> Chains]
  BY LenProperties
<1>2. PICK k \in 1 .. n : s[k] = c
  BY <1>1 DEF Elements
<1>3. n \in 1 .. n /\ n - 1 \in Nat
  BY <1>1, <1>2
<1>4. \A i \in 1 .. n - 1 : i \in 1 .. n /\ t[i] = IF i = k THEN s[n] ELSE s[i]
  BY <1>1, <1>2 DEF Without, Distinct
<1>5. t \in Seq(Chains)
  BY <1>1, <1>3 DEF Without
<1>6. DOMAIN t = 1 .. n - 1
  BY DEF Without
<1>7. Distinct(t)
  BY <1>1, <1>2, <1>3, <1>4, <1>6 DEF Distinct
<1>8. \A i \in 1 .. n - 1 : t[i] \in Elements(s) \ {c}
  BY <1>1, <1>2, <1>3, <1>4 DEF Elements, Distinct
<1>9. ASSUME NEW i \in 1 .. n, s[i] # c PROVE \E j \in 1 .. n - 1 : t[j] = s[i]
  <2>1. CASE i = n
    <3>1. k \in 1 .. n - 1 /\ t[k] = s[n]
      BY <1>2, <1>3, <1>4, <1>9, <2>1
    <3>. QED BY <2>1, <3>1
  <2>2. CASE i # n
    <3>1. i \in 1 .. n - 1 /\ t[i] = s[i]
      BY <1>2, <1>3, <1>4, <1>9, <2>2
    <3>. QED BY <3>1
  <2>. QED BY <2>1, <2>2
<1>10. Elements(t) = Elements(s) \ {c}
  <2>1. Elements(t) \subseteq Elements(s) \ {c}
    BY <1>6, <1>8 DEF Elements
  <2>2. ASSUME NEW x \in Elements(s), x # c PROVE x \in Elements(t)
    <3>1. PICK i \in 1 .. n : s[i] = x
      BY <1>1 DEF Elements
    <3>2. PICK j \in 1 .. n - 1 : t[j] = x
      BY <1>9, <2>2, <3>1
    <3>. QED BY <1>6, <3>2 DEF Elements
  <2>. QED BY <2>1, <2>2
<1>. QED BY <1>5, <1>7, <1>10

-----------------------------------------------------------------------------
(* The inductive invariant: the types, the list in step with the mapping,    *)
(* and the nonces that make every message recognisable.                      *)
BridgeInv ==
  /\ BridgeTypeOK
  /\ SupportedMatchesAllowed
  /\ AllowedHasBridge
  /\ NoncesIssued

LEMMA InitBridgeInv == BridgeInit => BridgeInv
<1> SUFFICES ASSUME BridgeInit PROVE BridgeInv
  OBVIOUS
<1>1. Longest \in Nat
  BY BridgeAssumption
<1>2. BridgeTypeOK
  BY <1>1, BridgeAssumption
     DEF BridgeInit, BridgeTypeOK, RemoteChain, Unconfigured, Keys, Values, Nonces
<1>3. SupportedMatchesAllowed
  BY DEF BridgeInit, SupportedMatchesAllowed, Unconfigured
<1>4. AllowedHasBridge /\ NoncesIssued
  BY DEF BridgeInit, AllowedHasBridge, NoncesIssued, Unconfigured
<1>. QED BY <1>2, <1>3, <1>4 DEF BridgeInv

LEMMA Aged ==
  ASSUME NEW r \in RemoteChain, NEW x \in 0 .. Longest
  PROVE  [r EXCEPT !.age = x] \in RemoteChain
<1>1. r = [bridge |-> r.bridge, allowed |-> r.allowed, age |-> r.age]
  BY DEF RemoteChain
<1>2. [r EXCEPT !.age = x] = [bridge |-> r.bridge, allowed |-> r.allowed, age |-> x]
  BY <1>1
<1>3. r.bridge \in Bridges \union {NoBridge} /\ r.allowed \in BOOLEAN
  BY DEF RemoteChain
<1>. QED BY <1>2, <1>3 DEF RemoteChain

LEMMA ConfigureKeepsInv ==
  ASSUME BridgeInv, NEW b \in Bridges, NEW r \in Bridges, NEW a \in BOOLEAN,
         ConfigureRemoteChain(b, r, a)
  PROVE  BridgeInv'
<1> DEFINE c == Home[r]
           s == supportedChains[b]
<1>1. /\ c \in Chains /\ s \in Seq(Chains) /\ Distinct(s)
      /\ Elements(s) = {x \in Chains : remoteChains[b][x].allowed}
  BY BridgeAssumption
     DEF BridgeInv, BridgeTypeOK, SupportedMatchesAllowed, Elements, Distinct
<1>2. /\ supportedChains' = [supportedChains EXCEPT ![b] = Supported(b, c, a)]
      /\ remoteChains' = [remoteChains EXCEPT ![b][c] =
                            [bridge |-> r, allowed |-> a, age |-> Longest]]
      /\ UNCHANGED <<minMessageInterval, outgoingNonce, processedNonces, board, network>>
  BY DEF ConfigureRemoteChain
<1>3. a \in BOOLEAN /\ WasAllowed(b, c) \in BOOLEAN
  BY <1>1 DEF BridgeInv, BridgeTypeOK, RemoteChain, WasAllowed
<1>4. /\ Supported(b, c, a) \in Seq(Chains)
      /\ Distinct(Supported(b, c, a))
      /\ Elements(Supported(b, c, a)) = IF a THEN Elements(s) \union {c} ELSE Elements(s) \ {c}
  <2>1. CASE a /\ ~WasAllowed(b, c)
    BY <1>1, <2>1, AppendListed DEF Supported, WasAllowed
  <2>2. CASE ~a /\ WasAllowed(b, c)
    BY <1>1, <2>2, WithoutListed DEF Supported, WasAllowed
  <2>3. CASE a = WasAllowed(b, c)
    BY <1>3, <1>1, <2>3 DEF Supported, WasAllowed
  <2>. QED BY <1>3, <2>1, <2>2, <2>3
<1>5. \A d \in Bridges, x \in Chains :
        remoteChains'[d][x] = IF d = b /\ x = c
                              THEN [bridge |-> r, allowed |-> a, age |-> Longest]
                              ELSE remoteChains[d][x]
  BY <1>1, <1>2 DEF BridgeInv, BridgeTypeOK
<1>6. BridgeTypeOK'
  <2>1. remoteChains' \in [Bridges -> [Chains -> RemoteChain]]
    BY <1>1, <1>2, BridgeAssumption DEF BridgeInv, BridgeTypeOK, RemoteChain
  <2>2. supportedChains' \in [Bridges -> Seq(Chains)]
    BY <1>2, <1>4 DEF BridgeInv, BridgeTypeOK
  <2>. QED BY <1>2, <2>1, <2>2 DEF BridgeInv, BridgeTypeOK
<1>7. SupportedMatchesAllowed'
  <2> SUFFICES ASSUME NEW d \in Bridges
      PROVE  /\ Elements(supportedChains'[d]) = {x \in Chains : remoteChains'[d][x].allowed}
             /\ Distinct(supportedChains'[d])
    BY DEF SupportedMatchesAllowed, Elements, Distinct
  <2>1. CASE d = b
    <3>1. supportedChains'[d] = Supported(b, c, a)
      BY <1>2, <2>1 DEF BridgeInv, BridgeTypeOK
    <3>2. {x \in Chains : remoteChains'[d][x].allowed} =
            IF a THEN Elements(s) \union {c} ELSE Elements(s) \ {c}
      BY <1>1, <1>5, <2>1
    <3>. QED BY <1>4, <3>1, <3>2
  <2>2. CASE d # b
    <3>1. supportedChains'[d] = supportedChains[d]
      BY <1>2, <2>2 DEF BridgeInv, BridgeTypeOK
    <3>2. {x \in Chains : remoteChains'[d][x].allowed} = {x \in Chains : remoteChains[d][x].allowed}
      BY <1>5, <2>2
    <3>. QED BY <3>1, <3>2 DEF BridgeInv, SupportedMatchesAllowed, Elements, Distinct
  <2>. QED BY <2>1, <2>2
<1>8. AllowedHasBridge'
  BY <1>5, BridgeAssumption DEF BridgeInv, AllowedHasBridge
<1>9. NoncesIssued'
  BY <1>2 DEF BridgeInv, NoncesIssued
<1>. QED BY <1>6, <1>7, <1>8, <1>9 DEF BridgeInv

LEMMA SendKeepsInv ==
  ASSUME BridgeInv, NEW b \in Bridges, NEW c \in Chains,
         NEW k \in Keys, NEW v \in Values, Send(b, c, k, v)
  PROVE  BridgeInv'
<1> DEFINE n == outgoingNonce[b] + 1
           m == [from |-> b, to |-> remoteChains[b][c].bridge,
                 nonce |-> Nonce(b, n), key |-> k, value |-> v]
<1>1. /\ remoteChains[b][c].allowed
      /\ remoteChains' = [remoteChains EXCEPT ![b][c].age = 0]
      /\ outgoingNonce' = [outgoingNonce EXCEPT ![b] = n]
      /\ network' = network \union {m}
      /\ UNCHANGED <<supportedChains, minMessageInterval, processedNonces, board>>
  BY DEF Send, config
<1>2. \A d \in Bridges, x \in Chains :
        /\ remoteChains'[d][x].allowed = remoteChains[d][x].allowed
        /\ remoteChains'[d][x].bridge = remoteChains[d][x].bridge
  BY <1>1 DEF BridgeInv, BridgeTypeOK, RemoteChain
<1>3. n \in Nat /\ m \in Message
  <2>1. n \in Nat /\ Nonce(b, n) \in Nonces
    BY DEF BridgeInv, BridgeTypeOK, Nonce, Nonces
  <2>2. remoteChains[b][c].bridge \in Bridges
    BY <1>1 DEF BridgeInv, BridgeTypeOK, RemoteChain, AllowedHasBridge
  <2>. QED BY <2>1, <2>2 DEF Message
<1>4. BridgeTypeOK'
  <2>1. 0 \in 0 .. Longest
    BY BridgeAssumption
  <2>2. [remoteChains[b][c] EXCEPT !.age = 0] \in RemoteChain
    <3>1. remoteChains[b][c] \in RemoteChain
      BY DEF BridgeInv, BridgeTypeOK
    <3>. QED BY <2>1, <3>1, Aged
  <2>3. remoteChains' = [remoteChains EXCEPT ![b] =
          [remoteChains[b] EXCEPT ![c] = [remoteChains[b][c] EXCEPT !.age = 0]]]
    BY <1>1 DEF BridgeInv, BridgeTypeOK
  <2>4. remoteChains' \in [Bridges -> [Chains -> RemoteChain]]
    BY <2>2, <2>3 DEF BridgeInv, BridgeTypeOK
  <2>. QED BY <1>1, <1>3, <2>4 DEF BridgeInv, BridgeTypeOK
<1>5. SupportedMatchesAllowed' /\ AllowedHasBridge'
  BY <1>1, <1>2 DEF BridgeInv, SupportedMatchesAllowed, AllowedHasBridge
<1>6. NoncesIssued'
  <2>1. \A d \in Bridges : outgoingNonce[d] \in Nat /\ outgoingNonce'[d] = IF d = b THEN n ELSE outgoingNonce[d]
    BY <1>1 DEF BridgeInv, BridgeTypeOK
  <2>2. \A x \in network : /\ x.from \in Bridges /\ x.nonce[1] = x.from
                           /\ x.nonce[2] \in Nat /\ x.nonce[2] <= outgoingNonce[x.from]
    BY DEF BridgeInv, BridgeTypeOK, NoncesIssued, Message, Nonces
  <2>3. m.from = b /\ m.nonce[1] = b /\ m.nonce[2] = n
    BY DEF Nonce
  <2>4. \A x \in network : x.nonce # m.nonce
    BY <2>1, <2>2, <2>3
  <2>5. \A x \in network' : x.nonce[1] = x.from /\ x.nonce[2] <= outgoingNonce'[x.from]
    BY <1>1, <1>3, <2>1, <2>2, <2>3
  <2>6. \A x, y \in network' : x.nonce = y.nonce => x = y
    BY <1>1, <2>4 DEF BridgeInv, NoncesIssued
  <2>7. \A d \in Bridges : \A x \in processedNonces'[d] : x[2] <= outgoingNonce'[x[1]]
    <3>1. \A d \in Bridges : \A x \in processedNonces[d] :
            x[1] \in Bridges /\ x[2] \in Nat /\ x[2] <= outgoingNonce[x[1]]
      BY DEF BridgeInv, BridgeTypeOK, NoncesIssued, Nonces
    <3>. QED BY <1>1, <2>1, <3>1
  <2>. QED BY <2>5, <2>6, <2>7 DEF NoncesIssued
<1>. QED BY <1>4, <1>5, <1>6 DEF BridgeInv

LEMMA ReceiveKeepsInv ==
  ASSUME BridgeInv, NEW m \in network, CcipReceive(m)
  PROVE  BridgeInv'
<1>1. m \in Message
  BY DEF BridgeInv, BridgeTypeOK
<1>2. /\ processedNonces' = [processedNonces EXCEPT ![m.to] = @ \union {m.nonce}]
      /\ board' = [board EXCEPT ![m.to][m.key] = m.value]
      /\ UNCHANGED <<remoteChains, supportedChains, minMessageInterval, outgoingNonce, network>>
  BY DEF CcipReceive, config
<1>3. BridgeTypeOK'
  BY <1>1, <1>2 DEF BridgeInv, BridgeTypeOK, Message
<1>4. SupportedMatchesAllowed' /\ AllowedHasBridge'
  BY <1>2 DEF BridgeInv, SupportedMatchesAllowed, AllowedHasBridge
<1>5. NoncesIssued'
  <2>1. m.nonce[2] <= outgoingNonce[m.nonce[1]]
    BY DEF BridgeInv, NoncesIssued
  <2>2. \A b \in Bridges : processedNonces'[b] \subseteq processedNonces[b] \union {m.nonce}
    BY <1>1, <1>2 DEF BridgeInv, BridgeTypeOK, Message
  <2>. QED BY <1>2, <2>1, <2>2 DEF BridgeInv, NoncesIssued
<1>. QED BY <1>3, <1>4, <1>5 DEF BridgeInv

LEMMA NextKeepsBridgeInv == BridgeInv /\ [BridgeNext]_bridgeVars => BridgeInv'
<1> SUFFICES ASSUME BridgeInv, [BridgeNext]_bridgeVars PROVE BridgeInv'
  OBVIOUS
<1>1. ASSUME NEW b \in Bridges, NEW r \in Bridges, NEW a \in BOOLEAN,
             ConfigureRemoteChain(b, r, a)
      PROVE  BridgeInv'
  BY <1>1, ConfigureKeepsInv
<1>2. ASSUME NEW b \in Bridges, NEW i \in Intervals, SetMinMessageInterval(b, i)
      PROVE  BridgeInv'
  BY <1>2 DEF SetMinMessageInterval, BridgeInv, BridgeTypeOK, SupportedMatchesAllowed,
              AllowedHasBridge, NoncesIssued
<1>3. ASSUME NEW b \in Bridges, NEW c \in Chains, RelayAttestation(b, c)
      PROVE  BridgeInv'
  BY <1>3, SendKeepsInv DEF RelayAttestation, Keys, Values
<1>4. ASSUME NEW b \in Bridges, NEW c \in Chains, SyncPosition(b, c)
      PROVE  BridgeInv'
  BY <1>4, SendKeepsInv DEF SyncPosition, Keys, Values
<1>5. ASSUME NEW m \in network, CcipReceive(m)
      PROVE  BridgeInv'
  BY <1>5, ReceiveKeepsInv
<1>6. CASE BridgeTick
  <2>1. \A b \in Bridges, c \in Chains :
          /\ remoteChains'[b][c].allowed = remoteChains[b][c].allowed
          /\ remoteChains'[b][c].bridge = remoteChains[b][c].bridge
    BY <1>6 DEF BridgeTick, BridgeInv, BridgeTypeOK, RemoteChain
  <2>2. remoteChains' \in [Bridges -> [Chains -> RemoteChain]]
    <3>1. Longest \in Nat
      BY BridgeAssumption
    <3>2. ASSUME NEW b \in Bridges, NEW c \in Chains
          PROVE  [remoteChains[b][c] EXCEPT !.age = IF @ < Longest THEN @ + 1 ELSE @] \in RemoteChain
      <4> DEFINE r == remoteChains[b][c]
      <4>1. r \in RemoteChain /\ r.age \in 0 .. Longest
        BY DEF BridgeInv, BridgeTypeOK, RemoteChain
      <4>2. (IF r.age < Longest THEN r.age + 1 ELSE r.age) \in 0 .. Longest
        BY <3>1, <4>1
      <4>. QED BY <4>1, <4>2, Aged
    <3>. QED BY <1>6, <3>2 DEF BridgeTick
  <2>3. UNCHANGED <<supportedChains, minMessageInterval, outgoingNonce, processedNonces, board, network>>
    BY <1>6 DEF BridgeTick, config
  <2>4. BridgeTypeOK'
    BY <2>2, <2>3 DEF BridgeInv, BridgeTypeOK
  <2>5. SupportedMatchesAllowed' /\ AllowedHasBridge'
    BY <2>1, <2>3 DEF BridgeInv, SupportedMatchesAllowed, AllowedHasBridge
  <2>6. NoncesIssued'
    BY <2>3 DEF BridgeInv, NoncesIssued
  <2>. QED BY <2>4, <2>5, <2>6 DEF BridgeInv
<1>7. CASE UNCHANGED bridgeVars
  BY <1>7 DEF bridgeVars, config, BridgeInv, BridgeTypeOK, SupportedMatchesAllowed,
              AllowedHasBridge, NoncesIssued
<1>. QED BY <1>1, <1>2, <1>3, <1>4, <1>5, <1>6, <1>7, BridgeAssumption DEF BridgeNext

(* The types, the list of supported chains and the nonces hold in every      *)
(* state of the bridges.                                                     *)
THEOREM BridgeInvariant == BridgeSpec => []BridgeInv
<1>. QED BY InitBridgeInv, NextKeepsBridgeInv, PTL DEF BridgeSpec

(* Every variable keeps its type. *)
THEOREM BridgeTypes == BridgeSpec => []BridgeTypeOK
<1>1. BridgeInv => BridgeTypeOK
  BY DEF BridgeInv
<1>. QED BY <1>1, BridgeInvariant, PTL

(* The list of supported chains is the set of allowed ones, without          *)
(* repetitions, after any sequence of configurations.                        *)
THEOREM ListInStep == BridgeSpec => []SupportedMatchesAllowed
<1>1. BridgeInv => SupportedMatchesAllowed
  BY DEF BridgeInv
<1>. QED BY <1>1, BridgeInvariant, PTL

-----------------------------------------------------------------------------
(* The refinement.  Marking a nonce as processed applies the one message     *)
(* that carries it, and sending issues a nonce nobody has seen.              *)
Applied == {m \in network : m.nonce \in processedNonces[m.to]}

LEMMA SendIsSend ==
  ASSUME BridgeInv, NEW b \in Bridges, NEW c \in Chains,
         NEW k \in Keys, NEW v \in Values, Send(b, c, k, v)
  PROVE  Relay!Next
<1> DEFINE n == outgoingNonce[b] + 1
           m == [from |-> b, to |-> remoteChains[b][c].bridge,
                 nonce |-> Nonce(b, n), key |-> k, value |-> v]
<1>1. /\ network' = network \union {m}
      /\ processedNonces' = processedNonces /\ board' = board
      /\ remoteChains[b][c].allowed
  BY DEF Send
<1>2. /\ outgoingNonce[b] \in Nat /\ m.to \in Bridges /\ m \in Message
      /\ m.nonce[1] = b /\ m.nonce[2] = n
  BY <1>1 DEF BridgeInv, BridgeTypeOK, RemoteChain, AllowedHasBridge, Nonce, Nonces, Message
<1>3. m \notin network
  BY <1>2 DEF BridgeInv, NoncesIssued
<1>4. m.nonce \notin processedNonces[m.to]
  BY <1>2 DEF BridgeInv, NoncesIssued
<1>5. Applied' = Applied
  BY <1>1, <1>4 DEF Applied
<1>6. Relay!Send(m)
  BY <1>1, <1>3, <1>5 DEF Relay!Send, Applied
<1>. QED BY <1>1, <1>2, <1>6 DEF Relay!Next

LEMMA ReceiveIsApply ==
  ASSUME BridgeInv, NEW m \in network, CcipReceive(m)
  PROVE  Relay!Next
<1>1. /\ m.nonce \notin processedNonces[m.to]
      /\ processedNonces' = [processedNonces EXCEPT ![m.to] = @ \union {m.nonce}]
      /\ board' = [board EXCEPT ![m.to][m.key] = m.value]
      /\ network' = network
  BY DEF CcipReceive
<1>2. \A x \in network : x.to \in Bridges
  BY DEF BridgeInv, BridgeTypeOK, Message
<1>3. \A x \in network : x.nonce \in processedNonces'[x.to] <=>
                          (x.nonce \in processedNonces[x.to] \/ x = m)
  BY <1>1, <1>2 DEF BridgeInv, BridgeTypeOK, NoncesIssued
<1>4. Applied' = Applied \union {m}
  BY <1>1, <1>3 DEF Applied
<1>5. m \in network \ Applied
  BY <1>1 DEF Applied
<1>6. Relay!Apply(m)
  BY <1>1, <1>4, <1>5 DEF Relay!Apply, Applied
<1>. QED BY <1>6 DEF Relay!Next

(* The bridges implement the board: a message sent goes up at most once, and *)
(* none is shut out by the nonce of another (ccipReceive and _nextNonce).    *)
THEOREM BridgesImplementRelay == BridgeSpec => ImplementsRelay
<1>1. BridgeInit => Relay!Init
  BY DEF BridgeInit, Relay!Init
<1>2. BridgeInv /\ [BridgeNext]_bridgeVars => [Relay!Next]_(Relay!vars)
  <2> SUFFICES ASSUME BridgeInv, [BridgeNext]_bridgeVars PROVE [Relay!Next]_(Relay!vars)
    OBVIOUS
  <2>1. ASSUME NEW b \in Bridges, NEW c \in Chains,
               RelayAttestation(b, c) \/ SyncPosition(b, c)
        PROVE  Relay!Next
    BY <2>1, SendIsSend DEF RelayAttestation, SyncPosition, Keys, Values
  <2>2. ASSUME NEW m \in network, CcipReceive(m) PROVE Relay!Next
    BY <2>2, ReceiveIsApply
  <2>3. ASSUME UNCHANGED <<processedNonces, board, network>> PROVE UNCHANGED Relay!vars
    BY <2>3 DEF Relay!vars
  <2>4. ASSUME NEW b \in Bridges, NEW r \in Bridges, NEW a \in BOOLEAN,
               ConfigureRemoteChain(b, r, a)
        PROVE  UNCHANGED Relay!vars
    BY <2>3, <2>4 DEF ConfigureRemoteChain
  <2>5. ASSUME NEW b \in Bridges, NEW i \in Intervals, SetMinMessageInterval(b, i)
        PROVE  UNCHANGED Relay!vars
    BY <2>3, <2>5 DEF SetMinMessageInterval
  <2>6. CASE BridgeTick \/ UNCHANGED bridgeVars
    BY <2>3, <2>6 DEF BridgeTick, bridgeVars
  <2>. QED BY <2>1, <2>2, <2>4, <2>5, <2>6, BridgeAssumption DEF BridgeNext
<1>. QED BY <1>1, <1>2, BridgeInvariant, PTL DEF BridgeSpec, ImplementsRelay, Relay!Spec
=============================================================================
