----------------------- MODULE AdminFactorVault_proofs -----------------------
(***************************************************************************)
(* Proofs about the on-chain release path, for every set of wallets,       *)
(* recipients, accounts and contracts.                                     *)
(***************************************************************************)
EXTENDS AdminFactorVault, Sums

(* Submitting an attestation keeps the slots well typed and every released *)
(* path released: nothing overwrites a RELEASE.                            *)
LEMMA SubmitKeepsReleases ==
  ASSUME AttestationTypeOK,
         NEW a \in Address, NEW s \in Source, NEW p \in Path, NEW d \in Decision,
         SubmitAttestation(a, s, p, d)
  PROVE  /\ AttestationTypeOK'
         /\ \A q \in Path : Released(q) => Released(q)'
<1>1. attestations' \in [Path -> Attestation]
  BY DEF SubmitAttestation, AttestationTypeOK, Attestation
<1>2. AttestationTypeOK'
  BY <1>1 DEF SubmitAttestation, AttestationTypeOK
<1>3. ASSUME NEW q \in Path, Released(q) PROVE Released(q)'
  <2>1. q # p
    BY <1>3 DEF SubmitAttestation, MayOverwrite
  <2>. QED BY <1>3, <2>1 DEF SubmitAttestation, AttestationTypeOK, Released
<1>. QED BY <1>2, <1>3

(* No path has claimed more than it was allocated.                         *)
NeverOverclaimed ==
  \A p \in Path : claimedShares[p] <= allocatedShares[p]

(* The inductive invariant: the types, with the bound on claims that makes *)
(* every checked subtraction of the escrow succeed, and the fact that only *)
(* released paths have paid anything.                                      *)
ReleaseInv ==
  /\ TypeOK
  /\ NeverOverclaimed
  /\ ClaimedOnlyWhenReleased

LEMMA InitReleaseInv == Init => ReleaseInv
<1> SUFFICES ASSUME Init PROVE ReleaseInv
  OBVIOUS
<1>1. AttestationTypeOK
  BY DEF Init, AttestationInit, AttestationTypeOK, Attestation, EmptySlot, Source, Decision
<1>2. EscrowTypeOK
  BY SharesAssumption DEF Init, EscrowInit, EscrowTypeOK
<1>3. TypeOK
  BY <1>1, <1>2 DEF Init, TypeOK
<1>4. NeverOverclaimed /\ ClaimedOnlyWhenReleased
  BY DEF Init, EscrowInit, NeverOverclaimed, ClaimedOnlyWhenReleased
<1>. QED BY <1>3, <1>4 DEF ReleaseInv

(* The administrative calls leave the slots alone.                         *)
LEMMA AttestKeepsReleases ==
  ASSUME TypeOK, Attest
  PROVE  /\ AttestationTypeOK'
         /\ \A q \in Path : Released(q) => Released(q)'
         /\ UNCHANGED <<escrowVars, afVars>>
<1> USE DEF TypeOK
<1>1. CASE \E a \in Appointable : SetOracleSubmitter(a)
  BY <1>1, AppointableAssumption
     DEF Attest, SetOracleSubmitter, AttestationTypeOK, Released
<1>2. CASE \E a \in Appointable, allowed \in BOOLEAN : SetFallbackSubmitter(a, allowed)
  BY <1>2, AppointableAssumption
     DEF Attest, SetFallbackSubmitter, AttestationTypeOK, Released
<1>3. CASE \E a \in Accounts, s \in Source, p \in Path, d \in Decision :
             SubmitAttestation(a, s, p, d)
  BY <1>3, SubmitKeepsReleases DEF Attest, Address
<1>. QED BY <1>1, <1>2, <1>3 DEF Attest

(* A share transfer keeps balances natural numbers.                        *)
LEMMA TransferType ==
  ASSUME sharesOf \in [Address -> Nat],
         NEW from \in Address, NEW to \in Address, NEW n \in Nat,
         TransferShares(from, to, n)
  PROVE  sharesOf' \in [Address -> Nat] /\ UNCHANGED transferExempt
<1>1. CASE from = to
  BY <1>1 DEF TransferShares
<1>2. CASE from # to
  BY <1>2 DEF TransferShares
<1>. QED BY <1>1, <1>2

(* Giving shares back lowers one allocation, of an unreleased path, by no  *)
(* more than what remains of it.                                           *)
LEMMA GiveBackStep ==
  ASSUME EscrowTypeOK, NeverOverclaimed,
         NEW p \in Path, NEW n \in Nat, NEW owner \in Accounts,
         GiveBack(p, n, owner)
  PROVE  /\ EscrowTypeOK'
         /\ NeverOverclaimed'
         /\ UNCHANGED claimedShares
<1> USE EscrowAssumption DEF EscrowTypeOK
<1>0. p[1] \in Wallets
  BY DEF Path
<1>1. sharesOf' \in [Address -> Nat] /\ UNCHANGED transferExempt
  BY TransferType DEF GiveBack, Address
<1>2. totalDeposited' \in [Wallets -> Nat]
  BY <1>0 DEF GiveBack
<1>3. n <= allocatedShares[p] - claimedShares[p]
  BY DEF GiveBack, Remaining
<1>4. /\ allocatedShares' = [allocatedShares EXCEPT ![p] = @ - n]
      /\ UNCHANGED <<walletOwner, claimedShares, adminFactorVault>>
  BY DEF GiveBack
<1>5. allocatedShares' \in [Path -> Nat]
  BY <1>3, <1>4
<1>6. EscrowTypeOK'
  BY <1>1, <1>2, <1>4, <1>5
<1>7. NeverOverclaimed'
  BY <1>3, <1>4 DEF NeverOverclaimed
<1>. QED BY <1>4, <1>6, <1>7

LEMMA ClaimStep ==
  ASSUME EscrowTypeOK, NeverOverclaimed,
         NEW a \in Accounts, NEW p \in Path, NEW to \in Address, NEW n \in Nat,
         NEW asAsset \in BOOLEAN,
         Claim(a, p, to, n, asAsset)
  PROVE  /\ EscrowTypeOK'
         /\ NeverOverclaimed'
         /\ Released(p)
         /\ n <= Remaining(p)
         /\ claimedShares' = [claimedShares EXCEPT ![p] = @ + n]
         /\ UNCHANGED allocatedShares
<1> USE EscrowAssumption DEF EscrowTypeOK
<1>0. p[1] \in Wallets /\ Escrow \in Address
  BY DEF Path, Address
<1>1. sharesOf' \in [Address -> Nat] /\ UNCHANGED transferExempt
  <2>1. CASE asAsset
    BY <1>0, <2>1 DEF Claim
  <2>2. CASE ~asAsset
    BY <1>0, <2>2, TransferType DEF Claim
  <2>. QED BY <2>1, <2>2
<1>2. totalDeposited' \in [Wallets -> Nat]
  BY <1>0 DEF Claim
<1>3. /\ Released(p)
      /\ n <= Remaining(p)
      /\ claimedShares' = [claimedShares EXCEPT ![p] = @ + n]
      /\ UNCHANGED <<walletOwner, allocatedShares, adminFactorVault>>
  BY DEF Claim
<1>4. claimedShares' \in [Path -> Nat]
  BY <1>3
<1>5. NeverOverclaimed'
  BY <1>3 DEF NeverOverclaimed, Remaining
<1>. QED BY <1>1, <1>2, <1>3, <1>4, <1>5

LEMMA DepositStep ==
  ASSUME EscrowTypeOK, NeverOverclaimed,
         NEW a \in Accounts, NEW w \in Wallets, NEW n \in Nat,
         NEW allot \in [Indices -> Nat],
         Deposit(a, w, n, allot)
  PROVE  /\ EscrowTypeOK'
         /\ NeverOverclaimed'
         /\ \A p \in Path : allocatedShares'[p] >= allocatedShares[p]
         /\ UNCHANGED claimedShares
<1> USE EscrowAssumption DEF EscrowTypeOK
<1>1. sharesOf' \in [Address -> Nat] /\ UNCHANGED transferExempt
  BY TransferType DEF Deposit, Address
<1>2. totalDeposited' \in [Wallets -> Nat]
  BY DEF Deposit
<1>3. /\ allocatedShares' = [p \in Path |->
           IF p[1] = w THEN allocatedShares[p] + allot[p[2]] ELSE allocatedShares[p]]
      /\ UNCHANGED <<walletOwner, claimedShares, adminFactorVault>>
  BY DEF Deposit
<1>4. \A p \in Path : allot[p[2]] \in Nat
  BY DEF Path
<1>5. /\ allocatedShares' \in [Path -> Nat]
      /\ \A p \in Path : allocatedShares'[p] >= allocatedShares[p]
  BY <1>3, <1>4
<1>6. NeverOverclaimed'
  BY <1>3, <1>5 DEF NeverOverclaimed
<1>. QED BY <1>1, <1>2, <1>3, <1>5, <1>6

LEMMA NextReleaseInv == ReleaseInv /\ [Next]_vars => ReleaseInv'
<1> SUFFICES ASSUME ReleaseInv, [Next]_vars PROVE ReleaseInv'
  OBVIOUS
<1> USE DEF ReleaseInv, TypeOK
<1>1. CASE Attest
  <2>1. /\ AttestationTypeOK'
        /\ \A q \in Path : Released(q) => Released(q)'
        /\ UNCHANGED <<escrowVars, afVars>>
    BY <1>1, AttestKeepsReleases
  <2>2. EscrowTypeOK' /\ NeverOverclaimed' /\ UNCHANGED claimedShares
    BY <2>1 DEF escrowVars, bookVars, vaultVars, EscrowTypeOK, NeverOverclaimed
  <2>. QED BY <2>1, <2>2 DEF afVars, ClaimedOnlyWhenReleased
<1>2. CASE EscrowCall
  <2>1. /\ AttestationTypeOK'
        /\ \A q \in Path : Released(q) <=> Released(q)'
        /\ UNCHANGED afVars
    BY <1>2 DEF EscrowCall, attestationVars, AttestationTypeOK, Released
  <2>2. CASE \E w \in Wallets, a \in Accounts : RegisterWallet(w, a)
    <3>1. EscrowTypeOK' /\ NeverOverclaimed' /\ UNCHANGED claimedShares
      BY <2>2 DEF RegisterWallet, bookVars, vaultVars, EscrowTypeOK, NeverOverclaimed
    <3>. QED BY <2>1, <3>1 DEF afVars, ClaimedOnlyWhenReleased
  <2>3. CASE \E a \in Appointable : SetAdminFactorVault(a)
    <3>1. EscrowTypeOK' /\ NeverOverclaimed' /\ UNCHANGED claimedShares
      BY <2>3, AppointableAssumption
         DEF SetAdminFactorVault, bookVars, vaultVars, EscrowTypeOK, NeverOverclaimed
    <3>. QED BY <2>1, <3>1 DEF afVars, ClaimedOnlyWhenReleased
  <2>4. CASE \E a \in Accounts, w \in Wallets : \E n \in 1 .. sharesOf[a] :
               \E allot \in [Indices -> 0 .. n] : Deposit(a, w, n, allot)
    <3>0. PICK a \in Accounts, w \in Wallets : \E n \in 1 .. sharesOf[a] :
                 \E allot \in [Indices -> 0 .. n] : Deposit(a, w, n, allot)
      BY <2>4
    <3>0b. PICK n \in 1 .. sharesOf[a] :
                 \E allot \in [Indices -> 0 .. n] : Deposit(a, w, n, allot)
      BY <3>0
    <3>1. PICK allot \in [Indices -> 0 .. n] : Deposit(a, w, n, allot)
      BY <3>0b
    <3>2. n \in Nat /\ allot \in [Indices -> Nat]
      BY DEF EscrowTypeOK, Address
    <3>3. EscrowTypeOK' /\ NeverOverclaimed' /\ UNCHANGED claimedShares
      BY <3>1, <3>2, DepositStep
    <3>. QED BY <2>1, <3>3 DEF afVars, ClaimedOnlyWhenReleased
  <2>5. CASE \E a \in Accounts, p \in Path, to \in Accounts \union {Escrow},
                asAsset \in BOOLEAN :
               \E n \in 1 .. allocatedShares[p] : Claim(a, p, to, n, asAsset)
    <3>0. PICK a \in Accounts, p \in Path, to \in Accounts \union {Escrow},
               asAsset \in BOOLEAN :
                 \E n \in 1 .. allocatedShares[p] : Claim(a, p, to, n, asAsset)
      BY <2>5
    <3>1. PICK n \in 1 .. allocatedShares[p] : Claim(a, p, to, n, asAsset)
      BY <3>0
    <3>2. n \in Nat /\ to \in Address
      BY EscrowAssumption DEF Address, EscrowTypeOK
    <3>3. /\ EscrowTypeOK' /\ NeverOverclaimed'
          /\ Released(p)
          /\ claimedShares' = [claimedShares EXCEPT ![p] = @ + n]
      BY <3>1, <3>2, ClaimStep
    <3>4. ClaimedOnlyWhenReleased'
      BY <2>1, <3>3 DEF ClaimedOnlyWhenReleased, EscrowTypeOK
    <3>. QED BY <2>1, <3>3, <3>4 DEF afVars
  <2>6. CASE \E a \in Accounts, p \in Path :
               \E n \in 1 .. allocatedShares[p] : Reclaim(a, p, n)
    <3>0. PICK a \in Accounts, p \in Path :
                 \E n \in 1 .. allocatedShares[p] : Reclaim(a, p, n)
      BY <2>6
    <3>1. PICK n \in 1 .. allocatedShares[p] : GiveBack(p, n, a)
      BY <3>0 DEF Reclaim
    <3>2. EscrowTypeOK' /\ NeverOverclaimed' /\ UNCHANGED claimedShares
      BY <3>1, GiveBackStep
    <3>. QED BY <2>1, <3>2 DEF afVars, ClaimedOnlyWhenReleased
  <2>7. CASE \E a \in Accounts : \E n \in 1 .. sharesOf[a] : SendShares(a, n)
    <3>0. PICK a \in Accounts : \E n \in 1 .. sharesOf[a] : SendShares(a, n)
      BY <2>7
    <3>1. PICK n \in 1 .. sharesOf[a] : SendShares(a, n)
      BY <3>0
    <3>2. sharesOf' \in [Address -> Nat] /\ UNCHANGED transferExempt
      BY <3>1, EscrowAssumption, TransferType DEF SendShares, Address, EscrowTypeOK
    <3>3. EscrowTypeOK' /\ NeverOverclaimed' /\ UNCHANGED claimedShares
      BY <3>1, <3>2 DEF SendShares, bookVars, EscrowTypeOK, NeverOverclaimed
    <3>. QED BY <2>1, <3>3 DEF afVars, ClaimedOnlyWhenReleased
  <2>8. CASE \E a \in Exemptible, exempt \in BOOLEAN : SetTransferExempt(a, exempt)
    <3>1. EscrowTypeOK' /\ NeverOverclaimed' /\ UNCHANGED claimedShares
      BY <2>8, ExemptibleAssumption
         DEF SetTransferExempt, bookVars, EscrowTypeOK, NeverOverclaimed
    <3>. QED BY <2>1, <3>1 DEF afVars, ClaimedOnlyWhenReleased
  <2>. QED BY <1>2, <2>2, <2>3, <2>4, <2>5, <2>6, <2>7, <2>8 DEF EscrowCall
<1>3. CASE AdminFactorCall
  <2>1. PICK a \in Accounts, p \in Path :
          \/ Store(a, p) /\ UNCHANGED <<attestationVars, escrowVars>>
          \/ Destroy(a, p)
          \/ DestroyAndReclaim(a, p)
    BY <1>3 DEF AdminFactorCall
  <2>2. CASE Store(a, p) /\ UNCHANGED <<attestationVars, escrowVars>>
    BY <2>2 DEF Store, attestationVars, AttestationTypeOK, Released,
       escrowVars, bookVars, vaultVars, EscrowTypeOK, NeverOverclaimed, ClaimedOnlyWhenReleased
  <2>3. ASSUME DestroyFactor(a, p)
        PROVE  /\ AttestationTypeOK'
               /\ \A q \in Path : Released(q) => Released(q)'
               /\ (afOwner \in [Path -> Accounts \union {NoAddress}])'
               /\ (ciphertext \subseteq Path)'
    <3>1. CASE SubmitAttestation(Afv, "fallback", p, "reject")
      BY <2>3, <3>1, AfvAssumption, SubmitKeepsReleases
         DEF DestroyFactor, Address, Source, Decision
    <3>2. CASE UNCHANGED attestationVars
      BY <2>3, <3>2 DEF DestroyFactor, attestationVars, AttestationTypeOK, Released
    <3>. QED BY <2>3, <3>1, <3>2 DEF DestroyFactor, RejectSlot
  <2>4. CASE DestroyFactor(a, p) /\ UNCHANGED escrowVars
    <3>1. EscrowTypeOK' /\ NeverOverclaimed' /\ UNCHANGED claimedShares
      BY <2>4 DEF escrowVars, bookVars, vaultVars, EscrowTypeOK, NeverOverclaimed
    <3>. QED BY <2>3, <2>4, <3>1 DEF ClaimedOnlyWhenReleased
  <2>5. CASE DestroyFactor(a, p) /\ GiveBack(p, Remaining(p), a)
    <3>1. Remaining(p) \in Nat
      BY DEF Remaining, NeverOverclaimed, EscrowTypeOK
    <3>2. EscrowTypeOK' /\ NeverOverclaimed' /\ UNCHANGED claimedShares
      BY <2>5, <3>1, GiveBackStep
    <3>. QED BY <2>3, <2>5, <3>2 DEF ClaimedOnlyWhenReleased
  <2>. QED BY <2>1, <2>2, <2>4, <2>5 DEF Destroy, DestroyAndReclaim, ReclaimFor
<1>4. CASE UNCHANGED vars
  BY <1>4 DEF vars, attestationVars, AttestationTypeOK, Released, afVars,
     escrowVars, bookVars, vaultVars, EscrowTypeOK, NeverOverclaimed, ClaimedOnlyWhenReleased
<1>. QED BY <1>1, <1>2, <1>3, <1>4 DEF Next

LEMMA ReleaseInvariant == Spec => []ReleaseInv
BY InitReleaseInv, NextReleaseInv, PTL DEF Spec

(* Every variable of the three contracts keeps its type.                   *)
THEOREM TypeCorrect == Spec => []TypeOK
<1>1. ReleaseInv => TypeOK
  BY DEF ReleaseInv
<1>. QED BY <1>1, ReleaseInvariant, PTL

(* Money leaves a path for its recipient only if the path is released, and *)
(* the release is never taken back afterwards.                             *)
THEOREM ClaimsNeedRelease == Spec => []ClaimedOnlyWhenReleased
<1>1. ReleaseInv => ClaimedOnlyWhenReleased
  BY DEF ReleaseInv
<1>. QED BY <1>1, ReleaseInvariant, PTL

(* Checked arithmetic never reverts a claim or a reclaim: no path claims   *)
(* more than its allocation.                                               *)
THEOREM NoOverclaim == Spec => []NeverOverclaimed
<1>1. ReleaseInv => NeverOverclaimed
  BY DEF ReleaseInv
<1>. QED BY <1>1, ReleaseInvariant, PTL

(* A released path keeps its admin factor.                                 *)
THEOREM FactorSurvivesRelease == Spec => HeirKeepsFactor
<1>1. ASSUME [Next]_vars,
             NEW p \in Path, Released(p), p \in ciphertext
      PROVE  p \in ciphertext'
  <2>1. CASE Attest \/ EscrowCall \/ UNCHANGED vars
    BY <1>1, <2>1 DEF Attest, EscrowCall, afVars, vars
  <2>2. CASE AdminFactorCall
    BY <1>1, <2>2 DEF AdminFactorCall, Store, Destroy, DestroyAndReclaim,
       DestroyFactor, afVars
  <2>. QED BY <1>1, <2>1, <2>2 DEF Next
<1>2. [Next]_vars => [\A p \in Path : Released(p) /\ p \in ciphertext => p \in ciphertext']_vars
  BY <1>1
<1>. QED BY <1>2, PTL DEF Spec, HeirKeepsFactor

(* No transaction empties a slot that holds an attestation, and one that   *)
(* destroys a factor finds or leaves one.                                  *)
LEMMA SlotsStayFull ==
  ASSUME TypeOK, [Next]_vars, NEW p \in Path, attestations[p].exists
  PROVE  attestations'[p].exists
<1>1. CASE UNCHANGED attestations
  BY <1>1
<1>2. ASSUME NEW a, NEW s, NEW q \in Path, NEW d, SubmitAttestation(a, s, q, d)
      PROVE  attestations'[p].exists
  BY <1>2 DEF SubmitAttestation, TypeOK, AttestationTypeOK
<1>3. CASE Attest
  BY <1>1, <1>2, <1>3 DEF Attest, SetOracleSubmitter, SetFallbackSubmitter
<1>4. CASE EscrowCall
  BY <1>1, <1>4 DEF EscrowCall, attestationVars
<1>5. CASE AdminFactorCall
  <2>1. ASSUME NEW a \in Accounts, NEW q \in Path, DestroyFactor(a, q)
        PROVE  attestations'[p].exists
    BY <1>1, <1>2, <2>1 DEF DestroyFactor, RejectSlot, attestationVars
  <2>. QED BY <1>1, <1>5, <2>1
    DEF AdminFactorCall, Store, Destroy, DestroyAndReclaim, attestationVars
<1>. QED BY <1>1, <1>3, <1>4, <1>5 DEF Next, vars, attestationVars

LEMMA DestroyLeavesSlot ==
  ASSUME TypeOK, NEW a, NEW p \in Path, DestroyFactor(a, p)
  PROVE  attestations'[p].exists
<1>1. CASE SubmitAttestation(Afv, "fallback", p, "reject")
  BY <1>1 DEF SubmitAttestation, TypeOK, AttestationTypeOK
<1>2. CASE /\ attestations[p].exists
           /\ UNCHANGED attestationVars
  BY <1>2 DEF attestationVars
<1>. QED BY <1>1, <1>2 DEF DestroyFactor, RejectSlot

LEMMA DestroyStep ==
  ASSUME TypeOK, DestroyLeavesDecision, [Next]_vars
  PROVE  DestroyLeavesDecision'
<1>. SUFFICES ASSUME NEW p \in Path, Destroyed(p)' PROVE attestations'[p].exists
  BY DEF DestroyLeavesDecision
<1>1. CASE Destroyed(p)
  BY <1>1, SlotsStayFull DEF DestroyLeavesDecision
<1>2. CASE ~Destroyed(p)
  <2>1. PICK a \in Accounts, q \in Path :
          Store(a, q) \/ DestroyFactor(a, q)
    BY <1>2 DEF Next, Attest, EscrowCall, AdminFactorCall, Destroy, DestroyAndReclaim, vars,
         afVars, Destroyed
  <2>2. CASE Store(a, q)
    BY <1>2, <2>2 DEF Store, Destroyed, TypeOK
  <2>3. CASE DestroyFactor(a, q)
    <3>1. q = p
      BY <1>2, <2>3 DEF DestroyFactor, Destroyed
    <3>. QED BY <2>3, <3>1, DestroyLeavesSlot
  <2>. QED BY <2>1, <2>2, <2>3
<1>. QED BY <1>1, <1>2

(* Whatever was attested before, by whomever, a path whose factor was       *)
(* destroyed never looks undecided (destroy and destroyAndReclaim).         *)
THEOREM DestroyedIsDecided == Spec => []DestroyLeavesDecision
<1>1. Init => DestroyLeavesDecision
  BY DEF Init, DestroyLeavesDecision, Destroyed
<1>2. ReleaseInv => TypeOK
  BY DEF ReleaseInv
<1>. QED BY <1>1, <1>2, DestroyStep, ReleaseInvariant, PTL DEF Spec

-----------------------------------------------------------------------------
(* The two sets of books.                                                  *)

Left(w) == [i \in Indices |-> Remaining(<<w, i>>)]
BooksInv == ReleaseInv /\ BooksBalance /\ EscrowSolvent

LEMMA BooksBalanceIs ==
  BooksBalance <=> \A w \in Wallets : totalDeposited[w] = SumFunctionOnSet(Left(w), Indices)
<1>1. \A w \in Wallets : DOMAIN Left(w) = Indices
  BY DEF Left
<1>. QED BY <1>1 DEF BooksBalance, Left, SumFunction

LEMMA EscrowSolventIs ==
  ASSUME EscrowTypeOK
  PROVE  EscrowSolvent <=> sharesOf[Escrow] >= SumFunctionOnSet(totalDeposited, Wallets)
<1>1. DOMAIN totalDeposited = Wallets
  BY DEF EscrowTypeOK
<1>. QED BY <1>1 DEF EscrowSolvent, SumFunction

LEMMA BooksBalanceIsNext ==
  BooksBalance' <=> \A w \in Wallets : totalDeposited'[w] = SumFunctionOnSet(Left(w)', Indices)
<1>1. BooksBalance'
        <=> (\A w \in Wallets : totalDeposited[w] = SumFunctionOnSet(Left(w), Indices))'
  BY BooksBalanceIs, PTL
<1>. QED BY <1>1

LEMMA EscrowSolventIsNext ==
  ASSUME EscrowTypeOK'
  PROVE  EscrowSolvent' <=> sharesOf'[Escrow] >= SumFunctionOnSet(totalDeposited', Wallets)
<1>1. DOMAIN totalDeposited' = Wallets
  BY DEF EscrowTypeOK
<1>. QED BY <1>1 DEF EscrowSolvent, SumFunction

LEMMA LeftType ==
  ASSUME EscrowTypeOK, NEW w \in Wallets
  PROVE  \A i \in Indices : <<w, i>> \in Path /\ Left(w)[i] = Remaining(<<w, i>>) /\ Left(w)[i] \in Int
BY DEF Left, Remaining, EscrowTypeOK, Path

LEMMA LeftTypeNext ==
  ASSUME EscrowTypeOK', NEW w \in Wallets
  PROVE  \A i \in Indices : Left(w)'[i] = Remaining(<<w, i>>)' /\ Left(w)'[i] \in Int
BY DEF Left, Remaining, EscrowTypeOK, Path

(* Shares leave one path: both books go down by as much.                   *)
LEMMA PathPays ==
  ASSUME EscrowTypeOK, EscrowTypeOK', BooksBalance, NEW p \in Path, NEW n \in Nat,
         Remaining(p)' = Remaining(p) - n,
         \A q \in Path : q # p => Remaining(q)' = Remaining(q),
         totalDeposited' = [totalDeposited EXCEPT ![p[1]] = @ - n]
  PROVE  BooksBalance'
<1>1. SUFFICES ASSUME NEW w \in Wallets
               PROVE  totalDeposited'[w] = SumFunctionOnSet(Left(w)', Indices)
  BY BooksBalanceIsNext
<1>2. p[1] \in Wallets /\ p[2] \in Indices /\ p = <<p[1], p[2]>>
  BY DEF Path
<1>3. totalDeposited[w] = SumFunctionOnSet(Left(w), Indices) /\ totalDeposited[w] \in Int
  BY BooksBalanceIs DEF EscrowTypeOK
<1>4. \A i \in Indices : <<w, i>> \in Path /\ Left(w)[i] = Remaining(<<w, i>>) /\ Left(w)[i] \in Int
  BY LeftType
<1>5. \A i \in Indices : Left(w)'[i] = Remaining(<<w, i>>)' /\ Left(w)'[i] \in Int
  BY LeftTypeNext
<1>6. CASE w = p[1]
  <2>1. \A i \in Indices : <<w, i>>[2] = i
    OBVIOUS
  <2>2. \A i \in Indices : i # p[2] => <<w, i>> # p
    BY <2>1
  <2>3. \A i \in Indices : i # p[2] => Left(w)'[i] = Left(w)[i]
    BY <1>4, <1>5, <2>2
  <2>4. <<w, p[2]>> = p
    BY <1>2, <1>6
  <2>5. Left(w)'[p[2]] = Left(w)[p[2]] - n /\ Left(w)[p[2]] \in Int
    BY <1>2, <1>4, <1>5, <2>4
  <2>6. SumFunctionOnSet(Left(w)', Indices)
          = SumFunctionOnSet(Left(w), Indices) + Left(w)'[p[2]] - Left(w)[p[2]]
    <3>1. IsFiniteSet(Indices) /\ p[2] \in Indices
      BY <1>2, PathAssumption
    <3>2. \A i \in Indices : Left(w)[i] \in Int /\ Left(w)'[i] \in Int
      BY <1>4, <1>5
    <3>. QED BY ONLY <2>3, <3>1, <3>2, SumUpdate
  <2>7. totalDeposited'[w] = totalDeposited[w] - n
    BY <1>6 DEF EscrowTypeOK
  <2>. QED BY <1>3, <2>5, <2>6, <2>7
<1>7. CASE w # p[1]
  <2>1. \A i \in Indices : <<w, i>> # p
    BY <1>7
  <2>2. \A i \in Indices : Left(w)[i] = Left(w)'[i]
    BY <1>4, <1>5, <2>1
  <2>3. SumFunctionOnSet(Left(w), Indices) = SumFunctionOnSet(Left(w)', Indices)
    BY <2>2, SumAlike, PathAssumption
  <2>4. totalDeposited'[w] = totalDeposited[w]
    BY <1>2, <1>7 DEF EscrowTypeOK
  <2>. QED BY <1>3, <2>3, <2>4
<1>. QED BY <1>6, <1>7

(* A deposit adds the same to the plan's total and, in parts, to its paths. *)
LEMMA DepositBalances ==
  ASSUME EscrowTypeOK, EscrowTypeOK', BooksBalance,
         NEW a, NEW w \in Wallets, NEW n \in Nat,
         NEW allot \in [Indices -> Nat], Deposit(a, w, n, allot)
  PROVE  BooksBalance'
<1>1. SUFFICES ASSUME NEW v \in Wallets
               PROVE  totalDeposited'[v] = SumFunctionOnSet(Left(v)', Indices)
  BY BooksBalanceIsNext
<1>2. /\ allocatedShares' = [p \in Path |->
           IF p[1] = w THEN allocatedShares[p] + allot[p[2]] ELSE allocatedShares[p]]
      /\ claimedShares' = claimedShares
      /\ totalDeposited' = [totalDeposited EXCEPT ![w] = @ + n]
  BY DEF Deposit
<1>3. totalDeposited[v] = SumFunctionOnSet(Left(v), Indices) /\ totalDeposited[v] \in Int
  BY BooksBalanceIs DEF EscrowTypeOK
<1>4. \A i \in Indices : <<v, i>> \in Path /\ Left(v)[i] = Remaining(<<v, i>>) /\ Left(v)[i] \in Int
  BY LeftType
<1>5. \A i \in Indices : Left(v)'[i] = Remaining(<<v, i>>)' /\ Left(v)'[i] \in Int
  BY LeftTypeNext
<1>6. CASE v = w
  <2>1. SumFunctionOnSet(allot, Indices) = n
    <3>1. DOMAIN allot = Indices
      OBVIOUS
    <3>. QED BY <3>1 DEF Deposit, SumFunction
  <2>2. \A i \in Indices : Left(v)'[i] = Left(v)[i] + allot[i] /\ allot[i] \in Int
    <3>1. SUFFICES ASSUME NEW i \in Indices
                   PROVE  Left(v)'[i] = Left(v)[i] + allot[i] /\ allot[i] \in Int
      OBVIOUS
    <3>2. allocatedShares'[<<v, i>>] = allocatedShares[<<v, i>>] + allot[i]
      BY <1>2, <1>4, <1>6
    <3>3. allocatedShares[<<v, i>>] \in Int /\ claimedShares[<<v, i>>] \in Int /\ allot[i] \in Int
      BY <1>4 DEF EscrowTypeOK
    <3>4. Left(v)'[i] = allocatedShares'[<<v, i>>] - claimedShares[<<v, i>>]
      BY <1>2, <1>5 DEF Remaining
    <3>5. Left(v)[i] = allocatedShares[<<v, i>>] - claimedShares[<<v, i>>]
      BY <1>4 DEF Remaining
    <3>. QED BY <3>2, <3>3, <3>4, <3>5
  <2>3. SumFunctionOnSet(Left(v)', Indices)
          = SumFunctionOnSet(Left(v), Indices) + SumFunctionOnSet(allot, Indices)
    <3>1. \A i \in Indices :
            Left(v)[i] \in Int /\ allot[i] \in Int /\ Left(v)'[i] = Left(v)[i] + allot[i]
      BY <1>4, <2>2
    <3>2. IsFiniteSet(Indices)
      BY PathAssumption
    <3>. HIDE DEF Left
    <3>. QED BY ONLY <3>1, <3>2, SumTogether
  <2>4. totalDeposited'[v] = totalDeposited[v] + n
    BY <1>2, <1>6 DEF EscrowTypeOK
  <2>. QED BY <1>3, <2>1, <2>3, <2>4
<1>7. CASE v # w
  <2>1. \A i \in Indices : Left(v)[i] = Left(v)'[i]
    BY <1>2, <1>4, <1>5, <1>7 DEF Remaining
  <2>2. SumFunctionOnSet(Left(v), Indices) = SumFunctionOnSet(Left(v)', Indices)
    BY <2>1, SumAlike, PathAssumption
  <2>3. totalDeposited'[v] = totalDeposited[v]
    BY <1>2, <1>7 DEF EscrowTypeOK
  <2>. QED BY <1>3, <2>2, <2>3
<1>. QED BY <1>6, <1>7

(* One plan's total changes, and what the escrow holds by at least as much. *)
LEMMA StaysSolvent ==
  ASSUME EscrowTypeOK, EscrowTypeOK', EscrowSolvent, NEW w \in Wallets, NEW n \in Int,
         totalDeposited' = [totalDeposited EXCEPT ![w] = @ + n],
         sharesOf'[Escrow] >= sharesOf[Escrow] + n
  PROVE  EscrowSolvent'
<1>1. \A v \in Wallets : totalDeposited[v] \in Int /\ totalDeposited'[v] \in Int
  BY DEF EscrowTypeOK
<1>2. /\ \A v \in Wallets : v # w => totalDeposited'[v] = totalDeposited[v]
      /\ totalDeposited'[w] = totalDeposited[w] + n
  BY DEF EscrowTypeOK
<1>3. SumFunctionOnSet(totalDeposited', Wallets)
        = SumFunctionOnSet(totalDeposited, Wallets) + totalDeposited'[w] - totalDeposited[w]
  <2>1. IsFiniteSet(Wallets) /\ w \in Wallets
    BY PathAssumption
  <2>. QED BY ONLY <1>1, <1>2, <2>1, SumUpdate
<1>4. SumFunctionOnSet(totalDeposited, Wallets) \in Int
  BY <1>1, SumType, PathAssumption
<1>5. sharesOf[Escrow] \in Int /\ sharesOf'[Escrow] \in Int
  BY EscrowAssumption DEF EscrowTypeOK, Address
<1>6. sharesOf[Escrow] >= SumFunctionOnSet(totalDeposited, Wallets)
  BY EscrowSolventIs
<1>. QED BY <1>1, <1>2, <1>3, <1>4, <1>5, <1>6, EscrowSolventIsNext

LEMMA GiveBackBalances ==
  ASSUME EscrowTypeOK, EscrowTypeOK', BooksBalance, EscrowSolvent,
         NEW p \in Path, NEW n \in Nat, NEW owner \in Accounts, GiveBack(p, n, owner)
  PROVE  BooksBalance' /\ EscrowSolvent'
<1>1. /\ allocatedShares' = [allocatedShares EXCEPT ![p] = @ - n]
      /\ claimedShares' = claimedShares
      /\ totalDeposited' = [totalDeposited EXCEPT ![p[1]] = @ - n]
      /\ TransferShares(Escrow, owner, n)
  BY DEF GiveBack
<1>2. p[1] \in Wallets /\ totalDeposited[p[1]] \in Int
  BY DEF Path, EscrowTypeOK
<1>3. /\ Remaining(p)' = Remaining(p) - n
      /\ \A q \in Path : q # p => Remaining(q)' = Remaining(q)
  BY <1>1 DEF Remaining, EscrowTypeOK
<1>4. BooksBalance'
  BY <1>1, <1>3, PathPays
<1>5. sharesOf'[Escrow] = sharesOf[Escrow] - n /\ sharesOf[Escrow] \in Int
  BY <1>1, EscrowAssumption DEF TransferShares, EscrowTypeOK, Address
<1>6. totalDeposited' = [totalDeposited EXCEPT ![p[1]] = @ + (-n)]
  BY <1>1, <1>2
<1>7. -n \in Int /\ sharesOf'[Escrow] >= sharesOf[Escrow] + (-n)
  BY <1>5
<1>8. EscrowSolvent'
  BY <1>2, <1>6, <1>7, StaysSolvent
<1>. QED BY <1>4, <1>8

LEMMA ClaimBalances ==
  ASSUME EscrowTypeOK, EscrowTypeOK', BooksBalance, EscrowSolvent,
         NEW a, NEW p \in Path, NEW to \in Address, NEW n \in Nat, NEW asAsset,
         Claim(a, p, to, n, asAsset)
  PROVE  BooksBalance' /\ EscrowSolvent'
<1>1. /\ claimedShares' = [claimedShares EXCEPT ![p] = @ + n]
      /\ allocatedShares' = allocatedShares
      /\ totalDeposited' = [totalDeposited EXCEPT ![p[1]] = @ - n]
      /\ \/ sharesOf' = [sharesOf EXCEPT ![Escrow] = @ - n]
         \/ TransferShares(Escrow, to, n)
  BY DEF Claim
<1>2. p[1] \in Wallets /\ totalDeposited[p[1]] \in Int
  BY DEF Path, EscrowTypeOK
<1>3. /\ Remaining(p)' = Remaining(p) - n
      /\ \A q \in Path : q # p => Remaining(q)' = Remaining(q)
  BY <1>1 DEF Remaining, EscrowTypeOK
<1>4. BooksBalance'
  BY <1>1, <1>3, PathPays
<1>5. sharesOf'[Escrow] >= sharesOf[Escrow] - n /\ sharesOf[Escrow] \in Int
  BY <1>1, EscrowAssumption DEF TransferShares, EscrowTypeOK, Address
<1>6. totalDeposited' = [totalDeposited EXCEPT ![p[1]] = @ + (-n)]
  BY <1>1, <1>2
<1>7. -n \in Int /\ sharesOf'[Escrow] >= sharesOf[Escrow] + (-n)
  BY <1>5
<1>8. EscrowSolvent'
  BY <1>2, <1>6, <1>7, StaysSolvent
<1>. QED BY <1>4, <1>8

(* Nothing moves, or shares are sent to the escrow outside its books.      *)
LEMMA BooksUntouched ==
  ASSUME EscrowTypeOK, EscrowTypeOK', BooksBalance, EscrowSolvent, UNCHANGED bookVars,
         sharesOf'[Escrow] >= sharesOf[Escrow]
  PROVE  BooksBalance' /\ EscrowSolvent'
<1>1. BooksBalance'
  <2>1. \A w \in Wallets : Left(w)' = Left(w)
    BY DEF Left, Remaining, bookVars
  <2>. QED BY <2>1, BooksBalanceIs, BooksBalanceIsNext DEF bookVars
<1>2. EscrowSolvent'
  <2>1. sharesOf[Escrow] \in Int /\ sharesOf'[Escrow] \in Int
    BY EscrowAssumption DEF EscrowTypeOK, Address
  <2>2. SumFunctionOnSet(totalDeposited, Wallets) \in Int
    BY SumType, PathAssumption DEF EscrowTypeOK
  <2>. QED BY <2>1, <2>2, EscrowSolventIs, EscrowSolventIsNext DEF bookVars
<1>. QED BY <1>1, <1>2

LEMMA EscrowCallBalances ==
  ASSUME BooksInv, ReleaseInv', EscrowCall
  PROVE  BooksBalance' /\ EscrowSolvent'
<1>. USE DEF BooksInv, ReleaseInv, TypeOK
<1>1. CASE \/ \E w \in Wallets, a \in Accounts : RegisterWallet(w, a)
           \/ \E a \in Appointable : SetAdminFactorVault(a)
           \/ \E a \in Exemptible, exempt \in BOOLEAN : SetTransferExempt(a, exempt)
  <2>1. UNCHANGED bookVars /\ sharesOf' = sharesOf /\ sharesOf[Escrow] \in Int
    BY <1>1, EscrowAssumption
       DEF RegisterWallet, SetAdminFactorVault, SetTransferExempt, vaultVars,
           EscrowTypeOK, Address
  <2>. QED BY <2>1, BooksUntouched
<1>2. CASE \E a \in Accounts, w \in Wallets : \E n \in 1 .. sharesOf[a] :
             \E allot \in [Indices -> 0 .. n] : Deposit(a, w, n, allot)
  <2>1. PICK a \in Accounts, w \in Wallets : \E n \in 1 .. sharesOf[a] :
               \E allot \in [Indices -> 0 .. n] : Deposit(a, w, n, allot)
    BY <1>2
  <2>2. PICK n \in 1 .. sharesOf[a] :
               \E allot \in [Indices -> 0 .. n] : Deposit(a, w, n, allot)
    BY <2>1
  <2>3. PICK allot \in [Indices -> 0 .. n] : Deposit(a, w, n, allot)
    BY <2>2
  <2>4. n \in Nat /\ allot \in [Indices -> Nat]
    BY DEF EscrowTypeOK, Address
  <2>5. BooksBalance'
    BY <2>3, <2>4, DepositBalances
  <2>6. /\ totalDeposited' = [totalDeposited EXCEPT ![w] = @ + n]
        /\ TransferShares(a, Escrow, n)
    BY <2>3 DEF Deposit
  <2>7. a # Escrow /\ a \in Address /\ Escrow \in Address
    BY EscrowAssumption DEF Address
  <2>8. sharesOf[Escrow] \in Int /\ sharesOf'[Escrow] = sharesOf[Escrow] + n
    BY <2>6, <2>7 DEF TransferShares, EscrowTypeOK
  <2>9. n \in Int /\ sharesOf'[Escrow] >= sharesOf[Escrow] + n
    BY <2>4, <2>8
  <2>. QED BY <2>5, <2>6, <2>9, StaysSolvent
<1>3. CASE \E a \in Accounts, p \in Path, to \in Accounts \union {Escrow}, asAsset \in BOOLEAN :
             \E n \in 1 .. allocatedShares[p] : Claim(a, p, to, n, asAsset)
  <2>1. PICK a \in Accounts, p \in Path, to \in Accounts \union {Escrow}, asAsset \in BOOLEAN :
               \E n \in 1 .. allocatedShares[p] : Claim(a, p, to, n, asAsset)
    BY <1>3
  <2>2. PICK n \in 1 .. allocatedShares[p] : Claim(a, p, to, n, asAsset)
    BY <2>1
  <2>3. n \in Nat /\ to \in Address
    BY EscrowAssumption DEF EscrowTypeOK, Address
  <2>. QED BY <2>2, <2>3, ClaimBalances
<1>4. CASE \E a \in Accounts, p \in Path :
             \E n \in 1 .. allocatedShares[p] : Reclaim(a, p, n)
  <2>1. PICK a \in Accounts, p \in Path : \E n \in 1 .. allocatedShares[p] : Reclaim(a, p, n)
    BY <1>4
  <2>2. PICK n \in 1 .. allocatedShares[p] : GiveBack(p, n, a)
    BY <2>1 DEF Reclaim
  <2>3. n \in Nat
    BY DEF EscrowTypeOK
  <2>. QED BY <2>2, <2>3, GiveBackBalances
<1>5. CASE \E a \in Accounts : \E n \in 1 .. sharesOf[a] : SendShares(a, n)
  <2>1. PICK a \in Accounts : \E n \in 1 .. sharesOf[a] : SendShares(a, n)
    BY <1>5
  <2>2. PICK n \in 1 .. sharesOf[a] : SendShares(a, n)
    BY <2>1
  <2>3. a # Escrow /\ a \in Address /\ Escrow \in Address
    BY EscrowAssumption DEF Address
  <2>4. n \in Nat /\ UNCHANGED bookVars /\ sharesOf'[Escrow] = sharesOf[Escrow] + n
    BY <2>2, <2>3 DEF SendShares, TransferShares, EscrowTypeOK
  <2>5. sharesOf[Escrow] \in Int
    BY <2>3 DEF EscrowTypeOK
  <2>6. sharesOf'[Escrow] >= sharesOf[Escrow]
    BY <2>4, <2>5
  <2>. QED BY <2>4, <2>6, BooksUntouched
<1>. QED BY <1>1, <1>2, <1>3, <1>4, <1>5 DEF EscrowCall

LEMMA InitBooksInv == Init => BooksInv
<1>. SUFFICES ASSUME Init PROVE BooksInv
  OBVIOUS
<1>1. ReleaseInv
  BY InitReleaseInv
<1>2. BooksBalance
  <2>1. \A w \in Wallets : \A i \in Indices : Left(w)[i] = 0
    BY DEF Init, EscrowInit, Left, Remaining, Path
  <2>2. \A w \in Wallets : totalDeposited[w] = 0
    BY DEF Init, EscrowInit
  <2>. QED BY <2>1, <2>2, SumZero, PathAssumption, BooksBalanceIs
<1>3. EscrowSolvent
  <2>1. SumFunctionOnSet(totalDeposited, Wallets) = 0
    BY SumZero, PathAssumption DEF Init, EscrowInit
  <2>2. EscrowTypeOK /\ sharesOf[Escrow] = 0
    BY <1>1, EscrowAssumption DEF ReleaseInv, TypeOK, Init, EscrowInit, Address
  <2>. QED BY <2>1, <2>2, EscrowSolventIs
<1>. QED BY <1>1, <1>2, <1>3 DEF BooksInv

LEMMA NextBooksInv == BooksInv /\ [Next]_vars => BooksInv'
<1>. SUFFICES ASSUME BooksInv, [Next]_vars PROVE BooksInv'
  OBVIOUS
<1>1. ReleaseInv'
  BY NextReleaseInv DEF BooksInv
<1>2. EscrowTypeOK /\ EscrowTypeOK' /\ BooksBalance /\ EscrowSolvent /\ NeverOverclaimed
  BY <1>1 DEF BooksInv, ReleaseInv, TypeOK
<1>3. ASSUME UNCHANGED escrowVars PROVE BooksBalance' /\ EscrowSolvent'
  <2>1. UNCHANGED bookVars /\ sharesOf' = sharesOf /\ sharesOf[Escrow] \in Int
    BY <1>2, <1>3, EscrowAssumption DEF escrowVars, vaultVars, EscrowTypeOK, Address
  <2>. QED BY <1>2, <2>1, BooksUntouched
<1>4. CASE Attest \/ UNCHANGED vars
  BY <1>1, <1>3, <1>4 DEF Attest, vars, BooksInv
<1>5. CASE EscrowCall
  BY <1>1, <1>5, EscrowCallBalances DEF BooksInv
<1>6. CASE AdminFactorCall
  <2>1. PICK a \in Accounts, p \in Path :
          \/ UNCHANGED escrowVars
          \/ GiveBack(p, Remaining(p), a)
    BY <1>6 DEF AdminFactorCall, Destroy, DestroyAndReclaim, ReclaimFor
  <2>2. Remaining(p) \in Nat
    BY <1>2 DEF Remaining, NeverOverclaimed, EscrowTypeOK
  <2>. QED BY <1>1, <1>2, <1>3, <2>1, <2>2, GiveBackBalances DEF BooksInv
<1>. QED BY <1>4, <1>5, <1>6 DEF Next

LEMMA BooksInvariant == Spec => []BooksInv
BY InitBooksInv, NextBooksInv, PTL DEF Spec

(* The total of every plan is what its paths have left, after any sequence *)
(* of deposits, claims, reclaims and destructions, so that the checked     *)
(* subtraction of a claim or reclaim from it never reverts.                *)
THEOREM BooksAlwaysBalance == Spec => []BooksBalance
<1>1. BooksInv => BooksBalance
  BY DEF BooksInv
<1>. QED BY <1>1, BooksInvariant, PTL

(* The escrow has the shares that all the plans have on its books.         *)
THEOREM EscrowStaysSolvent == Spec => []EscrowSolvent
<1>1. BooksInv => EscrowSolvent
  BY DEF BooksInv
<1>. QED BY <1>1, BooksInvariant, PTL

(* Whatever a path has left, its plan's total and the escrow's shares cover  *)
(* it: the two checks that could still refuse a claim after the recipient's. *)
ClaimCovered ==
  \A p \in Path : /\ Remaining(p) \in Nat
                  /\ Remaining(p) <= totalDeposited[p[1]]
                  /\ Remaining(p) <= sharesOf[Escrow]

LEMMA BooksCover == BooksInv => ClaimCovered
<1>. SUFFICES ASSUME BooksInv, NEW p \in Path
              PROVE  /\ Remaining(p) \in Nat /\ Remaining(p) <= totalDeposited[p[1]]
                     /\ Remaining(p) <= sharesOf[Escrow]
  BY DEF ClaimCovered
<1>1. EscrowTypeOK /\ NeverOverclaimed /\ BooksBalance /\ EscrowSolvent
  BY DEF BooksInv, ReleaseInv, TypeOK
<1>2. \A q \in Path : Remaining(q) \in Nat
  BY <1>1 DEF Remaining, NeverOverclaimed, EscrowTypeOK
<1>3. PICK w \in Wallets, i \in Indices : p = <<w, i>>
  BY DEF Path
<1>4. /\ \A j \in Indices : Left(w)[j] \in Nat
      /\ Left(w)[i] = Remaining(p)
      /\ IsFiniteSet(Indices) /\ IsFiniteSet(Wallets)
  BY <1>1, <1>2, <1>3, LeftType, PathAssumption
<1>5. Remaining(p) <= totalDeposited[w]
  <2>1. Left(w)[i] <= SumFunctionOnSet(Left(w), Indices)
    BY ONLY <1>3, <1>4, SumAbove
  <2>2. totalDeposited[w] = SumFunctionOnSet(Left(w), Indices)
    BY <1>1, BooksBalanceIs
  <2>. QED BY <1>4, <2>1, <2>2
<1>6. totalDeposited[w] <= sharesOf[Escrow]
  <2>1. \A x \in Wallets : totalDeposited[x] \in Nat
    BY <1>1 DEF EscrowTypeOK
  <2>2. totalDeposited[w] <= SumFunctionOnSet(totalDeposited, Wallets)
    BY ONLY <1>3, <1>4, <2>1, SumAbove
  <2>3. sharesOf[Escrow] >= SumFunctionOnSet(totalDeposited, Wallets)
    BY <1>1, EscrowSolventIs
  <2>4. SumFunctionOnSet(totalDeposited, Wallets) \in Int /\ sharesOf[Escrow] \in Int
    BY <1>1, <1>4, <2>1, SumType, EscrowAssumption DEF EscrowTypeOK, Address
  <2>. QED BY <2>1, <2>2, <2>3, <2>4
<1>7. /\ Remaining(p) \in Nat /\ totalDeposited[w] \in Nat /\ sharesOf[Escrow] \in Nat
      /\ p[1] = w
  BY <1>1, <1>2, <1>3, EscrowAssumption DEF EscrowTypeOK, Address
<1>. QED BY <1>5, <1>6, <1>7

(* So a claim of all that a released path has left is a step: with these     *)
(* values of the books nothing in it refuses, whoever of the accounts it     *)
(* pays, when it redeems the shares, or transfers them while the vault       *)
(* exempts the escrow.                                                       *)
LEMMA CoveredClaimIsStep ==
  ASSUME ClaimCovered, NEW p \in Path, NEW to \in Accounts, NEW asAsset \in BOOLEAN,
         Released(p), Remaining(p) > 0,
         asAsset \/ Escrow \in transferExempt,
         claimedShares' = [claimedShares EXCEPT ![p] = @ + Remaining(p)],
         totalDeposited' = [totalDeposited EXCEPT ![p[1]] = @ - Remaining(p)],
         sharesOf' = IF asAsset
                     THEN [sharesOf EXCEPT ![Escrow] = @ - Remaining(p)]
                     ELSE [sharesOf EXCEPT ![Escrow] = @ - Remaining(p),
                                           ![to] = @ + Remaining(p)],
         UNCHANGED <<walletOwner, allocatedShares, adminFactorVault, transferExempt>>
  PROVE  Claim(walletOwner[p[1]], p, to, Remaining(p), asAsset)
<1>1. to # NoAddress /\ to # Escrow
  BY AddressAssumption, EscrowAssumption DEF Address
<1>2. /\ Remaining(p) \in Nat /\ totalDeposited[p[1]] >= Remaining(p)
      /\ sharesOf[Escrow] >= Remaining(p)
  BY DEF ClaimCovered
<1>3. ~asAsset => TransferShares(Escrow, to, Remaining(p))
  BY <1>1, <1>2 DEF TransferShares
<1>4. Remaining(p) <= Remaining(p)
  BY <1>2
<1>. QED BY <1>1, <1>2, <1>3, <1>4 DEF Claim

(* Nothing stands between a released path and its money, in any reachable    *)
(* state: what claim's checked subtraction and the share transfer ask for is *)
(* there, for every path at once.                                            *)
THEOREM ClaimsAreCovered == Spec => []ClaimCovered
BY BooksCover, BooksInvariant, PTL

-----------------------------------------------------------------------------
(* The three contracts implement the path ledger.                          *)

Held == [p \in Path |-> Remaining(p)]
ReleasedPaths == {p \in Path : Released(p)}

LEMMA LedgerInitial == ReleaseInv /\ Init => Ledger!LedgerInit
<1> SUFFICES ASSUME Init PROVE Ledger!LedgerInit
  OBVIOUS
<1>1. \A p \in Path : Remaining(p) = 0 /\ ~Released(p)
  BY DEF Init, EscrowInit, AttestationInit, EmptySlot, Remaining, Released
<1>. QED BY <1>1 DEF Ledger!LedgerInit, Init, EscrowInit

(* A step that only decides paths is one release or a stutter: slots are   *)
(* written one at a time and a release is never lost.                      *)
LEMMA DecideIsRelease ==
  ASSUME ReleaseInv, UNCHANGED <<allocatedShares, claimedShares>>,
         NEW p \in Path,
         \A q \in Path : Released(q) => Released(q)',
         \A q \in Path : q # p => attestations'[q] = attestations[q]
  PROVE  [Ledger!LedgerNext]_(Ledger!ledgerVars)
<1>1. Held' = Held /\ UNCHANGED claimedShares
  BY DEF Held, Remaining
<1>2. CASE ReleasedPaths' = ReleasedPaths
  BY <1>1, <1>2 DEF Ledger!ledgerVars, Held, ReleasedPaths
<1>3. CASE ReleasedPaths' # ReleasedPaths
  <2>1. ReleasedPaths' = ReleasedPaths \union {p}
    BY <1>3 DEF ReleasedPaths, Released
  <2>2. Ledger!Release(p)
    BY <1>1, <2>1 DEF Ledger!Release, Held, ReleasedPaths
  <2>. QED BY <2>2 DEF Ledger!LedgerNext
<1>. QED BY <1>2, <1>3

(* Giving back an unreleased path's shares is a refund, whatever REJECT or *)
(* HOLD is submitted in the same transaction.                              *)
LEMMA GiveBackIsRefund ==
  ASSUME ReleaseInv, NEW p \in Path, NEW n \in Nat, NEW owner \in Accounts,
         GiveBack(p, n, owner),
         \A q \in Path : Released(q) <=> Released(q)'
  PROVE  [Ledger!LedgerNext]_(Ledger!ledgerVars)
<1> USE DEF ReleaseInv, TypeOK, EscrowTypeOK
<1>1. /\ n \in 1 .. Held[p] /\ p \notin ReleasedPaths
      /\ allocatedShares' = [allocatedShares EXCEPT ![p] = @ - n]
      /\ UNCHANGED claimedShares
  BY DEF GiveBack, Held, Remaining, ReleasedPaths
<1>2. Held' = [Held EXCEPT ![p] = @ - n]
  <2>1. \A q \in Path : Remaining(q)' = IF q = p THEN Remaining(q) - n ELSE Remaining(q)
    BY <1>1 DEF Remaining
  <2>. QED BY <2>1 DEF Held
<1>3. ReleasedPaths' = ReleasedPaths
  BY DEF ReleasedPaths
<1>4. Ledger!Refund(p, n)
  BY <1>1, <1>2, <1>3 DEF Ledger!Refund, Held, ReleasedPaths
<1>. QED BY <1>1, <1>4 DEF Ledger!LedgerNext, Held

LEMMA ClaimIsPay ==
  ASSUME ReleaseInv, NEW a \in Accounts, NEW p \in Path, NEW to \in Address,
         NEW n \in Nat, NEW asAsset \in BOOLEAN,
         Claim(a, p, to, n, asAsset), UNCHANGED attestations
  PROVE  [Ledger!LedgerNext]_(Ledger!ledgerVars)
<1> USE DEF ReleaseInv, TypeOK, EscrowTypeOK
<1>1. /\ n \in 1 .. Held[p] /\ p \in ReleasedPaths
      /\ claimedShares' = [claimedShares EXCEPT ![p] = @ + n]
      /\ UNCHANGED allocatedShares
  BY DEF Claim, Held, Remaining, ReleasedPaths
<1>2. Held' = [Held EXCEPT ![p] = @ - n]
  <2>1. \A q \in Path : Remaining(q)' = IF q = p THEN Remaining(q) - n ELSE Remaining(q)
    BY <1>1 DEF Remaining
  <2>. QED BY <2>1 DEF Held
<1>3. ReleasedPaths' = ReleasedPaths
  BY DEF ReleasedPaths, Released
<1>4. Ledger!Pay(p, n)
  BY <1>1, <1>2, <1>3 DEF Ledger!Pay, Held, ReleasedPaths
<1>. QED BY <1>1, <1>4 DEF Ledger!LedgerNext, Held

LEMMA DepositIsFund ==
  ASSUME ReleaseInv, NEW a \in Accounts, NEW w \in Wallets, NEW n \in Nat,
         NEW allot \in [Indices -> Nat],
         Deposit(a, w, n, allot), UNCHANGED attestations
  PROVE  [Ledger!LedgerNext]_(Ledger!ledgerVars)
<1> USE DEF ReleaseInv, TypeOK
<1>1. /\ EscrowTypeOK' /\ NeverOverclaimed'
      /\ \A p \in Path : allocatedShares'[p] >= allocatedShares[p]
      /\ UNCHANGED claimedShares
  BY DepositStep
<1>2. /\ Held' \in [Path -> Nat]
      /\ \A p \in Path : Held'[p] >= Held[p]
  BY <1>1 DEF Held, Remaining, EscrowTypeOK, NeverOverclaimed
<1>3. ReleasedPaths' = ReleasedPaths
  BY DEF ReleasedPaths, Released
<1>4. Ledger!Fund
  BY <1>1, <1>2, <1>3 DEF Ledger!Fund, Held, ReleasedPaths
<1>. QED BY <1>4 DEF Ledger!LedgerNext

(* A step that touches neither books nor slots is a stutter.               *)
LEMMA IdleIsStutter ==
  ASSUME UNCHANGED <<allocatedShares, claimedShares, attestations>>
  PROVE  UNCHANGED Ledger!ledgerVars
BY DEF Ledger!ledgerVars, Remaining, Released

LEMMA LedgerStep == ReleaseInv /\ [Next]_vars => [Ledger!LedgerNext]_(Ledger!ledgerVars)
<1> SUFFICES ASSUME ReleaseInv, [Next]_vars
             PROVE  [Ledger!LedgerNext]_(Ledger!ledgerVars)
  OBVIOUS
<1> USE DEF ReleaseInv, TypeOK
<1>1. CASE Attest
  <2>1. /\ UNCHANGED <<allocatedShares, claimedShares>>
        /\ \A q \in Path : Released(q) => Released(q)'
    BY <1>1, AttestKeepsReleases DEF escrowVars, bookVars, vaultVars
  <2>2. CASE UNCHANGED attestations
    BY <2>1, <2>2, IdleIsStutter
  <2>3. CASE \E a \in Accounts, s \in Source, p \in Path, d \in Decision :
               SubmitAttestation(a, s, p, d)
    <3>1. PICK a \in Accounts, s \in Source, p \in Path, d \in Decision :
            SubmitAttestation(a, s, p, d)
      BY <2>3
    <3>2. \A q \in Path : q # p => attestations'[q] = attestations[q]
      BY <3>1 DEF SubmitAttestation, AttestationTypeOK
    <3>. QED BY <2>1, <3>2, DecideIsRelease
  <2>. QED BY <1>1, <2>2, <2>3 DEF Attest, SetOracleSubmitter, SetFallbackSubmitter
<1>2. CASE EscrowCall
  <2>1. UNCHANGED attestations /\ \A q \in Path : Released(q) <=> Released(q)'
    BY <1>2 DEF EscrowCall, attestationVars, Released
  <2>2. CASE UNCHANGED <<allocatedShares, claimedShares>>
    BY <2>1, <2>2, IdleIsStutter
  <2>3. CASE \E a \in Accounts, w \in Wallets : \E n \in 1 .. sharesOf[a] :
               \E allot \in [Indices -> 0 .. n] : Deposit(a, w, n, allot)
    <3>1. PICK a \in Accounts, w \in Wallets : \E n \in 1 .. sharesOf[a] :
                 \E allot \in [Indices -> 0 .. n] : Deposit(a, w, n, allot)
      BY <2>3
    <3>2. PICK n \in 1 .. sharesOf[a] :
                 \E allot \in [Indices -> 0 .. n] : Deposit(a, w, n, allot)
      BY <3>1
    <3>3. PICK allot \in [Indices -> 0 .. n] : Deposit(a, w, n, allot)
      BY <3>2
    <3>4. n \in Nat /\ allot \in [Indices -> Nat]
      BY DEF EscrowTypeOK, Address
    <3>. QED BY <2>1, <3>3, <3>4, DepositIsFund
  <2>4. CASE \E a \in Accounts, p \in Path, to \in Accounts \union {Escrow},
                asAsset \in BOOLEAN :
               \E n \in 1 .. allocatedShares[p] : Claim(a, p, to, n, asAsset)
    <3>1. PICK a \in Accounts, p \in Path, to \in Accounts \union {Escrow},
               asAsset \in BOOLEAN :
                 \E n \in 1 .. allocatedShares[p] : Claim(a, p, to, n, asAsset)
      BY <2>4
    <3>2. PICK n \in 1 .. allocatedShares[p] : Claim(a, p, to, n, asAsset)
      BY <3>1
    <3>3. n \in Nat /\ to \in Address
      BY EscrowAssumption DEF Address, EscrowTypeOK
    <3>. QED BY <2>1, <3>2, <3>3, ClaimIsPay
  <2>5. CASE \E a \in Accounts, p \in Path :
               \E n \in 1 .. allocatedShares[p] : Reclaim(a, p, n)
    <3>1. PICK a \in Accounts, p \in Path :
                 \E n \in 1 .. allocatedShares[p] : Reclaim(a, p, n)
      BY <2>5
    <3>2. PICK n \in 1 .. allocatedShares[p] : GiveBack(p, n, a)
      BY <3>1 DEF Reclaim
    <3>3. n \in Nat
      BY DEF EscrowTypeOK
    <3>. QED BY <2>1, <3>2, <3>3, GiveBackIsRefund
  <2>. QED BY <1>2, <2>2, <2>3, <2>4, <2>5
           DEF EscrowCall, RegisterWallet, SetAdminFactorVault, SetTransferExempt,
               SendShares, bookVars
<1>3. CASE AdminFactorCall
  <2>1. PICK a \in Accounts, p \in Path :
          \/ Store(a, p) /\ UNCHANGED <<attestationVars, escrowVars>>
          \/ Destroy(a, p)
          \/ DestroyAndReclaim(a, p)
    BY <1>3 DEF AdminFactorCall
  <2>2. CASE UNCHANGED <<attestationVars, escrowVars>>
    BY <2>2, IdleIsStutter DEF attestationVars, escrowVars, bookVars, vaultVars
  <2>3. ASSUME DestroyFactor(a, p)
        PROVE  /\ \A q \in Path : Released(q) <=> Released(q)'
               /\ \A q \in Path : q # p => attestations'[q] = attestations[q]
    <3>1. CASE SubmitAttestation(Afv, "fallback", p, "reject")
      <4>1. ~Released(p) /\ ~Released(p)'
        BY <2>3, <3>1 DEF DestroyFactor, SubmitAttestation, AttestationTypeOK, Released
      <4>2. \A q \in Path : q # p => attestations'[q] = attestations[q]
        BY <3>1 DEF SubmitAttestation, AttestationTypeOK
      <4>. QED BY <4>1, <4>2 DEF Released
    <3>2. CASE UNCHANGED attestationVars
      BY <3>2 DEF attestationVars, Released
    <3>. QED BY <2>3, <3>1, <3>2 DEF DestroyFactor, RejectSlot
  <2>4. CASE DestroyFactor(a, p) /\ UNCHANGED escrowVars
    BY <2>3, <2>4, DecideIsRelease DEF escrowVars, bookVars, vaultVars
  <2>5. CASE DestroyFactor(a, p) /\ GiveBack(p, Remaining(p), a)
    <3>1. Remaining(p) \in Nat
      BY DEF Remaining, NeverOverclaimed, EscrowTypeOK
    <3>. QED BY <2>3, <2>5, <3>1, GiveBackIsRefund
  <2>. QED BY <2>1, <2>2, <2>4, <2>5 DEF Destroy, DestroyAndReclaim, ReclaimFor
<1>4. CASE UNCHANGED vars
  BY <1>4, IdleIsStutter DEF vars, attestationVars, escrowVars, bookVars, vaultVars
<1>. QED BY <1>1, <1>2, <1>3, <1>4 DEF Next

(* The contracts implement the path ledger: released paths only pay out,   *)
(* unreleased ones only refund, and releasing is irrevocable.              *)
THEOREM ContractsImplementLedger == Spec => ImplementsLedger
<1>1. Init => Ledger!LedgerInit
  BY InitReleaseInv, LedgerInitial
<1>. QED BY <1>1, ReleaseInvariant, LedgerStep, PTL
         DEF Spec, ImplementsLedger, Ledger!LedgerSpec
=============================================================================
