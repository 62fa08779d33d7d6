------------------------ MODULE YaultPathClaim_proofs ------------------------
(***************************************************************************)
(* Proofs about the path pool, for every set of plans, paths, keys and     *)
(* accounts, any deposits and any signed messages.                         *)
(***************************************************************************)
EXTENDS YaultPathClaim, Sums

(* Before anything is decided, no path is released. *)
LEMMA InitialSlots == AttestationInit => AttestationTypeOK /\ \A p \in Path : ~Released(p)
  BY DEF AttestationInit, AttestationTypeOK, Attestation, EmptySlot, Source, Decision, Released

(* Submitting an attestation keeps the slots well typed and every released *)
(* path released: nothing overwrites a RELEASE.                            *)
LEMMA SubmitKeepsReleases ==
  ASSUME AttestationTypeOK,
         NEW a \in Address, NEW s \in Source, NEW p \in Path, NEW d \in Decision,
         SubmitAttestation(a, s, p, d)
  PROVE  /\ AttestationTypeOK'
         /\ \A q \in Path : Released(q) => Released(q)'
<1>1. attestations' \in [Path -> Attestation]
  BY DEF SubmitAttestation, AttestationTypeOK, Attestation
<1>2. AttestationTypeOK'
  BY <1>1 DEF SubmitAttestation, AttestationTypeOK
<1>3. ASSUME NEW q \in Path, Released(q) PROVE Released(q)'
  <2>1. q # p
    BY <1>3 DEF SubmitAttestation, MayOverwrite
  <2>. QED BY <1>3, <2>1 DEF SubmitAttestation, AttestationTypeOK, Released
<1>. QED BY <1>2, <1>3

(* Appointing submitters keeps the types and leaves the slots alone.       *)
LEMMA AppointKeepsSlots ==
  ASSUME AttestationTypeOK, NEW a \in Address, NEW allowed \in BOOLEAN,
         SetOracleSubmitter(a) \/ SetFallbackSubmitter(a, allowed)
  PROVE  AttestationTypeOK' /\ UNCHANGED attestations
  BY DEF SetOracleSubmitter, SetFallbackSubmitter, AttestationTypeOK

(* A submission writes one slot.                                           *)
LEMMA SubmitWritesOne ==
  ASSUME AttestationTypeOK,
         NEW a \in Address, NEW s \in Source, NEW p \in Path, NEW d \in Decision,
         SubmitAttestation(a, s, p, d)
  PROVE  \A q \in Path : q # p => attestations'[q] = attestations[q]
  BY DEF SubmitAttestation, AttestationTypeOK

(* No path has claimed more than it was promised. *)
NeverOverclaimed ==
  \A p \in Path : claimedAmount[p] <= totalAmount[p]

(* A path nobody registered has neither a promise nor a claim, so that       *)
(* registering it, which resets both, forgets nothing.                       *)
UnregisteredIsEmpty ==
  \A p \in Path : pathController[p] = NoAddress => totalAmount[p] = 0 /\ claimedAmount[p] = 0

(* What is reserved in a pool was deposited into it. *)
ReservationsCovered ==
  \A w \in Wallets : totalAllocated[w] <= totalDeposited[w]

PoolInv ==
  /\ TypeOK
  /\ NeverOverclaimed
  /\ UnregisteredIsEmpty
  /\ ReservationsCovered

LEMMA InitPoolInv == Init => PoolInv
<1> SUFFICES ASSUME Init PROVE PoolInv
  OBVIOUS
<1>1. TypeOK
  BY InitialSlots, TokensAssumption DEF Init, TypeOK
<1>2. NeverOverclaimed /\ UnregisteredIsEmpty /\ ReservationsCovered
  BY DEF Init, NeverOverclaimed, UnregisteredIsEmpty, ReservationsCovered
<1>. QED BY <1>1, <1>2 DEF PoolInv

-----------------------------------------------------------------------------
(* One lemma per operation: what it keeps, and what the ledger sees of it. *)

(* A transfer of tokens keeps balances natural numbers. *)
LEMMA TransferType ==
  ASSUME balance \in [Address -> Nat],
         NEW from \in Address, NEW to \in Address, NEW n \in Nat,
         Transfer(from, to, n)
  PROVE  balance' \in [Address -> Nat]
<1>1. CASE from = to
  BY <1>1 DEF Transfer
<1>2. CASE from # to
  BY <1>2 DEF Transfer
<1>. QED BY <1>1, <1>2

LEMMA PoolIsAddress == Pool \in Address
  BY PoolAssumption DEF Address

LEMMA AttestStep ==
  ASSUME PoolInv, Attest
  PROVE  /\ PoolInv'
         /\ \A q \in Path : Released(q) => Released(q)'
         /\ \/ UNCHANGED attestations
            \/ \E p \in Path : \A q \in Path : q # p => attestations'[q] = attestations[q]
<1> USE DEF PoolInv
<1>1. AttestationTypeOK
  BY DEF TypeOK
<1>2. UNCHANGED <<walletOwner, poolVars, pathVars, claimVars, balance>>
  BY DEF Attest
<1>3. /\ AttestationTypeOK'
      /\ \A q \in Path : Released(q) => Released(q)'
      /\ \/ UNCHANGED attestations
         \/ \E p \in Path : \A q \in Path : q # p => attestations'[q] = attestations[q]
  <2>1. CASE \/ \E a \in Appointable : SetOracleSubmitter(a)
             \/ \E a \in Appointable, allowed \in BOOLEAN : SetFallbackSubmitter(a, allowed)
    <3>1. PICK a \in Address, allowed \in BOOLEAN :
            SetOracleSubmitter(a) \/ SetFallbackSubmitter(a, allowed)
      BY <2>1, AppointableAssumption
    <3>2. AttestationTypeOK' /\ UNCHANGED attestations
      BY <1>1, <3>1, AppointKeepsSlots
    <3>. QED BY <3>2 DEF Released
  <2>2. ASSUME NEW a \in Accounts, NEW s \in Source, NEW p \in Path, NEW d \in Decision,
               SubmitAttestation(a, s, p, d)
        PROVE  /\ AttestationTypeOK'
               /\ \A q \in Path : Released(q) => Released(q)'
               /\ \E r \in Path : \A q \in Path : q # r => attestations'[q] = attestations[q]
    <3>1. a \in Address
      BY DEF Address
    <3>. QED BY <1>1, <2>2, <3>1, SubmitKeepsReleases, SubmitWritesOne
  <2>. QED BY <2>1, <2>2 DEF Attest
<1>4. TypeOK'
  BY <1>2, <1>3 DEF TypeOK, poolVars, pathVars, claimVars
<1>5. NeverOverclaimed' /\ UnregisteredIsEmpty' /\ ReservationsCovered'
  BY <1>2 DEF NeverOverclaimed, UnregisteredIsEmpty, ReservationsCovered, poolVars, pathVars
<1>. QED BY <1>3, <1>4, <1>5

(* Deposits and reclaims of what is not reserved change no path. *)
LEMMA DepositStep ==
  ASSUME PoolInv, NEW a \in Accounts, NEW w \in Wallets, NEW n \in Nat, Deposit(a, w, n)
  PROVE  PoolInv' /\ UNCHANGED <<attestations, pathVars>>
<1> USE DEF PoolInv, TypeOK
<1>1. /\ totalDeposited' = [totalDeposited EXCEPT ![w] = @ + n]
      /\ UNCHANGED <<attestationVars, walletOwner, totalAllocated, pathVars, claimVars>>
  BY DEF Deposit
<1>2. balance' \in [Address -> Nat]
  BY TransferType, PoolIsAddress DEF Deposit, Address
<1>3. TypeOK'
  BY <1>1, <1>2 DEF attestationVars, AttestationTypeOK, pathVars, claimVars
<1>4. ReservationsCovered'
  BY <1>1 DEF ReservationsCovered
<1>5. NeverOverclaimed' /\ UnregisteredIsEmpty'
  BY <1>1 DEF NeverOverclaimed, UnregisteredIsEmpty, pathVars
<1>. QED BY <1>1, <1>3, <1>4, <1>5 DEF attestationVars

LEMMA ReclaimStep ==
  ASSUME PoolInv, NEW a \in Accounts, NEW w \in Wallets, NEW n \in Nat, NEW to \in Address,
         Reclaim(a, w, n, to)
  PROVE  PoolInv' /\ UNCHANGED <<attestations, pathVars>>
<1> USE DEF PoolInv, TypeOK
<1>1. /\ n <= totalDeposited[w] - totalAllocated[w]
      /\ totalDeposited' = [totalDeposited EXCEPT ![w] = @ - n]
      /\ UNCHANGED <<attestationVars, walletOwner, totalAllocated, pathVars, claimVars>>
  BY DEF Reclaim
<1>2. balance' \in [Address -> Nat]
  BY TransferType, PoolIsAddress DEF Reclaim
<1>3. totalDeposited' \in [Wallets -> Nat]
  BY <1>1
<1>4. TypeOK'
  BY <1>1, <1>2, <1>3 DEF attestationVars, AttestationTypeOK, pathVars, claimVars
<1>5. ReservationsCovered'
  BY <1>1 DEF ReservationsCovered
<1>6. NeverOverclaimed' /\ UnregisteredIsEmpty'
  BY <1>1 DEF NeverOverclaimed, UnregisteredIsEmpty, pathVars
<1>. QED BY <1>1, <1>4, <1>5, <1>6 DEF attestationVars

(* A path is promised something once; it had and had claimed nothing. *)
LEMMA RegisterStep ==
  ASSUME PoolInv, NEW a \in Accounts, NEW p \in Path, NEW key \in Accounts, NEW n \in Nat,
         RegisterPath(a, p, key, n)
  PROVE  /\ PoolInv'
         /\ UNCHANGED <<attestations, claimedAmount>>
         /\ \A q \in Path : totalAmount'[q] >= totalAmount[q]
<1> USE DEF PoolInv, TypeOK
<1>1. p[1] \in Wallets
  BY DEF Path
<1>2. /\ pathController[p] = NoAddress
      /\ totalAllocated[p[1]] + n <= totalDeposited[p[1]]
      /\ totalAllocated' = [totalAllocated EXCEPT ![p[1]] = @ + n]
      /\ pathController' = [pathController EXCEPT ![p] = key]
      /\ totalAmount' = [totalAmount EXCEPT ![p] = n]
      /\ claimedAmount' = [claimedAmount EXCEPT ![p] = 0]
      /\ UNCHANGED <<attestationVars, walletOwner, totalDeposited, claimVars, balance>>
  BY DEF RegisterPath
<1>3. totalAmount[p] = 0 /\ claimedAmount[p] = 0
  BY <1>2 DEF UnregisteredIsEmpty
<1>4. claimedAmount' = claimedAmount
  BY <1>2, <1>3
<1>5. TypeOK'
  BY <1>1, <1>2, <1>4 DEF attestationVars, AttestationTypeOK, claimVars
<1>6. NeverOverclaimed'
  BY <1>2, <1>3, <1>4 DEF NeverOverclaimed
<1>7. UnregisteredIsEmpty'
  <2>1. key # NoAddress
    BY AddressAssumption DEF Address
  <2>. QED BY <1>2, <1>4, <2>1 DEF UnregisteredIsEmpty
<1>8. ReservationsCovered'
  BY <1>1, <1>2 DEF ReservationsCovered
<1>9. \A q \in Path : totalAmount'[q] >= totalAmount[q]
  BY <1>2, <1>3
<1>. QED BY <1>2, <1>4, <1>5, <1>6, <1>7, <1>8, <1>9 DEF attestationVars

(* The owner takes back all that remains of a path decided otherwise. *)
LEMMA ReclaimAllocatedStep ==
  ASSUME PoolInv, NEW a \in Accounts, NEW p \in Path, NEW to \in Address,
         ReclaimAllocated(a, p, to)
  PROVE  /\ PoolInv'
         /\ UNCHANGED <<attestations, claimedAmount>>
         /\ ~Released(p) /\ Remaining(p) > 0
         /\ totalAmount' = [totalAmount EXCEPT ![p] = claimedAmount[p]]
<1> USE DEF PoolInv, TypeOK
<1> DEFINE rest == Remaining(p)
<1>1. p[1] \in Wallets
  BY DEF Path
<1>2. rest \in Nat /\ rest = totalAmount[p] - claimedAmount[p]
  BY DEF Remaining, NeverOverclaimed
<1>3. /\ attestations[p].decision # "release"
      /\ pathController[p] # NoAddress
      /\ rest > 0
      /\ totalAllocated[p[1]] >= rest /\ totalDeposited[p[1]] >= rest
      /\ totalAllocated' = [totalAllocated EXCEPT ![p[1]] = @ - rest]
      /\ totalDeposited' = [totalDeposited EXCEPT ![p[1]] = @ - rest]
      /\ totalAmount' = [totalAmount EXCEPT ![p] = claimedAmount[p]]
      /\ Transfer(Pool, to, rest)
      /\ UNCHANGED <<attestationVars, walletOwner, pathController, claimedAmount, claimVars>>
  BY DEF ReclaimAllocated
<1> HIDE DEF rest
<1>4. balance' \in [Address -> Nat]
  BY <1>2, <1>3, TransferType, PoolIsAddress
<1>5. totalAllocated' \in [Wallets -> Nat] /\ totalDeposited' \in [Wallets -> Nat]
  BY <1>1, <1>2, <1>3
<1>6. TypeOK'
  BY <1>3, <1>4, <1>5 DEF attestationVars, AttestationTypeOK, claimVars
<1>7. NeverOverclaimed' /\ UnregisteredIsEmpty'
  BY <1>3 DEF NeverOverclaimed, UnregisteredIsEmpty
<1>8. ReservationsCovered'
  BY <1>1, <1>2, <1>3 DEF ReservationsCovered
<1>. QED BY <1>3, <1>6, <1>7, <1>8 DEF attestationVars, Released, rest

LEMMA SignStep ==
  ASSUME PoolInv, NEW m \in ClaimMessage, SignClaim(m)
  PROVE  PoolInv' /\ UNCHANGED <<attestations, pathVars>>
<1> USE DEF PoolInv, TypeOK
<1>1. /\ signed' = signed \union {m}
      /\ UNCHANGED <<attestationVars, walletOwner, poolVars, pathVars, claimNonce, balance>>
  BY DEF SignClaim
<1>2. TypeOK'
  BY <1>1 DEF attestationVars, AttestationTypeOK, poolVars, pathVars
<1>3. NeverOverclaimed' /\ UnregisteredIsEmpty' /\ ReservationsCovered'
  BY <1>1 DEF NeverOverclaimed, UnregisteredIsEmpty, ReservationsCovered, poolVars, pathVars
<1>. QED BY <1>1, <1>2, <1>3 DEF attestationVars

(* A claim pays the signed amount or what remains, whichever is less. *)
LEMMA ClaimStep ==
  ASSUME PoolInv, NEW a \in Accounts, NEW m \in signed, Claim(a, m)
  PROVE  /\ PoolInv'
         /\ UNCHANGED <<attestations, totalAmount>>
         /\ m.path \in Path /\ Released(m.path)
         /\ \E n \in 1 .. Remaining(m.path) :
              claimedAmount' = [claimedAmount EXCEPT ![m.path] = @ + n]
<1> USE DEF PoolInv, TypeOK
<1> DEFINE p == m.path
           n == IF m.amount > Remaining(p) THEN Remaining(p) ELSE m.amount
<1>1. p \in Path /\ m.amount \in Nat /\ m.to \in Address
  BY DEF ClaimMessage
<1>2. /\ Released(p) /\ pathController[p] # NoAddress /\ n > 0
      /\ claimNonce' = [claimNonce EXCEPT ![p] = @ + 1]
      /\ claimedAmount' = [claimedAmount EXCEPT ![p] = @ + n]
      /\ Transfer(Pool, m.to, n)
      /\ UNCHANGED <<attestationVars, walletOwner, poolVars, pathController, totalAmount, signed>>
  BY DEF Claim
<1>3. Remaining(p) \in Nat /\ Remaining(p) = totalAmount[p] - claimedAmount[p]
  BY <1>1 DEF Remaining, NeverOverclaimed
<1>4. n \in 1 .. Remaining(p)
  BY <1>1, <1>2, <1>3
<1> HIDE DEF n, p
<1>5. balance' \in [Address -> Nat]
  BY <1>1, <1>2, <1>3, <1>4, TransferType, PoolIsAddress
<1>6. TypeOK'
  BY <1>1, <1>2, <1>3, <1>4, <1>5 DEF attestationVars, AttestationTypeOK, poolVars
<1>7. NeverOverclaimed'
  BY <1>1, <1>2, <1>3, <1>4 DEF NeverOverclaimed
<1>8. UnregisteredIsEmpty' /\ ReservationsCovered'
  BY <1>1, <1>2 DEF UnregisteredIsEmpty, ReservationsCovered, poolVars
<1>. QED BY <1>1, <1>2, <1>4, <1>6, <1>7, <1>8 DEF attestationVars, p

(* Registering a plan changes nobody's amounts. *)
LEMMA WalletStep ==
  ASSUME PoolInv, NEW a \in Accounts, NEW w \in Wallets, RegisterWallet(w, a)
  PROVE  PoolInv' /\ UNCHANGED <<attestations, pathVars>>
<1> USE DEF PoolInv, TypeOK
<1>1. /\ walletOwner' = [walletOwner EXCEPT ![w] = a]
      /\ UNCHANGED <<attestationVars, poolVars, pathVars, claimVars, balance>>
  BY DEF RegisterWallet
<1>2. TypeOK'
  BY <1>1 DEF attestationVars, AttestationTypeOK, poolVars, pathVars, claimVars
<1>3. NeverOverclaimed' /\ UnregisteredIsEmpty' /\ ReservationsCovered'
  BY <1>1 DEF NeverOverclaimed, UnregisteredIsEmpty, ReservationsCovered, poolVars, pathVars
<1>. QED BY <1>1, <1>2, <1>3 DEF attestationVars

-----------------------------------------------------------------------------
(* The pool implements the path ledger: each step keeps the invariant and is *)
(* a step of the ledger, or none.                                            *)

Held == [p \in Path |-> Remaining(p)]
ReleasedPaths == {p \in Path : Released(p)}
Progress == PoolInv' /\ [Ledger!LedgerNext]_(Ledger!ledgerVars)

LEMMA LedgerInitial == Init => Ledger!LedgerInit
<1> SUFFICES ASSUME Init PROVE Ledger!LedgerInit
  OBVIOUS
<1>1. \A p \in Path : Remaining(p) = 0 /\ ~Released(p)
  BY InitialSlots DEF Init, Remaining
<1>. QED BY <1>1 DEF Ledger!LedgerInit, Init

LEMMA SamePathsIsStutter ==
  ASSUME UNCHANGED <<attestations, pathVars>>
  PROVE  UNCHANGED Ledger!ledgerVars
  BY DEF Ledger!ledgerVars, Remaining, Released, pathVars

(* A decision releases one path, or none. *)
LEMMA AttestIsRelease == PoolInv /\ Attest => Progress
<1> SUFFICES ASSUME PoolInv, Attest PROVE Progress
  OBVIOUS
<1>1. /\ PoolInv'
      /\ \A q \in Path : Released(q) => Released(q)'
      /\ \/ UNCHANGED attestations
         \/ \E p \in Path : \A q \in Path : q # p => attestations'[q] = attestations[q]
  BY AttestStep
<1>2. UNCHANGED pathVars
  BY DEF Attest
<1>3. CASE UNCHANGED attestations
  BY <1>1, <1>2, <1>3, SamePathsIsStutter DEF Progress
<1>4. ASSUME NEW p \in Path, \A q \in Path : q # p => attestations'[q] = attestations[q]
      PROVE  Progress
  <2>1. Held' = Held /\ UNCHANGED claimedAmount
    BY <1>2 DEF Held, Remaining, pathVars
  <2>2. CASE ReleasedPaths' = ReleasedPaths
    BY <1>1, <2>1, <2>2 DEF Progress, Ledger!ledgerVars, Held, ReleasedPaths
  <2>3. CASE ReleasedPaths' # ReleasedPaths
    <3>1. ReleasedPaths' = ReleasedPaths \union {p}
      BY <1>1, <1>4, <2>3 DEF ReleasedPaths, Released
    <3>2. Ledger!Release(p)
      BY <2>1, <3>1 DEF Ledger!Release, Held, ReleasedPaths
    <3>. QED BY <1>1, <3>2 DEF Progress, Ledger!LedgerNext
  <2>. QED BY <2>2, <2>3
<1>. QED BY <1>1, <1>3, <1>4

LEMMA RegisterIsFund ==
  ASSUME PoolInv, NEW a \in Accounts, NEW p \in Path, NEW key \in Accounts, NEW n \in Nat,
         RegisterPath(a, p, key, n)
  PROVE  Progress
<1>1. /\ PoolInv'
      /\ UNCHANGED <<attestations, claimedAmount>>
      /\ \A q \in Path : totalAmount'[q] >= totalAmount[q]
  BY RegisterStep
<1>2. /\ Held' \in [Path -> Nat]
      /\ \A q \in Path : Held'[q] >= Held[q]
  BY <1>1 DEF PoolInv, TypeOK, NeverOverclaimed, Held, Remaining
<1>3. ReleasedPaths' = ReleasedPaths
  BY <1>1 DEF ReleasedPaths, Released
<1>4. Ledger!Fund
  BY <1>1, <1>2, <1>3 DEF Ledger!Fund, Held, ReleasedPaths
<1>. QED BY <1>1, <1>4 DEF Progress, Ledger!LedgerNext

LEMMA ReclaimAllocatedIsRefund ==
  ASSUME PoolInv, NEW a \in Accounts, NEW p \in Path, NEW to \in Address,
         ReclaimAllocated(a, p, to)
  PROVE  Progress
<1> DEFINE n == Held[p]
<1>1. /\ PoolInv'
      /\ UNCHANGED <<attestations, claimedAmount>>
      /\ p \notin ReleasedPaths /\ n > 0
      /\ totalAmount' = [totalAmount EXCEPT ![p] = claimedAmount[p]]
  BY ReclaimAllocatedStep DEF ReleasedPaths, Held
<1>2. n \in 1 .. Held[p]
  BY <1>1 DEF PoolInv, TypeOK, NeverOverclaimed, Held, Remaining
<1>3. Held' = [Held EXCEPT ![p] = @ - n]
  <2>1. \A q \in Path : Remaining(q)' = IF q = p THEN Remaining(q) - n ELSE Remaining(q)
    BY <1>1 DEF PoolInv, TypeOK, Remaining, Held
  <2>. QED BY <2>1 DEF Held
<1>4. ReleasedPaths' = ReleasedPaths
  BY <1>1 DEF ReleasedPaths, Released
<1> HIDE DEF n
<1>5. Ledger!Refund(p, n)
  BY <1>1, <1>2, <1>3, <1>4 DEF Ledger!Refund, Held, ReleasedPaths
<1>. QED BY <1>1, <1>2, <1>5 DEF Progress, Ledger!LedgerNext, Held

LEMMA ClaimIsPay ==
  ASSUME PoolInv, NEW a \in Accounts, NEW m \in signed, Claim(a, m)
  PROVE  Progress
<1> DEFINE p == m.path
<1>1. /\ PoolInv'
      /\ UNCHANGED <<attestations, totalAmount>>
      /\ p \in Path /\ p \in ReleasedPaths
      /\ \E n \in 1 .. Held[p] : claimedAmount' = [claimedAmount EXCEPT ![p] = @ + n]
  BY ClaimStep DEF ReleasedPaths, Held
<1> HIDE DEF p
<1>2. PICK n \in 1 .. Held[p] : claimedAmount' = [claimedAmount EXCEPT ![p] = @ + n]
  BY <1>1
<1>3. Held' = [Held EXCEPT ![p] = @ - n]
  <2>1. \A q \in Path : Remaining(q)' = IF q = p THEN Remaining(q) - n ELSE Remaining(q)
    BY <1>1, <1>2 DEF PoolInv, TypeOK, Remaining
  <2>. QED BY <2>1 DEF Held
<1>4. ReleasedPaths' = ReleasedPaths
  BY <1>1 DEF ReleasedPaths, Released
<1>5. n <= Held[p]
  BY <1>1, <1>2 DEF PoolInv, TypeOK, NeverOverclaimed, Held, Remaining
<1>6. Ledger!Pay(p, n)
  BY <1>1, <1>2, <1>3, <1>4, <1>5 DEF Ledger!Pay, Held, ReleasedPaths
<1>. QED BY <1>1, <1>2, <1>6 DEF Progress, Ledger!LedgerNext, Held

LEMMA NextIsProgress == PoolInv /\ [Next]_vars => Progress
<1> SUFFICES ASSUME PoolInv, [Next]_vars PROVE Progress
  OBVIOUS
<1>1. CASE Attest
  BY <1>1, AttestIsRelease
<1>2. ASSUME NEW a \in Accounts, NEW w \in Wallets, RegisterWallet(w, a) PROVE Progress
  BY <1>2, WalletStep, SamePathsIsStutter DEF Progress
<1>3. ASSUME NEW a \in Accounts, NEW w \in Wallets, NEW n \in 1 .. balance[a], Deposit(a, w, n)
      PROVE  Progress
  <2>1. n \in Nat
    OBVIOUS
  <2>. QED BY <1>3, <2>1, DepositStep, SamePathsIsStutter DEF Progress
<1>4. ASSUME NEW a \in Accounts, NEW w \in Wallets, NEW n \in 1 .. totalDeposited[w],
             NEW to \in Address, Reclaim(a, w, n, to)
      PROVE  Progress
  <2>1. n \in Nat
    OBVIOUS
  <2>. QED BY <1>4, <2>1, ReclaimStep, SamePathsIsStutter DEF Progress
<1>5. ASSUME NEW a \in Accounts, NEW p \in Path, NEW key \in Accounts,
             NEW n \in 0 .. totalDeposited[p[1]], RegisterPath(a, p, key, n)
      PROVE  Progress
  <2>1. n \in Nat
    OBVIOUS
  <2>. QED BY <1>5, <2>1, RegisterIsFund
<1>6. ASSUME NEW a \in Accounts, NEW p \in Path, NEW to \in Address, ReclaimAllocated(a, p, to)
      PROVE  Progress
  BY <1>6, ReclaimAllocatedIsRefund
<1>7. ASSUME NEW p \in Path, NEW n \in 1 .. InitialTokens, NEW to \in Address,
             NEW key \in Accounts, NEW nonce \in 0 .. MaxSigned,
             SignClaim([path |-> p, amount |-> n, to |-> to, nonce |-> nonce, signer |-> key])
      PROVE  Progress
  <2>1. [path |-> p, amount |-> n, to |-> to, nonce |-> nonce, signer |-> key] \in ClaimMessage
    BY DEF ClaimMessage
  <2>. QED BY <1>7, <2>1, SignStep, SamePathsIsStutter DEF Progress
<1>8. ASSUME NEW a \in Accounts, NEW m \in signed, Claim(a, m) PROVE Progress
  BY <1>8, ClaimIsPay
<1>9. CASE UNCHANGED vars
  <2>1. PoolInv'
    BY <1>9 DEF PoolInv, TypeOK, NeverOverclaimed, UnregisteredIsEmpty, ReservationsCovered,
                AttestationTypeOK, vars, attestationVars, poolVars, pathVars, claimVars
  <2>. QED BY <1>9, <2>1, SamePathsIsStutter DEF Progress, vars, attestationVars
<1>. QED BY <1>1, <1>2, <1>3, <1>4, <1>5, <1>6, <1>7, <1>8, <1>9
         DEF Next, OwnerCall, ClaimCall

LEMMA PoolInvariant == Spec => []PoolInv
<1>1. Progress => PoolInv'
  BY DEF Progress
<1>. QED BY <1>1, InitPoolInv, NextIsProgress, PTL DEF Spec

-----------------------------------------------------------------------------
(* Every variable keeps its type: the amounts of pools and paths and every   *)
(* token balance stay natural numbers, whatever is claimed and reclaimed.    *)
THEOREM TypeCorrect == Spec => []TypeOK
<1>1. PoolInv => TypeOK
  BY DEF PoolInv
<1>. QED BY <1>1, PoolInvariant, PTL

(* No path ever claims more than it was promised, whatever was signed and    *)
(* reclaimed (claim, reclaimAllocated).                                      *)
THEOREM NoOverclaim == Spec => []NeverOverclaimed
<1>1. PoolInv => NeverOverclaimed
  BY DEF PoolInv
<1>. QED BY <1>1, PoolInvariant, PTL

(* What is reserved for paths never exceeds the deposits of their plan       *)
(* (registerPath, reclaim, reclaimAllocated).                                *)
THEOREM ReservationsStayCovered == Spec => []ReservationsCovered
<1>1. PoolInv => ReservationsCovered
  BY DEF PoolInv
<1>. QED BY <1>1, PoolInvariant, PTL

(* The pool keeps the ledger's promise: it pays a path only once that is     *)
(* released, gives a path's funds back only until then, and a release is     *)
(* for ever.                                                                 *)
THEOREM PoolImplementsLedger == Spec => ImplementsLedger
<1>1. Progress => [Ledger!LedgerNext]_(Ledger!ledgerVars)
  BY DEF Progress
<1>. QED BY <1>1, LedgerInitial, PoolInvariant, NextIsProgress, PTL
         DEF Spec, ImplementsLedger, Ledger!LedgerSpec
-----------------------------------------------------------------------------
(* The sums.                                                               *)

Promised(w) == SumFunctionOnSet(totalAmount, PathsOf(w))
Owed == SumFunctionOnSet(totalDeposited, Wallets) - SumFunctionOnSet(claimedAmount, Path)

ReservationsAddUp == \A w \in Wallets : totalAllocated[w] = Promised(w)
Solvent == balance[Pool] >= Owed

LEMMA PathsAreFinite ==
  /\ IsFiniteSet(Wallets) /\ IsFiniteSet(Path)
  /\ \A w \in Wallets : IsFiniteSet(PathsOf(w)) /\ PathsOf(w) \subseteq Path
<1>1. IsFiniteSet(Path)
  BY PathAssumption, FS_Product DEF Path
<1>2. \A w \in Wallets : PathsOf(w) \subseteq Path
  BY DEF PathsOf
<1>. QED BY <1>1, <1>2, PathAssumption, FS_Subset

LEMMA SolventIs ==
  ASSUME TypeOK
  PROVE  PoolSolvent <=> Solvent
<1>1. DOMAIN totalDeposited = Wallets /\ DOMAIN claimedAmount = Path
  BY DEF TypeOK
<1>. QED BY <1>1 DEF PoolSolvent, Solvent, Owed, SumFunction

LEMMA SumsType ==
  ASSUME TypeOK
  PROVE  /\ SumFunctionOnSet(totalDeposited, Wallets) \in Int
         /\ SumFunctionOnSet(claimedAmount, Path) \in Int
         /\ balance[Pool] \in Int
         /\ \A w \in Wallets : Promised(w) \in Int /\ totalAllocated[w] \in Int
<1>1. /\ \A w \in Wallets : totalDeposited[w] \in Int /\ totalAllocated[w] \in Int
      /\ \A p \in Path : claimedAmount[p] \in Int /\ totalAmount[p] \in Int
      /\ balance[Pool] \in Int
  BY PoolIsAddress DEF TypeOK
<1>2. \A w \in Wallets : \A p \in PathsOf(w) : totalAmount[p] \in Int
  BY <1>1, PathsAreFinite
<1>3. \A w \in Wallets : Promised(w) \in Int
  BY <1>2, PathsAreFinite, SumType DEF Promised
<1>. QED BY <1>1, <1>3, PathsAreFinite, SumType

LEMMA SumsTypeNext ==
  ASSUME TypeOK'
  PROVE  /\ SumFunctionOnSet(totalDeposited', Wallets) \in Int
         /\ SumFunctionOnSet(claimedAmount', Path) \in Int
         /\ balance'[Pool] \in Int
<1>1. /\ \A w \in Wallets : totalDeposited'[w] \in Int
      /\ \A p \in Path : claimedAmount'[p] \in Int
      /\ balance'[Pool] \in Int
  BY PoolIsAddress DEF TypeOK
<1>. QED BY <1>1, PathsAreFinite, SumType

(* A path is promised d more, or less, and as much is reserved for it.     *)
LEMMA ReservationMoves ==
  ASSUME TypeOK, TypeOK', ReservationsAddUp, NEW p \in Path, NEW d \in Int,
         totalAmount'[p] = totalAmount[p] + d,
         \A q \in Path : q # p => totalAmount'[q] = totalAmount[q],
         totalAllocated'[p[1]] = totalAllocated[p[1]] + d,
         \A w \in Wallets : w # p[1] => totalAllocated'[w] = totalAllocated[w]
  PROVE  ReservationsAddUp'
<1>1. SUFFICES ASSUME NEW w \in Wallets
               PROVE  totalAllocated'[w] = SumFunctionOnSet(totalAmount', PathsOf(w))
  BY DEF ReservationsAddUp, Promised, PathsOf
<1>2. IsFiniteSet(PathsOf(w)) /\ PathsOf(w) \subseteq Path
  BY PathsAreFinite
<1>3. \A q \in PathsOf(w) : totalAmount[q] \in Int /\ totalAmount'[q] \in Int
  BY <1>2 DEF TypeOK
<1>4. totalAllocated[w] = SumFunctionOnSet(totalAmount, PathsOf(w)) /\ totalAllocated[w] \in Int
  BY DEF ReservationsAddUp, Promised, TypeOK
<1>5. p[1] \in Wallets
  BY DEF Path
<1>6. CASE w = p[1]
  <2>1. p \in PathsOf(w)
    BY <1>6 DEF PathsOf
  <2>2. \A q \in PathsOf(w) : q # p => totalAmount'[q] = totalAmount[q]
    BY <1>2
  <2>3. SumFunctionOnSet(totalAmount', PathsOf(w))
          = SumFunctionOnSet(totalAmount, PathsOf(w)) + totalAmount'[p] - totalAmount[p]
    BY ONLY <1>2, <1>3, <2>1, <2>2, SumUpdate
  <2>4. totalAmount[p] \in Int
    BY DEF TypeOK
  <2>5. totalAllocated'[w] = totalAllocated[w] + d
    BY <1>6 DEF TypeOK
  <2>. QED BY <1>4, <2>3, <2>4, <2>5
<1>7. CASE w # p[1]
  <2>1. \A q \in PathsOf(w) : q # p
    BY <1>7 DEF PathsOf
  <2>2. \A q \in PathsOf(w) : totalAmount[q] = totalAmount'[q]
    BY <1>2, <2>1
  <2>3. SumFunctionOnSet(totalAmount, PathsOf(w)) = SumFunctionOnSet(totalAmount', PathsOf(w))
    BY ONLY <1>2, <2>2, SumAlike
  <2>4. totalAllocated'[w] = totalAllocated[w]
    BY <1>5, <1>7 DEF TypeOK
  <2>. QED BY <1>4, <2>3, <2>4
<1>. QED BY <1>6, <1>7

LEMMA ReservationsStay ==
  ASSUME ReservationsAddUp, UNCHANGED <<totalAllocated, totalAmount>>
  PROVE  ReservationsAddUp'
BY DEF ReservationsAddUp, Promised, PathsOf

(* One plan's deposits change by d, and the pool's tokens by no less.      *)
LEMMA DepositsMove ==
  ASSUME TypeOK, TypeOK', Solvent, NEW w \in Wallets, NEW d \in Int,
         totalDeposited'[w] = totalDeposited[w] + d,
         \A v \in Wallets : v # w => totalDeposited'[v] = totalDeposited[v],
         UNCHANGED claimedAmount, balance'[Pool] >= balance[Pool] + d
  PROVE  Solvent'
<1>1. \A v \in Wallets : totalDeposited[v] \in Int /\ totalDeposited'[v] \in Int
  BY DEF TypeOK
<1>2. /\ \A v \in Wallets : v # w => totalDeposited'[v] = totalDeposited[v]
      /\ totalDeposited'[w] = totalDeposited[w] + d
  BY DEF TypeOK
<1>3. SumFunctionOnSet(totalDeposited', Wallets)
        = SumFunctionOnSet(totalDeposited, Wallets) + totalDeposited'[w] - totalDeposited[w]
  <2>1. IsFiniteSet(Wallets) /\ w \in Wallets
    BY PathAssumption
  <2>. QED BY ONLY <1>1, <1>2, <2>1, SumUpdate
<1>. QED BY <1>1, <1>2, <1>3, SumsType, SumsTypeNext DEF Solvent, Owed

(* One path has claimed n more, which left the pool, or came back to it.   *)
LEMMA ClaimsMove ==
  ASSUME TypeOK, TypeOK', Solvent, NEW p \in Path, NEW n \in Int,
         claimedAmount' = [claimedAmount EXCEPT ![p] = @ + n],
         UNCHANGED totalDeposited, balance'[Pool] >= balance[Pool] - n
  PROVE  Solvent'
<1>1. \A q \in Path : claimedAmount[q] \in Int /\ claimedAmount'[q] \in Int
  BY DEF TypeOK
<1>2. /\ \A q \in Path : q # p => claimedAmount'[q] = claimedAmount[q]
      /\ claimedAmount'[p] = claimedAmount[p] + n
  BY DEF TypeOK
<1>3. SumFunctionOnSet(claimedAmount', Path)
        = SumFunctionOnSet(claimedAmount, Path) + claimedAmount'[p] - claimedAmount[p]
  <2>1. IsFiniteSet(Path) /\ p \in Path
    BY PathsAreFinite
  <2>. QED BY ONLY <1>1, <1>2, <2>1, SumUpdate
<1>. QED BY <1>1, <1>2, <1>3, SumsType, SumsTypeNext DEF Solvent, Owed

LEMMA SolventStays ==
  ASSUME Solvent, UNCHANGED <<totalDeposited, claimedAmount, balance>>
  PROVE  Solvent'
BY DEF Solvent, Owed

(* What a transfer out of the pool, or into it, does to its balance.       *)
LEMMA PoolPays ==
  ASSUME TypeOK, NEW to \in Address, NEW n \in Nat, Transfer(Pool, to, n)
  PROVE  balance'[Pool] >= balance[Pool] - n
BY PoolIsAddress DEF TypeOK, Transfer

LEMMA PoolReceives ==
  ASSUME TypeOK, NEW a \in Accounts, NEW n \in Nat, Transfer(a, Pool, n)
  PROVE  balance'[Pool] >= balance[Pool] + n
<1>1. a # Pool /\ a \in Address /\ Pool \in Address
  BY PoolAssumption DEF Address
<1>2. balance'[Pool] = balance[Pool] + n /\ balance[Pool] \in Int
  BY <1>1 DEF TypeOK, Transfer
<1>. QED BY <1>2
-----------------------------------------------------------------------------
(* What was signed.                                                        *)

SignedFor(p, n) ==
  {m.amount : m \in {s \in signed : s.path = p /\ s.nonce = n /\ s.signer = pathController[p]}}
BestFor(p, n) == IF SignedFor(p, n) = {} THEN 0 ELSE Max(SignedFor(p, n))
Best(p) == [n \in 0 .. claimNonce[p] - 1 |-> BestFor(p, n)]
Ceiling(p) == SumFunctionOnSet(Best(p), 0 .. claimNonce[p] - 1)

UsedNonces(p) == 0 .. claimNonce[p] - 1

SignedInv ==
  /\ IsFiniteSet(signed)
  /\ \A p \in Path : claimedAmount[p] <= Ceiling(p)

LEMMA ClaimsAreSignedIs == ClaimsAreSigned <=> \A p \in Path : claimedAmount[p] <= Ceiling(p)
<1>1. \A p \in Path : DOMAIN Best(p) = 0 .. claimNonce[p] - 1
  BY DEF Best
<1>2. \A p \in Path : Ceiling(p) = SumFunction(Best(p))
  BY <1>1 DEF Ceiling, SumFunction
<1>. QED BY <1>2 DEF ClaimsAreSigned, Best, BestFor, SignedFor

LEMMA SignedForType ==
  ASSUME TypeOK, IsFiniteSet(signed), NEW p, NEW n
  PROVE  /\ SignedFor(p, n) \subseteq Nat /\ IsFiniteSet(SignedFor(p, n))
         /\ BestFor(p, n) \in Nat
         /\ \A x \in SignedFor(p, n) : x <= BestFor(p, n)
<1>. DEFINE from == {s \in signed : s.path = p /\ s.nonce = n /\ s.signer = pathController[p]}
            f == [m \in from |-> m.amount]
<1>1. IsFiniteSet(from)
  BY FS_Subset
<1>2. f \in Surjection(from, SignedFor(p, n))
  BY DEF Surjection, SignedFor
<1>3. IsFiniteSet(SignedFor(p, n))
  BY <1>1, <1>2, FS_Surjection
<1>4. SignedFor(p, n) \subseteq Nat
  BY DEF SignedFor, TypeOK, ClaimMessage
<1>5. CASE SignedFor(p, n) = {}
  BY <1>3, <1>4, <1>5 DEF BestFor
<1>6. CASE SignedFor(p, n) # {}
  <2>1. SignedFor(p, n) \subseteq Int
    BY <1>4
  <2>2. /\ Max(SignedFor(p, n)) \in SignedFor(p, n)
        /\ \A x \in SignedFor(p, n) : x <= Max(SignedFor(p, n))
    BY <1>3, <1>6, <2>1, MaxOfFinite
  <2>. QED BY <1>3, <1>4, <1>6, <2>2 DEF BestFor
<1>. QED BY <1>5, <1>6

LEMMA SignedForTypeNext ==
  ASSUME TypeOK', IsFiniteSet(signed)', NEW p, NEW n
  PROVE  /\ BestFor(p, n)' \in Nat
         /\ \A x \in SignedFor(p, n)' : x <= BestFor(p, n)'
<1>. DEFINE A == SignedFor(p, n)'
            from == {s \in signed' : s.path = p /\ s.nonce = n /\ s.signer = pathController'[p]}
            f == [m \in from |-> m.amount]
<1>1. IsFiniteSet(from)
  BY FS_Subset
<1>2. A = {m.amount : m \in from}
  BY DEF SignedFor
<1>3. f \in Surjection(from, A)
  BY <1>2 DEF Surjection
<1>4. A \subseteq Nat
  BY <1>2 DEF TypeOK, ClaimMessage
<1>. HIDE DEF from, f
<1>5. IsFiniteSet(A)
  BY <1>1, <1>3, FS_Surjection
<1>6. BestFor(p, n)' = IF A = {} THEN 0 ELSE Max(A)
  BY DEF BestFor
<1>. HIDE DEF A
<1>7. CASE A = {}
  BY <1>6, <1>7 DEF A
<1>8. CASE A # {}
  <2>1. A \subseteq Int
    BY <1>4
  <2>2. Max(A) \in A /\ \A x \in A : x <= Max(A)
    BY <1>5, <1>8, <2>1, MaxOfFinite
  <2>. QED BY <1>4, <1>6, <1>8, <2>2 DEF A
<1>. QED BY <1>7, <1>8

LEMMA CeilingType ==
  ASSUME TypeOK, IsFiniteSet(signed), NEW p \in Path
  PROVE  /\ IsFiniteSet(UsedNonces(p))
         /\ \A n \in UsedNonces(p) : Best(p)[n] = BestFor(p, n) /\ Best(p)[n] \in Nat
         /\ Ceiling(p) \in Nat
<1>1. claimNonce[p] \in Nat
  BY DEF TypeOK
<1>2. IsFiniteSet(UsedNonces(p))
  BY <1>1, FS_Interval DEF UsedNonces
<1>3. \A n \in UsedNonces(p) : Best(p)[n] = BestFor(p, n) /\ Best(p)[n] \in Nat
  BY SignedForType DEF Best, UsedNonces
<1>4. SumFunctionOnSet(Best(p), UsedNonces(p)) \in Nat
  BY <1>2, <1>3, SumNatural
<1>. QED BY <1>2, <1>3, <1>4 DEF Ceiling, UsedNonces

LEMMA CeilingTypeNext ==
  ASSUME TypeOK', IsFiniteSet(signed)', NEW p \in Path
  PROVE  /\ IsFiniteSet(UsedNonces(p)')
         /\ \A n \in UsedNonces(p)' : Best(p)'[n] = BestFor(p, n)' /\ Best(p)'[n] \in Nat
         /\ Ceiling(p)' \in Nat
         /\ Ceiling(p)' = SumFunctionOnSet(Best(p)', UsedNonces(p)')
<1>1. claimNonce'[p] \in Nat /\ UsedNonces(p)' = 0 .. claimNonce'[p] - 1
  BY DEF TypeOK, UsedNonces
<1>2. IsFiniteSet(UsedNonces(p)')
  BY <1>1, FS_Interval
<1>3. \A n \in UsedNonces(p)' : Best(p)'[n] = BestFor(p, n)' /\ Best(p)'[n] \in Nat
  BY SignedForTypeNext DEF Best, UsedNonces
<1>4. SumFunctionOnSet(Best(p)', UsedNonces(p)') \in Nat
  BY <1>2, <1>3, SumNatural
<1>. QED BY <1>2, <1>3, <1>4 DEF Ceiling, UsedNonces

(* More signatures for the same key raise no ceiling's nonces and lower no *)
(* maximum.                                                                *)
LEMMA CeilingRises ==
  ASSUME TypeOK, TypeOK', IsFiniteSet(signed), IsFiniteSet(signed)', NEW p \in Path,
         signed \subseteq signed', pathController'[p] = pathController[p],
         claimNonce'[p] = claimNonce[p]
  PROVE  Ceiling(p) <= Ceiling(p)'
<1>1. \A n : SignedFor(p, n) \subseteq SignedFor(p, n)'
  BY DEF SignedFor
<1>2. \A n : BestFor(p, n) <= BestFor(p, n)'
  <2>1. SUFFICES ASSUME NEW n PROVE BestFor(p, n) <= BestFor(p, n)'
    OBVIOUS
  <2>2. BestFor(p, n)' \in Nat /\ \A x \in SignedFor(p, n)' : x <= BestFor(p, n)'
    BY SignedForTypeNext
  <2>3. CASE SignedFor(p, n) = {}
    BY <2>2, <2>3 DEF BestFor
  <2>4. CASE SignedFor(p, n) # {}
    <3>1. SignedFor(p, n) \subseteq Int /\ IsFiniteSet(SignedFor(p, n))
      BY SignedForType
    <3>2. BestFor(p, n) \in SignedFor(p, n)
      BY <2>4, <3>1, MaxOfFinite DEF BestFor
    <3>. QED BY <1>1, <2>2, <3>2
  <2>. QED BY <2>3, <2>4
<1>3. UsedNonces(p)' = UsedNonces(p) /\ IsFiniteSet(UsedNonces(p))
  BY CeilingType DEF UsedNonces
<1>4. \A n \in UsedNonces(p) :
        Best(p)[n] \in Int /\ Best(p)'[n] \in Int /\ Best(p)[n] <= Best(p)'[n]
  BY <1>2, <1>3, CeilingType, CeilingTypeNext
<1>5. SumFunctionOnSet(Best(p), UsedNonces(p)) <= SumFunctionOnSet(Best(p)', UsedNonces(p))
  BY ONLY <1>3, <1>4, SumMonotone
<1>. QED BY <1>3, <1>5, CeilingTypeNext DEF Ceiling, UsedNonces
(* A claim uses up a nonce, under which no less was signed than it pays.   *)
LEMMA ClaimRaisesCeiling ==
  ASSUME TypeOK, TypeOK', IsFiniteSet(signed), IsFiniteSet(signed)',
         NEW m \in signed, NEW p \in Path, p = m.path,
         m.nonce = claimNonce[p], m.signer = pathController[p],
         claimNonce' = [claimNonce EXCEPT ![p] = @ + 1],
         UNCHANGED <<signed, pathController>>
  PROVE  Ceiling(p) + m.amount <= Ceiling(p)'
<1>. DEFINE k == claimNonce[p]
            Old == UsedNonces(p)
            New == UsedNonces(p)'
            best == Best(p)'
<1>1. k \in Nat /\ claimNonce'[p] = k + 1
  BY DEF TypeOK
<1>2. New = 0 .. k /\ Old = 0 .. k - 1 /\ k \in New /\ New \ {k} = Old
  BY <1>1 DEF UsedNonces
<1>3. /\ IsFiniteSet(New) /\ \A n \in New : best[n] = BestFor(p, n)' /\ best[n] \in Nat
      /\ Ceiling(p)' = SumFunctionOnSet(best, New) /\ Ceiling(p)' \in Nat
  BY CeilingTypeNext
<1>4. \A n : SignedFor(p, n)' = SignedFor(p, n) /\ BestFor(p, n)' = BestFor(p, n)
  BY DEF SignedFor, BestFor
<1>5. /\ IsFiniteSet(Old) /\ \A n \in Old : Best(p)[n] = BestFor(p, n)
      /\ Ceiling(p) = SumFunctionOnSet(Best(p), Old) /\ Ceiling(p) \in Nat
  BY CeilingType DEF Ceiling, UsedNonces
<1>6. \A n \in Old : Best(p)[n] = best[n]
  BY <1>2, <1>3, <1>4, <1>5
<1>7. best[k] >= m.amount /\ best[k] \in Nat
  <2>1. m.amount \in SignedFor(p, k)
    BY DEF SignedFor
  <2>2. m.amount <= BestFor(p, k)
    BY <2>1, SignedForType
  <2>. QED BY <1>2, <1>3, <1>4, <2>2
<1>. HIDE DEF k, Old, New, best
<1>8. SumFunctionOnSet(best, New) = best[k] + SumFunctionOnSet(best, Old)
  <2>1. \A n \in New : best[n] \in Int
    BY <1>3
  <2>2. SumFunctionOnSet(best, New) = best[k] + SumFunctionOnSet(best, New \ {k})
    BY ONLY <1>2, <1>3, <2>1, SumOneMore
  <2>. QED BY <1>2, <2>2
<1>9. SumFunctionOnSet(Best(p), Old) = SumFunctionOnSet(best, Old)
  BY ONLY <1>5, <1>6, SumAlike
<1>10. m.amount \in Nat
  BY DEF TypeOK, ClaimMessage
<1>. QED BY <1>3, <1>5, <1>7, <1>8, <1>9, <1>10

-----------------------------------------------------------------------------
(* The books and the signatures together: what each operation does to them. *)

BooksInv ==
  /\ PoolInv
  /\ ReservationsAddUp
  /\ Solvent
  /\ SignedInv

(* Nothing was signed, claimed or registered: no path is bound to a key.   *)
LEMMA InitBooksInv == Init => BooksInv
<1>. SUFFICES ASSUME Init PROVE BooksInv
  OBVIOUS
<1>1. PoolInv /\ TypeOK
  BY InitPoolInv DEF PoolInv
<1>2. ReservationsAddUp
  <2>1. SUFFICES ASSUME NEW w \in Wallets PROVE totalAllocated[w] = Promised(w)
    BY DEF ReservationsAddUp
  <2>2. IsFiniteSet(PathsOf(w)) /\ \A p \in PathsOf(w) : totalAmount[p] = 0
    BY PathsAreFinite DEF Init
  <2>3. Promised(w) = 0
    BY <2>2, SumZero DEF Promised
  <2>. QED BY <2>3 DEF Init
<1>3. Solvent
  <2>1. /\ \A w \in Wallets : totalDeposited[w] = 0
        /\ \A p \in Path : claimedAmount[p] = 0
    BY DEF Init
  <2>2. /\ SumFunctionOnSet(totalDeposited, Wallets) = 0
        /\ SumFunctionOnSet(claimedAmount, Path) = 0
    BY <2>1, PathsAreFinite, SumZero
  <2>3. balance[Pool] \in Nat
    BY <1>1, PoolIsAddress DEF TypeOK
  <2>. QED BY <2>2, <2>3 DEF Solvent, Owed
<1>4. SignedInv
  <2>1. IsFiniteSet(signed)
    BY FS_EmptySet DEF Init
  <2>2. \A p \in Path : Ceiling(p) \in Nat
    BY <1>1, <2>1, CeilingType
  <2>. QED BY <2>1, <2>2 DEF SignedInv, Init
<1>. QED BY <1>1, <1>2, <1>3, <1>4 DEF BooksInv

(* Nothing that leaves the claims and the keys alone disturbs the bound.   *)
LEMMA SignedStays ==
  ASSUME BooksInv, TypeOK', UNCHANGED <<pathController, claimedAmount, claimNonce, signed>>
  PROVE  SignedInv'
<1>1. \A p \in Path : Ceiling(p)' = Ceiling(p)
  BY DEF Ceiling, Best, BestFor, SignedFor
<1>. QED BY <1>1 DEF BooksInv, SignedInv

LEMMA AttestKeepsBooks ==
  ASSUME BooksInv, Attest
  PROVE  BooksInv'
<1>1. PoolInv' /\ TypeOK'
  BY AttestStep DEF BooksInv, PoolInv
<1>2. UNCHANGED <<walletOwner, totalDeposited, totalAllocated, pathController, totalAmount,
                  claimedAmount, claimNonce, signed, balance>>
  BY DEF Attest, poolVars, pathVars, claimVars
<1>. QED BY <1>1, <1>2, ReservationsStay, SolventStays, SignedStays DEF BooksInv

LEMMA WalletKeepsBooks ==
  ASSUME BooksInv, NEW a \in Accounts, NEW w \in Wallets, RegisterWallet(w, a)
  PROVE  BooksInv'
<1>1. PoolInv' /\ TypeOK'
  BY WalletStep DEF BooksInv, PoolInv
<1>2. UNCHANGED <<totalDeposited, totalAllocated, pathController, totalAmount,
                  claimedAmount, claimNonce, signed, balance>>
  BY DEF RegisterWallet, poolVars, pathVars, claimVars
<1>. QED BY <1>1, <1>2, ReservationsStay, SolventStays, SignedStays DEF BooksInv

LEMMA DepositKeepsBooks ==
  ASSUME BooksInv, NEW a \in Accounts, NEW w \in Wallets, NEW n \in Nat, Deposit(a, w, n)
  PROVE  BooksInv'
<1>1. PoolInv' /\ TypeOK' /\ TypeOK
  BY DepositStep DEF BooksInv, PoolInv
<1>2. /\ totalDeposited' = [totalDeposited EXCEPT ![w] = @ + n]
      /\ Transfer(a, Pool, n)
      /\ UNCHANGED <<totalAllocated, pathController, totalAmount, claimedAmount, claimNonce, signed>>
  BY DEF Deposit, pathVars, claimVars
<1>3. balance'[Pool] >= balance[Pool] + n
  BY <1>1, <1>2, PoolReceives
<1>4. Solvent'
  <2>1. /\ n \in Int /\ Solvent
        /\ totalDeposited'[w] = totalDeposited[w] + n
        /\ \A v \in Wallets : v # w => totalDeposited'[v] = totalDeposited[v]
    BY <1>1, <1>2 DEF TypeOK, BooksInv
  <2>. QED BY <1>1, <1>2, <1>3, <2>1, DepositsMove
<1>. QED BY <1>1, <1>2, <1>4, ReservationsStay, SignedStays DEF BooksInv

LEMMA ReclaimKeepsBooks ==
  ASSUME BooksInv, NEW a \in Accounts, NEW w \in Wallets, NEW n \in Nat, NEW to \in Address,
         Reclaim(a, w, n, to)
  PROVE  BooksInv'
<1>1. PoolInv' /\ TypeOK' /\ TypeOK
  BY ReclaimStep DEF BooksInv, PoolInv
<1>2. /\ totalDeposited' = [totalDeposited EXCEPT ![w] = @ - n]
      /\ Transfer(Pool, to, n)
      /\ UNCHANGED <<totalAllocated, pathController, totalAmount, claimedAmount, claimNonce, signed>>
  BY DEF Reclaim, pathVars, claimVars
<1>3. balance'[Pool] >= balance[Pool] - n
  BY <1>1, <1>2, PoolPays
<1>4. Solvent'
  <2>. DEFINE d == 0 - n
  <2>1. /\ d \in Int /\ totalDeposited'[w] = totalDeposited[w] + d
        /\ \A v \in Wallets : v # w => totalDeposited'[v] = totalDeposited[v]
    BY <1>1, <1>2 DEF TypeOK
  <2>2. balance'[Pool] >= balance[Pool] + d
    BY <1>1, <1>3, SumsType, SumsTypeNext
  <2>. HIDE DEF d
  <2>3. Solvent
    BY DEF BooksInv
  <2>. QED BY <1>1, <1>2, <2>1, <2>2, <2>3, DepositsMove
<1>. QED BY <1>1, <1>2, <1>4, ReservationsStay, SignedStays DEF BooksInv
(* A path is registered once: it had been promised nothing.                *)
LEMMA RegisterKeepsBooks ==
  ASSUME BooksInv, NEW a \in Accounts, NEW p \in Path, NEW key \in Accounts, NEW n \in Nat,
         RegisterPath(a, p, key, n)
  PROVE  BooksInv'
<1>1. /\ PoolInv' /\ PoolInv /\ TypeOK' /\ TypeOK /\ UNCHANGED claimedAmount
      /\ ReservationsAddUp /\ Solvent
  BY RegisterStep DEF BooksInv, PoolInv
<1>2. /\ pathController[p] = NoAddress
      /\ totalAllocated' = [totalAllocated EXCEPT ![p[1]] = @ + n]
      /\ pathController' = [pathController EXCEPT ![p] = key]
      /\ totalAmount' = [totalAmount EXCEPT ![p] = n]
      /\ UNCHANGED <<totalDeposited, claimNonce, signed, balance>>
  BY DEF RegisterPath, claimVars
<1>3. totalAmount[p] = 0 /\ claimedAmount[p] = 0
  BY <1>1, <1>2 DEF PoolInv, UnregisteredIsEmpty
<1>4. ReservationsAddUp'
  <2>1. p[1] \in Wallets
    BY DEF Path
  <2>2. /\ n \in Int /\ totalAmount'[p] = totalAmount[p] + n
        /\ \A q \in Path : q # p => totalAmount'[q] = totalAmount[q]
        /\ totalAllocated'[p[1]] = totalAllocated[p[1]] + n
        /\ \A w \in Wallets : w # p[1] => totalAllocated'[w] = totalAllocated[w]
    BY <1>1, <1>2, <1>3, <2>1 DEF TypeOK
  <2>. QED BY <1>1, <2>2, ReservationMoves
<1>5. Solvent'
  BY <1>1, <1>2, SolventStays
<1>6. SignedInv'
  <2>1. IsFiniteSet(signed) /\ IsFiniteSet(signed)' /\ signed \subseteq signed'
    BY <1>2 DEF BooksInv, SignedInv
  <2>2. SUFFICES ASSUME NEW q \in Path PROVE claimedAmount'[q] <= Ceiling(q)'
    BY <2>1 DEF SignedInv
  <2>3. CASE q = p
    <3>1. Ceiling(q)' \in Nat
      BY <1>1, <2>1, CeilingTypeNext
    <3>. QED BY <1>1, <1>3, <2>3, <3>1
  <2>4. CASE q # p
    <3>1. pathController'[q] = pathController[q] /\ claimNonce'[q] = claimNonce[q]
      BY <1>1, <1>2, <2>4 DEF TypeOK
    <3>2. Ceiling(q) <= Ceiling(q)'
      BY <1>1, <2>1, <3>1, CeilingRises
    <3>3. Ceiling(q) \in Nat /\ Ceiling(q)' \in Nat
      BY <1>1, <2>1, CeilingType, CeilingTypeNext
    <3>4. claimedAmount[q] \in Nat /\ claimedAmount[q] <= Ceiling(q)
      BY <1>1 DEF TypeOK, BooksInv, SignedInv
    <3>. QED BY <1>1, <3>2, <3>3, <3>4
  <2>. QED BY <2>3, <2>4
<1>. QED BY <1>1, <1>4, <1>5, <1>6 DEF BooksInv

(* Promise, reservation and deposits fall by what the owner takes back.    *)
LEMMA ReclaimAllocatedKeepsBooks ==
  ASSUME BooksInv, NEW a \in Accounts, NEW p \in Path, NEW to \in Address,
         ReclaimAllocated(a, p, to)
  PROVE  BooksInv'
<1>. DEFINE rest == Remaining(p)
            d == 0 - rest
<1>1. /\ PoolInv' /\ PoolInv /\ TypeOK' /\ TypeOK /\ UNCHANGED claimedAmount
      /\ ReservationsAddUp /\ Solvent
      /\ totalAmount' = [totalAmount EXCEPT ![p] = claimedAmount[p]]
  BY ReclaimAllocatedStep DEF BooksInv, PoolInv
<1>2. /\ totalAllocated' = [totalAllocated EXCEPT ![p[1]] = @ - rest]
      /\ totalDeposited' = [totalDeposited EXCEPT ![p[1]] = @ - rest]
      /\ Transfer(Pool, to, rest)
      /\ UNCHANGED <<pathController, claimNonce, signed>>
  BY DEF ReclaimAllocated, claimVars
<1>3. rest \in Nat /\ rest = totalAmount[p] - claimedAmount[p]
  BY <1>1 DEF PoolInv, TypeOK, NeverOverclaimed, Remaining
<1>. HIDE DEF rest
<1>4. p[1] \in Wallets
  BY DEF Path
<1>5. ReservationsAddUp'
  <2>1. /\ d \in Int /\ totalAmount'[p] = totalAmount[p] + d
        /\ \A q \in Path : q # p => totalAmount'[q] = totalAmount[q]
        /\ totalAllocated'[p[1]] = totalAllocated[p[1]] + d
        /\ \A w \in Wallets : w # p[1] => totalAllocated'[w] = totalAllocated[w]
    BY <1>1, <1>2, <1>3, <1>4 DEF TypeOK
  <2>. HIDE DEF d
  <2>. QED BY <1>1, <2>1, ReservationMoves
<1>6. Solvent'
  <2>1. balance'[Pool] >= balance[Pool] - rest
    BY <1>1, <1>2, <1>3, PoolPays
  <2>2. balance'[Pool] >= balance[Pool] + d
    BY <1>1, <1>3, <2>1, SumsType, SumsTypeNext
  <2>3. /\ d \in Int /\ totalDeposited'[p[1]] = totalDeposited[p[1]] + d
        /\ \A v \in Wallets : v # p[1] => totalDeposited'[v] = totalDeposited[v]
    BY <1>1, <1>2, <1>3, <1>4 DEF TypeOK
  <2>. HIDE DEF d
  <2>. QED BY <1>1, <1>4, <2>2, <2>3, DepositsMove
<1>. QED BY <1>1, <1>2, <1>5, <1>6, SignedStays DEF BooksInv

LEMMA SignKeepsBooks ==
  ASSUME BooksInv, NEW m \in ClaimMessage, SignClaim(m)
  PROVE  BooksInv'
<1>1. PoolInv' /\ PoolInv /\ TypeOK' /\ TypeOK /\ ReservationsAddUp /\ Solvent
  BY SignStep DEF BooksInv, PoolInv
<1>2. /\ signed' = signed \union {m}
      /\ UNCHANGED <<totalDeposited, totalAllocated, pathController, totalAmount,
                     claimedAmount, claimNonce, balance>>
  BY DEF SignClaim, poolVars, pathVars
<1>3. IsFiniteSet(signed) /\ IsFiniteSet(signed)' /\ signed \subseteq signed'
  BY <1>2, FS_AddElement DEF BooksInv, SignedInv
<1>4. SignedInv'
  <2>1. SUFFICES ASSUME NEW q \in Path PROVE claimedAmount'[q] <= Ceiling(q)'
    BY <1>3 DEF SignedInv
  <2>2. Ceiling(q) <= Ceiling(q)'
    BY <1>1, <1>2, <1>3, CeilingRises
  <2>3. Ceiling(q) \in Nat /\ Ceiling(q)' \in Nat
    BY <1>1, <1>3, CeilingType, CeilingTypeNext
  <2>4. claimedAmount[q] \in Nat /\ claimedAmount[q] <= Ceiling(q)
    BY <1>1 DEF TypeOK, BooksInv, SignedInv
  <2>. QED BY <1>2, <2>2, <2>3, <2>4
<1>. QED BY <1>1, <1>2, <1>4, ReservationsStay, SolventStays DEF BooksInv
(* A claim pays no more than was signed for the nonce it uses up.          *)
LEMMA ClaimKeepsBooks ==
  ASSUME BooksInv, NEW a \in Accounts, NEW m \in signed, Claim(a, m)
  PROVE  BooksInv'
<1>. DEFINE p == m.path
            n == IF m.amount > Remaining(p) THEN Remaining(p) ELSE m.amount
<1>1. /\ PoolInv' /\ PoolInv /\ TypeOK' /\ TypeOK /\ ReservationsAddUp /\ Solvent
      /\ p \in Path /\ m.amount \in Nat /\ m.to \in Address
  BY ClaimStep DEF BooksInv, PoolInv, TypeOK, ClaimMessage
<1>2. /\ m.nonce = claimNonce[p] /\ m.signer = pathController[p]
      /\ claimNonce' = [claimNonce EXCEPT ![p] = @ + 1]
      /\ claimedAmount' = [claimedAmount EXCEPT ![p] = @ + n]
      /\ Transfer(Pool, m.to, n)
      /\ UNCHANGED <<totalDeposited, totalAllocated, pathController, totalAmount, signed>>
  BY DEF Claim, poolVars
<1>3. Remaining(p) \in Nat
  BY <1>1 DEF PoolInv, TypeOK, NeverOverclaimed, Remaining
<1>4. n \in Nat /\ n <= m.amount
  BY <1>1, <1>3
<1>5. ReservationsAddUp'
  BY <1>1, <1>2, ReservationsStay
<1>. HIDE DEF n
<1>6. Solvent'
  <2>1. balance'[Pool] >= balance[Pool] - n
    BY <1>1, <1>2, <1>4, PoolPays
  <2>2. n \in Int
    BY <1>4
  <2>. HIDE DEF p
  <2>. QED BY <1>1, <1>2, <2>1, <2>2, ClaimsMove
<1>7. SignedInv'
  <2>1. IsFiniteSet(signed) /\ IsFiniteSet(signed)'
    BY <1>2 DEF BooksInv, SignedInv
  <2>2. SUFFICES ASSUME NEW q \in Path PROVE claimedAmount'[q] <= Ceiling(q)'
    BY <2>1 DEF SignedInv
  <2>3. Ceiling(q) \in Nat /\ Ceiling(q)' \in Nat
    BY <1>1, <2>1, CeilingType, CeilingTypeNext
  <2>4. claimedAmount[q] \in Nat /\ claimedAmount[q] <= Ceiling(q)
    BY <1>1 DEF TypeOK, BooksInv, SignedInv
  <2>5. CASE q = p
    <3>1. Ceiling(p) + m.amount <= Ceiling(p)'
      BY <1>1, <1>2, <2>1, ClaimRaisesCeiling
    <3>2. claimedAmount'[p] = claimedAmount[p] + n
      BY <1>1, <1>2 DEF TypeOK
    <3>. HIDE DEF p
    <3>. QED BY <1>1, <1>4, <2>3, <2>4, <2>5, <3>1, <3>2
  <2>6. CASE q # p
    <3>1. claimNonce'[q] = claimNonce[q] /\ claimedAmount'[q] = claimedAmount[q]
      BY <1>1, <1>2, <2>6 DEF TypeOK
    <3>2. signed \subseteq signed' /\ pathController'[q] = pathController[q]
      BY <1>2
    <3>3. Ceiling(q) <= Ceiling(q)'
      BY <1>1, <2>1, <3>1, <3>2, CeilingRises
    <3>. QED BY <2>3, <2>4, <3>1, <3>3
  <2>. QED BY <2>5, <2>6
<1>. QED BY <1>1, <1>5, <1>6, <1>7 DEF BooksInv

LEMMA NextKeepsBooks == BooksInv /\ [Next]_vars => BooksInv'
<1>. SUFFICES ASSUME BooksInv, [Next]_vars PROVE BooksInv'
  OBVIOUS
<1>1. CASE Attest
  BY <1>1, AttestKeepsBooks
<1>2. ASSUME NEW a \in Accounts, NEW w \in Wallets, RegisterWallet(w, a) PROVE BooksInv'
  BY <1>2, WalletKeepsBooks
<1>3. ASSUME NEW a \in Accounts, NEW w \in Wallets, NEW n \in 1 .. balance[a], Deposit(a, w, n)
      PROVE  BooksInv'
  <2>1. n \in Nat
    OBVIOUS
  <2>. QED BY <1>3, <2>1, DepositKeepsBooks
<1>4. ASSUME NEW a \in Accounts, NEW w \in Wallets, NEW n \in 1 .. totalDeposited[w],
             NEW to \in Address, Reclaim(a, w, n, to)
      PROVE  BooksInv'
  <2>1. n \in Nat
    OBVIOUS
  <2>. QED BY <1>4, <2>1, ReclaimKeepsBooks
<1>5. ASSUME NEW a \in Accounts, NEW p \in Path, NEW key \in Accounts,
             NEW n \in 0 .. totalDeposited[p[1]], RegisterPath(a, p, key, n)
      PROVE  BooksInv'
  <2>1. n \in Nat
    OBVIOUS
  <2>. QED BY <1>5, <2>1, RegisterKeepsBooks
<1>6. ASSUME NEW a \in Accounts, NEW p \in Path, NEW to \in Address, ReclaimAllocated(a, p, to)
      PROVE  BooksInv'
  BY <1>6, ReclaimAllocatedKeepsBooks
<1>7. ASSUME NEW p \in Path, NEW n \in 1 .. InitialTokens, NEW to \in Address,
             NEW key \in Accounts, NEW nonce \in 0 .. MaxSigned,
             SignClaim([path |-> p, amount |-> n, to |-> to, nonce |-> nonce, signer |-> key])
      PROVE  BooksInv'
  <2>1. [path |-> p, amount |-> n, to |-> to, nonce |-> nonce, signer |-> key] \in ClaimMessage
    BY DEF ClaimMessage
  <2>. QED BY <1>7, <2>1, SignKeepsBooks
<1>8. ASSUME NEW a \in Accounts, NEW m \in signed, Claim(a, m) PROVE BooksInv'
  BY <1>8, ClaimKeepsBooks
<1>9. CASE UNCHANGED vars
  <2>1. PoolInv'
    BY <1>9, NextIsProgress DEF BooksInv, Progress
  <2>2. TypeOK'
    BY <2>1 DEF PoolInv
  <2>3. UNCHANGED <<totalDeposited, totalAllocated, pathController, totalAmount,
                    claimedAmount, claimNonce, signed, balance>>
    BY <1>9 DEF vars, poolVars, pathVars, claimVars
  <2>. QED BY <2>1, <2>2, <2>3, ReservationsStay, SolventStays, SignedStays DEF BooksInv
<1>. QED BY <1>1, <1>2, <1>3, <1>4, <1>5, <1>6, <1>7, <1>8, <1>9
         DEF Next, OwnerCall, ClaimCall

LEMMA BooksInvariant == Spec => []BooksInv
  BY InitBooksInv, NextKeepsBooks, PTL DEF Spec

-----------------------------------------------------------------------------
(* What is reserved in a pool is the sum of the promises to its paths, and *)
(* is covered by its deposits, however paths are registered, claimed and   *)
(* reclaimed (registerPath, reclaimAllocated).                             *)
THEOREM AllocationsStayBacked == Spec => []AllocationsBacked
<1>1. BooksInv => AllocationsBacked
  BY DEF BooksInv, PoolInv, ReservationsCovered, ReservationsAddUp, Promised, AllocationsBacked
<1>. QED BY <1>1, BooksInvariant, PTL

(* The contract always holds the deposits of every plan net of everything  *)
(* ever claimed: nobody's claim or reclaim is paid with another's tokens.  *)
THEOREM PoolStaysSolvent == Spec => []PoolSolvent
<1>1. BooksInv => PoolSolvent
  BY SolventIs DEF BooksInv, PoolInv
<1>. QED BY <1>1, BooksInvariant, PTL

(* What a path has claimed never exceeds the sum, over the nonces it used  *)
(* up, of the most its controller signed for each: no signature pays twice *)
(* (claim and its claimNonce).                                             *)
THEOREM ClaimsStaySigned == Spec => []ClaimsAreSigned
<1>1. BooksInv => ClaimsAreSigned
  BY ClaimsAreSignedIs DEF BooksInv, SignedInv
<1>. QED BY <1>1, BooksInvariant, PTL
=============================================================================
