--------------------------- MODULE YaultPathClaim ---------------------------
(***************************************************************************)
(* contracts/src/YaultPathClaim.sol over the attestation slots: a pool of  *)
(* tokens per plan, paths that reserve part of it, and claims signed by    *)
(* the key of the path.  Token balances are those of the asset contract.   *)
(***************************************************************************)
EXTENDS ReleaseAttestation, Integers, FiniteSets, Functions, FiniteSetsExt

CONSTANTS
  Pool,            \* the address of this contract
  Appointable,     \* the addresses the contract owner ever gives a role to
  InitialTokens,   \* tokens every account starts with
  MaxSigned        \* bound: claim messages ever signed

ASSUME PoolAssumption == Pool \in Contracts /\ Pool \notin Accounts
ASSUME AppointableAssumption == Appointable \subseteq Address
ASSUME TokensAssumption == InitialTokens \in Nat /\ MaxSigned \in Nat

VARIABLES
  walletOwner,     \* the registered owner of each plan
  totalDeposited,  \* deposits of each plan; claims do not lower it
  totalAllocated,  \* the part of them reserved for paths
  pathController,  \* pathInfo: whose key signs the claims of each path
  totalAmount,     \* pathInfo: the most the path can claim
  claimedAmount,   \* pathInfo: what it has claimed
  claimNonce,      \* the nonce the next claim message of a path must carry
  signed,          \* every claim message signed so far, off-chain
  balance          \* the token's balances

poolVars == <<totalDeposited, totalAllocated>>
pathVars == <<pathController, totalAmount, claimedAmount>>
claimVars == <<claimNonce, signed>>
vars == <<attestationVars, walletOwner, poolVars, pathVars, claimVars, balance>>

(* The fields the EIP-712 digest covers.  A message whose deadline has     *)
(* passed is one that is not submitted any more.                           *)
ClaimMessage == [path : Path, amount : Nat, to : Address, nonce : Nat, signer : Accounts]

TypeOK ==
  /\ AttestationTypeOK
  /\ walletOwner \in [Wallets -> Accounts \union {NoAddress}]
  /\ totalDeposited \in [Wallets -> Nat]
  /\ totalAllocated \in [Wallets -> Nat]
  /\ pathController \in [Path -> Accounts \union {NoAddress}]
  /\ totalAmount \in [Path -> Nat]
  /\ claimedAmount \in [Path -> Nat]
  /\ claimNonce \in [Path -> Nat]
  /\ signed \subseteq ClaimMessage
  /\ balance \in [Address -> Nat]

Init ==
  /\ AttestationInit
  /\ walletOwner = [w \in Wallets |-> NoAddress]
  /\ totalDeposited = [w \in Wallets |-> 0]
  /\ totalAllocated = [w \in Wallets |-> 0]
  /\ pathController = [p \in Path |-> NoAddress]
  /\ totalAmount = [p \in Path |-> 0]
  /\ claimedAmount = [p \in Path |-> 0]
  /\ claimNonce = [p \in Path |-> 0]
  /\ signed = {}
  /\ balance = [a \in Address |-> IF a \in Accounts THEN InitialTokens ELSE 0]

Remaining(p) == totalAmount[p] - claimedAmount[p]

Transfer(from, to, amount) ==
  /\ balance[from] >= amount
  /\ balance' = IF from = to THEN balance
                ELSE [balance EXCEPT ![from] = @ - amount, ![to] = @ + amount]

RegisterWallet(w, owner) ==
  /\ walletOwner[w] = NoAddress
  /\ walletOwner' = [walletOwner EXCEPT ![w] = owner]
  /\ UNCHANGED <<attestationVars, poolVars, pathVars, claimVars, balance>>

Deposit(sender, w, amount) ==
  /\ walletOwner[w] = sender
  /\ amount > 0
  /\ totalDeposited' = [totalDeposited EXCEPT ![w] = @ + amount]
  /\ Transfer(sender, Pool, amount)
  /\ UNCHANGED <<attestationVars, walletOwner, totalAllocated, pathVars, claimVars>>

(* Faulty variant: only this path is compared with the deposits.           *)
RegisterPath_IgnoresOthers(sender, p, key, amount) ==
  /\ walletOwner[p[1]] = sender /\ pathController[p] = NoAddress
  /\ amount <= totalDeposited[p[1]]
  /\ totalAllocated' = [totalAllocated EXCEPT ![p[1]] = @ + amount]
  /\ pathController' = [pathController EXCEPT ![p] = key]
  /\ totalAmount' = [totalAmount EXCEPT ![p] = amount]
  /\ claimedAmount' = [claimedAmount EXCEPT ![p] = 0]
  /\ UNCHANGED <<attestationVars, walletOwner, totalDeposited, claimVars, balance>>

RegisterPath(sender, p, key, amount) ==
  LET w == p[1] IN
  /\ walletOwner[w] = sender
  /\ pathController[p] = NoAddress
  /\ totalAllocated[w] + amount <= totalDeposited[w]
  /\ totalAllocated' = [totalAllocated EXCEPT ![w] = @ + amount]
  /\ pathController' = [pathController EXCEPT ![p] = key]
  /\ totalAmount' = [totalAmount EXCEPT ![p] = amount]
  /\ claimedAmount' = [claimedAmount EXCEPT ![p] = 0]
  /\ UNCHANGED <<attestationVars, walletOwner, totalDeposited, claimVars, balance>>

(* Off-chain: the holder of any key signs the hash of a claim.             *)
SignClaim(m) ==
  /\ Cardinality(signed) < MaxSigned
  /\ signed' = signed \union {m}
  /\ UNCHANGED <<attestationVars, walletOwner, poolVars, pathVars, claimNonce, balance>>

(* Faulty variant: the nonce is never consumed.                            *)
Claim_KeepsNonce(sender, m) ==
  LET p == m.path
      paid == IF m.amount > Remaining(p) THEN Remaining(p) ELSE m.amount
  IN  /\ m \in signed /\ paid > 0
      /\ Released(p) /\ walletOwner[p[1]] = sender
      /\ m.nonce = claimNonce[p] /\ m.signer = pathController[p]
      /\ claimedAmount' = [claimedAmount EXCEPT ![p] = @ + paid]
      /\ Transfer(Pool, m.to, paid)
      /\ UNCHANGED <<attestationVars, walletOwner, poolVars, pathController,
                     totalAmount, claimVars>>

(* The signed amount is a maximum; what remains caps it.  A message for    *)
(* another nonce recovers some other signer, which the check refuses.      *)
Claim(sender, m) ==
  LET p == m.path
      paid == IF m.amount > Remaining(p) THEN Remaining(p) ELSE m.amount
  IN  /\ m \in signed
      /\ m.amount > 0
      /\ m.to # NoAddress
      /\ Released(p)
      /\ pathController[p] # NoAddress
      /\ walletOwner[p[1]] = sender
      /\ paid > 0
      /\ m.nonce = claimNonce[p]
      /\ m.signer = pathController[p]
      /\ claimNonce' = [claimNonce EXCEPT ![p] = @ + 1]
      /\ claimedAmount' = [claimedAmount EXCEPT ![p] = @ + paid]
      /\ Transfer(Pool, m.to, paid)
      /\ UNCHANGED <<attestationVars, walletOwner, poolVars, pathController,
                     totalAmount, signed>>

Reclaim(sender, w, amount, to) ==
  /\ walletOwner[w] = sender
  /\ amount > 0
  /\ amount <= totalDeposited[w] - totalAllocated[w]
  /\ totalDeposited' = [totalDeposited EXCEPT ![w] = @ - amount]
  /\ Transfer(Pool, to, amount)
  /\ UNCHANGED <<attestationVars, walletOwner, totalAllocated, pathVars, claimVars>>

(* Faulty variants: the pool's deposits are not lowered with the path, or  *)
(* a RELEASE does not stop the owner.                                      *)
ReclaimAllocated_KeepsDeposits(sender, p, to) ==
  /\ walletOwner[p[1]] = sender
  /\ attestations[p].exists /\ attestations[p].decision # "release"
  /\ Remaining(p) > 0
  /\ totalAllocated' = [totalAllocated EXCEPT ![p[1]] = @ - Remaining(p)]
  /\ totalAmount' = [totalAmount EXCEPT ![p] = claimedAmount[p]]
  /\ Transfer(Pool, to, Remaining(p))
  /\ UNCHANGED <<attestationVars, walletOwner, totalDeposited, pathController,
                 claimedAmount, claimVars>>

ReclaimAllocated_IgnoresDecision(sender, p, to) ==
  /\ walletOwner[p[1]] = sender
  /\ attestations[p].exists
  /\ Remaining(p) > 0
  /\ totalAllocated' = [totalAllocated EXCEPT ![p[1]] = @ - Remaining(p)]
  /\ totalDeposited' = [totalDeposited EXCEPT ![p[1]] = @ - Remaining(p)]
  /\ totalAmount' = [totalAmount EXCEPT ![p] = claimedAmount[p]]
  /\ Transfer(Pool, to, Remaining(p))
  /\ UNCHANGED <<attestationVars, walletOwner, pathController, claimedAmount, claimVars>>

(* Faulty variant: the path's amount is kept, in unchecked arithmetic.     *)
ReclaimAllocated_KeepsAmount(sender, p, to) ==
  /\ walletOwner[p[1]] = sender
  /\ attestations[p].exists /\ attestations[p].decision # "release"
  /\ Remaining(p) > 0
  /\ totalAllocated' = [totalAllocated EXCEPT ![p[1]] = @ - Remaining(p)]
  /\ totalDeposited' = [totalDeposited EXCEPT ![p[1]] = @ - Remaining(p)]
  /\ Transfer(Pool, to, Remaining(p))
  /\ UNCHANGED <<attestationVars, walletOwner, pathVars, claimVars>>

ReclaimAllocated(sender, p, to) ==
  LET w == p[1] IN
  /\ walletOwner[w] = sender
  /\ attestations[p].exists
  /\ attestations[p].decision # "release"
  /\ pathController[p] # NoAddress
  /\ Remaining(p) > 0
  /\ totalAllocated[w] >= Remaining(p) /\ totalDeposited[w] >= Remaining(p)
  /\ totalAllocated' = [totalAllocated EXCEPT ![w] = @ - Remaining(p)]
  /\ totalDeposited' = [totalDeposited EXCEPT ![w] = @ - Remaining(p)]
  /\ totalAmount' = [totalAmount EXCEPT ![p] = claimedAmount[p]]
  /\ Transfer(Pool, to, Remaining(p))
  /\ UNCHANGED <<attestationVars, walletOwner, pathController, claimedAmount, claimVars>>

-----------------------------------------------------------------------------
Attest ==
  /\ \/ \E a \in Appointable : SetOracleSubmitter(a)
     \/ \E a \in Appointable, allowed \in BOOLEAN : SetFallbackSubmitter(a, allowed)
     \/ \E a \in Accounts, s \in Source, p \in Path, d \in Decision :
          SubmitAttestation(a, s, p, d)
  /\ UNCHANGED <<walletOwner, poolVars, pathVars, claimVars, balance>>

OwnerCall ==
  \/ \E w \in Wallets, a \in Accounts : RegisterWallet(w, a)
  \/ \E a \in Accounts, w \in Wallets :
       \/ \E n \in 1 .. balance[a] : Deposit(a, w, n)
       \/ \E n \in 1 .. totalDeposited[w], to \in Address : Reclaim(a, w, n, to)
  \/ \E a \in Accounts, p \in Path :
       \/ \E key \in Accounts, n \in 0 .. totalDeposited[p[1]] : RegisterPath(a, p, key, n)
       \/ \E to \in Address : ReclaimAllocated(a, p, to)

ClaimCall ==
  \/ \E p \in Path, n \in 1 .. InitialTokens, to \in Address, key \in Accounts :
       \E nonce \in 0 .. MaxSigned :
         SignClaim([path |-> p, amount |-> n, to |-> to, nonce |-> nonce, signer |-> key])
  \/ \E a \in Accounts, m \in signed : Claim(a, m)

Next == Attest \/ OwnerCall \/ ClaimCall

Spec == Init /\ [][Next]_vars

-----------------------------------------------------------------------------
(* Properties.                                                             *)

PathsOf(w) == {p \in Path : p[1] = w}

(* The reserved part of a pool is exactly what its paths were promised and *)
(* was not reclaimed, and it never exceeds the deposits.                   *)
AllocationsBacked ==
  \A w \in Wallets :
    /\ totalAllocated[w] = SumFunctionOnSet(totalAmount, PathsOf(w))
    /\ totalAllocated[w] <= totalDeposited[w]

(* The contract holds the tokens it owes: deposits net of what was claimed *)
(* from them, although claims never lower totalDeposited.                  *)
PoolSolvent ==
  balance[Pool] >= SumFunction(totalDeposited) - SumFunction(claimedAmount)

(* A path pays at most once per nonce, and never more than the largest     *)
(* amount its controller signed for that nonce.                            *)
ClaimsAreSigned ==
  \A p \in Path :
    claimedAmount[p] <=
      SumFunction([n \in 0 .. claimNonce[p] - 1 |->
        LET amounts == {m.amount : m \in {s \in signed :
                          s.path = p /\ s.nonce = n /\ s.signer = pathController[p]}}
        IN  IF amounts = {} THEN 0 ELSE Max(amounts)])

(* The pool keeps the same promise as the share escrow: what a path has    *)
(* reserved can only be paid out once it is released, and only go back to  *)
(* the owner until then.                                                   *)
Ledger == INSTANCE PathLedger WITH
  Paths <- Path,
  held <- [p \in Path |-> Remaining(p)],
  paid <- claimedAmount,
  released <- {p \in Path : Released(p)}

ImplementsLedger == Ledger!LedgerSpec
=============================================================================
