-------------------------- MODULE AdminFactorVault --------------------------
(***************************************************************************)
(* contracts/src/AdminFactorVault.sol composed with the attestation slots  *)
(* and the share escrow it calls: the whole on-chain release path.         *)
(* Ciphertexts are opaque, so an entry is its owner and whether the        *)
(* ciphertext is still there.                                              *)
(***************************************************************************)
EXTENDS VaultShareEscrow

CONSTANTS
  Afv,         \* the address of this contract
  Appointable  \* the addresses the contract owners ever give a role to

ASSUME AfvAssumption == Afv \in Contracts /\ Afv \notin Accounts /\ Afv # Escrow
ASSUME AppointableAssumption == Appointable \subseteq Address

VARIABLES
  afOwner,     \* who stored the admin factor of each path (kept for ever)
  ciphertext   \* the paths whose ciphertext is stored

afVars == <<afOwner, ciphertext>>
vars == <<attestationVars, escrowVars, afVars>>

TypeOK ==
  /\ AttestationTypeOK
  /\ EscrowTypeOK
  /\ afOwner \in [Path -> Accounts \union {NoAddress}]
  /\ ciphertext \subseteq Path

Init ==
  /\ AttestationInit
  /\ EscrowInit
  /\ afOwner = [p \in Path |-> NoAddress]
  /\ ciphertext = {}

Destroyed(p) == afOwner[p] # NoAddress /\ p \notin ciphertext

Store(sender, p) ==
  /\ afOwner[p] = NoAddress
  /\ afOwner' = [afOwner EXCEPT ![p] = sender]
  /\ ciphertext' = ciphertext \union {p}

(* Faulty variant: an empty slot, all zeros, is taken for an oracle decision. *)
RejectSlot_ReadsDefault(p) ==
  LET att == attestations[p]
      needed == att.source # "oracle" /\ att.decision # "reject"
  IN  \/ needed /\ SubmitAttestation(Afv, "fallback", p, "reject")
      \/ ~needed /\ UNCHANGED attestationVars

(* A slot holding an oracle decision, or a REJECT already, is left as it   *)
(* is; otherwise this contract submits a REJECT as a fallback submitter,   *)
(* and the transaction reverts when it is not whitelisted.                 *)
RejectSlot(p) ==
  LET att == attestations[p]
      needed == ~att.exists \/ (att.source # "oracle" /\ att.decision # "reject")
  IN  \/ needed /\ SubmitAttestation(Afv, "fallback", p, "reject")
      \/ ~needed /\ UNCHANGED attestationVars

(* Faulty variant: destroys without looking for a RELEASE.                  *)
DestroyFactor_IgnoresRelease(sender, p) ==
  /\ afOwner[p] = sender
  /\ p \in ciphertext
  /\ RejectSlot(p)
  /\ ciphertext' = ciphertext \ {p}
  /\ UNCHANGED afOwner

DestroyFactor(sender, p) ==
  /\ afOwner[p] # NoAddress
  /\ afOwner[p] = sender
  /\ p \in ciphertext
  /\ ~Released(p)
  /\ RejectSlot(p)
  /\ ciphertext' = ciphertext \ {p}
  /\ UNCHANGED afOwner

Destroy(sender, p) ==
  /\ DestroyFactor(sender, p)
  /\ UNCHANGED escrowVars

(* The slot reads REJECT or HOLD by the time reclaimFor reads it.          *)
DestroyAndReclaim(sender, p) ==
  /\ DestroyFactor(sender, p)
  /\ \/ Remaining(p) = 0 /\ UNCHANGED escrowVars
     \/ Remaining(p) > 0 /\ ReclaimFor(Afv, p, Remaining(p), sender)

-----------------------------------------------------------------------------
(* Transactions, one step each.                                            *)

Attest ==
  /\ \/ \E a \in Appointable : SetOracleSubmitter(a)
     \/ \E a \in Appointable, allowed \in BOOLEAN : SetFallbackSubmitter(a, allowed)
     \/ \E a \in Accounts, s \in Source, p \in Path, d \in Decision :
          SubmitAttestation(a, s, p, d)
  /\ UNCHANGED <<escrowVars, afVars>>

EscrowCall ==
  /\ \/ \E w \in Wallets, a \in Accounts : RegisterWallet(w, a)
     \/ \E a \in Appointable : SetAdminFactorVault(a)
     \/ \E a \in Exemptible, exempt \in BOOLEAN : SetTransferExempt(a, exempt)
     \/ \E a \in Accounts, w \in Wallets : \E n \in 1 .. sharesOf[a] :
          \E allot \in [Indices -> 0 .. n] : Deposit(a, w, n, allot)
     \/ \E a \in Accounts, p \in Path, to \in Accounts \union {Escrow}, asAsset \in BOOLEAN :
          \E n \in 1 .. allocatedShares[p] : Claim(a, p, to, n, asAsset)
     \/ \E a \in Accounts, p \in Path :
          \E n \in 1 .. allocatedShares[p] : Reclaim(a, p, n)
     \/ \E a \in Accounts : \E n \in 1 .. sharesOf[a] : SendShares(a, n)
  /\ UNCHANGED <<attestationVars, afVars>>

AdminFactorCall ==
  \E a \in Accounts, p \in Path :
    \/ Store(a, p) /\ UNCHANGED <<attestationVars, escrowVars>>
    \/ Destroy(a, p)
    \/ DestroyAndReclaim(a, p)

Next == Attest \/ EscrowCall \/ AdminFactorCall

Spec == Init /\ [][Next]_vars

-----------------------------------------------------------------------------
(* Properties.                                                             *)

(* Per plan, totalDeposited is what its paths have left to claim: the two  *)
(* books deposit, claim, reclaim and reclaimFor keep never drift apart.    *)
BooksBalance ==
  \A w \in Wallets :
    totalDeposited[w] = SumFunction([i \in Indices |-> Remaining(<<w, i>>)])

(* The escrow holds at least the shares all its plans have on the books,   *)
(* whoever deposits, claims, redeems, reclaims, destroys or donates.       *)
EscrowSolvent == sharesOf[Escrow] >= SumFunction(totalDeposited)

(* A path that paid anything out is attested RELEASE, now and for ever:    *)
(* claim's check at one moment and the finality of submitAttestation.      *)
ClaimedOnlyWhenReleased ==
  \A p \in Path : claimedShares[p] > 0 => Released(p)

(* Nothing in the books stands between a released path and its money: the  *)
(* wallet owner can redeem all that remains (the checked subtraction of    *)
(* totalDeposited and the burn cannot revert), and can take it as shares   *)
(* as long as the vault exempts the escrow from its transfer ban, which    *)
(* its owner may revoke at any time.                                       *)
ReleasedIsClaimable ==
  \A p \in Path :
    Released(p) /\ Remaining(p) > 0 /\ walletOwner[p[1]] # NoAddress =>
      \E to \in Accounts :
        /\ ENABLED Claim(walletOwner[p[1]], p, to, Remaining(p), TRUE)
        /\ Escrow \in transferExempt =>
             ENABLED Claim(walletOwner[p[1]], p, to, Remaining(p), FALSE)

(* Once a path is released its admin factor survives: destroy and          *)
(* destroyAndReclaim refuse, whatever sequence of fallback and oracle      *)
(* decisions led to the release.                                           *)
HeirKeepsFactor ==
  [][\A p \in Path : Released(p) /\ p \in ciphertext => p \in ciphertext']_vars

(* Every destroyed admin factor leaves a decision behind in the slot, so   *)
(* that a path without its factor never looks undecided.                   *)
DestroyLeavesDecision ==
  \A p \in Path : Destroyed(p) => attestations[p].exists

(* The three contracts together implement the path ledger.                 *)
Ledger == INSTANCE PathLedger WITH
  Paths <- Path,
  held <- [p \in Path |-> Remaining(p)],
  paid <- claimedShares,
  released <- {p \in Path : Released(p)}

ImplementsLedger == Ledger!LedgerSpec
=============================================================================
