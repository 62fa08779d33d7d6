------------------------- MODULE ReleaseAttestation -------------------------
(***************************************************************************)
(* contracts/src/ReleaseAttestation.sol: one attestation slot per          *)
(* (walletIdHash, recipientIndex), written by the oracle or by a           *)
(* whitelisted fallback submitter.  Reason codes, evidence hashes and the  *)
(* submitter recorded for audit are left out: no contract reads them back. *)
(***************************************************************************)
EXTENDS Naturals, FiniteSets

CONSTANTS
  Wallets,     \* walletIdHash values
  Indices,     \* recipientIndex values
  Accounts,    \* externally owned addresses that send transactions
  Contracts,   \* contract addresses that take part (escrow, admin-factor vault)
  NoAddress    \* address(0)

Path == Wallets \X Indices
Address == Accounts \union Contracts

ASSUME AddressAssumption == NoAddress \notin Address
(* Hashes and indices have 256 bits: there are finitely many of each. *)
ASSUME PathAssumption == IsFiniteSet(Wallets) /\ IsFiniteSet(Indices)

Source == {"oracle", "fallback"}
Decision == {"release", "hold", "reject"}

VARIABLES
  oracleSubmitter,     \* the address allowed to submit oracle attestations
  fallbackSubmitters,  \* the addresses allowed to submit fallback attestations
  attestations         \* the slot of every path

attestationVars == <<oracleSubmitter, fallbackSubmitters, attestations>>

Attestation == [exists : BOOLEAN, source : Source, decision : Decision]

(* An untouched storage slot reads as all zeros, and 0 is both             *)
(* SOURCE_ORACLE and DECISION_RELEASE: only timestamp = 0 (exists = FALSE) *)
(* tells it from a real RELEASE.                                           *)
EmptySlot == [exists |-> FALSE, source |-> "oracle", decision |-> "release"]

AttestationTypeOK ==
  /\ oracleSubmitter \in Address \union {NoAddress}
  /\ fallbackSubmitters \subseteq Address
  /\ attestations \in [Path -> Attestation]

AttestationInit ==
  /\ oracleSubmitter = NoAddress
  /\ fallbackSubmitters = {}
  /\ attestations = [p \in Path |-> EmptySlot]

(* The test every reader of a slot makes: timestamp != 0 and RELEASE.      *)
Released(p) == attestations[p].exists /\ attestations[p].decision = "release"

SetOracleSubmitter(a) ==
  /\ a # NoAddress
  /\ oracleSubmitter' = a
  /\ UNCHANGED <<fallbackSubmitters, attestations>>

SetFallbackSubmitter(a, allowed) ==
  /\ a # NoAddress
  /\ fallbackSubmitters' = IF allowed THEN fallbackSubmitters \union {a}
                                      ELSE fallbackSubmitters \ {a}
  /\ UNCHANGED <<oracleSubmitter, attestations>>

Authorised(sender, source) ==
  \/ source = "oracle" /\ sender = oracleSubmitter
  \/ source = "fallback" /\ sender \in fallbackSubmitters

(* Faulty variant: RELEASE can be overwritten like any other decision.      *)
MayOverwrite_NotFinal(p, source) ==
  source = "fallback" =>
    ~(attestations[p].exists /\ attestations[p].source = "oracle")

(* Any existing slot but a RELEASE may be overwritten, except that a       *)
(* fallback never overwrites the oracle.                                   *)
MayOverwrite(p, source) ==
  /\ ~Released(p)
  /\ source = "fallback" =>
       ~(attestations[p].exists /\ attestations[p].source = "oracle")

SubmitAttestation(sender, source, p, decision) ==
  /\ Authorised(sender, source)
  /\ MayOverwrite(p, source)
  /\ attestations' = [attestations EXCEPT ![p] =
       [exists |-> TRUE, source |-> source, decision |-> decision]]
  /\ UNCHANGED <<oracleSubmitter, fallbackSubmitters>>
=============================================================================
