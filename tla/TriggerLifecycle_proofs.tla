----------------------- MODULE TriggerLifecycle_proofs -----------------------
(***************************************************************************)
(* Proofs about the trigger records, for any triggers, wallets, handlers   *)
(* and sweeps in flight, cooldowns and restarts.  A handler writes back    *)
(* the record it read, however old, so the invariant is about records as   *)
(* such: whatever is stored or carried in a snapshot is sound, and a sound *)
(* record stays sound whatever happens to chain and clock.  The last part  *)
(* is about the cooldown: what a trigger is still made to wait is never    *)
(* less than what is due of it.                                            *)
(***************************************************************************)
EXTENDS TriggerCooldown, TLAPS

(* Submitting an attestation keeps the slots well typed and every released *)
(* path released: nothing overwrites a RELEASE.                            *)
LEMMA SubmitKeepsReleases ==
  ASSUME AttestationTypeOK,
         NEW a \in Address, NEW s \in Source, NEW p \in Path, NEW d \in Decision,
         SubmitAttestation(a, s, p, d)
  PROVE  /\ AttestationTypeOK'
         /\ \A q \in Path : Released(q) => Released(q)'
<1>1. attestations' \in [Path -> Attestation]
  BY DEF SubmitAttestation, AttestationTypeOK, Attestation
<1>2. AttestationTypeOK'
  BY <1>1 DEF SubmitAttestation, AttestationTypeOK
<1>3. ASSUME NEW q \in Path, Released(q) PROVE Released(q)'
  <2>1. q # p
    BY <1>3 DEF SubmitAttestation, MayOverwrite
  <2>. QED BY <1>3, <2>1 DEF SubmitAttestation, AttestationTypeOK, Released
<1>. QED BY <1>2, <1>3

(* A submission writes one slot.                                           *)
LEMMA SubmitWritesOne ==
  ASSUME AttestationTypeOK,
         NEW a \in Address, NEW s \in Source, NEW p \in Path, NEW d \in Decision,
         SubmitAttestation(a, s, p, d)
  PROVE  \A q \in Path : q # p => attestations'[q] = attestations[q]
  BY DEF SubmitAttestation, AttestationTypeOK

Undecided == {"cooldown", "aborted", "attestation_blocked"}

(* A record that may be stored at any later time: one that waits has been    *)
(* decided release, and one that is released was entitled to be.             *)
SoundTrigger ==
  {tr \in Trigger :
     /\ tr.status \in Undecided => tr.decision = "release"
     /\ tr.status = "released" =>
          /\ tr.effective_at <= now
          /\ tr.kind # "legal_event" => GateValid(tr) /\ (OracleOwned \/ ~Unconfirmed(tr))}

(* A finalizer past its lock has a trigger that was due. *)
SoundJob ==
  {x \in [step : Step, t : Triggers \union {NoTrigger}, snap : SoundTrigger, todo : SUBSET Path] :
     /\ x.t = NoTrigger <=> x.step = "idle"
     /\ x.step \in {"gate", "binding", "attest"} =>
          /\ x.snap.status = "cooldown" /\ x.snap.effective_at <= now
          /\ x.step # "gate" <=> x.snap.kind = "legal_event"}

TriggerInv ==
  /\ AttestationTypeOK
  /\ db \in [Triggers -> SoundTrigger]
  /\ job \in [Jobs -> SoundJob]
  /\ finalizing \subseteq Triggers
  /\ paused \in BOOLEAN
  /\ now \in 0 .. Horizon
  /\ restarts \in 0 .. MaxRestarts
  /\ OneFinalizer

-----------------------------------------------------------------------------
(* What is sound stays so. *)

(* The clock goes forward, and nothing overwrites a RELEASE: the same        *)
(* records and snapshots are sound afterwards.                               *)
LEMMA SoundStays ==
  ASSUME now \in Nat, now' \in Nat, now <= now',
         \A p \in Path : Released(p) => attestations'[p] = attestations[p]
  PROVE  SoundTrigger \subseteq SoundTrigger' /\ SoundJob \subseteq SoundJob'
<1>1. ASSUME NEW tr \in Trigger, GateValid(tr) PROVE GateValid(tr)'
  <2>1. tr.path \in Path
    BY DEF Trigger
  <2>. QED BY <1>1, <2>1 DEF GateValid, AttestedBy, Released
<1>2. ASSUME NEW tr \in SoundTrigger PROVE tr \in SoundTrigger'
  <2>1. tr \in Trigger /\ tr.effective_at \in Nat
    BY DEF SoundTrigger, Trigger
  <2>2. tr.status = "released" => tr.effective_at <= now'
    BY <2>1 DEF SoundTrigger
  <2>3. tr.status = "released" /\ tr.kind # "legal_event" =>
          GateValid(tr)' /\ (OracleOwned \/ ~Unconfirmed(tr))
    BY <1>1, <2>1 DEF SoundTrigger
  <2>. QED BY <2>1, <2>2, <2>3 DEF SoundTrigger, Unconfirmed
<1>3. ASSUME NEW x \in SoundJob PROVE x \in SoundJob'
  <2>1. x.snap \in SoundTrigger /\ x.snap.effective_at \in Nat
    BY DEF SoundJob, SoundTrigger, Trigger
  <2>2. x \in [step : Step, t : Triggers \union {NoTrigger}, snap : SoundTrigger', todo : SUBSET Path]
    BY <1>2 DEF SoundJob
  <2>. QED BY <2>1, <2>2 DEF SoundJob
<1>. QED BY <1>2, <1>3

(* Submissions by the two submitters, and steps that leave the chain alone.  *)
LEMMA ChainKeepsReleases ==
  ASSUME AttestationTypeOK,
         \/ UNCHANGED attestationVars
         \/ \E a \in {Oracle, Relayer}, s \in Source, p \in Path, d \in Decision :
              SubmitAttestation(a, s, p, d)
  PROVE  /\ AttestationTypeOK'
         /\ \A p \in Path : Released(p) => attestations'[p] = attestations[p]
<1>1. CASE UNCHANGED attestationVars
  BY <1>1 DEF attestationVars, AttestationTypeOK
<1>2. ASSUME NEW a \in {Oracle, Relayer}, NEW s \in Source, NEW p \in Path, NEW d \in Decision,
             SubmitAttestation(a, s, p, d)
      PROVE  /\ AttestationTypeOK'
             /\ \A q \in Path : Released(q) => attestations'[q] = attestations[q]
  <2>1. a \in Address
    BY TriggerAssumption
  <2>2. AttestationTypeOK'
    BY <1>2, <2>1, SubmitKeepsReleases
  <2>3. ~Released(p)
    BY <1>2 DEF SubmitAttestation, MayOverwrite
  <2>4. \A q \in Path : q # p => attestations'[q] = attestations[q]
    BY <1>2, <2>1, SubmitWritesOne
  <2>. QED BY <2>2, <2>3, <2>4
<1>. QED BY <1>1, <1>2

(* A step in which neither chain nor clock moves. *)
LEMMA SoundSame ==
  ASSUME TriggerInv, UNCHANGED <<attestationVars, now>>
  PROVE  AttestationTypeOK' /\ SoundTrigger \subseteq SoundTrigger' /\ SoundJob \subseteq SoundJob'
<1>1. now \in Nat
  BY TriggerAssumption DEF TriggerInv
<1>. QED BY <1>1, ChainKeepsReleases, SoundStays DEF TriggerInv

LEMMA InitTriggerInv == Init => TriggerInv
<1> SUFFICES ASSUME Init PROVE TriggerInv
  OBVIOUS
<1>1. AttestationTypeOK
  BY TriggerAssumption
     DEF Init, AttestationTypeOK, Attestation, EmptySlot, Source, Decision
<1>2. SomePath \in Path
  BY TriggerAssumption DEF SomePath
<1>3. Blank(SomePath) \in SoundTrigger
  BY <1>2 DEF Blank, SoundTrigger, Trigger, Kind, Status, Undecided
<1>4. Idle \in SoundJob
  BY <1>3 DEF Idle, SoundJob, Step
<1>5. OneFinalizer
  BY DEF Init, OneFinalizer, Idle, Held
<1>. QED BY <1>1, <1>3, <1>4, <1>5, TriggerAssumption DEF Init, TriggerInv

-----------------------------------------------------------------------------
(* The lock: a job stays outside it, stays inside, goes in or comes out. *)

LEMMA StaysOutside ==
  ASSUME job \in [Jobs -> SoundJob], OneFinalizer, NEW j \in Jobs, NEW x,
         job' = [job EXCEPT ![j] = x], job[j].step \notin Held, x.step \notin Held,
         finalizing' = finalizing
  PROVE  OneFinalizer'
<1>1. job'[j] = x /\ \A k \in Jobs \ {j} : job'[k] = job[k]
  OBVIOUS
<1>. QED BY <1>1 DEF OneFinalizer

LEMMA StaysInside ==
  ASSUME job \in [Jobs -> SoundJob], OneFinalizer, NEW j \in Jobs, NEW x,
         job' = [job EXCEPT ![j] = x], job[j].step \in Held, x.step \in Held,
         x.t = job[j].t, finalizing' = finalizing
  PROVE  OneFinalizer'
<1>1. job'[j] = x /\ \A k \in Jobs \ {j} : job'[k] = job[k]
  OBVIOUS
<1>. QED BY <1>1 DEF OneFinalizer

LEMMA GoesIn ==
  ASSUME job \in [Jobs -> SoundJob], OneFinalizer, NEW j \in Jobs, NEW x,
         job' = [job EXCEPT ![j] = x], job[j].step \notin Held, x.step \in Held,
         x.t = job[j].t, x.t \notin finalizing, finalizing' = finalizing \union {x.t}
  PROVE  OneFinalizer'
<1>1. job'[j] = x /\ \A k \in Jobs \ {j} : job'[k] = job[k]
  OBVIOUS
<1>2. \A k \in Jobs : job[k].step \in Held => job[k].t # x.t
  BY DEF OneFinalizer
<1>. QED BY <1>1, <1>2 DEF OneFinalizer

LEMMA ComesOut ==
  ASSUME job \in [Jobs -> SoundJob], OneFinalizer, NEW j \in Jobs, NEW x,
         job' = [job EXCEPT ![j] = x], job[j].step \in Held, x.step \notin Held,
         finalizing' = finalizing \ {job[j].t}
  PROVE  OneFinalizer'
<1>1. job'[j] = x /\ \A k \in Jobs \ {j} : job'[k] = job[k]
  OBVIOUS
<1>2. \A k \in Jobs \ {j} : job[k].step \in Held => job[k].t # job[j].t
  BY DEF OneFinalizer
<1>. QED BY <1>1, <1>2 DEF OneFinalizer

(* A step of one job, whatever it stores: the parts of the invariant. *)
LEMMA JobMoves ==
  ASSUME TriggerInv, NEW j \in Jobs, NEW x \in SoundJob,
         job' = [job EXCEPT ![j] = x], db' \in [Triggers -> SoundTrigger],
         finalizing' \subseteq Triggers, OneFinalizer',
         UNCHANGED <<paused, now, restarts>>,
         \/ UNCHANGED attestationVars
         \/ \E a \in {Oracle, Relayer}, s \in Source, p \in Path, d \in Decision :
              SubmitAttestation(a, s, p, d)
  PROVE  TriggerInv'
<1>1. now \in Nat /\ now' = now
  BY TriggerAssumption DEF TriggerInv
<1>2. /\ AttestationTypeOK'
      /\ \A p \in Path : Released(p) => attestations'[p] = attestations[p]
  BY ChainKeepsReleases DEF TriggerInv
<1>3. SoundTrigger \subseteq SoundTrigger' /\ SoundJob \subseteq SoundJob'
  BY <1>1, <1>2, SoundStays
<1>4. db' \in [Triggers -> SoundTrigger']
  BY <1>3
<1>5. job' \in [Jobs -> SoundJob']
  BY <1>3 DEF TriggerInv
<1>. QED BY <1>2, <1>4, <1>5 DEF TriggerInv

(* A handler that starts with a sound snapshot, outside the lock. *)
LEMMA Begins ==
  ASSUME TriggerInv, NEW j \in Jobs, NEW step \in Step \ (Held \union {"idle"}),
         NEW t \in Triggers, NEW snap \in SoundTrigger, NEW todo \in SUBSET Path,
         Begin(j, step, t, snap, todo), NoWrite
  PROVE  TriggerInv'
<1> DEFINE x == [step |-> step, t |-> t, snap |-> snap, todo |-> todo]
<1>1. job' = [job EXCEPT ![j] = x] /\ job[j].step \notin Held
  BY DEF Begin, Idle, Held
<1>2. step \notin {"gate", "binding", "attest", "idle"} /\ x.step \notin Held
  BY DEF Held
<1>3. x \in SoundJob
  BY <1>2, TriggerAssumption DEF SoundJob
<1> HIDE DEF x
<1>4. OneFinalizer'
  BY <1>1, <1>2, StaysOutside DEF TriggerInv, NoWrite
<1>. QED BY <1>1, <1>3, <1>4, JobMoves DEF TriggerInv, NoWrite

-----------------------------------------------------------------------------
(* What the handlers read and mean to write is sound. *)

LEMMA CreationStep ==
  ASSUME TriggerInv, NEW j \in Jobs, Creation(j)
  PROVE  TriggerInv'
<1>0. now \in Nat /\ DefaultCooldown \in Nat
  BY TriggerAssumption DEF TriggerInv
<1> SUFFICES ASSUME NEW t \in Triggers, NEW p \in Path,
                    \/ Initiate(j, t, p) \/ FromOracle(j, t, p)
                    \/ SimulateChainlink(j, t, p) \/ EmergencyRelease(j, t, p)
             PROVE  TriggerInv'
  BY DEF Creation
<1>1. [Blank(p) EXCEPT !.status = "pending"] \in SoundTrigger
  BY DEF Blank, SoundTrigger, Trigger, Kind, Status, Undecided
<1>2. ASSUME NEW kind \in Kind PROVE InCooldown(p, kind) \in SoundTrigger
  <2>1. now + DefaultCooldown \in Nat
    BY <1>0
  <2>2. Blank(p) \in Trigger
    BY DEF Blank, Trigger, Kind, Status
  <2>3. InCooldown(p, kind) \in Trigger
    BY <2>1, <2>2 DEF InCooldown, Trigger, Status, Decision
  <2>4. InCooldown(p, kind).status = "cooldown" /\ InCooldown(p, kind).decision = "release"
    BY <2>2 DEF InCooldown, Trigger
  <2>. QED BY <2>3, <2>4 DEF SoundTrigger, Undecided
<1>3. {"create", "create_locked", "emergency"} \subseteq Step \ (Held \union {"idle"})
  BY DEF Step, Held
<1>4. CASE Initiate(j, t, p)
  BY <1>1, <1>3, <1>4, Begins DEF Initiate
<1>5. CASE FromOracle(j, t, p)
  BY <1>2, <1>3, <1>5, Begins DEF FromOracle, Kind
<1>6. CASE SimulateChainlink(j, t, p)
  BY <1>2, <1>3, <1>6, Begins DEF SimulateChainlink, Kind
<1>7. CASE EmergencyRelease(j, t, p)
  BY <1>2, <1>3, <1>7, Begins DEF EmergencyRelease, Kind
<1>. QED BY <1>4, <1>5, <1>6, <1>7

(* A decision without a cooldown is sound at once: its effective time is now, *)
(* and for an oracle trigger it looks at the chain and needs an owner.        *)
LEMMA DecideStep ==
  ASSUME TriggerInv, NEW j \in Jobs, NEW t \in Triggers, NEW d \in Decision,
         NEW c \in Cooldowns \union {0}, Decide(j, t, d, c)
  PROVE  TriggerInv'
<1> DEFINE status == IF d # "release" THEN d ELSE IF c > 0 THEN "cooldown" ELSE "released"
           snap == [db[t] EXCEPT !.status = status, !.decision = d, !.effective_at = now + c]
<1>1. now \in Nat /\ c \in Nat /\ now + c \in Nat
  BY TriggerAssumption DEF TriggerInv
<1>2. db[t] \in Trigger /\ db[t].path \in Path
  BY DEF TriggerInv, SoundTrigger, Trigger
<1>3. status \in Status /\ (status \in Undecided => d = "release")
  BY DEF Status, Undecided, Decision
<1>4. snap \in Trigger
  BY <1>1, <1>2, <1>3 DEF Trigger
<1>5. /\ snap.status = status /\ snap.decision = d /\ snap.effective_at = now + c
      /\ snap.kind = db[t].kind /\ snap.path = db[t].path
  BY <1>2 DEF Trigger
<1>6. ASSUME status = "released"
      PROVE  /\ snap.effective_at <= now
             /\ snap.kind # "legal_event" => GateValid(snap) /\ OracleOwned
  <2>1. d = "release" /\ c = 0
    BY <1>1, <1>6 DEF Decision
  <2>2. db[t].kind # "legal_event" =>
          OracleOwned /\ (OracleEnabled => AttestedBy(db[t].path, {"oracle"}))
    BY <2>1 DEF Decide, Owned
  <2>. QED BY <1>1, <1>5, <2>1, <2>2 DEF GateValid, AttestedBy
<1>7. snap \in SoundTrigger
  BY <1>3, <1>4, <1>5, <1>6 DEF SoundTrigger
<1>8. {"attest_decision", "write_decision"} \subseteq Step \ (Held \union {"idle"})
  BY DEF Step, Held
<1>9. {} \subseteq Path /\ \A S \in BindingRecipients(db[t]) : S \subseteq Path
  BY DEF BindingRecipients
<1>10. /\ NoWrite
       /\ \/ \E S \in BindingRecipients(db[t]) : Begin(j, "attest_decision", t, snap, S)
          \/ Begin(j, "write_decision", t, snap, {})
  BY DEF Decide
<1> HIDE DEF snap
<1>. QED BY <1>7, <1>8, <1>9, <1>10, Begins

(* Every other handler changes a waiting record into one that waits. *)
LEMMA RequestStep ==
  ASSUME TriggerInv, NEW j \in Jobs, Request(j)
  PROVE  TriggerInv'
<1>0. now \in Nat /\ CancelWait \in Nat
  BY TriggerAssumption DEF TriggerInv
<1>1. CASE Creation(j)
  BY <1>1, CreationStep
<1>2. ASSUME NEW t \in Triggers, NEW d \in Decision, NEW c \in Cooldowns \union {0}, Decide(j, t, d, c)
      PROVE  TriggerInv'
  BY <1>2, DecideStep
<1>3. {"write", "reset", "reread"} \subseteq Step \ (Held \union {"idle"}) /\ {} \subseteq Path
  BY DEF Step, Held
<1>4. ASSUME NEW t \in Triggers,
             \/ Cancel(j, t) \/ LegalConfirm(j, t) \/ Abort(j, t)
             \/ Resume(j, t) \/ RetryBlocked(j, t) \/ ResetBlocked(j, t)
      PROVE  TriggerInv'
  <2>1. /\ db[t] \in SoundTrigger /\ db[t] \in Trigger
        /\ db[t].effective_at \in Nat /\ db[t].remaining \in Nat /\ db[t].blocked_reset_count \in Nat
        /\ db[t].status \in Undecided => db[t].decision = "release"
    BY DEF TriggerInv, SoundTrigger, Trigger
  <2>2. CASE Cancel(j, t)
    <3> DEFINE until == now + CancelWait
    <3>1. until \in Nat
      BY <1>0
    <3> HIDE DEF until
    <3>2. [db[t] EXCEPT !.status = "pending", !.decision = "none", !.effective_at = 0,
                        !.cancel_cooldown_until = until] \in SoundTrigger
      BY <2>1, <3>1 DEF SoundTrigger, Trigger, Status, Undecided
    <3>. QED BY <1>3, <2>1, <2>2, <3>2, Begins DEF Cancel, until
  <2>3. CASE LegalConfirm(j, t)
    <3>1. db[t].status = "cooldown"
      BY <2>3 DEF LegalConfirm
    <3>2. [db[t] EXCEPT !.legal_confirmation = TRUE] \in SoundTrigger
      BY <2>1, <3>1 DEF SoundTrigger, Trigger, Undecided
    <3>. QED BY <1>3, <2>3, <3>2, Begins DEF LegalConfirm
  <2>4. CASE Abort(j, t)
    <3> DEFINE rest == IF db[t].effective_at > now THEN db[t].effective_at - now ELSE 0
    <3>1. db[t].status = "cooldown" /\ rest \in Nat
      BY <1>0, <2>1, <2>4 DEF Abort
    <3> HIDE DEF rest
    <3>2. [db[t] EXCEPT !.status = "aborted", !.remaining = rest] \in SoundTrigger
      BY <2>1, <3>1 DEF SoundTrigger, Trigger, Status, Undecided
    <3>. QED BY <1>3, <2>4, <3>2, Begins DEF Abort, rest
  <2>5. CASE Resume(j, t)
    <3>1. db[t].status = "aborted" /\ now + db[t].remaining \in Nat
      BY <1>0, <2>1, <2>5 DEF Resume
    <3>2. [db[t] EXCEPT !.status = "cooldown", !.remaining = 0,
                        !.effective_at = now + db[t].remaining] \in SoundTrigger
      BY <2>1, <3>1 DEF SoundTrigger, Trigger, Status, Undecided
    <3>. QED BY <1>3, <2>5, <3>2, Begins DEF Resume
  <2>6. CASE RetryBlocked(j, t)
    <3>1. db[t].status = "attestation_blocked" /\ now + 1 \in Nat
      BY <1>0, <2>6 DEF RetryBlocked
    <3>2. [db[t] EXCEPT !.status = "cooldown", !.effective_at = now + 1] \in SoundTrigger
      BY <2>1, <3>1 DEF SoundTrigger, Trigger, Status, Undecided
    <3>. QED BY <1>3, <2>6, <3>2, Begins DEF RetryBlocked
  <2>7. CASE ResetBlocked(j, t)
    <3> DEFINE count == db[t].blocked_reset_count + 1
    <3>1. db[t].status = "attestation_blocked" /\ count \in Nat /\ now + count \in Nat
      BY <1>0, <2>1, <2>7 DEF ResetBlocked
    <3> HIDE DEF count
    <3>2. [db[t] EXCEPT !.status = "cooldown", !.blocked_reset_count = count,
                        !.effective_at = now + count] \in SoundTrigger
      BY <2>1, <3>1 DEF SoundTrigger, Trigger, Status, Undecided
    <3>. QED BY <1>3, <2>7, <3>2, Begins DEF ResetBlocked, count
  <2>. QED BY <1>4, <2>2, <2>3, <2>4, <2>5, <2>6, <2>7
<1>. QED BY <1>1, <1>2, <1>4 DEF Request

-----------------------------------------------------------------------------
(* The awaits of a job in flight. *)

LEMMA IdleIsSound == TriggerInv => Idle \in SoundJob
<1> SUFFICES ASSUME TriggerInv PROVE Idle \in SoundJob
  OBVIOUS
<1>1. SomePath \in Path
  BY TriggerAssumption DEF SomePath
<1>2. Blank(SomePath) \in SoundTrigger
  BY <1>1 DEF Blank, SoundTrigger, Trigger, Kind, Status, Undecided
<1>. QED BY <1>2 DEF Idle, SoundJob, Step

LEMMA InFlight ==
  ASSUME TriggerInv, NEW j \in Jobs, job[j].step # "idle"
  PROVE  /\ job[j].t \in Triggers
         /\ job[j].snap \in SoundTrigger
         /\ job[j].snap \in Trigger
         /\ job[j].snap.path \in Path
         /\ job[j].todo \subseteq Path
  BY TriggerAssumption DEF TriggerInv, SoundJob, SoundTrigger, Trigger

(* A job with its step and its snapshot replaced, in either order. *)
LEMMA BothFields ==
  ASSUME job \in [Jobs -> SoundJob], NEW j \in Jobs, NEW step, NEW snap,
         \/ job' = [job EXCEPT ![j].step = step, ![j].snap = snap]
         \/ job' = [job EXCEPT ![j].snap = snap, ![j].step = step]
  PROVE  job' = [job EXCEPT ![j] = [step |-> step, t |-> job[j].t,
                                    snap |-> snap, todo |-> job[j].todo]]
<1>1. PICK old, t, record, todo :
        job[j] = [step |-> old, t |-> t, snap |-> record, todo |-> todo]
  BY DEF SoundJob
<1>2. job' \in [Jobs -> {job'[k] : k \in Jobs}] /\ \A k \in Jobs \ {j} : job'[k] = job[k]
  OBVIOUS
<1>3. job'[j] = [step |-> step, t |-> t, snap |-> snap, todo |-> todo]
  BY <1>1
<1>. QED BY <1>1, <1>2, <1>3

(* Going on to a step that asks nothing of the snapshot. *)
LEMMA GoesOn ==
  ASSUME TriggerInv, NEW j \in Jobs, job[j].step # "idle",
         NEW step \in Step \ {"idle", "gate", "binding", "attest"}, Goto(j, step)
  PROVE  \E x \in SoundJob : x.step = step /\ x.t = job[j].t /\ job' = [job EXCEPT ![j] = x]
<1> DEFINE x == [job[j] EXCEPT !.step = step]
<1>1. job' = [job EXCEPT ![j] = x]
  BY DEF Goto
<1>2. x \in SoundJob /\ x.step = step /\ x.t = job[j].t
  BY InFlight, TriggerAssumption DEF TriggerInv, SoundJob
<1> HIDE DEF x
<1>. QED BY <1>1, <1>2

(* The same with another sound snapshot. *)
LEMMA GoesOnWith ==
  ASSUME TriggerInv, NEW j \in Jobs, job[j].step # "idle",
         NEW step \in Step \ {"idle", "gate", "binding", "attest"}, NEW snap \in SoundTrigger
  PROVE  [step |-> step, t |-> job[j].t, snap |-> snap, todo |-> job[j].todo] \in SoundJob
  BY InFlight, TriggerAssumption DEF TriggerInv, SoundJob

LEMMA StoresSound ==
  ASSUME TriggerInv, NEW j \in Jobs, job[j].step # "idle", Store(j) \/ UNCHANGED db
  PROVE  db' \in [Triggers -> SoundTrigger]
  BY InFlight DEF TriggerInv, Store

(* The end of a job outside the lock. *)
LEMMA Ends ==
  ASSUME TriggerInv, NEW j \in Jobs, job[j].step # "idle", job[j].step \notin Held,
         Finish(j), Store(j) \/ UNCHANGED db,
         UNCHANGED <<attestationVars, finalizing, paused, now, restarts>>
  PROVE  TriggerInv'
<1>1. job' = [job EXCEPT ![j] = Idle] /\ Idle.step \notin Held
  BY DEF Finish, Idle, Held
<1>2. OneFinalizer'
  BY <1>1, StaysOutside DEF TriggerInv
<1>. QED BY <1>1, <1>2, IdleIsSound, StoresSound, JobMoves DEF TriggerInv

(* The end of one inside, which takes the lock with it. *)
LEMMA EndsInside ==
  ASSUME TriggerInv, NEW j \in Jobs, job[j].step \in Held,
         Finish(j), Unlock(j), Store(j) \/ UNCHANGED db,
         UNCHANGED <<attestationVars, paused, now, restarts>>
  PROVE  TriggerInv'
<1>1. job' = [job EXCEPT ![j] = Idle] /\ Idle.step \notin Held /\ job[j].step # "idle"
  BY DEF Finish, Idle, Held
<1>2. finalizing' = finalizing \ {job[j].t}
  BY DEF Unlock
<1>3. OneFinalizer'
  BY <1>1, <1>2, ComesOut DEF TriggerInv
<1>. QED BY <1>1, <1>2, <1>3, IdleIsSound, StoresSound, JobMoves DEF TriggerInv

(* The handlers of requests: what is left of them after their first await. *)
LEMMA HandlerStep ==
  ASSUME TriggerInv, NEW j \in Jobs,
         EmergencyAttest(j) \/ WriteDecision(j) \/ AuditDecision(j) \/ Write(j)
  PROVE  TriggerInv'
<1>1. CASE EmergencyAttest(j)
  <2>1. /\ job[j].step = "emergency" /\ job[j].step \notin Held
        /\ UNCHANGED <<db, finalizing, paused, now, restarts>>
    BY <1>1 DEF EmergencyAttest, At, Held
  <2>2. CASE Finish(j) /\ UNCHANGED attestationVars
    BY <2>1, <2>2, Ends
  <2>3. CASE /\ SubmitAttestation(Relayer, "fallback", job[j].snap.path, "release")
             /\ Goto(j, "create")
    <3>1. "create" \in Step \ {"idle", "gate", "binding", "attest"} /\ "create" \notin Held
      BY DEF Step, Held
    <3>2. PICK x \in SoundJob : x.step = "create" /\ job' = [job EXCEPT ![j] = x]
      BY <2>1, <2>3, <3>1, GoesOn
    <3>3. OneFinalizer'
      BY <2>1, <3>1, <3>2, StaysOutside DEF TriggerInv
    <3>4. \E a \in {Oracle, Relayer}, s \in Source, p \in Path, d \in Decision :
            SubmitAttestation(a, s, p, d)
      BY <2>1, <2>3, InFlight DEF Source, Decision
    <3>. QED BY <2>1, <3>2, <3>3, <3>4, JobMoves DEF TriggerInv
  <2>. QED BY <1>1, <2>2, <2>3 DEF EmergencyAttest
<1>2. CASE WriteDecision(j)
  <2>1. /\ job[j].step = "write_decision" /\ job[j].step \notin Held
        /\ Store(j) /\ UNCHANGED <<attestationVars, finalizing, paused, now, restarts>>
    BY <1>2 DEF WriteDecision, At, Held, OnlyDb
  <2>2. CASE Finish(j)
    BY <2>1, <2>2, Ends
  <2>3. CASE Goto(j, "audit_decision")
    <3>1. "audit_decision" \in Step \ {"idle", "gate", "binding", "attest"} /\ "audit_decision" \notin Held
      BY DEF Step, Held
    <3>2. PICK x \in SoundJob : x.step = "audit_decision" /\ job' = [job EXCEPT ![j] = x]
      BY <2>1, <2>3, <3>1, GoesOn
    <3>3. OneFinalizer'
      BY <2>1, <3>1, <3>2, StaysOutside DEF TriggerInv
    <3>. QED BY <2>1, <3>2, <3>3, StoresSound, JobMoves DEF TriggerInv
  <2>. QED BY <1>2, <2>2, <2>3 DEF WriteDecision
<1>3. CASE AuditDecision(j)
  <2>1. job[j].step = "audit_decision" /\ job[j].step \notin Held
    BY <1>3 DEF AuditDecision, At, Held
  <2>. QED BY <1>3, <2>1, Ends DEF AuditDecision, AuditWrite, OnlyDb
<1>4. CASE Write(j)
  <2>1. job[j].step # "idle" /\ job[j].step \notin Held
    BY <1>4 DEF Write, Held
  <2>. QED BY <1>4, <2>1, Ends DEF Write, OnlyDb
<1>. QED BY <1>1, <1>2, <1>3, <1>4

(* The submissions for the recipients of a binding write no record. *)
LEMMA RecipientStep ==
  ASSUME TriggerInv, NEW j \in Jobs, AttestRecipient(j)
  PROVE  TriggerInv'
<1>1. job[j].step \in {"attest", "attest_decision"} /\ job[j].step # "idle"
  BY DEF AttestRecipient
<1>2. PICK p \in job[j].todo :
        /\ \/ SubmitAttestation(Relayer, "fallback", p, "release")
           \/ UNCHANGED attestationVars
        /\ job' = [job EXCEPT ![j].todo = @ \ {p}]
  BY DEF AttestRecipient
<1> DEFINE x == [job[j] EXCEPT !.todo = @ \ {p}]
<1>3. x \in SoundJob /\ x.step = job[j].step /\ x.t = job[j].t
  BY <1>1 DEF TriggerInv, SoundJob
<1>4. job' = [job EXCEPT ![j] = x] /\ UNCHANGED <<db, finalizing, paused, now, restarts>>
  BY <1>2 DEF AttestRecipient
<1> HIDE DEF x
<1>5. OneFinalizer'
  BY <1>3, <1>4, StaysInside, StaysOutside DEF TriggerInv
<1>6. \/ UNCHANGED attestationVars
      \/ \E a \in {Oracle, Relayer}, s \in Source, q \in Path, d \in Decision :
           SubmitAttestation(a, s, q, d)
  BY <1>1, <1>2, InFlight DEF Source, Decision
<1>. QED BY <1>3, <1>4, <1>5, <1>6, JobMoves DEF TriggerInv

(* A trigger that was due and passed its gate is sound when released. *)
LEMMA FinalizedIsSound ==
  ASSUME TriggerInv, NEW tr \in SoundTrigger,
         tr.status = "cooldown", tr.effective_at <= now,
         tr.kind = "legal_event" \/ (GateValid(tr) /\ ~Unconfirmed(tr))
  PROVE  Finalized(tr) \in SoundTrigger
<1>1. tr \in Trigger /\ tr.decision = "release"
  BY DEF SoundTrigger, Undecided
<1>2. Finalized(tr) = [tr EXCEPT !.status = "released"]
  BY <1>1 DEF Finalized
<1> DEFINE done == [tr EXCEPT !.status = "released"]
<1>3. /\ done \in Trigger /\ done.status = "released" /\ done.effective_at = tr.effective_at
      /\ done.kind = tr.kind /\ done.path = tr.path
      /\ done.legal_confirmation = tr.legal_confirmation
  BY <1>1 DEF Trigger, Status
<1> HIDE DEF done
<1>4. done \in SoundTrigger
  BY <1>3 DEF SoundTrigger, GateValid, Unconfirmed, Undecided
<1>. QED BY <1>2, <1>4 DEF done

LEMMA AttestedStep ==
  ASSUME TriggerInv, NEW j \in Jobs, Attested(j)
  PROVE  TriggerInv'
<1>1. job[j].step # "idle" /\ NoWrite
  BY DEF Attested, At
<1>2. CASE At(j, "attest_decision") /\ Goto(j, "write_decision")
  <2>1. "write_decision" \in Step \ {"idle", "gate", "binding", "attest"} /\ "write_decision" \notin Held
    BY DEF Step, Held
  <2>2. PICK x \in SoundJob : x.step = "write_decision" /\ job' = [job EXCEPT ![j] = x]
    BY <1>1, <1>2, <2>1, GoesOn
  <2>3. job[j].step \notin Held
    BY <1>2 DEF At, Held
  <2>4. OneFinalizer'
    BY <1>1, <2>1, <2>2, <2>3, StaysOutside DEF TriggerInv, NoWrite
  <2>. QED BY <1>1, <2>2, <2>4, JobMoves DEF TriggerInv, NoWrite
<1>3. CASE /\ At(j, "attest")
           /\ job' = [job EXCEPT ![j].step = "release", ![j].snap = Finalized(@)]
  <2> DEFINE done == Finalized(job[j].snap)
             x == [step |-> "release", t |-> job[j].t, snap |-> done, todo |-> job[j].todo]
  <2>1. "release" \in Step \ {"idle", "gate", "binding", "attest"} /\ "release" \in Held
    BY DEF Step, Held
  <2>2. done \in SoundTrigger
    BY <1>3, InFlight, FinalizedIsSound DEF TriggerInv, SoundJob, At
  <2>3. job' = [job EXCEPT ![j] = x]
    <3>1. [job EXCEPT ![j].step = "release"][j].snap = job[j].snap
      BY DEF TriggerInv, SoundJob
    <3>2. job' = [job EXCEPT ![j].step = "release", ![j].snap = done]
      BY <1>3, <3>1
    <3> HIDE DEF done
    <3>3. job \in [Jobs -> SoundJob]
      BY DEF TriggerInv
    <3>. QED BY <3>2, <3>3, BothFields
  <2> HIDE DEF done
  <2>4. x \in SoundJob /\ x.step = "release" /\ x.t = job[j].t
    BY <1>1, <2>1, <2>2, GoesOnWith
  <2> HIDE DEF x
  <2>5. job[j].step \in Held
    BY <1>3 DEF At, Held
  <2>6. OneFinalizer'
    BY <1>1, <2>1, <2>3, <2>4, <2>5, StaysInside DEF TriggerInv, NoWrite
  <2>. QED BY <1>1, <2>3, <2>4, <2>6, JobMoves DEF TriggerInv, NoWrite
<1>. QED BY <1>2, <1>3 DEF Attested

(* The re-read takes a record as it is, and the lock is taken for one that is *)
(* in cooldown and due.                                                       *)
LEMMA RereadStep ==
  ASSUME TriggerInv, NEW j \in Jobs, Reread(j)
  PROVE  TriggerInv'
<1> DEFINE snap == db[job[j].t]
           x == [step |-> "lock", t |-> job[j].t, snap |-> snap, todo |-> job[j].todo]
<1>1. job[j].step # "idle" /\ job[j].step \notin Held /\ NoWrite
  BY DEF Reread, At, Held
<1>2. "lock" \in Step \ {"idle", "gate", "binding", "attest"} /\ "lock" \notin Held
  BY DEF Step, Held
<1>3. snap \in SoundTrigger
  BY <1>1, InFlight DEF TriggerInv
<1>4. job' = [job EXCEPT ![j] = x]
  <2>1. job' = [job EXCEPT ![j].snap = db[job[j].t], ![j].step = "lock"]
    BY DEF Reread
  <2>2. job \in [Jobs -> SoundJob]
    BY DEF TriggerInv
  <2>. QED BY <2>1, <2>2, BothFields
<1> HIDE DEF snap
<1>5. x \in SoundJob /\ x.step = "lock"
  BY <1>1, <1>2, <1>3, GoesOnWith
<1> HIDE DEF x
<1>6. OneFinalizer'
  BY <1>1, <1>2, <1>4, <1>5, StaysOutside DEF TriggerInv, NoWrite
<1>. QED BY <1>1, <1>4, <1>5, <1>6, JobMoves DEF TriggerInv, NoWrite

LEMMA LockStep ==
  ASSUME TriggerInv, NEW j \in Jobs, Lock(j)
  PROVE  TriggerInv'
<1> DEFINE t == job[j].t
           trigger == job[j].snap
           proceeds == /\ trigger.status = "cooldown"
                       /\ t \notin finalizing
                       /\ now >= trigger.effective_at
                       /\ ~paused
<1>1. /\ job[j].step = "lock" /\ job[j].step # "idle" /\ job[j].step \notin Held
      /\ UNCHANGED <<attestationVars, db, paused, now, restarts>>
  BY DEF Lock, At, Held
<1>2. t \in Triggers /\ trigger \in SoundTrigger /\ trigger.effective_at \in Nat
  BY <1>1, InFlight DEF Trigger
<1>3. CASE ~proceeds
  BY <1>1, <1>3, Ends DEF Lock
<1>4. ASSUME NEW x \in SoundJob, x.t = t, x.step \in Held, t \notin finalizing,
             finalizing' = finalizing \union {t}, job' = [job EXCEPT ![j] = x]
      PROVE  TriggerInv'
  <2>1. OneFinalizer'
    BY <1>1, <1>4, GoesIn DEF TriggerInv
  <2>2. finalizing' \subseteq Triggers
    BY <1>2, <1>4 DEF TriggerInv
  <2>. QED BY <1>1, <1>4, <2>1, <2>2, JobMoves DEF TriggerInv
<1>5. CASE proceeds
  <2>1. trigger.effective_at <= now /\ finalizing' = finalizing \union {t}
    BY <1>2, <1>5, TriggerAssumption DEF TriggerInv, Lock
  <2> DEFINE step == IF trigger.kind = "legal_event" THEN "binding" ELSE "gate"
             x == [job[j] EXCEPT !.step = step]
  <2>2. job' = [job EXCEPT ![j] = x]
    BY <1>5 DEF Lock, Goto
  <2>3. /\ step \in Step /\ step \in Held /\ step # "idle"
        /\ step # "gate" <=> trigger.kind = "legal_event"
    BY DEF Step, Held
  <2> HIDE DEF step
  <2>4. x \in SoundJob /\ x.t = t /\ x.step = step
    BY <1>2, <1>5, <2>1, <2>3, TriggerAssumption DEF TriggerInv, SoundJob
  <2> HIDE DEF x
  <2>. QED BY <1>4, <1>5, <2>1, <2>2, <2>3, <2>4
<1>. QED BY <1>3, <1>5

(* The recipients are noted under the lock, and the snapshot is kept. *)
LEMMA BindingStep ==
  ASSUME TriggerInv, NEW j \in Jobs, ReadBinding(j)
  PROVE  TriggerInv'
<1>1. /\ job[j].step = "binding" /\ job[j].step \in Held /\ NoWrite
  BY DEF ReadBinding, At, Held
<1>2. PICK S \in BindingRecipients(job[j].snap) :
        job' = [job EXCEPT ![j].step = "attest", ![j].todo = S]
  BY DEF ReadBinding
<1> DEFINE x == [job[j] EXCEPT !.step = "attest", !.todo = S]
<1>3. S \subseteq Path
  BY DEF BindingRecipients
<1>4. job' = [job EXCEPT ![j] = x]
  BY <1>2 DEF TriggerInv, SoundJob
<1>5. x \in SoundJob /\ x.t = job[j].t /\ x.step = "attest"
  BY <1>1, <1>3 DEF TriggerInv, SoundJob, Step, Held
<1> HIDE DEF x
<1>6. OneFinalizer'
  BY <1>1, <1>4, <1>5, StaysInside DEF TriggerInv, NoWrite, Held
<1>. QED BY <1>1, <1>4, <1>5, <1>6, JobMoves DEF TriggerInv, NoWrite

(* The gate keeps the record, blocks it or passes it, all under the lock. *)
LEMMA GateStep ==
  ASSUME TriggerInv, NEW j \in Jobs, Gate(j)
  PROVE  TriggerInv'
<1> DEFINE trigger == job[j].snap
           blocked == [trigger EXCEPT !.status = "attestation_blocked"]
<1>1. /\ job[j].step = "gate" /\ job[j].step # "idle" /\ job[j].step \in Held
      /\ UNCHANGED <<attestationVars, db, paused, now, restarts>>
  BY DEF Gate, At, Held
<1>2. /\ trigger \in SoundTrigger /\ trigger \in Trigger
      /\ trigger.status = "cooldown" /\ trigger.effective_at <= now
      /\ trigger.decision = "release"
  BY <1>1, InFlight DEF TriggerInv, SoundJob, SoundTrigger, Undecided
<1>3. {"keep", "release"} \subseteq (Step \ {"idle", "gate", "binding", "attest"}) \cap Held
  BY DEF Step, Held
<1>4. ASSUME NEW step \in {"keep", "release"}, NEW snap \in SoundTrigger, UNCHANGED finalizing,
             job' = [job EXCEPT ![j].step = step, ![j].snap = snap]
      PROVE  TriggerInv'
  <2> DEFINE x == [step |-> step, t |-> job[j].t, snap |-> snap, todo |-> job[j].todo]
  <2>1. x \in SoundJob /\ x.step \in Held /\ x.t = job[j].t
    BY <1>1, <1>3, GoesOnWith
  <2>2. job \in [Jobs -> SoundJob]
    BY DEF TriggerInv
  <2>3. job' = [job EXCEPT ![j] = x]
    BY <1>4, <2>2, BothFields
  <2> HIDE DEF x
  <2>4. OneFinalizer'
    BY <1>1, <1>4, <2>1, <2>3, StaysInside DEF TriggerInv
  <2>. QED BY <1>1, <1>4, <2>1, <2>3, <2>4, JobMoves DEF TriggerInv
<1>5. CASE /\ \E snap \in {trigger, blocked} :
                job' = [job EXCEPT ![j].step = "keep", ![j].snap = snap]
           /\ UNCHANGED finalizing
  <2>1. blocked \in SoundTrigger
    BY <1>2 DEF SoundTrigger, Trigger, Status, Undecided
  <2> HIDE DEF blocked
  <2>. QED BY <1>2, <1>4, <1>5, <2>1
<1>6. CASE /\ GateValid(trigger) /\ ~Unconfirmed(trigger)
           /\ job' = [job EXCEPT ![j].step = "release", ![j].snap = Finalized(trigger)]
           /\ UNCHANGED finalizing
  <2>1. Finalized(trigger) \in SoundTrigger
    BY <1>2, <1>6, FinalizedIsSound
  <2>. QED BY <1>4, <1>6, <2>1
<1>7. CASE Finish(j) /\ Unlock(j)
  BY <1>1, <1>7, EndsInside
<1>. QED BY <1>5, <1>6, <1>7 DEF Gate

(* The finalizer's writes, the last of which releases the lock. *)
LEMMA WritesStep ==
  ASSUME TriggerInv, NEW j \in Jobs, Keep(j) \/ Release(j) \/ Audit(j)
  PROVE  TriggerInv'
<1>1. CASE Keep(j)
  <2>1. job[j].step \in Held
    BY <1>1 DEF Keep, At, Held
  <2>. QED BY <1>1, <2>1, EndsInside DEF Keep
<1>2. CASE Audit(j)
  <2>1. job[j].step \in Held
    BY <1>2 DEF Audit, At, Held
  <2>. QED BY <1>2, <2>1, EndsInside DEF Audit, AuditWrite
<1>3. CASE Release(j)
  <2>1. /\ job[j].step # "idle" /\ job[j].step \in Held /\ Store(j)
        /\ UNCHANGED <<attestationVars, finalizing, paused, now, restarts>>
    BY <1>3 DEF Release, At, Held, OnlyDb
  <2>2. "audit" \in Step \ {"idle", "gate", "binding", "attest"} /\ "audit" \in Held
    BY DEF Step, Held
  <2>3. PICK x \in SoundJob : x.step = "audit" /\ x.t = job[j].t /\ job' = [job EXCEPT ![j] = x]
    BY <1>3, <2>1, <2>2, GoesOn DEF Release
  <2>4. OneFinalizer'
    BY <2>1, <2>2, <2>3, StaysInside DEF TriggerInv
  <2>. QED BY <2>1, <2>3, <2>4, StoresSound, JobMoves DEF TriggerInv
<1>. QED BY <1>1, <1>2, <1>3

(* An error ends the job and writes nothing; inside, it takes the lock too. *)
LEMMA ThrowStep ==
  ASSUME TriggerInv, NEW j \in Jobs, Throw(j)
  PROVE  TriggerInv'
<1>1. /\ job[j].step # "idle" /\ Finish(j)
      /\ UNCHANGED <<attestationVars, db, paused, now, restarts>>
  BY DEF Throw, Throwing
<1>2. CASE job[j].step \in Held
  BY <1>1, <1>2, EndsInside DEF Throw
<1>3. CASE job[j].step \notin Held
  BY <1>1, <1>3, Ends DEF Throw
<1>. QED BY <1>2, <1>3

LEMMA SweepStep ==
  ASSUME TriggerInv, NEW j \in Sweepers, NEW t \in Triggers, Sweep(j, t)
  PROVE  TriggerInv'
<1>1. j \in Jobs /\ db[t] \in SoundTrigger /\ {} \subseteq Path
  BY DEF Jobs, TriggerInv
<1>2. "reread" \in Step \ (Held \union {"idle"})
  BY DEF Step, Held
<1>. QED BY <1>1, <1>2, Begins DEF Sweep

-----------------------------------------------------------------------------
(* The world outside the handlers. *)

LEMMA WorldStep ==
  ASSUME TriggerInv, ChainStep \/ Tick
  PROVE  TriggerInv'
<1>1. \/ UNCHANGED attestationVars
      \/ \E a \in {Oracle, Relayer}, s \in Source, p \in Path, d \in Decision :
           SubmitAttestation(a, s, p, d)
  BY DEF ChainStep, Tick, Source
<1>2. /\ AttestationTypeOK'
      /\ \A p \in Path : Released(p) => attestations'[p] = attestations[p]
  BY <1>1, ChainKeepsReleases DEF TriggerInv
<1>3. now \in Nat /\ now' \in 0 .. Horizon /\ now' \in Nat /\ now <= now'
  BY TriggerAssumption DEF TriggerInv, ChainStep, serverVars, Tick
<1>4. SoundTrigger \subseteq SoundTrigger' /\ SoundJob \subseteq SoundJob'
  BY <1>2, <1>3, SoundStays
<1>5. UNCHANGED <<db, job, finalizing, paused, restarts>>
  BY DEF ChainStep, serverVars, Tick
<1>6. db' \in [Triggers -> SoundTrigger'] /\ job' \in [Jobs -> SoundJob']
  BY <1>4, <1>5 DEF TriggerInv
<1>7. OneFinalizer'
  BY <1>5 DEF TriggerInv, OneFinalizer
<1>. QED BY <1>2, <1>3, <1>5, <1>6, <1>7 DEF TriggerInv

(* A restart empties the lock together with every job that held it. *)
LEMMA RestartStep ==
  ASSUME TriggerInv, Restart
  PROVE  TriggerInv'
<1>1. UNCHANGED <<attestationVars, now, db>>
  BY DEF Restart
<1>2. AttestationTypeOK' /\ SoundTrigger \subseteq SoundTrigger' /\ SoundJob \subseteq SoundJob'
  BY <1>1, SoundSame
<1>3. db' \in [Triggers -> SoundTrigger']
  BY <1>1, <1>2 DEF TriggerInv
<1>4. job' \in [Jobs -> SoundJob']
  BY <1>2, IdleIsSound DEF Restart
<1>5. OneFinalizer'
  BY DEF Restart, OneFinalizer, Idle, Held
<1>6. now' \in 0 .. Horizon /\ paused' \in BOOLEAN /\ finalizing' \subseteq Triggers
  BY <1>1 DEF TriggerInv, Restart
<1>7. restarts' \in 0 .. MaxRestarts
  BY TriggerAssumption DEF TriggerInv, Restart
<1>. QED BY <1>2, <1>3, <1>4, <1>5, <1>6, <1>7 DEF TriggerInv

LEMMA StutterStep ==
  ASSUME TriggerInv, UNCHANGED vars
  PROVE  TriggerInv'
<1>1. UNCHANGED <<attestationVars, now>> /\ UNCHANGED <<db, job, finalizing, paused, restarts>>
  BY DEF vars, serverVars
<1>2. AttestationTypeOK' /\ SoundTrigger \subseteq SoundTrigger' /\ SoundJob \subseteq SoundJob'
  BY <1>1, SoundSame
<1>3. db' \in [Triggers -> SoundTrigger'] /\ job' \in [Jobs -> SoundJob']
  BY <1>1, <1>2 DEF TriggerInv
<1>4. OneFinalizer'
  BY <1>1 DEF TriggerInv, OneFinalizer
<1>. QED BY <1>1, <1>2, <1>3, <1>4 DEF TriggerInv

LEMMA NextKeepsTriggerInv == TriggerInv /\ [Next]_vars => TriggerInv'
<1> SUFFICES ASSUME TriggerInv, [Next]_vars PROVE TriggerInv'
  OBVIOUS
<1>1. ASSUME NEW j \in Requests, Request(j) PROVE TriggerInv'
  BY <1>1, RequestStep DEF Jobs
<1>2. ASSUME NEW j \in Sweepers, NEW t \in Triggers, Sweep(j, t) PROVE TriggerInv'
  BY <1>2, SweepStep
<1>3. ASSUME NEW j \in Jobs, JobStep(j) \/ Throw(j) PROVE TriggerInv'
  BY <1>3, HandlerStep, RecipientStep, AttestedStep, RereadStep, LockStep, BindingStep,
     GateStep, WritesStep, ThrowStep DEF JobStep, FinalizerStep
<1>4. CASE ChainStep \/ Tick
  BY <1>4, WorldStep
<1>5. CASE Restart
  BY <1>5, RestartStep
<1>6. CASE UNCHANGED vars
  BY <1>6, StutterStep
<1>. QED BY <1>1, <1>2, <1>3, <1>4, <1>5, <1>6 DEF Next

LEMMA TriggerInvariant == Spec => []TriggerInv
  BY InitTriggerInv, NextKeepsTriggerInv, PTL DEF Spec

-----------------------------------------------------------------------------
(* Theorems. *)

(* Every record and every snapshot a handler carries has its type, and a job *)
(* has a trigger exactly while it runs.                                      *)
THEOREM TypeCorrect == Spec => []TypeOK
<1>1. TriggerInv => TypeOK
  <2> SUFFICES ASSUME TriggerInv PROVE TypeOK
    OBVIOUS
  <2>1. SoundTrigger \subseteq Trigger
    BY DEF SoundTrigger
  <2>2. SoundJob \subseteq Job
    BY <2>1 DEF SoundJob, Job
  <2>3. db \in [Triggers -> Trigger] /\ job \in [Jobs -> Job]
    BY <2>1, <2>2 DEF TriggerInv
  <2>4. \A j \in Jobs : job[j].t = NoTrigger <=> job[j].step = "idle"
    BY DEF TriggerInv, SoundJob
  <2>. QED BY <2>3, <2>4 DEF TriggerInv, TypeOK
<1>. QED BY <1>1, TriggerInvariant, PTL

(* maybeFinalizeDecision's in-process lock: however many sweeps and cancels *)
(* overlap, at most one finalizer is past it on one trigger, and no return, *)
(* throw or restart leaves a trigger locked.                                *)
THEOREM OneFinalizerAtATime == Spec => []OneFinalizer
<1>1. TriggerInv => OneFinalizer
  BY DEF TriggerInv
<1>. QED BY <1>1, TriggerInvariant, PTL

(* An oracle or emergency trigger that reads released has the attestation   *)
(* the gate asks for, whatever was written between the check and the write. *)
THEOREM OracleReleasesAttested == Spec => []OracleReleaseIsAttested
<1>1. TriggerInv => OracleReleaseIsAttested
  BY DEF TriggerInv, SoundTrigger, OracleReleaseIsAttested
<1>. QED BY <1>1, TriggerInvariant, PTL

(* No record reads released before its effective time, although every write *)
(* replaces the whole record with one that was read earlier.                *)
THEOREM ReleasesOnTime == Spec => []ReleasedOnTime
<1>1. TriggerInv => ReleasedOnTime
  BY DEF TriggerInv, SoundTrigger, ReleasedOnTime
<1>. QED BY <1>1, TriggerInvariant, PTL

(* Without an authority that owns oracle triggers, one of a high-value      *)
(* wallet is released only with its legal confirmation in the record.       *)
THEOREM HighValueConfirmed == Spec => []HighValueIsConfirmed
<1>1. TriggerInv => HighValueIsConfirmed
  BY DEF TriggerInv, SoundTrigger, HighValueIsConfirmed
<1>. QED BY <1>1, TriggerInvariant, PTL

-----------------------------------------------------------------------------
(* The cooldown that is served.  Handlers of one trigger are taken to come   *)
(* one after the other; those of different triggers overlap as they like.    *)

(* What a record still makes its trigger wait. *)
Left(tr) ==
  IF tr.status = "cooldown"
  THEN IF tr.effective_at > now THEN tr.effective_at - now ELSE 0
  ELSE IF tr.status = "aborted" THEN tr.remaining ELSE 0

(* A snapshot may be written: it makes its trigger wait for what is due, or *)
(* sends it back to be decided again.                                       *)
Carried(t, tr) == tr.status = "pending" \/ due[t] <= Left(tr)

CooldownInv ==
  /\ due \in [Triggers -> Nat]
  /\ \A t \in Triggers : due[t] <= Left(db[t])
  /\ \A j \in Jobs : job[j].step # "idle" => Carried(job[j].t, job[j].snap)

DueStep == due' = [t \in Triggers |-> DueAfter(t)]

LEMMA RecordTypes ==
  ASSUME TriggerInv
  PROVE  /\ now \in Nat
         /\ \A t \in Triggers :
              db[t].effective_at \in Nat /\ db[t].remaining \in Nat /\ db[t].status \in Status
         /\ \A j \in Jobs :
              job[j].snap.effective_at \in Nat /\ job[j].snap.remaining \in Nat
<1>1. now \in Nat
  BY TriggerAssumption DEF TriggerInv
<1>2. \A tr \in SoundTrigger :
        tr.effective_at \in Nat /\ tr.remaining \in Nat /\ tr.status \in Status
  BY DEF SoundTrigger, Trigger
<1>3. \A j \in Jobs : job[j].snap \in SoundTrigger
  BY DEF TriggerInv, SoundJob
<1>4. \A t \in Triggers : db[t] \in SoundTrigger
  BY DEF TriggerInv
<1>. QED BY <1>1, <1>2, <1>3, <1>4

(* Nothing is due of a trigger whose record stays as it is, but for the time *)
(* that passes.                                                              *)
LEMMA DueStays ==
  ASSUME TriggerInv, CooldownInv, DueStep, now' = now,
         NEW t \in Triggers, db'[t] = db[t]
  PROVE  due'[t] = due[t]
<1>1. now \in Nat /\ due[t] \in Nat /\ due[t] <= Left(db[t])
  BY RecordTypes DEF CooldownInv
<1>2. due'[t] = DueAfter(t)
  BY DEF DueStep
<1>3. db[t].status = "pending" => due[t] = 0
  BY <1>1 DEF Left
<1>4. ~(now' > now)
  BY <1>1
<1>5. ~(db'[t].status = "cooldown" /\ db[t].status \in {"absent", "pending"})
  OBVIOUS
<1>. QED BY <1>2, <1>3, <1>4, <1>5 DEF DueAfter

(* A step of one job that writes no record. *)
LEMMA CarriesOn ==
  ASSUME TriggerInv, CooldownInv, DueStep, UNCHANGED <<db, now>>,
         NEW j \in Jobs, \A k \in Jobs \ {j} : job'[k] = job[k],
         job'[j].step # "idle" => Carried(job'[j].t, job'[j].snap)
  PROVE  CooldownInv'
<1>1. due' \in [Triggers -> Nat] /\ due' = due
  <2>1. \A t \in Triggers : due'[t] = due[t]
    BY DueStays
  <2>. QED BY <2>1 DEF CooldownInv, DueStep
<1>2. \A t \in Triggers : due'[t] <= Left(db[t])'
  BY <1>1 DEF CooldownInv, Left
<1>3. ASSUME NEW k \in Jobs, job'[k].step # "idle"
      PROVE  Carried(job[k].t, job[k].snap)'
  <2>1. CASE k = j
    BY <1>1, <1>3, <2>1 DEF Carried, Left
  <2>2. CASE k # j
    <3>1. job'[k] = job[k] /\ Carried(job[k].t, job[k].snap)
      BY <1>3, <2>2 DEF CooldownInv
    <3>. QED BY <1>1, <3>1 DEF Carried, Left
  <2>. QED BY <2>1, <2>2
<1>. QED BY <1>1, <1>2, <1>3 DEF CooldownInv

(* A job that writes its snapshot, and ends or keeps it: what is due        *)
(* afterwards is what the record says, be it that a new cooldown begins.    *)
LEMMA WritesBack ==
  ASSUME TriggerInv, CooldownInv, Alone, DueStep, now' = now,
         NEW j \in Jobs, job[j].step # "idle", Store(j),
         \A k \in Jobs \ {j} : job'[k] = job[k],
         \/ job'[j].step = "idle"
         \/ job'[j].t = job[j].t /\ job'[j].snap = job[j].snap
  PROVE  CooldownInv'
<1> DEFINE t == job[j].t
           s == job[j].snap
<1>1. /\ t \in Triggers /\ now \in Nat /\ s.effective_at \in Nat /\ s.remaining \in Nat
      /\ due[t] \in Nat /\ Carried(t, s)
  BY InFlight, RecordTypes DEF CooldownInv
<1>2. db'[t] = s /\ \A u \in Triggers \ {t} : db'[u] = db[u]
  BY <1>1 DEF Store, TriggerInv
<1>3. \A u \in Triggers \ {t} : due'[u] = due[u]
  BY <1>2, DueStays
<1>4. due'[t] = DueAfter(t) /\ ~(now' > now)
  BY <1>1 DEF DueStep
<1>5. due'[t] \in Nat /\ due'[t] <= Left(s)
  <2>1. CASE s.status = "pending"
    BY <1>2, <1>4, <2>1 DEF DueAfter, Left
  <2>2. CASE s.status = "cooldown" /\ db[t].status \in {"absent", "pending"}
    BY <1>1, <1>2, <1>4, <2>2 DEF DueAfter, Left
  <2>3. CASE s.status # "pending" /\ ~(s.status = "cooldown" /\ db[t].status \in {"absent", "pending"})
    <3>1. due'[t] = due[t]
      BY <1>2, <1>4, <2>3 DEF DueAfter
    <3>. QED BY <1>1, <2>3, <3>1 DEF Carried
  <2>. QED BY <2>1, <2>2, <2>3
<1>6. due' \in [Triggers -> Nat]
  BY <1>3, <1>5 DEF CooldownInv, DueStep
<1>7. ASSUME NEW u \in Triggers PROVE due'[u] <= Left(db[u])'
  <2>1. CASE u = t
    BY <1>2, <1>5, <2>1 DEF Left
  <2>2. CASE u # t
    BY <1>2, <1>3, <2>2 DEF CooldownInv, Left
  <2>. QED BY <2>1, <2>2
<1>8. ASSUME NEW k \in Jobs, job'[k].step # "idle"
      PROVE  Carried(job[k].t, job[k].snap)'
  <2>1. CASE k = j
    <3>1. job'[k].t = t /\ job'[k].snap = s
      BY <1>8, <2>1
    <3>. QED BY <1>5, <3>1 DEF Carried, Left
  <2>2. CASE k # j
    <3>1. job'[k] = job[k] /\ job[k].step # "idle" /\ Carried(job[k].t, job[k].snap)
      BY <1>8, <2>2 DEF CooldownInv
    <3>2. job[k].t \in Triggers /\ job[k].t # t
      BY <1>1, <2>2, <3>1, InFlight, TriggerAssumption DEF Alone
    <3>. QED BY <1>3, <3>1, <3>2 DEF Carried, Left
  <2>. QED BY <2>1, <2>2
<1>. QED BY <1>6, <1>7, <1>8 DEF CooldownInv

(* Time passes for a trigger in cooldown, and for one with a handler.        *)
LEMMA TickServes ==
  ASSUME TriggerInv, CooldownInv, DueStep, now' = now + 1, UNCHANGED <<db, job>>
  PROVE  CooldownInv'
<1>1. now \in Nat /\ now' > now
  BY RecordTypes
<1>2. ASSUME NEW t \in Triggers
      PROVE  /\ due[t] \in Nat
             /\ due'[t] = IF Counts(t) /\ due[t] > 0 THEN due[t] - 1 ELSE due[t]
  <2>1. due[t] \in Nat /\ due'[t] = DueAfter(t) /\ due[t] <= Left(db[t])
    BY <1>2 DEF CooldownInv, DueStep
  <2>2. db[t].status = "pending" => due[t] = 0
    BY <2>1 DEF Left
  <2>3. ~(db'[t].status = "cooldown" /\ db[t].status \in {"absent", "pending"}) /\ db'[t] = db[t]
    OBVIOUS
  <2>. QED BY <1>1, <2>1, <2>2, <2>3 DEF DueAfter
<1>3. due' \in [Triggers -> Nat]
  BY <1>2 DEF CooldownInv, DueStep
<1>4. ASSUME NEW t \in Triggers, Counts(t), NEW tr, tr.effective_at \in Nat, tr.remaining \in Nat,
             due[t] <= Left(tr)
      PROVE  due'[t] <= Left(tr)'
  BY <1>1, <1>2, <1>4 DEF Left
<1>5. ASSUME NEW t \in Triggers PROVE due'[t] <= Left(db[t])'
  <2>1. db[t].effective_at \in Nat /\ db[t].remaining \in Nat /\ due[t] <= Left(db[t]) /\ db'[t] = db[t]
    BY <1>5, RecordTypes DEF CooldownInv
  <2>2. CASE Counts(t)
    BY <1>4, <2>1, <2>2 DEF Left
  <2>3. CASE ~Counts(t)
    <3>1. db[t].status # "cooldown" /\ due'[t] = due[t]
      BY <1>2, <2>3 DEF Counts
    <3>. QED BY <2>1, <3>1 DEF Left
  <2>. QED BY <2>2, <2>3
<1>6. ASSUME NEW j \in Jobs, job'[j].step # "idle"
      PROVE  Carried(job[j].t, job[j].snap)'
  <2>1. /\ job'[j] = job[j] /\ job[j].t \in Triggers
        /\ job[j].snap.effective_at \in Nat /\ job[j].snap.remaining \in Nat
        /\ Carried(job[j].t, job[j].snap)
    BY <1>6, InFlight, RecordTypes DEF CooldownInv
  <2>2. Counts(job[j].t)
    BY <2>1 DEF Counts
  <2>. QED BY <1>4, <2>1, <2>2 DEF Carried, Left
<1>. QED BY <1>3, <1>5, <1>6 DEF CooldownInv
-----------------------------------------------------------------------------
(* What each handler carries. *)

(* A handler that starts carries what its trigger has yet to wait.  A release *)
(* of what is pending, aborted or absent starts anew or from what was left.   *)
LEMMA BeginsServing ==
  ASSUME TriggerInv, CooldownInv, DueStep, NEW j \in Jobs, NEW step, NEW t, NEW snap, NEW todo,
         Begin(j, step, t, snap, todo), NoWrite, Carried(t, snap)
  PROVE  CooldownInv'
<1>1. \A k \in Jobs \ {j} : job'[k] = job[k]
  BY DEF Begin
<1>2. job'[j].t = t /\ job'[j].snap = snap
  BY DEF Begin, TriggerInv
<1>. QED BY <1>1, <1>2, CarriesOn DEF NoWrite

LEMMA RequestServes ==
  ASSUME TriggerInv, CooldownInv, DueStep, NEW j \in Jobs, Request(j)
  PROVE  CooldownInv'
<1>0. now \in Nat /\ DefaultCooldown \in Nat
  BY RecordTypes, TriggerAssumption
<1>1. ASSUME NEW t \in Triggers
      PROVE  /\ db[t] \in Trigger /\ db[t].effective_at \in Nat /\ db[t].remaining \in Nat
             /\ due[t] \in Nat /\ due[t] <= Left(db[t])
  BY <1>1 DEF TriggerInv, SoundTrigger, Trigger, CooldownInv
<1>2. ASSUME NEW t \in Triggers, db[t].status \notin {"cooldown", "aborted"}, NEW tr,
             tr.effective_at \in Nat, tr.remaining \in Nat
      PROVE  Carried(t, tr)
  BY <1>0, <1>1, <1>2 DEF Carried, Left
<1>3. ASSUME NEW t \in Triggers, NEW p \in Path,
             \/ Initiate(j, t, p) \/ FromOracle(j, t, p)
             \/ SimulateChainlink(j, t, p) \/ EmergencyRelease(j, t, p)
      PROVE  CooldownInv'
  <2>1. db[t].status = "absent"
    BY <1>3 DEF Initiate, FromOracle, SimulateChainlink, EmergencyRelease, NewId
  <2>2. [Blank(p) EXCEPT !.status = "pending"].status = "pending"
    BY DEF Blank
  <2>3. ASSUME NEW kind \in Kind PROVE Carried(t, InCooldown(p, kind))
    <3>1. InCooldown(p, kind).effective_at \in Nat /\ InCooldown(p, kind).remaining \in Nat
      BY <1>0 DEF InCooldown, Blank
    <3>. QED BY <1>2, <2>1, <3>1
  <2>4. Carried(t, [Blank(p) EXCEPT !.status = "pending"])
    BY <2>2 DEF Carried
  <2>5. {"oracle", "emergency"} \subseteq Kind
    BY DEF Kind
  <2>6. CASE Initiate(j, t, p)
    BY <2>4, <2>6, BeginsServing DEF Initiate
  <2>7. CASE FromOracle(j, t, p)
    BY <2>3, <2>5, <2>7, BeginsServing DEF FromOracle
  <2>8. CASE SimulateChainlink(j, t, p)
    BY <2>3, <2>5, <2>8, BeginsServing DEF SimulateChainlink
  <2>9. CASE EmergencyRelease(j, t, p)
    BY <2>3, <2>5, <2>9, BeginsServing DEF EmergencyRelease
  <2>. QED BY <1>3, <2>6, <2>7, <2>8, <2>9
<1>4. ASSUME NEW t \in Triggers, NEW d \in Decision, NEW c \in Cooldowns \union {0}, Decide(j, t, d, c)
      PROVE  CooldownInv'
  <2> DEFINE status == IF d # "release" THEN d ELSE IF c > 0 THEN "cooldown" ELSE "released"
             snap == [db[t] EXCEPT !.status = status, !.decision = d, !.effective_at = now + c]
  <2>1. now + c \in Nat /\ db[t].status = "pending"
    BY <1>0, <1>4, TriggerAssumption DEF Decide
  <2>2. snap.effective_at \in Nat /\ snap.remaining \in Nat
    BY <1>1, <2>1 DEF Trigger
  <2>3. Carried(t, snap)
    BY <1>2, <2>1, <2>2
  <2>4. /\ \/ \E S \in BindingRecipients(db[t]) : Begin(j, "attest_decision", t, snap, S)
           \/ Begin(j, "write_decision", t, snap, {})
        /\ NoWrite
    BY <1>4 DEF Decide
  <2> HIDE DEF snap
  <2>. QED BY <2>3, <2>4, BeginsServing
<1>5. ASSUME NEW t \in Triggers, Cancel(j, t) PROVE CooldownInv'
  <2> DEFINE snap == [db[t] EXCEPT !.status = "pending", !.decision = "none",
                        !.effective_at = 0, !.cancel_cooldown_until = now + CancelWait]
  <2>1. Carried(t, db[t]) /\ snap.status = "pending"
    BY <1>1 DEF Carried, Trigger
  <2>2. Carried(t, snap)
    BY <2>1 DEF Carried
  <2>3. /\ Begin(j, "reread", t, db[t], {}) \/ Begin(j, "write", t, snap, {})
        /\ NoWrite
    BY <1>5 DEF Cancel
  <2> HIDE DEF snap
  <2>. QED BY <2>1, <2>2, <2>3, BeginsServing
<1>6. ASSUME NEW t \in Triggers, LegalConfirm(j, t) PROVE CooldownInv'
  <2> DEFINE snap == [db[t] EXCEPT !.legal_confirmation = TRUE]
  <2>1. /\ snap.status = db[t].status /\ snap.effective_at = db[t].effective_at
        /\ snap.remaining = db[t].remaining
    BY <1>1 DEF Trigger
  <2>2. Carried(t, snap)
    BY <1>1, <2>1 DEF Carried, Left
  <2> HIDE DEF snap
  <2>. QED BY <1>6, <2>2, BeginsServing DEF LegalConfirm, snap
<1>7. ASSUME NEW t \in Triggers, Abort(j, t) PROVE CooldownInv'
  <2> DEFINE rest == IF db[t].effective_at > now THEN db[t].effective_at - now ELSE 0
             snap == [db[t] EXCEPT !.status = "aborted", !.remaining = rest]
  <2>1. db[t].status = "cooldown" /\ Begin(j, "write", t, snap, {}) /\ NoWrite
    BY <1>7 DEF Abort
  <2>2. due[t] <= rest
    BY <1>1, <2>1 DEF Left
  <2>3. snap.status = "aborted" /\ snap.remaining = rest
    BY <1>1 DEF Trigger
  <2> HIDE DEF snap, rest
  <2>4. Carried(t, snap)
    BY <2>2, <2>3 DEF Carried, Left
  <2>. QED BY <2>1, <2>4, BeginsServing
<1>8. ASSUME NEW t \in Triggers, Resume(j, t) PROVE CooldownInv'
  <2> DEFINE snap == [db[t] EXCEPT !.status = "cooldown", !.remaining = 0,
                                   !.effective_at = now + db[t].remaining]
  <2>1. db[t].status = "aborted" /\ Begin(j, "write", t, snap, {}) /\ NoWrite
    BY <1>8 DEF Resume
  <2>2. due[t] <= db[t].remaining
    BY <1>1, <2>1 DEF Left
  <2>3. snap.status = "cooldown" /\ snap.effective_at = now + db[t].remaining
    BY <1>1 DEF Trigger
  <2> HIDE DEF snap
  <2>4. Carried(t, snap)
    BY <1>0, <1>1, <2>2, <2>3 DEF Carried, Left
  <2>. QED BY <2>1, <2>4, BeginsServing
<1>9. ASSUME NEW t \in Triggers, RetryBlocked(j, t) \/ ResetBlocked(j, t) PROVE CooldownInv'
  <2>1. db[t].status = "attestation_blocked"
    BY <1>9 DEF RetryBlocked, ResetBlocked
  <2>2. db[t].blocked_reset_count \in Nat
    BY <1>1 DEF Trigger
  <2>3. CASE RetryBlocked(j, t)
    <3> DEFINE snap == [db[t] EXCEPT !.status = "cooldown", !.effective_at = now + 1]
    <3>1. snap.effective_at \in Nat /\ snap.remaining \in Nat
      BY <1>0, <1>1 DEF Trigger
    <3>2. Carried(t, snap)
      BY <1>2, <2>1, <3>1
    <3> HIDE DEF snap
    <3>. QED BY <2>3, <3>2, BeginsServing DEF RetryBlocked, snap
  <2>4. CASE ResetBlocked(j, t)
    <3> DEFINE count == db[t].blocked_reset_count + 1
               snap == [db[t] EXCEPT !.status = "cooldown", !.blocked_reset_count = count,
                                     !.effective_at = now + count]
    <3>1. snap.effective_at \in Nat /\ snap.remaining \in Nat
      BY <1>0, <1>1, <2>2 DEF Trigger
    <3>2. Carried(t, snap)
      BY <1>2, <2>1, <3>1
    <3>3. Begin(j, "reset", t, snap, {}) /\ NoWrite
      BY <2>4 DEF ResetBlocked
    <3> HIDE DEF snap
    <3>. QED BY <3>2, <3>3, BeginsServing
  <2>. QED BY <1>9, <2>3, <2>4
<1>. QED BY <1>3, <1>4, <1>5, <1>6, <1>7, <1>8, <1>9 DEF Request, Creation

LEMMA JobServes ==
  ASSUME TriggerInv, CooldownInv, Alone, DueStep, NEW j \in Jobs, JobStep(j)
  PROVE  CooldownInv'
<1> DEFINE t == job[j].t
           s == job[j].snap
<1>1. job[j].step # "idle" /\ now' = now
  BY DEF JobStep, FinalizerStep, EmergencyAttest, WriteDecision, AuditDecision, Write,
         AttestRecipient, Attested, Reread, Lock, ReadBinding, Gate, Keep, Release, Audit, At,
         OnlyDb, NoWrite
<1>2. /\ t \in Triggers /\ Carried(t, s) /\ now \in Nat /\ s.effective_at \in Nat
      /\ due[t] \in Nat /\ due[t] <= Left(db[t]) /\ job[j] \in SoundJob
  BY <1>1, InFlight, RecordTypes DEF CooldownInv, TriggerInv
<1>3. \A k \in Jobs \ {j} : job'[k] = job[k]
  <2>0. job \in [Jobs -> SoundJob]
    BY DEF TriggerInv
  <2>1. Finish(j) \/ (\E step \in Step : Goto(j, step)) => \A k \in Jobs \ {j} : job'[k] = job[k]
    BY <2>0 DEF Finish, Goto
  <2>2. {"create", "write_decision", "audit_decision", "binding", "gate", "audit"} \subseteq Step
    BY DEF Step, Held
  <2>3. CASE EmergencyAttest(j) \/ WriteDecision(j) \/ AuditDecision(j) \/ Write(j)
    BY <2>1, <2>2, <2>3 DEF EmergencyAttest, WriteDecision, AuditDecision, Write
  <2>4. CASE Keep(j) \/ Release(j) \/ Audit(j)
    BY <2>1, <2>2, <2>4 DEF Keep, Release, Audit
  <2>5. CASE AttestRecipient(j) \/ Reread(j) \/ ReadBinding(j)
    BY <2>0, <2>5 DEF AttestRecipient, Reread, ReadBinding
  <2>6. CASE Attested(j)
    BY <2>0, <2>1, <2>2, <2>6 DEF Attested
  <2>7. CASE Lock(j)
    BY <2>0, <2>1, <2>2, <2>7 DEF Lock
  <2>8. CASE Gate(j)
    BY <2>0, <2>1, <2>8 DEF Gate
  <2>. QED BY <2>3, <2>4, <2>5, <2>6, <2>7, <2>8 DEF JobStep, FinalizerStep
<1>4. Finish(j) => job'[j].step = "idle"
  BY DEF Finish, Idle, TriggerInv
<1>5. ASSUME NEW step, Goto(j, step) PROVE job'[j].t = t /\ job'[j].snap = s
  BY <1>5 DEF Goto, TriggerInv, SoundJob
<1>6. ASSUME UNCHANGED db, Finish(j) \/ (job'[j].t = t /\ Carried(t, job'[j].snap))
      PROVE  CooldownInv'
  BY <1>1, <1>3, <1>4, <1>6, CarriesOn
<1>7. ASSUME Store(j), Finish(j) \/ (\E step \in Step : Goto(j, step))
      PROVE  CooldownInv'
  BY <1>1, <1>3, <1>4, <1>5, <1>7, WritesBack
<1>8. CASE EmergencyAttest(j)
  BY <1>2, <1>5, <1>6, <1>8 DEF EmergencyAttest
<1>9. CASE WriteDecision(j) \/ Write(j) \/ Keep(j) \/ Release(j)
  <2>1. "audit_decision" \in Step /\ "audit" \in Step
    BY DEF Step, Held
  <2>. QED BY <1>7, <1>9, <2>1 DEF WriteDecision, Write, Keep, Release
<1>10. CASE AuditDecision(j) \/ Audit(j)
  BY <1>6, <1>7, <1>10 DEF AuditDecision, Audit, AuditWrite
<1>11. CASE AttestRecipient(j) \/ ReadBinding(j)
  <2>1. job'[j].t = t /\ job'[j].snap = s /\ UNCHANGED db
    BY <1>11 DEF AttestRecipient, ReadBinding, NoWrite, TriggerInv, SoundJob
  <2>. QED BY <1>2, <1>6, <2>1
<1>12. ASSUME s.status = "cooldown", s.effective_at <= now,
              NEW tr, tr.status \notin {"cooldown", "aborted"} \/ tr = s
       PROVE  Carried(t, tr)
  BY <1>2, <1>12 DEF Carried, Left
<1>13. CASE Attested(j)
  <2>1. UNCHANGED db
    BY <1>13 DEF Attested, NoWrite
  <2>2. CASE Goto(j, "write_decision")
    BY <1>2, <1>5, <1>6, <2>1, <2>2
  <2>3. CASE At(j, "attest") /\ job' = [job EXCEPT ![j].step = "release", ![j].snap = Finalized(@)]
    <3>1. s.status = "cooldown" /\ s.effective_at <= now /\ s.decision \in Decision \union {"none"}
      BY <1>2, <2>3 DEF SoundJob, SoundTrigger, Trigger, At
    <3>2. job'[j].t = t /\ job'[j].snap = Finalized(s)
      BY <2>3 DEF TriggerInv, SoundJob
    <3>3. Finalized(s).status \notin {"cooldown", "aborted"}
      BY <1>2, <3>1 DEF Finalized, Decision, SoundJob, SoundTrigger, Trigger
    <3>. QED BY <1>6, <1>12, <2>1, <3>1, <3>2, <3>3
  <2>. QED BY <1>13, <2>2, <2>3 DEF Attested
<1>14. CASE Reread(j)
  <2>1. job'[j].t = t /\ job'[j].snap = db[t] /\ UNCHANGED db
    BY <1>14 DEF Reread, NoWrite, TriggerInv, SoundJob
  <2>2. Carried(t, db[t])
    BY <1>2 DEF Carried
  <2>. QED BY <1>6, <2>1, <2>2
<1>15. CASE Lock(j)
  <2>1. UNCHANGED db /\ (Finish(j) \/ (job'[j].t = t /\ job'[j].snap = s))
    BY <1>5, <1>15 DEF Lock, TriggerInv, SoundJob
  <2>. QED BY <1>2, <1>6, <2>1
<1>16. CASE Gate(j)
  <2>1. s.status = "cooldown" /\ s.effective_at <= now /\ s.decision \in Decision \union {"none"}
    BY <1>2, <1>16 DEF SoundJob, SoundTrigger, Trigger, At, Gate
  <2>2. /\ Finalized(s).status \notin {"cooldown", "aborted"}
        /\ [s EXCEPT !.status = "attestation_blocked"].status = "attestation_blocked"
    BY <1>2, <2>1 DEF Finalized, Decision, SoundJob, SoundTrigger, Trigger
  <2>3. /\ UNCHANGED db
        /\ \/ Finish(j)
           \/ /\ job'[j].t = t
              /\ job'[j].snap \in {s, [s EXCEPT !.status = "attestation_blocked"], Finalized(s)}
    BY <1>16 DEF Gate, TriggerInv, SoundJob
  <2>. QED BY <1>6, <1>12, <2>1, <2>2, <2>3
<1>. QED BY <1>8, <1>9, <1>10, <1>11, <1>13, <1>14, <1>15, <1>16 DEF JobStep, FinalizerStep

LEMMA ThrowServes ==
  ASSUME TriggerInv, CooldownInv, DueStep, NEW j \in Jobs, Throw(j)
  PROVE  CooldownInv'
<1>1. UNCHANGED <<db, now>> /\ job' = [job EXCEPT ![j] = Idle]
  BY DEF Throw, Finish
<1>2. job'[j].step = "idle" /\ \A k \in Jobs \ {j} : job'[k] = job[k]
  BY <1>1 DEF Idle, TriggerInv
<1>. QED BY <1>1, <1>2, CarriesOn

LEMMA NextServes ==
  ASSUME TriggerInv, CooldownInv, Alone, DueStep, Next
  PROVE  CooldownInv'
<1>1. ASSUME NEW j \in Requests, Request(j) PROVE CooldownInv'
  BY <1>1, RequestServes DEF Jobs
<1>2. ASSUME NEW j \in Sweepers, NEW t \in Triggers, Sweep(j, t) PROVE CooldownInv'
  <2>1. Carried(t, db[t])
    BY DEF CooldownInv, Carried
  <2>. QED BY <1>2, <2>1, BeginsServing DEF Sweep, Jobs
<1>3. ASSUME NEW j \in Jobs, JobStep(j) \/ Throw(j) PROVE CooldownInv'
  BY <1>3, JobServes, ThrowServes
<1>4. CASE Tick
  BY <1>4, TickServes DEF Tick
<1>5. CASE Restart \/ ChainStep
  <2>1. UNCHANGED <<db, now>>
    BY <1>5 DEF Restart, ChainStep, serverVars
  <2>2. \A t \in Triggers : due'[t] = due[t]
    BY <2>1, DueStays
  <2>3. due' = due
    BY <2>2 DEF CooldownInv, DueStep
  <2>4. \A j \in Jobs : job'[j] = job[j] \/ job'[j].step = "idle"
    BY <1>5 DEF Restart, ChainStep, serverVars, Idle
  <2>. QED BY <2>1, <2>3, <2>4 DEF CooldownInv, Carried, Left
<1>. QED BY <1>1, <1>2, <1>3, <1>4, <1>5 DEF Next

(* What holds as long as the handlers of a trigger have not overlapped. *)
ServingInv == alone => Alone /\ CooldownInv

(* While the handlers of one trigger come one after the other, whatever is    *)
(* aborted, resumed, cancelled, decided again, blocked, retried and reset, by *)
(* however many handlers and sweeps of other triggers at once, through any    *)
(* errors and restarts, a trigger is released only after it has spent in      *)
(* cooldown all its decision asked for (decision.js, the admin's abort and    *)
(* resume).                                                                   *)
THEOREM CooldownIsServed == DueSpec => []CooldownServed
<1>1. DueInit => TriggerInv /\ ServingInv
  <2> SUFFICES ASSUME DueInit PROVE TriggerInv /\ Alone /\ CooldownInv
    BY DEF ServingInv
  <2>1. TriggerInv
    BY InitTriggerInv DEF DueInit
  <2>2. \A j \in Jobs : job[j].step = "idle" /\ job[j].t = NoTrigger
    BY DEF DueInit, Init, Idle
  <2>3. due = [t \in Triggers |-> 0] /\ \A t \in Triggers : Left(db[t]) = 0
    BY DEF DueInit, Init, Blank, Left
  <2>. QED BY <2>1, <2>2, <2>3 DEF CooldownInv, Alone
<1>2. TriggerInv /\ ServingInv /\ [DueNext]_dueVars => TriggerInv' /\ ServingInv'
  <2> SUFFICES ASSUME TriggerInv, ServingInv, [DueNext]_dueVars PROVE TriggerInv' /\ ServingInv'
    OBVIOUS
  <2>1. [Next]_vars
    BY DEF DueNext, dueVars
  <2>2. TriggerInv'
    BY <2>1, NextKeepsTriggerInv
  <2>3. ASSUME DueNext, alone' PROVE Alone' /\ CooldownInv'
    <3>1. alone /\ Alone' /\ Next /\ DueStep
      BY <2>3 DEF DueNext, DueStep
    <3>2. Alone /\ CooldownInv
      BY <3>1 DEF ServingInv
    <3>. QED BY <3>1, <3>2, NextServes
  <2>4. CASE UNCHANGED dueVars
    BY <2>2, <2>4 DEF dueVars, vars, serverVars, ServingInv, CooldownInv, Carried, Left, Alone
  <2>. QED BY <2>2, <2>3, <2>4 DEF ServingInv
<1>3. ServingInv => CooldownServed
  BY DEF ServingInv, CooldownInv, CooldownServed, Left
<1>. QED BY <1>1, <1>2, <1>3, PTL DEF DueSpec
=============================================================================
