-------------------------- MODULE TriggerLifecycle --------------------------
(***************************************************************************)
(* The server's trigger records, from creation to the final decision:      *)
(* server/api/trigger/{initiate,oracle,decision,pending}.js, the trigger   *)
(* endpoints of api/admin/index.js and the trigger part of                 *)
(* services/scheduler.js, over the attestation slots of the contract.      *)
(*                                                                         *)
(* Every handler reads a record, awaits something (the database, the       *)
(* chain, a mint, an Arweave upload) and then writes back the WHOLE record *)
(* it read, changed: db.triggers.update replaces, it does not merge.  So a *)
(* handler in flight is a job that carries its snapshot, and each await is *)
(* a step boundary at which the other jobs may run.                        *)
(***************************************************************************)
EXTENDS ReleaseAttestation, Integers

CONSTANTS
  Triggers,          \* trigger ids
  NoTrigger,         \* the trigger of an idle job
  Requests,          \* slots for API handlers and for the scheduler's tick
  Sweepers,          \* slots for finalizeCooldowns sweeps: they may overlap
  Oracle, Relayer,   \* the oracle's submitter, the server's relayer
  OracleEnabled,     \* whether the attestation gate is configured
  OracleOwned,       \* whether somebody signs in as ORACLE_AUTHORITY_ID
  HighValue,         \* wallets that need a legal confirmation
  Cooldowns,         \* the cooldowns a decision may ask for, in ticks
  DefaultCooldown,   \* the cooldown of oracle and emergency triggers
  CancelWait,        \* CANCEL_COOLDOWN_MS
  MaxBlockedResets,  \* MAX_BLOCKED_RESETS
  MaxRestarts,       \* bound: how often the server restarts
  Horizon            \* bound: the last tick of the clock

ASSUME TriggerAssumption ==
  /\ Oracle \in Address /\ Relayer \in Address
  /\ OracleEnabled \in BOOLEAN /\ OracleOwned \in BOOLEAN
  /\ HighValue \subseteq Wallets
  /\ Cooldowns \subseteq Nat /\ DefaultCooldown \in Nat \ {0}
  /\ CancelWait \in Nat /\ MaxBlockedResets \in Nat
  /\ MaxRestarts \in Nat /\ Horizon \in Nat
  /\ NoTrigger \notin Triggers
  /\ Path # {}

VARIABLES
  db,          \* the trigger collection
  job,         \* the handlers and sweeps in flight
  finalizing,  \* _finalizingTriggers, the in-process lock
  paused,      \* TRIGGER_RELEASE_PAUSED, read when the server starts
  now,         \* the clock
  restarts     \* how often the server has restarted

serverVars == <<db, job, finalizing, paused, now, restarts>>
vars == <<attestationVars, serverVars>>

Jobs == Requests \union Sweepers
Status == {"absent", "pending", "cooldown", "attestation_blocked", "aborted",
           "released", "hold", "reject"}
Kind == {"legal_event", "oracle", "emergency"}

(* remaining is remaining_cooldown_ms; 0 stands for a null time.           *)
Trigger == [kind : Kind, path : Path, status : Status,
            decision : Decision \union {"none"}, effective_at : Nat,
            legal_confirmation : BOOLEAN, blocked_reset_count : Nat,
            remaining : Nat, cancel_cooldown_until : Nat]

Blank(p) == [kind |-> "legal_event", path |-> p, status |-> "absent",
  decision |-> "none", effective_at |-> 0, legal_confirmation |-> FALSE,
  blocked_reset_count |-> 0, remaining |-> 0, cancel_cooldown_until |-> 0]

SomePath == CHOOSE p \in Path : TRUE

(* What a job does next; Held are the steps past the in-process lock.      *)
Held == {"gate", "binding", "attest", "keep", "release", "audit"}
Step == {"idle", "create", "create_locked", "emergency", "write", "reset",
         "attest_decision", "write_decision", "audit_decision",
         "reread", "lock"} \union Held

Job == [step : Step, t : Triggers \union {NoTrigger}, snap : Trigger,
        todo : SUBSET Path]
Idle == [step |-> "idle", t |-> NoTrigger, snap |-> Blank(SomePath), todo |-> {}]

TypeOK ==
  /\ AttestationTypeOK
  /\ db \in [Triggers -> Trigger]
  /\ job \in [Jobs -> Job]
  /\ \A j \in Jobs : job[j].t = NoTrigger <=> job[j].step = "idle"
  /\ finalizing \subseteq Triggers
  /\ paused \in BOOLEAN
  /\ now \in 0 .. Horizon
  /\ restarts \in 0 .. MaxRestarts

(* The contract's roles are set up before the server runs.                 *)
Init ==
  /\ oracleSubmitter = Oracle
  /\ fallbackSubmitters = {Relayer}
  /\ attestations = [p \in Path |-> EmptySlot]
  /\ db = [t \in Triggers |-> Blank(SomePath)]
  /\ job = [j \in Jobs |-> Idle]
  /\ finalizing = {}
  /\ paused \in BOOLEAN
  /\ now = 0
  /\ restarts = 0

-----------------------------------------------------------------------------
(* How jobs move.                                                          *)

Begin(j, step, t, snap, todo) ==
  /\ job[j] = Idle
  /\ job' = [job EXCEPT ![j] = [step |-> step, t |-> t, snap |-> snap, todo |-> todo]]

At(j, step) == job[j].step = step
Goto(j, step) == job' = [job EXCEPT ![j].step = step]
Finish(j) == job' = [job EXCEPT ![j] = Idle]
Store(j) == db' = [db EXCEPT ![job[j].t] = job[j].snap]

NoWrite == UNCHANGED <<attestationVars, db, finalizing, paused, now, restarts>>
OnlyDb == UNCHANGED <<attestationVars, finalizing, paused, now, restarts>>

(* evaluateReleaseAttestationGate, an expired attestation aside: the gate  *)
(* passes when it is not configured.                                       *)
AttestedBy(p, sources) == Released(p) /\ attestations[p].source \in sources

GateValid(trigger) ==
  OracleEnabled =>
    AttestedBy(trigger.path, IF trigger.kind = "emergency"
                             THEN {"oracle", "fallback"} ELSE {"oracle"})

(* findActiveBindingForTrigger: the active binding's recipients, if there  *)
(* is one.  It names the trigger's own index and maybe its siblings.       *)
BindingRecipients(trigger) ==
  {{}} \union {S \in SUBSET {p \in Path : p[1] = trigger.path[1]} : trigger.path \in S}

-----------------------------------------------------------------------------
(* Creation.                                                               *)

(* The duplicate check all three endpoints make; initiate looks only at    *)
(* the triggers of its own authority.                                      *)
Active(t) == db[t].status \in {"pending", "cooldown"}
NoDuplicate(p, kinds) ==
  ~\E t \in Triggers : Active(t) /\ db[t].path = p /\ db[t].kind \in kinds

NewId(t) == db[t].status = "absent" /\ \A k \in Jobs : job[k].t # t

(* POST /initiate.  Its look for an oracle RELEASE takes a read error for  *)
(* an empty slot, so it may let the request through whatever the chain     *)
(* says.                                                                   *)
Initiate(j, t, p) ==
  /\ NewId(t)
  /\ NoDuplicate(p, {"legal_event"})
  /\ Begin(j, "create", t, [Blank(p) EXCEPT !.status = "pending"], {})
  /\ NoWrite

InCooldown(p, kind) ==
  [Blank(p) EXCEPT !.kind = kind, !.status = "cooldown", !.decision = "release",
                   !.effective_at = now + DefaultCooldown]

(* POST /from-oracle: check and create run under the path's trigger lock.  *)
FromOracle(j, t, p) ==
  /\ NewId(t)
  /\ OracleEnabled /\ AttestedBy(p, {"oracle"})
  /\ \A k \in Jobs : At(k, "create_locked") => job[k].snap.path # p
  /\ NoDuplicate(p, Kind)
  /\ now + DefaultCooldown <= Horizon
  /\ Begin(j, "create_locked", t, InCooldown(p, "oracle"), {})
  /\ NoWrite

(* POST /simulate-chainlink, for one recipient: its own attestation, or a  *)
(* RELEASE found on chain whatever its source, then the duplicate check.   *)
SimulateChainlink(j, t, p) ==
  /\ NewId(t)
  /\ OracleEnabled /\ Released(p)
  /\ NoDuplicate(p, Kind)
  /\ now + DefaultCooldown <= Horizon
  /\ Begin(j, "create", t, InCooldown(p, "oracle"), {})
  /\ NoWrite

(* POST /trigger/emergency-release: the duplicate check, then a fallback   *)
(* attestation, then the record.                                           *)
EmergencyRelease(j, t, p) ==
  /\ NewId(t)
  /\ NoDuplicate(p, Kind)
  /\ now + DefaultCooldown <= Horizon
  /\ Begin(j, "emergency", t, InCooldown(p, "emergency"), {})
  /\ NoWrite

EmergencyAttest(j) ==
  /\ At(j, "emergency")
  /\ \/ /\ SubmitAttestation(Relayer, "fallback", job[j].snap.path, "release")
        /\ Goto(j, "create")
     \/ Finish(j) /\ UNCHANGED attestationVars
  /\ UNCHANGED <<db, finalizing, paused, now, restarts>>

-----------------------------------------------------------------------------
(* The authority's endpoints.                                              *)

(* req.auth.authority_id = trigger.authority_id for some authority.        *)
Owned(trigger) == trigger.kind = "legal_event" \/ OracleOwned

(* POST /:id/decision.  Only release has a cooldown; a legal release with  *)
(* none writes the attestations first.                                     *)
Decide(j, t, d, cooldown) ==
  LET status == IF d # "release" THEN d
                ELSE IF cooldown > 0 THEN "cooldown" ELSE "released"
      snap == [db[t] EXCEPT !.status = status, !.decision = d,
                            !.effective_at = now + cooldown]
  IN  /\ Owned(db[t])
      /\ db[t].status = "pending"
      /\ db[t].cancel_cooldown_until <= now
      /\ d = "release" \/ cooldown = 0
      /\ d = "release" /\ db[t].kind # "legal_event" =>
           (OracleEnabled => AttestedBy(db[t].path, {"oracle"}))
      /\ now + cooldown <= Horizon
      /\ IF status = "released" /\ db[t].kind = "legal_event"
         THEN \E S \in BindingRecipients(db[t]) : Begin(j, "attest_decision", t, snap, S)
         ELSE Begin(j, "write_decision", t, snap, {})
      /\ NoWrite

WriteDecision(j) ==
  /\ At(j, "write_decision")
  /\ Store(j)
  /\ IF job[j].snap.status = "cooldown" THEN Finish(j) ELSE Goto(j, "audit_decision")
  /\ OnlyDb

(* POST /:id/cancel: past the effective time it finalizes instead.         *)
Cancel(j, t) ==
  /\ Owned(db[t])
  /\ db[t].status = "cooldown"
  /\ IF now >= db[t].effective_at
     THEN Begin(j, "reread", t, db[t], {})
     ELSE Begin(j, "write", t,
            [db[t] EXCEPT !.status = "pending", !.decision = "none",
                          !.effective_at = 0,
                          !.cancel_cooldown_until = now + CancelWait], {})
  /\ NoWrite

(* POST /:id/legal-confirm, the authority's and the admin's.               *)
LegalConfirm(j, t) ==
  /\ db[t].status = "cooldown"
  /\ Begin(j, "write", t, [db[t] EXCEPT !.legal_confirmation = TRUE], {})
  /\ NoWrite

-----------------------------------------------------------------------------
(* The admin's endpoints and the scheduler.                                *)

(* Faulty variant: the cooldown that is left is not floored at 0.          *)
Abort_NoFloor(j, t) ==
  /\ db[t].status = "cooldown"
  /\ Begin(j, "write", t, [db[t] EXCEPT !.status = "aborted",
                             !.remaining = db[t].effective_at - now], {})
  /\ NoWrite

Abort(j, t) ==
  /\ db[t].status = "cooldown"
  /\ Begin(j, "write", t,
       [db[t] EXCEPT !.status = "aborted",
          !.remaining = IF db[t].effective_at > now
                        THEN db[t].effective_at - now ELSE 0], {})
  /\ NoWrite

(* Faulty variant: the cooldown that was left is forgotten.                *)
Resume_ForgetsRemaining(j, t) ==
  /\ db[t].status = "aborted"
  /\ Begin(j, "write", t, [db[t] EXCEPT !.status = "cooldown",
                             !.effective_at = now, !.remaining = 0], {})
  /\ NoWrite

Resume(j, t) ==
  /\ db[t].status = "aborted"
  /\ now + db[t].remaining <= Horizon
  /\ Begin(j, "write", t,
       [db[t] EXCEPT !.status = "cooldown", !.remaining = 0,
                     !.effective_at = now + db[t].remaining], {})
  /\ NoWrite

(* POST /trigger/retry-blocked: one tick stands for its 30 seconds.        *)
RetryBlocked(j, t) ==
  /\ db[t].status = "attestation_blocked"
  /\ now < Horizon
  /\ Begin(j, "write", t,
       [db[t] EXCEPT !.status = "cooldown", !.effective_at = now + 1], {})
  /\ NoWrite

(* The scheduler's tick: the k-th reset waits k times as long.  Ticks do   *)
(* not overlap (_processing).                                              *)
ResetBlocked(j, t) ==
  LET count == db[t].blocked_reset_count + 1
  IN  /\ db[t].status = "attestation_blocked"
      /\ db[t].effective_at <= now
      /\ count <= MaxBlockedResets
      /\ \A k \in Jobs : At(k, "reset") => job[k].t # t
      /\ now + count <= Horizon
      /\ Begin(j, "reset", t,
           [db[t] EXCEPT !.status = "cooldown", !.blocked_reset_count = count,
                         !.effective_at = now + count], {})
      /\ NoWrite

(* The write that ends a handler.                                          *)
Write(j) ==
  /\ job[j].step \in {"create", "create_locked", "write", "reset"}
  /\ Store(j)
  /\ Finish(j)
  /\ OnlyDb

-----------------------------------------------------------------------------
(* The cooldown finalizer.                                                 *)

(* finalizeCooldowns lists the expired cooldowns and calls                 *)
(* maybeFinalizeDecision on each, which reads the trigger again.           *)
Sweep(j, t) ==
  /\ ~paused
  /\ db[t].status = "cooldown" /\ now >= db[t].effective_at
  /\ Begin(j, "reread", t, db[t], {})
  /\ NoWrite

Reread(j) ==
  /\ At(j, "reread")
  /\ job' = [job EXCEPT ![j].snap = db[job[j].t], ![j].step = "lock"]
  /\ NoWrite

(* Faulty variants: without the look at the lock, and without the time     *)
(* check.                                                                  *)
Lock_Variant(j, looks, checksTime) ==
  LET t == job[j].t
      trigger == job[j].snap
      taken == trigger.status = "cooldown" /\ (looks => t \notin finalizing)
      proceeds == (checksTime => now >= trigger.effective_at) /\ ~paused
  IN  /\ At(j, "lock")
      /\ IF taken /\ proceeds
         THEN finalizing' = finalizing \union {t} ELSE UNCHANGED finalizing
      /\ IF taken /\ proceeds
         THEN Goto(j, IF trigger.kind = "legal_event" THEN "binding" ELSE "gate")
         ELSE Finish(j)
      /\ UNCHANGED <<attestationVars, db, paused, now, restarts>>

Lock_Ignored(j) == Lock_Variant(j, FALSE, TRUE)
Lock_Early(j) == Lock_Variant(j, TRUE, FALSE)

(* Between the re-read and the first await inside: the status, the lock,   *)
(* the effective time and the pause.  A finalizer that stops here has      *)
(* taken and released the lock without an await in between.                *)
Lock(j) ==
  LET t == job[j].t
      trigger == job[j].snap
      proceeds == /\ trigger.status = "cooldown"
                  /\ t \notin finalizing
                  /\ now >= trigger.effective_at
                  /\ ~paused
  IN  /\ At(j, "lock")
      /\ IF proceeds
         THEN /\ finalizing' = finalizing \union {t}
              /\ Goto(j, IF trigger.kind = "legal_event" THEN "binding" ELSE "gate")
         ELSE Finish(j) /\ UNCHANGED finalizing
      /\ UNCHANGED <<attestationVars, db, paused, now, restarts>>

Unlock(j) == finalizing' = finalizing \ {job[j].t}

Finalized(trigger) == [trigger EXCEPT !.status =
  IF trigger.decision = "release" THEN "released" ELSE trigger.decision]

(* Faulty variant: an unreadable chain counts as a passed gate.            *)
Gate_FailsOpen(j) ==
  LET trigger == job[j].snap
  IN  /\ At(j, "gate")
      /\ job' = [job EXCEPT ![j].step = "release", ![j].snap = Finalized(trigger)]
      /\ NoWrite

(* Faulty variant: high-value wallets are not looked up.                   *)
Gate_SkipsConfirmation(j) ==
  LET trigger == job[j].snap
  IN  /\ At(j, "gate")
      /\ GateValid(trigger)
      /\ job' = [job EXCEPT ![j].step = "release", ![j].snap = Finalized(trigger)]
      /\ NoWrite

Unconfirmed(trigger) ==
  trigger.path[1] \in HighValue /\ ~trigger.legal_confirmation

(* The gate of an oracle trigger.  It cannot be read (the record stays in  *)
(* cooldown), it is not met or too old (the record is blocked), or it is   *)
(* met; then a high-value wallet still needs its legal confirmation.       *)
Gate(j) ==
  LET trigger == job[j].snap
      blocked == [trigger EXCEPT !.status = "attestation_blocked"]
  IN  /\ At(j, "gate")
      /\ \/ /\ OracleEnabled
            /\ \E snap \in {trigger, blocked} :
                 job' = [job EXCEPT ![j].step = "keep", ![j].snap = snap]
            /\ UNCHANGED finalizing
         \/ /\ GateValid(trigger) /\ ~Unconfirmed(trigger)
            /\ job' = [job EXCEPT ![j].step = "release", ![j].snap = Finalized(trigger)]
            /\ UNCHANGED finalizing
         \/ GateValid(trigger) /\ Unconfirmed(trigger) /\ Finish(j) /\ Unlock(j)
      /\ UNCHANGED <<attestationVars, db, paused, now, restarts>>

(* The finalizer's write of a trigger it does not finalize.                *)
Keep(j) ==
  /\ At(j, "keep")
  /\ Store(j) /\ Unlock(j) /\ Finish(j)
  /\ UNCHANGED <<attestationVars, paused, now, restarts>>

(* A legal release looks for its binding before it attests.  An oracle     *)
(* trigger does so too, for the delivery: part of its release step.        *)
ReadBinding(j) ==
  /\ At(j, "binding")
  /\ \E S \in BindingRecipients(job[j].snap) :
       job' = [job EXCEPT ![j].step = "attest", ![j].todo = S]
  /\ NoWrite

(* submitReleaseAttestationForAllRecipients, one recipient per step: a     *)
(* failed submission is caught inside the loop, which goes on.             *)
AttestRecipient(j) ==
  /\ job[j].step \in {"attest", "attest_decision"}
  /\ \E p \in job[j].todo :
       /\ \/ SubmitAttestation(Relayer, "fallback", p, "release")
          \/ UNCHANGED attestationVars
       /\ job' = [job EXCEPT ![j].todo = @ \ {p}]
  /\ UNCHANGED <<db, finalizing, paused, now, restarts>>

Attested(j) ==
  /\ job[j].todo = {}
  /\ \/ At(j, "attest_decision") /\ Goto(j, "write_decision")
     \/ At(j, "attest") /\ job' = [job EXCEPT ![j].step = "release",
                                             ![j].snap = Finalized(@)]
  /\ NoWrite

Release(j) ==
  /\ At(j, "release")
  /\ Store(j)
  /\ Goto(j, "audit")
  /\ OnlyDb

(* After the delivery and the Arweave upload, persistDecisionAudit writes  *)
(* the snapshot once more if there is a transaction id to record.          *)
AuditWrite(j) == Store(j) \/ UNCHANGED db

Audit(j) ==
  /\ At(j, "audit")
  /\ AuditWrite(j) /\ Unlock(j) /\ Finish(j)
  /\ UNCHANGED <<attestationVars, paused, now, restarts>>

AuditDecision(j) ==
  /\ At(j, "audit_decision")
  /\ AuditWrite(j) /\ Finish(j)
  /\ OnlyDb

-----------------------------------------------------------------------------
(* Errors.                                                                 *)

(* The awaits whose errors are not caught where they are made: the reads   *)
(* and writes of records and bindings, and the gate.                       *)
Throwing == {"create", "create_locked", "write", "reset", "write_decision",
             "reread", "gate", "binding", "keep", "release"}

(* Faulty variant: the lock is deleted at the end and not in a finally.    *)
Throw_KeepsLock(j) ==
  /\ job[j].step \in Throwing
  /\ Finish(j)
  /\ UNCHANGED <<attestationVars, db, finalizing, paused, now, restarts>>

(* Such an error ends the handler, or the sweep's turn, with nothing       *)
(* written; a finalizer gives its lock back on the way out (finally).      *)
Throw(j) ==
  /\ job[j].step \in Throwing
  /\ Finish(j)
  /\ IF job[j].step \in Held THEN Unlock(j) ELSE UNCHANGED finalizing
  /\ UNCHANGED <<attestationVars, db, paused, now, restarts>>

-----------------------------------------------------------------------------
(* The rest of the world.                                                  *)

(* The oracle workflow, and fallback attestations the server submits       *)
(* outside the trigger handlers.                                           *)
ChainStep ==
  /\ \E p \in Path, d \in Decision :
       \/ SubmitAttestation(Oracle, "oracle", p, d)
       \/ SubmitAttestation(Relayer, "fallback", p, d)
  /\ UNCHANGED serverVars

Tick ==
  /\ now < Horizon
  /\ now' = now + 1
  /\ UNCHANGED <<attestationVars, db, job, finalizing, paused, restarts>>

(* A restart loses every handler in flight and the in-process lock.        *)
Restart ==
  /\ restarts < MaxRestarts
  /\ restarts' = restarts + 1
  /\ job' = [j \in Jobs |-> Idle]
  /\ finalizing' = {}
  /\ paused' \in BOOLEAN
  /\ UNCHANGED <<attestationVars, db, now>>

Creation(j) ==
  \E t \in Triggers, p \in Path :
    \/ Initiate(j, t, p) \/ FromOracle(j, t, p)
    \/ SimulateChainlink(j, t, p) \/ EmergencyRelease(j, t, p)

Request(j) ==
  \/ Creation(j)
  \/ \E t \in Triggers :
       \/ \E d \in Decision, c \in Cooldowns \union {0} : Decide(j, t, d, c)
       \/ Cancel(j, t) \/ LegalConfirm(j, t)
       \/ Abort(j, t) \/ Resume(j, t)
       \/ RetryBlocked(j, t) \/ ResetBlocked(j, t)

FinalizerStep(j) ==
  \/ Reread(j) \/ Lock(j) \/ Gate(j) \/ Keep(j)
  \/ ReadBinding(j) \/ Release(j) \/ Audit(j)

JobStep(j) ==
  \/ EmergencyAttest(j) \/ WriteDecision(j) \/ AuditDecision(j) \/ Write(j)
  \/ AttestRecipient(j) \/ Attested(j)
  \/ FinalizerStep(j)

Next ==
  \/ \E j \in Requests : Request(j)
  \/ \E j \in Sweepers, t \in Triggers : Sweep(j, t)
  \/ \E j \in Jobs : JobStep(j) \/ Throw(j)
  \/ ChainStep \/ Tick \/ Restart

Spec == Init /\ [][Next]_vars

(* Awaited calls return or throw, time passes, and the 30-second sweep     *)
(* comes back to every trigger: each sweep slot is set going again.  The   *)
(* database does not refuse the finalizers of a trigger for ever: a call   *)
(* that is made again and again succeeds at last.                          *)
Fairness ==
  /\ WF_vars(Tick)
  /\ \A j \in Jobs : WF_vars(JobStep(j) \/ Throw(j))
  /\ \A j \in Sweepers, t \in Triggers : WF_vars(Sweep(j, t))
  /\ \A t \in Triggers :
       /\ SF_vars(\E j \in Jobs : job[j].t = t /\ Reread(j))
       /\ SF_vars(\E j \in Jobs : job[j].t = t /\ ReadBinding(j))
       /\ SF_vars(\E j \in Jobs : job[j].t = t /\ Release(j))

-----------------------------------------------------------------------------
(* Properties.                                                             *)

(* The in-process lock: two finalizers are never past it on one trigger,   *)
(* and it is held exactly while one of them is: no return, no failed read  *)
(* or write and no restart leaves a trigger locked.                        *)
OneFinalizer ==
  /\ \A j, k \in Jobs : {job[j].step, job[k].step} \subseteq Held /\ job[j].t = job[k].t
                          => j = k
  /\ finalizing = {job[j].t : j \in {k \in Jobs : job[k].step \in Held}}

(* A released oracle trigger has its RELEASE on chain, from the oracle     *)
(* itself unless it is an emergency release: the gate's check, the await   *)
(* after it and the finality of the contract together.                     *)
OracleReleaseIsAttested ==
  \A t \in Triggers :
    OracleEnabled /\ db[t].status = "released" /\ db[t].kind # "legal_event" =>
      GateValid(db[t])

(* An oracle trigger of a high-value wallet is released only with a legal  *)
(* confirmation in its record, when no authority can decide on it: the     *)
(* finalizer's check and every snapshot written since agree.               *)
HighValueIsConfirmed ==
  \A t \in Triggers :
    db[t].status = "released" /\ db[t].kind # "legal_event" /\ ~OracleOwned =>
      ~Unconfirmed(db[t])

(* No record reads released before its effective time, whichever stale     *)
(* snapshot it was written from.                                           *)
ReleasedOnTime ==
  \A t \in Triggers : db[t].status = "released" => db[t].effective_at <= now

(* A legal release does not sit in cooldown for ever: unless releases are  *)
(* paused from some moment on, the finalizer gets it out, through          *)
(* restarts, requests and sweeps that overlap, and failed reads and writes *)
(* that do not go on for ever.                                             *)
CooldownResolves ==
  \A t \in Triggers :
    ([]<>~paused) =>
      ((db[t].status = "cooldown" /\ db[t].kind = "legal_event")
         ~> db[t].status # "cooldown")

-----------------------------------------------------------------------------
(* What the code's messages and comments say, and its interleavings break. *)

(* "Trigger aborted. Cooldown paused; on resume the remaining time will    *)
(* apply": an aborted trigger leaves that state only through a resume.     *)
AbortHolds ==
  [][\A t \in Triggers : db[t].status = "aborted" =>
       db'[t].status \in {"aborted", "cooldown"}]_vars

(* "If attestation write fails, DON'T finalize": a legal release with a    *)
(* binding is written only after its path is attested RELEASE.             *)
AttestedBeforeFinalized ==
  [][\A j \in Jobs : At(j, "attest") /\ job[j].todo # {} /\ job'[j].todo = {} =>
       Released(job[j].snap.path)']_vars
=============================================================================
