----------------------------- MODULE RwaDelivery -----------------------------
(***************************************************************************)
(* The delivery of one released path's credential:                         *)
(* server/services/deliverRwaRelease.js with its in-flight map and its     *)
(* log, the retries of services/scheduler.js, and the replacement of the   *)
(* payload: of one path by api/release/replace-path-payload.js, of the     *)
(* whole binding by api/release/distribute.js.  The mint service is        *)
(* external; its answer may fail or be lost.  Log entries of different     *)
(* paths share nothing, so one path is enough.                             *)
(***************************************************************************)
EXTENDS Integers, FiniteSets

CONSTANTS
  Callers,       \* who calls deliverRwaPackageForRecipient
  Scheduler,     \* the one of them that is the scheduler's tick
  NoCaller,      \* no delivery in flight
  MaxAttempts,   \* MAX_RETRY_ATTEMPTS
  MaxFaults,     \* bound: lost answers, database errors and restarts
  MaxForced,     \* bound: forced redeliveries
  MaxWarrants,   \* bound: warrants in hand at once
  Versions       \* bound: versions of the payload, 1 .. Versions

ASSUME DeliveryAssumption ==
  /\ Scheduler \in Callers /\ NoCaller \notin Callers
  /\ MaxAttempts \in Nat \ {0} /\ MaxFaults \in Nat /\ MaxForced \in Nat
  /\ MaxWarrants \in Nat /\ Versions \in Nat \ {0}
  /\ IsFiniteSet(Callers) /\ MaxWarrants > Cardinality(Callers)

VARIABLES
  log,        \* the rwaDeliveryLog entry of the path
  inFlight,   \* _inFlightDeliveries: the caller whose promise is in the map
  job,        \* the calls in flight
  registry,   \* the payload version the Arweave registry names
  binding,    \* the payload version the plan's binding names
  active,     \* whether that binding is active
  replacing,  \* the replacement of the payload in flight
  warrants,   \* reasons there have been to mint, less the credentials minted
  faults,     \* faults so far
  forced      \* forced redeliveries so far

jobVars == <<log, inFlight, job, warrants, faults, forced>>
payloadVars == <<registry, binding, active, replacing>>
vars == <<jobVars, payloadVars>>

(* txId is the payload version of the delivered credential, 0 for none;    *)
(* resets tells the errors the scheduler resets: no mint capacity, no tree *)
(* to mint on, no payload fetched.                                         *)
Log == [status : {"none", "pending", "failed", "delivered", "superseded"},
        attempts : 0 .. MaxAttempts, resets : BOOLEAN, txId : 0 .. Versions]
NoLog == [status |-> "none", attempts |-> 0, resets |-> FALSE, txId |-> 0]

Result == {"none", "delivered", "failed", "unreachable", "capacity", "threw"}
(* replaced: another promise has taken this call's place in the map.       *)
Job == [step : {"idle", "wait", "check", "mint", "read", "write", "reset", "retry"},
        force : BOOLEAN, replaced : BOOLEAN, version : 0 .. Versions, result : Result,
        snap : Log]
Idle == [step |-> "idle", force |-> FALSE, replaced |-> FALSE, version |-> 0,
         result |-> "none", snap |-> NoLog]
Threw == [Idle EXCEPT !.step = "read", !.result = "threw"]

Replacement == [step : {"idle", "upload", "read", "write", "bind"},
                of : {"path", "binding"}, version : 0 .. Versions]
NoReplacement == [step |-> "idle", of |-> "path", version |-> 0]

TypeOK ==
  /\ log \in Log
  /\ inFlight \in Callers \union {NoCaller}
  /\ job \in [Callers -> Job]
  /\ registry \in 1 .. Versions /\ binding \in 1 .. Versions /\ active \in BOOLEAN
  /\ replacing \in Replacement
  /\ warrants \in Int /\ warrants <= MaxWarrants
  /\ faults \in 0 .. MaxFaults /\ forced \in 0 .. MaxForced

Init ==
  /\ log = NoLog
  /\ inFlight = NoCaller
  /\ job = [c \in Callers |-> Idle]
  /\ registry = 1 /\ binding = 1 /\ active = TRUE
  /\ replacing = NoReplacement
  /\ warrants = 1 /\ faults = 0 /\ forced = 0

At(c, step) == job[c].step = step
Waiting == {c \in Callers : At(c, "wait")}
Working(c) == job[c].step \in {"check", "mint", "read", "write"} /\ job[c].result # "threw"

Fault == faults < MaxFaults /\ faults' = faults + 1
Warrants(n) ==
  warrants' = IF warrants + n <= MaxWarrants THEN warrants + n ELSE MaxWarrants
Warrant == Warrants(1)

-----------------------------------------------------------------------------
(* A call's promise.                                                       *)

(* Faulty variant: the in-flight map is not looked at.                     *)
Enter_Unlocked(c, force, version) ==
  /\ job' = [job EXCEPT ![c] = [Idle EXCEPT !.step = "check", !.force = force,
                                            !.version = version]]
  /\ inFlight' = IF force THEN inFlight ELSE c

(* A call that finds another one in flight waits for its result.           *)
Enter(c, force, version) ==
  LET waits == inFlight # NoCaller /\ ~force
  IN  /\ job' = [job EXCEPT ![c] = [Idle EXCEPT
                   !.step = IF waits THEN "wait" ELSE "check",
                   !.force = force, !.version = version]]
      /\ inFlight' = IF waits \/ force THEN inFlight ELSE c

(* The promise resolves: every waiting call returns its result too.  A     *)
(* forced call is not in the map and nobody waits for it.                  *)
Resolve(c) ==
  LET done == {c} \union (IF inFlight = c THEN Waiting ELSE {})
  IN  /\ job' = [k \in Callers |-> IF k \in done THEN Idle ELSE job[k]]
      /\ inFlight' = IF inFlight = c THEN NoCaller ELSE inFlight

(* It rejects: every waiting call starts a delivery of its own at once,    *)
(* without another look at the map, where the last one replaces the        *)
(* others'; and the finalizer records a failure.                           *)
Reject(c) ==
  LET next  == IF inFlight = c THEN Waiting ELSE {}
      heirs == IF inFlight # c THEN {inFlight}
               ELSE IF Waiting = {} THEN {NoCaller} ELSE Waiting
  IN  \E heir \in heirs, after \in {Idle} \union IF c = Scheduler THEN {} ELSE {Threw} :
        /\ inFlight' = heir
        /\ job' = [k \in Callers |->
             IF k = c THEN after
             ELSE IF k \in next
             THEN [job[k] EXCEPT !.step = "check", !.replaced = (k # heir)] ELSE job[k]]
        /\ Warrants(IF next = {} THEN 0 ELSE Cardinality(next) - 1)

-----------------------------------------------------------------------------
(* deliverRwaPackageForRecipient.                                          *)

(* From the finalizer, the fallback attestation or the admin: with the     *)
(* binding's manifest or, by registry, with the newest one.                *)
Deliver(c, force, version) ==
  /\ c # Scheduler /\ job[c] = Idle
  /\ version \in {registry} \union (IF active THEN {binding} ELSE {})
  /\ force => forced < MaxForced
  /\ forced' = IF force THEN forced + 1 ELSE forced
  /\ IF force THEN Warrant ELSE UNCHANGED warrants
  /\ Enter(c, force, version)
  /\ UNCHANGED <<log, faults, payloadVars>>

(* Faulty variant: what the log says is not looked at.                     *)
Check_IgnoresLog(c) ==
  /\ At(c, "check")
  /\ job' = [job EXCEPT ![c].step = "mint"]
  /\ UNCHANGED <<log, inFlight, warrants, faults, forced, payloadVars>>

(* The result to record; only a delivery that got through has a version.   *)
Answer(c, result) ==
  job' = [job EXCEPT ![c].step = "read", ![c].result = result,
                     ![c].version = IF result = "delivered" THEN job[c].version ELSE 0]

(* The log is read, and a read that throws finds none; then the payload,   *)
(* which may be missing, and the registry's database may throw.            *)
Check(c) ==
  /\ At(c, "check")
  /\ \/ log.status = "delivered" /\ ~job[c].force /\ Resolve(c)
        /\ UNCHANGED <<warrants, faults>>
     \/ /\ \/ (log.status # "delivered" \/ job[c].force) /\ UNCHANGED <<warrants, faults>>
           \/ Fault /\ Warrant
        /\ \/ job' = [job EXCEPT ![c].step = "mint"]
           \/ \E result \in {"failed", "unreachable"} : Answer(c, result)
        /\ UNCHANGED inFlight
     \/ /\ log.status # "delivered" \/ job[c].force
        /\ Reject(c) /\ Fault
  /\ UNCHANGED <<log, forced, payloadVars>>

(* The call of the mint service: minted; minted, but the answer is lost or *)
(* comes after 60 seconds; refused; or no tree to mint on, where the       *)
(* payload on Arweave counts as the delivery.                              *)
Mint(c) ==
  /\ At(c, "mint")
  /\ \E result \in {"delivered", "failed", "unreachable", "capacity"} : Answer(c, result)
  /\ \/ job'[c].result = "delivered" /\ warrants' = warrants - 1 /\ UNCHANGED faults
     \/ job'[c].result = "failed" /\ Fault /\ UNCHANGED warrants
     \/ UNCHANGED <<warrants, faults>>
  /\ UNCHANGED <<log, inFlight, forced, payloadVars>>

(* recordDelivery reads the entry again to count the attempts ...          *)
RecordRead(c) ==
  /\ At(c, "read")
  /\ job' = [job EXCEPT ![c].step = "write",
                 ![c].snap = [NoLog EXCEPT !.attempts = log.attempts, !.txId = log.txId]]
  /\ UNCHANGED <<log, inFlight, warrants, faults, forced, payloadVars>>

(* Faulty variant: the attempts are not limited.                           *)
Recorded_NoLimit(j) ==
  [status |-> IF j.result = "delivered" THEN "delivered"
              ELSE IF j.result = "capacity" THEN "failed" ELSE "pending",
   attempts |-> j.snap.attempts + 1,
   resets |-> j.result \in {"unreachable", "capacity"},
   txId |-> IF j.result = "delivered" THEN j.version ELSE j.snap.txId]

(* Attempts beyond the limit are not told apart.                           *)
Recorded(j) ==
  LET attempts == IF j.snap.attempts < MaxAttempts THEN j.snap.attempts + 1 ELSE MaxAttempts
  IN  [status |-> IF j.result = "delivered" THEN "delivered"
                  ELSE IF j.result = "capacity" \/ attempts = MaxAttempts
                  THEN "failed" ELSE "pending",
       attempts |-> attempts,
       resets |-> j.result \in {"unreachable", "capacity"},
       txId |-> IF j.result = "delivered" THEN j.version ELSE j.snap.txId]

(* ... and replaces it; a database error is swallowed.  The failure of a   *)
(* call that threw is written outside the map's protection.                *)
RecordWrite(c) ==
  /\ At(c, "write")
  /\ \/ /\ log' = Recorded(job[c]) /\ UNCHANGED faults
        /\ IF job[c].result = "threw" /\ log.status = "delivered"
           THEN Warrant ELSE UNCHANGED warrants
     \/ Fault /\ Warrant /\ UNCHANGED log
  /\ Resolve(c)
  /\ UNCHANGED <<forced, payloadVars>>

-----------------------------------------------------------------------------
(* The scheduler's tick.                                                   *)

Exhausted(entry) == entry.status = "failed" /\ entry.attempts = MaxAttempts /\ entry.resets

(* Faulty variant: only failed deliveries are retried.                     *)
Retryable_OnlyFailed(entry) ==
  entry.status = "failed" /\ entry.attempts < MaxAttempts

Retryable(entry) ==
  entry.status \in {"failed", "pending"} /\ entry.attempts < MaxAttempts

(* The tick lists the log: exhausted entries are reset first, retryable    *)
(* ones are delivered with the binding it then finds.                      *)
Tick ==
  /\ job[Scheduler] = Idle
  /\ Exhausted(log) \/ Retryable(log)
  /\ job' = [job EXCEPT ![Scheduler] =
       [Idle EXCEPT !.snap = log, !.step = IF Exhausted(log) THEN "reset" ELSE "retry"]]
  /\ UNCHANGED <<log, inFlight, warrants, faults, forced, payloadVars>>

(* The entry it listed is written back, whatever it has become meanwhile,  *)
(* and the log is listed again.                                            *)
Reset ==
  /\ At(Scheduler, "reset")
  /\ job' = [job EXCEPT ![Scheduler] = Idle]
  /\ \/ /\ log' = [job[Scheduler].snap EXCEPT !.status = "pending", !.attempts = 0]
        /\ IF log # job[Scheduler].snap THEN Warrant ELSE UNCHANGED warrants
        /\ UNCHANGED faults
     \/ Fault /\ UNCHANGED <<log, warrants>>
  /\ UNCHANGED <<inFlight, forced, payloadVars>>

Retry ==
  /\ At(Scheduler, "retry")
  /\ IF active THEN Enter(Scheduler, FALSE, binding)
     ELSE job' = [job EXCEPT ![Scheduler] = Idle] /\ UNCHANGED inFlight
  /\ UNCHANGED <<log, warrants, faults, forced, payloadVars>>

-----------------------------------------------------------------------------
(* The replacement of the payload, one at a time.                          *)

(* replace-path-payload needs an active binding; distribute first          *)
(* deactivates the one there is.                                           *)
ReplacePath ==
  /\ replacing.step = "idle" /\ active /\ binding < Versions
  /\ replacing' = [step |-> "upload", of |-> "path", version |-> binding + 1]
  /\ UNCHANGED <<jobVars, registry, binding, active>>

Distribute ==
  /\ replacing.step = "idle" /\ binding < Versions
  /\ replacing' = [step |-> IF active THEN "read" ELSE "upload", of |-> "binding",
                   version |-> binding + 1]
  /\ active' = FALSE
  /\ UNCHANGED <<jobVars, registry, binding>>

(* The manifest is uploaded and entered in the registry; a distribution    *)
(* gives up when either fails, a path's replacement when the first does.   *)
Upload ==
  /\ replacing.step = "upload"
  /\ \/ /\ registry' = replacing.version /\ UNCHANGED faults
        /\ replacing' = [replacing EXCEPT !.step = IF replacing.of = "path" THEN "read" ELSE "bind"]
     \/ Fault /\ replacing' = NoReplacement /\ UNCHANGED registry
     \/ /\ replacing.of = "path" /\ Fault /\ UNCHANGED registry
        /\ replacing' = [replacing EXCEPT !.step = "read"]
  /\ UNCHANGED <<log, inFlight, job, warrants, forced, binding, active>>

(* After its log comes a path's binding, and a binding's upload.           *)
AfterLog == IF replacing.of = "path" THEN "bind" ELSE "upload"

(* A log that cannot be read is left alone.                                *)
ReadLog ==
  /\ replacing.step = "read"
  /\ \/ /\ replacing' = [replacing EXCEPT
              !.step = IF log.status = "none" THEN AfterLog ELSE "write"]
        /\ UNCHANGED faults
     \/ replacing' = [replacing EXCEPT !.step = AfterLog] /\ Fault
  /\ UNCHANGED <<log, inFlight, job, warrants, forced, registry, binding, active>>

Supersede ==
  /\ replacing.step = "write"
  /\ log' = [NoLog EXCEPT !.status = "superseded"]
  /\ Warrant
  /\ replacing' = [replacing EXCEPT !.step = AfterLog]
  /\ UNCHANGED <<inFlight, job, faults, forced, registry, binding, active>>

Bind ==
  /\ replacing.step = "bind"
  /\ binding' = replacing.version /\ active' = TRUE
  /\ replacing' = NoReplacement
  /\ UNCHANGED <<jobVars, registry>>

-----------------------------------------------------------------------------
(* A restart loses the calls in flight, and what they had not recorded.    *)
Restart ==
  /\ Fault
  /\ job' = [c \in Callers |-> Idle]
  /\ inFlight' = NoCaller
  /\ replacing' = NoReplacement
  /\ Warrant
  /\ UNCHANGED <<log, forced, registry, binding, active>>

DeliverStep(c) == Check(c) \/ Mint(c) \/ RecordRead(c) \/ RecordWrite(c)
SchedulerStep == Tick \/ Reset \/ Retry
Replace == ReplacePath \/ Distribute \/ Upload \/ ReadLog \/ Supersede \/ Bind

Next ==
  \/ \E c \in Callers, force \in BOOLEAN, v \in 1 .. Versions : Deliver(c, force, v)
  \/ \E c \in Callers : DeliverStep(c)
  \/ SchedulerStep \/ Replace \/ Restart

Spec == Init /\ [][Next]_vars

(* The minute timer of the scheduler, and calls that return: the mint is   *)
(* aborted after 60 seconds, database calls return or throw.               *)
Fairness == WF_vars(SchedulerStep) /\ \A c \in Callers : WF_vars(DeliverStep(c))

FairSpec == Spec /\ Fairness

-----------------------------------------------------------------------------
(* Properties.                                                             *)

(* Two callers never deliver at once unless one of them is forced or was   *)
(* replaced in the map when several waited for a delivery that rejected:   *)
(* the map's promise outlives every exit of the call.                      *)
OneDelivery ==
  \A c, d \in {k \in Callers : Working(k) /\ ~job[k].force /\ ~job[k].replaced} : c = d

(* A second credential has a cause: a lost answer, a log not read or not   *)
(* written, a restart, a forced call, a new payload, a stale record over   *)
(* a newer one, or several calls that waited for one that rejected.        *)
(* Overlapping and repeated calls alone never mint twice.                  *)
MintsHaveCauses == warrants >= 0

(* A delivery that did not get through is not left pending: the scheduler  *)
(* tries again until it is delivered or its attempts are used up, as long  *)
(* as the plan has an active binding.                                      *)
PendingIsRetried == log.status = "pending" ~> log.status # "pending" \/ ~active

-----------------------------------------------------------------------------
(* What the code's comments say, and its interleavings break.              *)

(* "Reset delivery log for this recipient so the new payload can be        *)
(* delivered": once a payload is replaced, the log does not call the old   *)
(* one delivered.                                                          *)
DeliveredIsCurrent ==
  log.status = "delivered" /\ replacing.step = "idle" /\ binding = registry =>
    log.txId = binding
=============================================================================
