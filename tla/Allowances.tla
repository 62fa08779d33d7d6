----------------------------- MODULE Allowances -----------------------------
(***************************************************************************)
(* One parent, one member and one recurring allowance between them: the    *)
(* scheduler pays it when it is due, while requests pay, transfer, deposit *)
(* and redeem by hand, or cancel it.  All of them read a position and      *)
(* write it back an await later.  Every amount is one unit.  Any await may *)
(* throw instead.                                                          *)
(***************************************************************************)
EXTENDS DbFile, Sequences

CONSTANTS
  Ticks, Requests,         \* runs of the scheduler, and handlers in flight
  Funds, Limit,            \* the parent's deposit; what the member may get
  Horizon, MaxRequests     \* bounds

ASSUME AllowancesAssumption ==
  /\ IsFiniteSet(Ticks) /\ IsFiniteSet(Requests)
  /\ Funds \in Nat /\ Limit \in Nat \ {0} /\ Horizon \in Nat

VARIABLES job, now, issued, restarts,
  overlaps,    \* how often two were at work on what both read and write
  stranded,    \* how often an error kept what was debited from being credited
  unadvanced   \* how often it kept an execution from advancing the allowance

errorVars == <<stranded, unadvanced>>
moverVars == <<job, now, issued, restarts, overlaps, errorVars>>
vars == <<dbVars, moverVars>>

Movers == Ticks \union Requests
Idle == [op |-> "none", pc |-> 1]

(* The awaits of each handler, in order. *)
Route ==
  [tick     |-> <<"limit", "from", "debit", "to", "credit", "record", "advance">>,
   one_time |-> <<"limit", "from", "debit", "to", "credit", "record">>,
   transfer |-> <<"from", "limit", "debit", "to", "credit", "record">>,
   redeem   |-> <<"from", "debit", "record">>,
   deposit  |-> <<"from", "debit">>,
   cancel   |-> <<"find", "cancel">>,
   none     |-> <<"idle">>]
Operations == {"one_time", "transfer", "redeem", "deposit", "cancel"}

(* The rows: the allowance, the positions, and what the records add up to.   *)
(* "held" is what both positions should hold, "paid" and "missed" count the  *)
(* allowance's executions, completed and pending.                            *)
Blank ==
  LET never == [t \in 0 .. Horizon |-> 0]
  IN  [next |-> 0, active |-> TRUE, parent |-> Funds, member |-> 0, held |-> Funds,
       received |-> never, redeemed |-> never, paid |-> 0, missed |-> 0]

Init ==
  /\ DbInit(Blank)
  /\ job = [m \in Movers |-> Idle]
  /\ now = 0 /\ issued = 0 /\ restarts = 0 /\ overlaps = 0
  /\ stranded = 0 /\ unadvanced = 0

-----------------------------------------------------------------------------
Working == {m \in Movers : job[m] # Idle}
At(m, step) == Route[job[m].op][job[m].pc] = step
Does(m, ops) == job[m].op \in ops
End(m) == job' = [job EXCEPT ![m] = Idle]
GoOn(m, seen) ==
  IF job[m].pc = Len(Route[job[m].op]) THEN End(m)
  ELSE job' = [job EXCEPT ![m].pc = @ + 1, ![m].seen = seen]
Same == UNCHANGED <<now, issued, restarts, errorVars>>
JobOnly == Same /\ UNCHANGED overlaps
Reads == UNCHANGED dbVars
Write(m, changed) == Change(changed) /\ GoOn(m, 0) /\ JobOnly

(* Is between its first read of positions or records and its last write. *)
Busy(m) == job[m].pc > 1 /\ Route[job[m].op][job[m].pc] \notin {"advance", "cancel"}
Starts(m) ==
  overlaps' = IF job[m].pc = 1
              THEN overlaps + Cardinality({o \in Movers \ {m} : Busy(o)})
              ELSE overlaps
InTransit(m) == At(m, "to") \/ At(m, "credit")

(* A redemption is recorded from and to the member, and counted as both. *)
Used == rows.received[now] + 2 * rows.redeemed[now]

-----------------------------------------------------------------------------
Processing == \E m \in Ticks : job[m] # Idle
Due == rows.active /\ rows.next <= now

Tick_Unguarded(m) ==
  /\ job[m] = Idle /\ Due
  /\ job' = [job EXCEPT ![m] = [op |-> "tick", pc |-> 1, seen |-> 0, next |-> rows.next, ok |-> TRUE]]
  /\ Reads /\ JobOnly
Tick(m) ==
  /\ job[m] = Idle /\ ~Processing /\ Due
  /\ job' = [job EXCEPT ![m] = [op |-> "tick", pc |-> 1, seen |-> 0, next |-> rows.next, ok |-> TRUE]]
  /\ Reads /\ JobOnly

Request(m, op) ==
  /\ job[m] = Idle /\ issued < MaxRequests /\ issued' = issued + 1
  /\ job' = [job EXCEPT ![m] = [op |-> op, pc |-> 1, seen |-> 0, next |-> 0, ok |-> TRUE]]
  /\ Reads /\ UNCHANGED <<now, restarts, overlaps, errorVars>>

(* The member may be suspended, or the limit in the way: the execution is    *)
(* skipped without advancing it, and the request refused.                    *)
CheckLimit_OffByOne(m) ==
  /\ At(m, "limit")
  /\ \/ End(m) /\ UNCHANGED overlaps
     \/ Used <= Limit /\ GoOn(m, job[m].seen) /\ Starts(m)
  /\ Reads /\ Same
CheckLimit(m) ==
  /\ At(m, "limit")
  /\ \/ End(m) /\ UNCHANGED overlaps
     \/ Used + 1 <= Limit /\ GoOn(m, job[m].seen) /\ Starts(m)
  /\ Reads /\ Same

(* With too little, scheduler and allowance leave a pending record. *)
Pending(m) == job' = [job EXCEPT ![m].pc = 6, ![m].ok = FALSE]
ReadFrom(m) ==
  LET balance == IF Does(m, {"redeem"}) THEN rows.member ELSE rows.parent
  IN  /\ At(m, "from")
      /\ IF balance >= 1 \/ Does(m, {"deposit"})
         THEN GoOn(m, balance) /\ Starts(m)
         ELSE /\ IF Does(m, {"tick", "one_time"})
                 THEN Pending(m)
                 ELSE End(m)
              /\ UNCHANGED overlaps
      /\ Reads /\ Same

(* The position read is written back, less the amount (or more: a deposit). *)
Debit(m) ==
  LET left == job[m].seen - 1
  IN  /\ At(m, "debit")
      /\ Write(m, CASE Does(m, {"redeem"}) -> [rows EXCEPT !.member = left, !.held = @ - 1]
                    [] Does(m, {"deposit"}) -> [rows EXCEPT !.parent = job[m].seen + 1, !.held = @ + 1]
                    [] OTHER -> [rows EXCEPT !.parent = left])

ReadTo_SameWallet(m) == At(m, "to") /\ GoOn(m, rows.parent) /\ Reads /\ JobOnly
ReadTo(m) == At(m, "to") /\ GoOn(m, rows.member) /\ Reads /\ JobOnly

Credit(m) ==
  /\ At(m, "credit")
  /\ Write(m, [rows EXCEPT !.member = job[m].seen + 1,
                           !.paid = @ + (IF Does(m, {"tick"}) THEN 1 ELSE 0)])

Record(m) ==
  /\ At(m, "record")
  /\ Write(m, CASE Does(m, {"redeem"}) -> [rows EXCEPT !.redeemed[now] = @ + 1]
                [] ~Does(m, {"redeem"}) /\ job[m].ok -> [rows EXCEPT !.received[now] = @ + 1]
                [] Does(m, {"tick"}) /\ ~job[m].ok -> [rows EXCEPT !.missed = @ + 1]
                [] OTHER -> rows)

(* The whole allowance as it was listed, with the next execution advanced. *)
Advance(m) ==
  /\ At(m, "advance")
  /\ Write(m, [rows EXCEPT !.next = job[m].next + 1, !.active = TRUE])

FindAllowance(m) ==
  /\ At(m, "find")
  /\ IF rows.active
     THEN job' = [job EXCEPT ![m].pc = 2, ![m].next = rows.next]
     ELSE End(m)
  /\ Reads /\ JobOnly

Cancel(m) ==
  /\ At(m, "cancel")
  /\ Write(m, [rows EXCEPT !.next = job[m].next, !.active = FALSE])

(* Where the scheduler has executed the allowance and not yet advanced it. *)
Executed(m) ==
  At(m, "advance") \/ (At(m, "record") /\ Does(m, {"tick"}) /\ job[m].ok)

(* An error loses the unit between the positions, or the execution. *)
Error(m) ==
  /\ stranded' = stranded + (IF InTransit(m) THEN 1 ELSE 0)
  /\ unadvanced' = unadvanced + (IF Executed(m) THEN 1 ELSE 0)
  /\ faults < MaxFaults /\ faults' = faults + 1
  /\ UNCHANGED <<rows, dirty, disk, fresh, saver, late, rollbacks, now, issued, restarts, overlaps>>

(* The scheduler and the one-time allowance catch an error from the first    *)
(* look at a position to the last write of one, and leave the same pending   *)
(* record as with too little.  What was debited by then stays debited.       *)
InsideTry(m) ==
  Does(m, {"tick", "one_time"}) /\ (At(m, "from") \/ At(m, "debit") \/ InTransit(m))
TransferFails(m) ==
  /\ InsideTry(m) /\ Pending(m) /\ Error(m)

(* Any other error ends the request, or the allowance's turn: the next tick  *)
(* finds it due as it was, though it may have been executed.                 *)
Throw(m) ==
  /\ ~InsideTry(m)
  /\ End(m) /\ Error(m)

Step(m) ==
  \/ CheckLimit(m) \/ ReadFrom(m) \/ Debit(m) \/ ReadTo(m) \/ Credit(m)
  \/ Record(m) \/ Advance(m) \/ FindAllowance(m) \/ Cancel(m)
  \/ TransferFails(m) \/ Throw(m)

(* A period of the limit ends, and one of the allowance.  Either is a day or *)
(* more: what takes seconds is over by then.                                 *)
Elapse ==
  /\ now < Horizon /\ \A m \in Movers : job[m] = Idle
  /\ now' = now + 1
  /\ UNCHANGED <<dbVars, job, issued, restarts, overlaps, errorVars>>

Restart ==
  /\ restarts' = restarts + 1
  /\ Reopen
  /\ job' = [m \in Movers |-> Idle]
  /\ UNCHANGED <<now, issued, overlaps, errorVars>>

Next ==
  \/ \E m \in Ticks : Tick(m)
  \/ \E m \in Requests, op \in Operations : Request(m, op)
  \/ \E m \in Working : Step(m)
  \/ Elapse \/ Restart
  \/ (OtherChange \/ SyncFromDisk \/ ExternalWrite \/ \E s \in Savers : SaveStep(s)) /\ UNCHANGED moverVars

Spec == Init /\ [][Next]_vars

-----------------------------------------------------------------------------
(* In no period do the records put the member past the limit, unless         *)
(* payments overlapped, and then by at most one for each two that did        *)
(* (checkLimit reads records that are written several awaits later).         *)
LimitNearlyHolds ==
  \A t \in 0 .. Horizon : rows.received[t] <= Limit + overlaps

(* How often work was undone or cut off: the file was read back over other   *)
(* rows, the process restarted, or an error kept what was executed from      *)
(* being advanced.                                                           *)
Setbacks == rollbacks + restarts + unadvanced

(* The allowance is executed once for each period it was advanced over:      *)
(* twice only as often as there were setbacks, or while an execution is      *)
(* under way, and not at all only if the file was read back                  *)
(* (processDueAllowances).                                                   *)
PaidOncePerPeriod ==
  rows.active =>
    LET settled == rows.paid + rows.missed
        underWay == {m \in Ticks : Executed(m)}
    IN  /\ settled <= rows.next + Setbacks + Cardinality(underWay)
        /\ rollbacks = 0 => rows.next <= settled

(* The two positions, and what is on its way between them, hold what was     *)
(* deposited, give or take one unit for each two movers that overlapped and  *)
(* one for each restart, less one for each error that kept a debited unit    *)
(* from being credited, as long as no other rows were read back (transfer,   *)
(* processDueAllowances).  A mover that has read a position before the file  *)
(* is reloaded writes it over the reloaded one: that may be off by any       *)
(* amount.                                                                   *)
PositionsAddUp ==
  LET total == rows.parent + rows.member + Cardinality({m \in Movers : InTransit(m)})
      stray == overlaps + restarts
  IN  rollbacks = 0 => total <= rows.held + stray /\ rows.held <= total + stray + stranded
=============================================================================
