-------------------------- MODULE Allowances_proofs --------------------------
(***************************************************************************)
(* The allowances and the database file under them.  Of the file: no       *)
(* sequence of changes, saves, failures, foreign writes and restarts       *)
(* leaves something unsaved without a mark, except the window the property *)
(* names.  Of the movers: however many are at work, the limit, the         *)
(* payments of each period and the sum of the positions are kept, but for  *)
(* counted overlaps, setbacks and errors.                                  *)
(***************************************************************************)
EXTENDS Allowances, Integers, FiniteSetTheorems, TLAPS

(* The file is written by one save at a time. *)
OneWriter ==
  \A s, r \in Savers : Saving(s, "write") /\ Saving(r, "write") => s = r

(* While it is, the mark is kept, and what is written is what is in memory,  *)
(* unless that was changed since the export.                                 *)
WriterIsCurrent ==
  \A s \in Savers : Saving(s, "write") => dirty /\ (late \/ saver[s].image = rows)

FileInv ==
  /\ saver = [s \in Savers |-> saver[s]]
  /\ OneWriter
  /\ WriterIsCurrent
  /\ UnsavedIsMarked

USE DEF Saving, SaverTo

-----------------------------------------------------------------------------
(* The operations of the file, each of which keeps the invariant. *)

LEMMA InitFileInv == Init => FileInv
  BY DEF Init, DbInit, Asleep, FileInv, OneWriter, WriterIsCurrent, UnsavedIsMarked

(* A change marks, and is noted as late if a save has its export. *)
LEMMA ChangeKeepsInv ==
  ASSUME FileInv, NEW changed, Change(changed)
  PROVE  FileInv'
<1>1. /\ rows' = changed /\ dirty' = TRUE /\ saver' = saver
      /\ late' = (late \/ \E s \in Savers : Saving(s, "write"))
  BY DEF Change, fileVars
<1>2. (\E s \in Savers : Saving(s, "write")) => late'
  BY <1>1
<1>3. WriterIsCurrent'
  BY <1>1, <1>2 DEF WriterIsCurrent
<1>4. OneWriter'
  BY <1>1 DEF FileInv, OneWriter
<1>. QED BY <1>1, <1>3, <1>4 DEF FileInv, UnsavedIsMarked

(* An export starts from no save in flight: what it finds in memory is what  *)
(* it writes, and what it reads back is what the file has.                   *)
LEMMA ExportKeepsInv ==
  ASSUME FileInv, NEW s \in Savers, ~SaveInFlight, Export(s)
  PROVE  FileInv'
<1>1. \A r \in Savers : ~Saving(r, "write")
  BY DEF SaveInFlight
<1>2. disk' = disk
  BY DEF Export
<1>3. CASE /\ dirty
           /\ saver' = [saver EXCEPT ![s] = [at |-> "write", image |-> rows]]
           /\ rows' = rows /\ dirty' = dirty
  <2>1. saver'[s] = [at |-> "write", image |-> rows]
    BY <1>3 DEF FileInv
  <2>2. \A r \in Savers \ {s} : saver'[r] = saver[r]
    BY <1>3 DEF FileInv
  <2>3. saver' = [r \in Savers |-> saver'[r]]
    BY <1>3 DEF FileInv
  <2>4. \A r \in Savers : Saving(r, "write")' => r = s
    BY <1>1, <2>2
  <2>. QED BY <1>3, <2>1, <2>3, <2>4 DEF FileInv, OneWriter, WriterIsCurrent, UnsavedIsMarked
<1>4. CASE SaverTo(s, "stat") /\ rows' = disk
  <2>1. \A r \in Savers : ~Saving(r, "write")'
    BY <1>1, <1>4 DEF FileInv
  <2>2. saver' = [r \in Savers |-> saver'[r]]
    BY <1>4 DEF FileInv
  <2>. QED BY <1>2, <1>4, <2>1, <2>2 DEF FileInv, OneWriter, WriterIsCurrent, UnsavedIsMarked
<1>5. CASE SaverTo(s, "stat") /\ UNCHANGED <<rows, dirty, late>>
  <2>1. \A r \in Savers : ~Saving(r, "write")'
    BY <1>1, <1>5 DEF FileInv
  <2>2. saver' = [r \in Savers |-> saver'[r]]
    BY <1>5 DEF FileInv
  <2>. QED BY <1>2, <1>5, <2>1, <2>2 DEF FileInv, OneWriter, WriterIsCurrent, UnsavedIsMarked
<1>. QED BY <1>3, <1>4, <1>5 DEF Export, Reload

(* The step of a save that is not an export: it leaves this save or others   *)
(* where they are, and starts no writing.                                    *)
LEMMA SaverMoves ==
  ASSUME FileInv, NEW s \in Savers, NEW step, step # "write", SaverTo(s, step)
  PROVE  /\ saver' = [r \in Savers |-> saver'[r]]
         /\ ~Saving(s, "write")'
         /\ \A r \in Savers \ {s} : saver'[r] = saver[r]
         /\ OneWriter'
<1>1. saver' = [saver EXCEPT ![s] = [at |-> step]]
  OBVIOUS
<1>2. saver'[s] = [at |-> step] /\ \A r \in Savers \ {s} : saver'[r] = saver[r]
  BY <1>1 DEF FileInv
<1>3. saver' = [r \in Savers |-> saver'[r]]
  BY <1>1 DEF FileInv
<1>. QED BY <1>2, <1>3 DEF FileInv, OneWriter

LEMMA SaveKeepsInv ==
  ASSUME FileInv, NEW s \in Savers, SaveStep(s)
  PROVE  FileInv'
<1>1. CASE SaveTick(s)
  <2>1. CASE SaveInFlight
    <3>1. SaverTo(s, "wait") /\ UNCHANGED <<rows, dirty, late, disk>> /\ Saving(s, "idle")
      BY <1>1, <2>1 DEF SaveTick
    <3>2. /\ saver' = [r \in Savers |-> saver'[r]]
          /\ ~Saving(s, "write")'
          /\ \A r \in Savers \ {s} : saver'[r] = saver[r]
          /\ OneWriter'
      BY <3>1, SaverMoves
    <3>. QED BY <3>1, <3>2 DEF FileInv, WriterIsCurrent, UnsavedIsMarked
  <2>2. CASE ~SaveInFlight
    BY <1>1, <2>2, ExportKeepsInv DEF SaveTick
  <2>. QED BY <2>1, <2>2
<1>2. CASE SaveResumes(s)
  BY <1>2, ExportKeepsInv DEF SaveResumes
<1>3. CASE WriteAndRename(s)
  <2>1. /\ SaverTo(s, "stat") /\ Saving(s, "write")
        /\ disk' = saver[s].image /\ UNCHANGED <<rows, late>>
    BY <1>3 DEF WriteAndRename
  <2>2. /\ saver' = [r \in Savers |-> saver'[r]]
        /\ ~Saving(s, "write")'
        /\ \A r \in Savers \ {s} : saver'[r] = saver[r]
        /\ OneWriter'
    BY <2>1, SaverMoves
  <2>3. \A r \in Savers : ~Saving(r, "write")'
    BY <2>1, <2>2 DEF FileInv, OneWriter
  <2>4. late \/ saver[s].image = rows
    BY <2>1 DEF FileInv, WriterIsCurrent
  <2>. QED BY <2>1, <2>2, <2>3, <2>4 DEF FileInv, WriterIsCurrent, UnsavedIsMarked
<1>4. CASE SaveFails(s) \/ Stat(s)
  <2>1. SaverTo(s, "done") /\ UNCHANGED <<rows, dirty, late, disk>>
    BY <1>4 DEF SaveFails, Stat
  <2>2. /\ saver' = [r \in Savers |-> saver'[r]]
        /\ ~Saving(s, "write")'
        /\ \A r \in Savers \ {s} : saver'[r] = saver[r]
        /\ OneWriter'
    BY <2>1, SaverMoves
  <2>. QED BY <2>1, <2>2 DEF FileInv, WriterIsCurrent, UnsavedIsMarked
<1>. QED BY <1>1, <1>2, <1>3, <1>4 DEF SaveStep

(* Nothing is reloaded while a save writes, since the mark is kept for it. *)
LEMMA SyncKeepsInv ==
  ASSUME FileInv, SyncFromDisk
  PROVE  FileInv'
<1>1. /\ ~dirty /\ rows' = disk /\ disk' = disk /\ saver' = saver
  BY DEF SyncFromDisk, Reload
<1>2. \A s \in Savers : ~Saving(s, "write")
  BY <1>1 DEF FileInv, WriterIsCurrent
<1>. QED BY <1>1, <1>2 DEF FileInv, OneWriter, WriterIsCurrent, UnsavedIsMarked

LEMMA ReopenKeepsInv ==
  ASSUME FileInv, Reopen
  PROVE  FileInv'
  BY DEF Reopen, Reload, Asleep, FileInv, OneWriter, WriterIsCurrent, UnsavedIsMarked

LEMMA SameFileKeepsInv ==
  ASSUME FileInv, UNCHANGED <<rows, dirty, late, disk, saver>>
  PROVE  FileInv'
  BY DEF FileInv, OneWriter, WriterIsCurrent, UnsavedIsMarked

-----------------------------------------------------------------------------
(* A mover does what it does, or an error stops it. *)
Works(m) ==
  \/ CheckLimit(m) \/ ReadFrom(m) \/ Debit(m) \/ ReadTo(m) \/ Credit(m)
  \/ Record(m) \/ Advance(m) \/ FindAllowance(m) \/ Cancel(m)
Errs(m) == job[m] # Idle /\ (TransferFails(m) \/ Throw(m))

LEMMA StepIs ==
  ASSUME NEW m \in Working, Step(m)
  PROVE  m \in Movers /\ (Works(m) \/ Errs(m))
BY DEF Working, Step, Works, Errs

(* Neither the errors nor the restarts are more than they were. *)
Undisturbed == UNCHANGED <<restarts, stranded, unadvanced>>

(* What the movers do to the file is a change, or nothing. *)
LEMMA StepKeepsInv ==
  ASSUME FileInv, NEW m \in Movers, Works(m)
  PROVE  FileInv'
<1>1. CASE CheckLimit(m) \/ ReadFrom(m) \/ ReadTo(m) \/ FindAllowance(m)
  BY <1>1, SameFileKeepsInv DEF CheckLimit, ReadFrom, ReadTo, FindAllowance, Reads, dbVars, fileVars
<1>2. CASE Debit(m) \/ Credit(m) \/ Record(m) \/ Advance(m) \/ Cancel(m)
  <2>1. PICK changed : Write(m, changed)
    BY <1>2 DEF Debit, Credit, Record, Advance, Cancel
  <2>. QED BY <2>1, ChangeKeepsInv DEF Write
<1>. QED BY <1>1, <1>2 DEF Works

LEMMA ErrorKeepsInv ==
  ASSUME FileInv, NEW m \in Movers, Errs(m)
  PROVE  FileInv'
BY SameFileKeepsInv DEF Errs, TransferFails, Throw, Error

LEMMA NextKeepsInv == FileInv /\ [Next]_vars => FileInv'
<1> SUFFICES ASSUME FileInv, [Next]_vars PROVE FileInv'
  OBVIOUS
<1>1. ASSUME NEW m \in Ticks, Tick(m) PROVE FileInv'
  BY <1>1, SameFileKeepsInv DEF Tick, Reads, dbVars, fileVars
<1>2. ASSUME NEW m \in Requests, NEW op \in Operations, Request(m, op) PROVE FileInv'
  BY <1>2, SameFileKeepsInv DEF Request, Reads, dbVars, fileVars
<1>3. ASSUME NEW m \in Working, Step(m) PROVE FileInv'
  BY <1>3, StepIs, StepKeepsInv, ErrorKeepsInv
<1>4. CASE Elapse
  BY <1>4, SameFileKeepsInv DEF Elapse, dbVars, fileVars
<1>5. CASE Restart
  BY <1>5, ReopenKeepsInv DEF Restart
<1>6. CASE OtherChange
  BY <1>6, ChangeKeepsInv DEF OtherChange
<1>7. CASE SyncFromDisk
  BY <1>7, SyncKeepsInv
<1>8. CASE ExternalWrite
  BY <1>8, SameFileKeepsInv DEF ExternalWrite
<1>9. ASSUME NEW s \in Savers, SaveStep(s) PROVE FileInv'
  BY <1>9, SaveKeepsInv
<1>10. CASE UNCHANGED vars
  BY <1>10, SameFileKeepsInv DEF vars, dbVars, fileVars
<1>. QED BY <1>1, <1>2, <1>3, <1>4, <1>5, <1>6, <1>7, <1>8, <1>9, <1>10 DEF Next

-----------------------------------------------------------------------------
(* What is in memory and not on disk is marked for the next save, unless it  *)
(* was changed between an export and its rename (_saveToDisk).               *)
THEOREM UnsavedAlwaysMarked == Spec => []UnsavedIsMarked
<1>1. FileInv => UnsavedIsMarked
  BY DEF FileInv
<1>. QED BY <1>1, InitFileInv, NextKeepsInv, PTL DEF Spec

-----------------------------------------------------------------------------
(* The movers over that file.  Whatever is read back is an older copy of the *)
(* rows, and what the properties count only grows between two such readings. *)

Tally == [0 .. Horizon -> Nat]
Rows ==
  [next : Nat, active : BOOLEAN, parent : Int, member : Int, held : Int,
   received : Tally, redeemed : Tally, paid : Nat, missed : Nat]

Running ==
  [op : Operations \union {"tick"}, pc : 1 .. 7, seen : Int, next : Nat, ok : BOOLEAN]

Paying(m) == job[m].op = "tick"

(* One run of the scheduler at a time; only at its record does a payment     *)
(* come to nothing.                                                          *)
MoversInv ==
  /\ job \in [Movers -> {Idle} \union Running]
  /\ \A m \in Movers :
       /\ job[m].pc <= Len(Route[job[m].op])
       /\ Paying(m) => m \in Ticks /\ (~job[m].ok => job[m].pc >= 6)
  /\ \A m, k \in Movers : Paying(m) /\ Paying(k) => m = k
  /\ now \in 0 .. Horizon
  /\ overlaps \in Nat /\ restarts \in Nat /\ rollbacks \in Nat
  /\ stranded \in Nat /\ unadvanced \in Nat

Settled(r) == r.paid + r.missed

(* What may be read back: the file, and what is being written to it. *)
Copies == {disk} \union {saver[s].image : s \in {w \in Savers : Saving(w, "write")}}

Copied(r) ==
  /\ r \in Rows
  /\ \A t \in 0 .. Horizon : r.received[t] <= rows.received[t]
  /\ Settled(r) <= Settled(rows)
  /\ r.active => Settled(r) <= r.next + Setbacks + 1
CopiesInv == rows \in Rows /\ \A r \in Copies : Copied(r)

(* Those past the limit's check that will yet be recorded, and all at work. *)
Recorder(m) ==
  \/ job[m].op \in {"tick", "one_time"} /\ job[m].pc \in 2 .. 6
  \/ job[m].op = "transfer" /\ job[m].pc \in 3 .. 6
Recorders == {m \in Movers : Recorder(m)}
Busies == {m \in Movers : Busy(m)}

LimitInv ==
  /\ Cardinality(Busies) <= overlaps + 1
  /\ LimitNearlyHolds
  /\ rows.received[now] + Cardinality(Recorders) <= Limit + overlaps

(* A run that has counted its payment, and not advanced the allowance. *)
Counted(m) == Paying(m) /\ (job[m].pc = 7 \/ (job[m].pc = 6 /\ job[m].ok))
Counting == IF \E m \in Movers : Counted(m) THEN 1 ELSE 0

PayInv ==
  /\ rows.active =>
       /\ Settled(rows) <= rows.next + Setbacks + Counting
       /\ rollbacks = 0 => rows.next <= Settled(rows)
  /\ \A m \in Movers : Paying(m) =>
       /\ Settled(rows) <= job[m].next + Setbacks + Counting
       /\ rollbacks = 0 => job[m].next + Counting <= Settled(rows)

-----------------------------------------------------------------------------
(* The places of the handlers. *)

LEMMA RouteIs ==
  /\ Len(Route["tick"]) = 7 /\ Len(Route["one_time"]) = 6 /\ Len(Route["transfer"]) = 6
  /\ Len(Route["redeem"]) = 3 /\ Len(Route["deposit"]) = 2 /\ Len(Route["cancel"]) = 2
  /\ Len(Route["none"]) = 1
  /\ Route["tick"] = <<"limit", "from", "debit", "to", "credit", "record", "advance">>
  /\ Route["one_time"] = <<"limit", "from", "debit", "to", "credit", "record">>
  /\ Route["transfer"] = <<"from", "limit", "debit", "to", "credit", "record">>
  /\ Route["redeem"] = <<"from", "debit", "record">>
  /\ Route["deposit"] = <<"from", "debit">>
  /\ Route["cancel"] = <<"find", "cancel">>
  /\ Route["none"] = <<"idle">>
BY DEF Route

LEMMA RouteLengths ==
  /\ Len(Route["tick"]) = 7 /\ Len(Route["one_time"]) = 6 /\ Len(Route["transfer"]) = 6
  /\ Len(Route["redeem"]) = 3 /\ Len(Route["deposit"]) = 2 /\ Len(Route["cancel"]) = 2
  /\ \A op \in Operations \union {"tick"} : Len(Route[op]) \in 1 .. 7
<1>1. /\ Len(Route["tick"]) = 7 /\ Len(Route["one_time"]) = 6 /\ Len(Route["transfer"]) = 6
      /\ Len(Route["redeem"]) = 3 /\ Len(Route["deposit"]) = 2 /\ Len(Route["cancel"]) = 2
  BY RouteIs
<1>. QED BY <1>1 DEF Operations

LEMMA BelowIsNext ==
  \A n, k \in 1 .. 7 : n <= k /\ n # k => n + 1 \in 1 .. 7 /\ n + 1 <= k
OBVIOUS

Place(m, op, pc) == job[m].op = op /\ job[m].pc = pc

(* Who is at which await, where it matters. *)
LEMMA Places ==
  ASSUME MoversInv, NEW m \in Movers
  PROVE  /\ job[m] = Idle <=> job[m].op = "none"
         /\ job[m] # Idle => job[m] \in Running
         /\ At(m, "limit") <=> Place(m, "tick", 1) \/ Place(m, "one_time", 1) \/ Place(m, "transfer", 2)
         /\ At(m, "from") <=> \/ Place(m, "tick", 2) \/ Place(m, "one_time", 2) \/ Place(m, "transfer", 1)
                              \/ Place(m, "redeem", 1) \/ Place(m, "deposit", 1)
         /\ At(m, "debit") <=> \/ Place(m, "tick", 3) \/ Place(m, "one_time", 3) \/ Place(m, "transfer", 3)
                               \/ Place(m, "redeem", 2) \/ Place(m, "deposit", 2)
         /\ At(m, "to") <=> Place(m, "tick", 4) \/ Place(m, "one_time", 4) \/ Place(m, "transfer", 4)
         /\ At(m, "credit") <=> Place(m, "tick", 5) \/ Place(m, "one_time", 5) \/ Place(m, "transfer", 5)
         /\ At(m, "record") <=> \/ Place(m, "tick", 6) \/ Place(m, "one_time", 6) \/ Place(m, "transfer", 6)
                                \/ Place(m, "redeem", 3)
         /\ At(m, "advance") <=> Place(m, "tick", 7)
         /\ At(m, "find") <=> Place(m, "cancel", 1)
         /\ At(m, "cancel") <=> Place(m, "cancel", 2)
         /\ Busy(m) <=> \/ job[m].op \in {"one_time", "transfer", "redeem", "deposit"} /\ job[m].pc > 1
                        \/ job[m].op = "tick" /\ job[m].pc \in 2 .. 6
<1>1. job[m] \in {Idle} \union Running /\ job[m].pc <= Len(Route[job[m].op])
  BY DEF MoversInv
<1>2. job[m] = Idle <=> job[m].op = "none"
  BY <1>1 DEF Idle, Running, Operations
<1>3. job[m] # Idle => job[m] \in Running
  BY <1>1
<1>4. CASE job[m].op = "none"
  BY <1>2, <1>4, RouteIs DEF Idle, At, Place, Busy
<1>5. ASSUME job[m].op # "none"
      PROVE  job[m].pc \in 1 .. 7 /\ job[m].op \in Operations \union {"tick"}
  BY <1>2, <1>3, <1>5 DEF Running
<1>6. CASE job[m].op = "tick"
  BY <1>1, <1>2, <1>3, <1>5, <1>6, RouteIs DEF At, Place, Busy
<1>7. CASE job[m].op = "one_time"
  BY <1>1, <1>2, <1>3, <1>5, <1>7, RouteIs DEF At, Place, Busy
<1>8. CASE job[m].op = "transfer"
  BY <1>1, <1>2, <1>3, <1>5, <1>8, RouteIs DEF At, Place, Busy
<1>9. CASE job[m].op = "redeem"
  BY <1>1, <1>2, <1>3, <1>5, <1>9, RouteIs DEF At, Place, Busy
<1>10. CASE job[m].op = "deposit"
  BY <1>1, <1>2, <1>3, <1>5, <1>10, RouteIs DEF At, Place, Busy
<1>11. CASE job[m].op = "cancel"
  BY <1>1, <1>2, <1>3, <1>5, <1>11, RouteIs DEF At, Place, Busy
<1>. QED BY <1>4, <1>5, <1>6, <1>7, <1>8, <1>9, <1>10, <1>11 DEF Operations

-----------------------------------------------------------------------------
(* How a step moves its mover. *)

Stays(m) ==
  /\ job' \in [Movers -> {Idle} \union Running]
  /\ \A o \in Movers \ {m} : job'[o] = job[o]
Ends(m) == Stays(m) /\ job'[m] = Idle
Keeps(m) ==
  /\ Stays(m) /\ job[m] \in Running /\ job'[m] \in Running
  /\ job'[m].op = job[m].op /\ job'[m].pc <= Len(Route[job[m].op])
Advances(m) ==
  /\ Keeps(m) /\ job'[m].pc = job[m].pc + 1
  /\ job'[m].next = job[m].next /\ job'[m].ok = job[m].ok
Fails(m) ==
  /\ Keeps(m) /\ job[m].op \in {"tick", "one_time"}
  /\ job'[m].pc = 6 /\ job'[m].ok = FALSE /\ job'[m].next = job[m].next

LEMMA EndEnds ==
  ASSUME MoversInv, NEW m \in Movers, End(m)
  PROVE  Ends(m)
BY DEF MoversInv, End, Ends, Stays

LEMMA Replaced ==
  ASSUME MoversInv, NEW m \in Movers, NEW x \in Running, job' = [job EXCEPT ![m] = x]
  PROVE  Stays(m) /\ job'[m] = x
BY DEF MoversInv, Stays

LEMMA GoOnMoves ==
  ASSUME MoversInv, NEW m \in Movers, job[m] \in Running, NEW seen \in Int, GoOn(m, seen)
  PROVE  IF job[m].pc = Len(Route[job[m].op]) THEN Ends(m) ELSE Advances(m)
<1>1. CASE job[m].pc = Len(Route[job[m].op])
  BY <1>1, EndEnds DEF GoOn
<1>2. CASE job[m].pc # Len(Route[job[m].op])
  <2>. DEFINE x == [job[m] EXCEPT !.pc = @ + 1, !.seen = seen]
  <2>1. job' = [job EXCEPT ![m] = x]
    BY <1>2 DEF GoOn, MoversInv
  <2>2. job[m].pc \in 1 .. 7 /\ job[m].op \in Operations \union {"tick"}
    BY DEF Running
  <2>3. Len(Route[job[m].op]) \in 1 .. 7 /\ job[m].pc <= Len(Route[job[m].op])
    BY <2>2, RouteLengths DEF MoversInv
  <2>4. job[m].pc + 1 \in 1 .. 7 /\ job[m].pc + 1 <= Len(Route[job[m].op])
    BY <1>2, <2>2, <2>3, BelowIsNext
  <2>5. /\ x \in Running /\ x.op = job[m].op /\ x.pc = job[m].pc + 1
        /\ x.next = job[m].next /\ x.ok = job[m].ok
    BY <2>4 DEF Running
  <2>. HIDE DEF x
  <2>6. Stays(m) /\ job'[m] = x
    BY <2>1, <2>5, Replaced
  <2>. QED BY <1>2, <2>4, <2>5, <2>6 DEF Advances, Keeps
<1>. QED BY <1>1, <1>2

(* What every step of a handler does with its place. *)
LEMMA StepGoes ==
  ASSUME MoversInv, rows \in Rows, NEW m \in Movers, Works(m)
  PROVE  /\ job[m] \in Running
         /\ \/ Ends(m)
            \/ Advances(m)
            \/ Fails(m) /\ ReadFrom(m)
            \/ Keeps(m) /\ job'[m].pc = 2 /\ FindAllowance(m)
<1>1. job[m] \in Running
  BY Places DEF Works, CheckLimit, ReadFrom, Debit, ReadTo, Credit, Record, Advance, FindAllowance,
     Cancel, Idle, Place
<1>2. job[m].seen \in Int /\ job[m].pc \in 1 .. 7 /\ rows.parent \in Int /\ rows.member \in Int
      /\ rows.next \in Nat
  BY <1>1 DEF Running, Rows
<1>3. ASSUME NEW seen \in Int, GoOn(m, seen) PROVE Ends(m) \/ Advances(m)
  BY <1>1, <1>3, GoOnMoves
<1>4. End(m) => Ends(m)
  BY EndEnds
<1>5. CASE CheckLimit(m)
  BY <1>1, <1>2, <1>3, <1>4, <1>5 DEF CheckLimit
<1>6. CASE ReadFrom(m)
  <2>1. CASE job' = [job EXCEPT ![m].pc = 6, ![m].ok = FALSE] /\ Does(m, {"tick", "one_time"})
    <3>. DEFINE x == [job[m] EXCEPT !.pc = 6, !.ok = FALSE]
    <3>1. job' = [job EXCEPT ![m] = x]
      BY <2>1 DEF MoversInv
    <3>2. x \in Running /\ x.op = job[m].op /\ x.pc = 6 /\ x.ok = FALSE /\ x.next = job[m].next
      <4>1. 6 \in 1 .. 7
        OBVIOUS
      <4>. QED BY <1>1, <4>1 DEF Running
    <3>. HIDE DEF x
    <3>3. Stays(m) /\ job'[m] = x
      BY <3>1, <3>2, Replaced
    <3>4. 6 <= Len(Route[job[m].op])
      <4>1. job[m].op = "tick" \/ job[m].op = "one_time"
        BY <2>1 DEF Does
      <4>2. Len(Route[job[m].op]) = 7 \/ Len(Route[job[m].op]) = 6
        BY <4>1, RouteLengths
      <4>3. \A n : n = 7 \/ n = 6 => 6 <= n
        OBVIOUS
      <4>. QED BY <4>2, <4>3
    <3>. QED BY <1>1, <1>6, <2>1, <3>2, <3>3, <3>4 DEF Fails, Keeps, Does
  <2>2. CASE End(m) \/ \E seen \in Int : GoOn(m, seen)
    BY <1>1, <1>3, <1>4, <2>2
  <2>. QED BY <1>2, <1>6, <2>1, <2>2 DEF ReadFrom, Pending
<1>7. CASE Debit(m) \/ Credit(m) \/ Record(m) \/ Advance(m) \/ Cancel(m)
  <2>1. GoOn(m, 0)
    BY <1>7 DEF Debit, Credit, Record, Advance, Cancel, Write
  <2>. QED BY <1>1, <1>3, <2>1
<1>8. CASE ReadTo(m)
  BY <1>1, <1>2, <1>3, <1>8 DEF ReadTo
<1>9. CASE FindAllowance(m)
  <2>1. CASE job' = [job EXCEPT ![m].pc = 2, ![m].next = rows.next]
    <3>. DEFINE x == [job[m] EXCEPT !.pc = 2, !.next = rows.next]
    <3>1. job' = [job EXCEPT ![m] = x]
      BY <2>1 DEF MoversInv
    <3>2. x \in Running /\ x.op = job[m].op /\ x.pc = 2
      <4>1. 2 \in 1 .. 7
        OBVIOUS
      <4>. QED BY <1>1, <1>2, <4>1 DEF Running
    <3>. HIDE DEF x
    <3>3. Stays(m) /\ job'[m] = x
      BY <3>1, <3>2, Replaced
    <3>4. 2 <= Len(Route[job[m].op])
      <4>1. job[m].op = "cancel"
        BY <1>9, Places DEF FindAllowance, Place
      <4>2. Len(Route[job[m].op]) = 2
        BY <4>1, RouteLengths
      <4>3. \A n : n = 2 => 2 <= n
        OBVIOUS
      <4>. QED BY <4>2, <4>3
    <3>. QED BY <1>1, <1>9, <3>2, <3>3, <3>4 DEF Keeps
  <2>. QED BY <1>1, <1>4, <1>9, <2>1 DEF FindAllowance
<1>. QED BY <1>5, <1>6, <1>7, <1>8, <1>9 DEF Works

LEMMA StepMovers ==
  ASSUME MoversInv, rows \in Rows, NEW m \in Movers, Works(m),
         overlaps' \in Nat, rollbacks' = rollbacks
  PROVE  MoversInv'
<1>1. /\ job[m] \in Running /\ Stays(m)
      /\ \/ job'[m] = Idle
         \/ /\ job'[m] \in Running /\ job'[m].op = job[m].op
            /\ job'[m].pc <= Len(Route[job[m].op])
            /\ \/ job'[m].pc >= 6
               \/ job'[m].pc = job[m].pc + 1 /\ job'[m].ok = job[m].ok
               \/ job[m].op = "cancel"
  <2>1. FindAllowance(m) => job[m].op = "cancel"
    BY Places DEF FindAllowance, Place
  <2>2. CASE Fails(m)
    BY <2>2 DEF Fails, Keeps
  <2>. QED BY StepGoes, <2>1, <2>2 DEF Ends, Advances, Keeps
<1>2. now' = now /\ Undisturbed
  BY DEF Works, CheckLimit, ReadFrom, Debit, ReadTo, Credit, Record, Advance, FindAllowance, Cancel,
     Write, JobOnly, Same, Undisturbed, errorVars
<1>3. Idle.op = "none" /\ Idle.pc = 1 /\ Len(Route["none"]) = 1
  BY RouteIs DEF Idle
<1>4. job[m].pc \in 1 .. 7
  BY <1>1 DEF Running
<1>5. \A k \in Movers : Paying(k)' => Paying(k)
  BY <1>1, <1>3 DEF Stays, Paying
<1>6. \A k \in Movers \ {m} :
        /\ job'[k].pc <= Len(Route[job'[k].op])
        /\ Paying(k)' => k \in Ticks /\ (~job'[k].ok => job'[k].pc >= 6)
  BY <1>1 DEF Stays, MoversInv, Paying
<1>7. /\ job'[m].pc <= Len(Route[job'[m].op])
      /\ Paying(m)' => m \in Ticks /\ (~job'[m].ok => job'[m].pc >= 6)
  <2>1. CASE job'[m] = Idle
    <3>1. \A n, k : n = 1 /\ k = 1 => n <= k
      OBVIOUS
    <3>2. job'[m].op = "none" /\ job'[m].pc = 1 /\ Len(Route[job'[m].op]) = 1
      BY <1>3, <2>1
    <3>. QED BY <3>1, <3>2 DEF Paying
  <2>2. CASE job'[m] # Idle
    <3>1. /\ job'[m].op = job[m].op /\ job'[m].pc <= Len(Route[job[m].op])
          /\ \/ job'[m].pc >= 6
             \/ job'[m].pc = job[m].pc + 1 /\ job'[m].ok = job[m].ok
             \/ job[m].op = "cancel"
      BY <1>1, <2>2
    <3>2. Paying(m) => m \in Ticks /\ (~job[m].ok => job[m].pc >= 6)
      BY DEF MoversInv
    <3>. QED BY <1>4, <3>1, <3>2 DEF Paying
  <2>. QED BY <2>1, <2>2
<1>. QED BY <1>1, <1>2, <1>5, <1>6, <1>7 DEF MoversInv, Stays, Undisturbed
-----------------------------------------------------------------------------
(* Counting the movers. *)

LEMMA MoversCount ==
  /\ IsFiniteSet(Movers)
  /\ \A S \in SUBSET Movers : IsFiniteSet(S) /\ Cardinality(S) \in Nat
  /\ \A S, T \in SUBSET Movers : S \subseteq T => Cardinality(S) <= Cardinality(T)
<1>1. IsFiniteSet(Movers)
  BY AllowancesAssumption, FS_Union DEF Movers
<1>2. \A S \in SUBSET Movers : IsFiniteSet(S) /\ Cardinality(S) \in Nat
  BY <1>1, FS_Subset, FS_CardinalityType
<1>3. ASSUME NEW S \in SUBSET Movers, NEW T \in SUBSET Movers, S \subseteq T
      PROVE  Cardinality(S) <= Cardinality(T)
  BY <1>2, <1>3, FS_Subset
<1>. QED BY <1>1, <1>2, <1>3

LEMMA MoversCountOne ==
  ASSUME NEW S \in SUBSET Movers, NEW m \in Movers
  PROVE  /\ Cardinality(S \union {m}) <= Cardinality(S \ {m}) + 1
         /\ m \in S => Cardinality(S \ {m}) + 1 = Cardinality(S)
<1>1. IsFiniteSet(S) /\ IsFiniteSet(S \ {m}) /\ m \notin S \ {m}
  BY MoversCount
<1>2. Cardinality((S \ {m}) \union {m}) = Cardinality(S \ {m}) + 1
  BY <1>1, FS_AddElement
<1>3. (S \ {m}) \union {m} = S \union {m} /\ (m \in S => (S \ {m}) \union {m} = S)
  OBVIOUS
<1>. QED BY <1>1, <1>2, <1>3, MoversCount

-----------------------------------------------------------------------------
(* What a step does to the rows. *)

SameBooks ==
  /\ rows' \in Rows
  /\ rows'.next = rows.next /\ rows'.active = rows.active
  /\ rows'.received = rows.received
  /\ Settled(rows') = Settled(rows)

LEMMA RowsFields ==
  ASSUME NEW r \in Rows
  PROVE  /\ r.next \in Nat /\ r.active \in BOOLEAN
         /\ r.parent \in Int /\ r.member \in Int /\ r.held \in Int
         /\ r.received \in Tally /\ r.redeemed \in Tally /\ r.paid \in Nat /\ r.missed \in Nat
BY DEF Rows

LEMMA TallyWith ==
  ASSUME NEW f \in Tally, NEW t \in 0 .. Horizon
  PROVE  [f EXCEPT ![t] = @ + 1] \in Tally
<1>1. f[t] + 1 \in Nat
  BY DEF Tally
<1>. QED BY <1>1 DEF Tally

LEMMA DebitRows ==
  ASSUME MoversInv, rows \in Rows, NEW m \in Movers, Debit(m)
  PROVE  SameBooks
<1>1. job[m] \in Running
  BY Places DEF Debit, Place, Idle
<1>2. job[m].seen - 1 \in Int /\ job[m].seen + 1 \in Int /\ rows.held - 1 \in Int /\ rows.held + 1 \in Int
  BY <1>1, RowsFields DEF Running
<1>3. CASE job[m].op = "redeem"
  <2>1. rows' = [rows EXCEPT !.member = job[m].seen - 1, !.held = rows.held - 1]
    BY <1>3 DEF Debit, Write, Change, Does
  <2>2. /\ rows' \in Rows /\ rows'.next = rows.next /\ rows'.active = rows.active
        /\ rows'.received = rows.received /\ rows'.paid = rows.paid /\ rows'.missed = rows.missed
    BY <1>2, <2>1 DEF Rows
  <2>. QED BY <2>2 DEF SameBooks, Settled
<1>4. CASE job[m].op = "deposit"
  <2>1. rows' = [rows EXCEPT !.parent = job[m].seen + 1, !.held = rows.held + 1]
    BY <1>4 DEF Debit, Write, Change, Does
  <2>2. /\ rows' \in Rows /\ rows'.next = rows.next /\ rows'.active = rows.active
        /\ rows'.received = rows.received /\ rows'.paid = rows.paid /\ rows'.missed = rows.missed
    BY <1>2, <2>1 DEF Rows
  <2>. QED BY <2>2 DEF SameBooks, Settled
<1>5. CASE job[m].op # "redeem" /\ job[m].op # "deposit"
  <2>1. rows' = [rows EXCEPT !.parent = job[m].seen - 1]
    BY <1>5 DEF Debit, Write, Change, Does
  <2>2. /\ rows' \in Rows /\ rows'.next = rows.next /\ rows'.active = rows.active
        /\ rows'.received = rows.received /\ rows'.paid = rows.paid /\ rows'.missed = rows.missed
    BY <1>2, <2>1 DEF Rows
  <2>. QED BY <2>2 DEF SameBooks, Settled
<1>. QED BY <1>3, <1>4, <1>5

LEMMA CreditRows ==
  ASSUME MoversInv, rows \in Rows, NEW m \in Movers, Credit(m)
  PROVE  /\ rows' \in Rows
         /\ rows'.next = rows.next /\ rows'.active = rows.active /\ rows'.received = rows.received
         /\ Settled(rows') = Settled(rows) + (IF Paying(m) THEN 1 ELSE 0)
<1>. DEFINE one == IF Paying(m) THEN 1 ELSE 0
<1>1. job[m] \in Running
  BY Places DEF Credit, Place, Idle
<1>2. job[m].seen + 1 \in Int /\ rows.paid \in Nat /\ rows.missed \in Nat
  BY <1>1, RowsFields DEF Running
<1>2a. one \in Nat
  OBVIOUS
<1>3. rows' = [rows EXCEPT !.member = job[m].seen + 1, !.paid = rows.paid + one]
  BY DEF Credit, Write, Change, Does, Paying
<1>. HIDE DEF one
<1>4. rows.paid + one \in Nat
  BY <1>2, <1>2a
<1>5. rows' \in Rows
  BY <1>2, <1>3, <1>4 DEF Rows
<1>6. /\ rows'.next = rows.next /\ rows'.active = rows.active /\ rows'.received = rows.received
      /\ rows'.paid = rows.paid + one /\ rows'.missed = rows.missed
  BY <1>3 DEF Rows
<1>7. Settled(rows') = Settled(rows) + one
  BY <1>2, <1>2a, <1>6 DEF Settled
<1>. QED BY <1>5, <1>6, <1>7 DEF one

(* A record: a redemption; a payment; a payment that came to nothing. *)
LEMMA RecordRows ==
  ASSUME MoversInv, rows \in Rows, NEW m \in Movers, Record(m)
  PROVE  /\ rows' \in Rows
         /\ rows'.next = rows.next /\ rows'.active = rows.active
         /\ rows'.received = IF job[m].op # "redeem" /\ job[m].ok
                             THEN [rows.received EXCEPT ![now] = @ + 1] ELSE rows.received
         /\ Settled(rows') = Settled(rows) + (IF Paying(m) /\ ~job[m].ok THEN 1 ELSE 0)
<1>1. /\ rows.redeemed \in Tally /\ rows.received \in Tally
      /\ rows.paid \in Nat /\ rows.missed \in Nat /\ now \in 0 .. Horizon
  BY RowsFields DEF MoversInv
<1>2. job[m] \in Running
  BY Places DEF Record, Place, Idle
<1>3. job[m].ok \in BOOLEAN
  BY <1>2 DEF Running
<1>4. CASE job[m].op = "redeem"
  <2>1. PICK f \in Tally : rows' = [rows EXCEPT !.redeemed = f]
    <3>1. rows' = [rows EXCEPT !.redeemed[now] = @ + 1]
      BY <1>4 DEF Record, Write, Change, Does
    <3>. QED BY <1>1, <3>1, TallyWith
  <2>2. /\ rows' \in Rows /\ rows'.next = rows.next /\ rows'.active = rows.active
        /\ rows'.received = rows.received /\ rows'.paid = rows.paid /\ rows'.missed = rows.missed
    BY <2>1 DEF Rows
  <2>. QED BY <1>1, <1>4, <2>2 DEF Paying, Settled
<1>5. CASE job[m].op # "redeem" /\ job[m].ok
  <2>1. PICK f \in Tally : /\ rows' = [rows EXCEPT !.received = f]
                          /\ f = [rows.received EXCEPT ![now] = @ + 1]
    <3>1. rows' = [rows EXCEPT !.received[now] = @ + 1]
      BY <1>5 DEF Record, Write, Change, Does
    <3>. QED BY <1>1, <3>1, TallyWith
  <2>2. /\ rows' \in Rows /\ rows'.next = rows.next /\ rows'.active = rows.active
        /\ rows'.received = f /\ rows'.paid = rows.paid /\ rows'.missed = rows.missed
    BY <2>1 DEF Rows
  <2>. QED BY <1>1, <1>5, <2>1, <2>2 DEF Paying, Settled
<1>6. CASE job[m].op = "tick" /\ ~job[m].ok
  <2>1. rows' = [rows EXCEPT !.missed = rows.missed + 1]
    BY <1>6 DEF Record, Write, Change, Does
  <2>2. rows' \in Rows
    BY <1>1, <2>1 DEF Rows
  <2>3. /\ rows'.next = rows.next /\ rows'.active = rows.active
        /\ rows'.received = rows.received /\ rows'.paid = rows.paid /\ rows'.missed = rows.missed + 1
    BY <2>1 DEF Rows
  <2>. QED BY <1>1, <1>6, <2>2, <2>3 DEF Paying, Settled
<1>7. CASE job[m].op # "redeem" /\ job[m].op # "tick" /\ ~job[m].ok
  <2>1. rows' = rows
    BY <1>7 DEF Record, Write, Change, Does
  <2>. QED BY <1>1, <1>7, <2>1 DEF Paying, Settled
<1>. QED BY <1>3, <1>4, <1>5, <1>6, <1>7

LEMMA AdvanceRows ==
  ASSUME MoversInv, rows \in Rows, NEW m \in Movers, Advance(m)
  PROVE  /\ rows' \in Rows /\ rows'.next = job[m].next + 1 /\ rows'.active = TRUE
         /\ rows'.received = rows.received /\ Settled(rows') = Settled(rows)
<1>1. job[m] \in Running
  BY Places DEF Advance, Place, Idle
<1>2. job[m].next + 1 \in Nat
  BY <1>1 DEF Running
<1>3. rows' = [rows EXCEPT !.next = job[m].next + 1, !.active = TRUE]
  BY DEF Advance, Write, Change
<1>4. rows' \in Rows
  BY <1>2, <1>3 DEF Rows
<1>5. /\ rows'.next = job[m].next + 1 /\ rows'.active = TRUE
      /\ rows'.received = rows.received /\ rows'.paid = rows.paid /\ rows'.missed = rows.missed
  BY <1>3 DEF Rows
<1>. QED BY <1>4, <1>5 DEF Settled

LEMMA CancelRows ==
  ASSUME MoversInv, rows \in Rows, NEW m \in Movers, Cancel(m)
  PROVE  /\ rows' \in Rows /\ rows'.active = FALSE
         /\ rows'.received = rows.received /\ Settled(rows') = Settled(rows)
<1>1. job[m] \in Running
  BY Places DEF Cancel, Place, Idle
<1>2. job[m].next \in Nat
  BY <1>1 DEF Running
<1>3. rows' = [rows EXCEPT !.next = job[m].next, !.active = FALSE]
  BY DEF Cancel, Write, Change
<1>4. rows' \in Rows
  BY <1>2, <1>3 DEF Rows
<1>5. /\ rows'.active = FALSE
      /\ rows'.received = rows.received /\ rows'.paid = rows.paid /\ rows'.missed = rows.missed
  BY <1>3 DEF Rows
<1>. QED BY <1>4, <1>5 DEF Settled

-----------------------------------------------------------------------------
(* What a step of the file does to the rows and to the copies of them. *)

Reloaded ==
  /\ rows' = disk /\ Copies' = {disk}
  /\ rollbacks' = rollbacks + (IF rows = disk THEN 0 ELSE 1)
Copying == Copies' \subseteq Copies \union {rows} /\ rollbacks' = rollbacks

LEMMA ChangeCopies ==
  ASSUME NEW changed, Change(changed)
  PROVE  rows' = changed /\ Copying
BY DEF Change, fileVars, Copying, Copies

LEMMA SameCopies ==
  ASSUME UNCHANGED <<disk, saver, rollbacks>>
  PROVE  Copying
BY DEF Copying, Copies

LEMMA ExportCopies ==
  ASSUME FileInv, NEW s \in Savers, ~SaveInFlight, Export(s)
  PROVE  Reloaded \/ (rows' = rows /\ Copying)
<1>1. \A r \in Savers : ~Saving(r, "write")
  BY DEF SaveInFlight
<1>2. disk' = disk
  BY DEF Export
<1>3. CASE /\ saver' = [saver EXCEPT ![s] = [at |-> "write", image |-> rows]]
           /\ rows' = rows /\ rollbacks' = rollbacks
  <2>1. \A r \in Savers : r # s => saver'[r] = saver[r]
    BY <1>3 DEF FileInv
  <2>2. saver'[s] = [at |-> "write", image |-> rows]
    BY <1>3 DEF FileInv
  <2>3. \A r \in Savers : Saving(r, "write")' => saver'[r].image = rows
    BY <1>1, <2>1, <2>2
  <2>. QED BY <1>2, <1>3, <2>3 DEF Copying, Copies
<1>4. CASE SaverTo(s, "stat")
  <2>1. \A r \in Savers : ~Saving(r, "write")'
    BY <1>1, <1>4 DEF FileInv
  <2>2. Copies' = {disk}
    BY <1>2, <2>1 DEF Copies
  <2>. QED BY <1>4, <2>2 DEF Export, Reload, Reloaded, Copying, Copies
<1>. QED BY <1>3, <1>4 DEF Export

LEMMA SaveCopies ==
  ASSUME FileInv, NEW s \in Savers, SaveStep(s)
  PROVE  Reloaded \/ (rows' = rows /\ Copying)
<1>1. CASE SaveTick(s) \/ SaveResumes(s)
  <2>1. CASE ~SaveInFlight /\ Export(s)
    BY <2>1, ExportCopies
  <2>2. CASE SaverTo(s, "wait") /\ UNCHANGED <<rows, disk, rollbacks>>
    <3>1. ~Saving(s, "write")' /\ \A r \in Savers \ {s} : saver'[r] = saver[r]
      BY <2>2, SaverMoves
    <3>2. Copies' \subseteq Copies
      BY <2>2, <3>1 DEF Copies
    <3>. QED BY <2>2, <3>2 DEF Copying
  <2>. QED BY <1>1, <2>1, <2>2 DEF SaveTick, SaveResumes
<1>2. CASE WriteAndRename(s)
  <2>1. /\ SaverTo(s, "stat") /\ Saving(s, "write")
        /\ disk' = saver[s].image /\ UNCHANGED <<rows, rollbacks>>
    BY <1>2 DEF WriteAndRename
  <2>2. ~Saving(s, "write")' /\ \A r \in Savers \ {s} : saver'[r] = saver[r]
    BY <2>1, SaverMoves
  <2>3. Copies' \subseteq Copies
    BY <2>1, <2>2 DEF Copies
  <2>. QED BY <2>1, <2>3 DEF Copying
<1>3. CASE SaveFails(s) \/ Stat(s)
  <2>1. SaverTo(s, "done") /\ UNCHANGED <<rows, disk, rollbacks>>
    BY <1>3 DEF SaveFails, Stat
  <2>2. ~Saving(s, "write")' /\ \A r \in Savers \ {s} : saver'[r] = saver[r]
    BY <2>1, SaverMoves
  <2>3. Copies' \subseteq Copies
    BY <2>1, <2>2 DEF Copies
  <2>. QED BY <2>1, <2>3 DEF Copying
<1>. QED BY <1>1, <1>2, <1>3 DEF SaveStep

LEMMA SyncReloads ==
  ASSUME FileInv, SyncFromDisk
  PROVE  Reloaded
<1>1. \A s \in Savers : ~Saving(s, "write")
  BY DEF SyncFromDisk, FileInv, WriterIsCurrent
<1>2. disk' = disk /\ saver' = saver
  BY DEF SyncFromDisk
<1>3. Copies' = {disk}
  BY <1>1, <1>2 DEF Copies
<1>. QED BY <1>3 DEF SyncFromDisk, Reload, Reloaded

LEMMA ReopenReloads ==
  ASSUME Reopen
  PROVE  Reloaded
<1>1. Copies' = {disk}
  BY DEF Reopen, Asleep, Copies
<1>. QED BY <1>1 DEF Reopen, Reload, Reloaded

-----------------------------------------------------------------------------
(* What may be read back stays behind the rows. *)

(* What no writing takes back. *)
Grows ==
  /\ rows' \in Rows
  /\ \A t \in 0 .. Horizon : rows.received[t] <= rows'.received[t]
  /\ Settled(rows) <= Settled(rows')

LEMMA RowsNumbers ==
  ASSUME NEW r \in Rows
  PROVE  Settled(r) \in Nat /\ \A t \in 0 .. Horizon : r.received[t] \in Nat
<1>1. r.paid \in Nat /\ r.missed \in Nat /\ r.received \in Tally
  BY RowsFields
<1>2. Settled(r) \in Nat
  BY <1>1 DEF Settled
<1>3. \A t \in 0 .. Horizon : r.received[t] \in Nat
  BY <1>1 DEF Tally
<1>. QED BY <1>2, <1>3

LEMMA BookTypes ==
  ASSUME MoversInv, rows \in Rows
  PROVE  /\ Setbacks \in Nat /\ Counting \in 0 .. 1
         /\ rows.next \in Nat
         /\ \A m \in Movers : Paying(m) => job[m].next \in Nat
<1>1. ASSUME NEW m \in Movers, Paying(m) PROVE job[m].next \in Nat
  <2>1. job[m] \in Running
    BY <1>1, Places DEF Paying
  <2>. QED BY <2>1 DEF Running
<1>. QED BY <1>1, RowsFields DEF MoversInv, Setbacks, Counting

LEMMA CopiesStay ==
  ASSUME MoversInv, CopiesInv, PayInv, Grows, Copying,
         restarts' = restarts, unadvanced' \in {unadvanced, unadvanced + 1}
  PROVE  CopiesInv'
<1>1. Setbacks \in Nat /\ Setbacks' \in Nat /\ Setbacks <= Setbacks'
  <2>1. /\ rollbacks \in Nat /\ restarts \in Nat /\ unadvanced \in Nat
        /\ rollbacks' = rollbacks /\ restarts' = restarts
        /\ unadvanced' = unadvanced \/ unadvanced' = unadvanced + 1
    BY DEF MoversInv, Copying
  <2>2. \A a, b, c, d \in Nat : d = c \/ d = c + 1 =>
          a + b + c \in Nat /\ a + b + d \in Nat /\ a + b + c <= a + b + d
    OBVIOUS
  <2>3. unadvanced' \in Nat
    BY <2>1
  <2>4. Setbacks = rollbacks + restarts + unadvanced /\ Setbacks' = rollbacks + restarts + unadvanced'
    BY <2>1 DEF Setbacks
  <2>. QED BY <2>1, <2>2, <2>3, <2>4
<1>2. /\ rows \in Rows /\ rows' \in Rows
      /\ \A r \in Copies : Copied(r)
  BY DEF CopiesInv, Grows
<1>3. ASSUME NEW r \in Copies' PROVE r \in Rows /\ Copied(r)
  <2>1. CASE r \in Copies
    BY <1>2, <2>1 DEF Copied
  <2>2. CASE r = rows
    <3>1. rows.active => Settled(rows) <= rows.next + Setbacks + 1
      <4>1. rows.active => Settled(rows) <= rows.next + Setbacks + Counting
        BY DEF PayInv
      <4>2. Setbacks \in Nat /\ Counting \in 0 .. 1 /\ rows.next \in Nat /\ Settled(rows) \in Nat
        BY <1>2, BookTypes, RowsNumbers
      <4>. QED BY <4>1, <4>2
    <3>2. \A t \in 0 .. Horizon : rows.received[t] <= rows.received[t]
      BY <1>2, RowsNumbers
    <3>3. Settled(rows) <= Settled(rows)
      BY <1>2, RowsNumbers
    <3>. QED BY <1>2, <2>2, <3>1, <3>2, <3>3 DEF Copied
  <2>. QED BY <1>3, <2>1, <2>2 DEF Copying
<1>4. ASSUME NEW r \in Copies' PROVE Copied(r)'
  <2>1. r \in Rows /\ Copied(r)
    BY <1>3, <1>4
  <2>2. \A t \in 0 .. Horizon : r.received[t] <= rows'.received[t]
    <3>1. \A t \in 0 .. Horizon :
            /\ r.received[t] \in Nat /\ rows.received[t] \in Nat /\ rows'.received[t] \in Nat
            /\ r.received[t] <= rows.received[t] /\ rows.received[t] <= rows'.received[t]
      BY <1>2, <2>1, RowsNumbers DEF Copied, Grows
    <3>2. \A a, b, c \in Nat : a <= b /\ b <= c => a <= c
      OBVIOUS
    <3>. QED BY <3>1, <3>2
  <2>3. Settled(r) <= Settled(rows')
    <3>1. /\ Settled(r) \in Nat /\ Settled(rows) \in Nat /\ Settled(rows') \in Nat
          /\ Settled(r) <= Settled(rows) /\ Settled(rows) <= Settled(rows')
      BY <1>2, <2>1, RowsNumbers DEF Copied, Grows
    <3>. QED BY <3>1
  <2>4. r.active => Settled(r) <= r.next + Setbacks' + 1
    <3>1. r.active => Settled(r) <= r.next + Setbacks + 1
      BY <2>1 DEF Copied
    <3>2. Settled(r) \in Nat /\ r.next \in Nat
      BY <2>1, RowsNumbers, RowsFields
    <3>. QED BY <1>1, <3>1, <3>2
  <2>. QED BY <2>1, <2>2, <2>3, <2>4 DEF Copied, Settled
<1>. QED BY <1>2, <1>4 DEF CopiesInv

LEMMA CopiesReload ==
  ASSUME MoversInv, CopiesInv, Reloaded, restarts' \in {restarts, restarts + 1},
         unadvanced' = unadvanced
  PROVE  CopiesInv'
<1>1. disk \in Rows /\ Copied(disk)
  BY DEF CopiesInv, Copied, Copies
<1>2. Setbacks \in Nat /\ Setbacks' \in Nat /\ Setbacks <= Setbacks'
  <2>1. rollbacks \in Nat /\ restarts \in Nat /\ unadvanced \in Nat
    BY DEF MoversInv
  <2>2. rollbacks' = rollbacks \/ rollbacks' = rollbacks + 1
    BY <2>1 DEF Reloaded
  <2>3. restarts' = restarts \/ restarts' = restarts + 1
    OBVIOUS
  <2>. QED BY <2>1, <2>2, <2>3 DEF Setbacks
<1>3. \A t \in 0 .. Horizon : disk.received[t] <= disk.received[t]
  BY <1>1, RowsNumbers
<1>4. Settled(disk) <= Settled(disk)
  BY <1>1, RowsNumbers
<1>5. disk.active => Settled(disk) <= disk.next + Setbacks' + 1
  <2>1. disk.active => Settled(disk) <= disk.next + Setbacks + 1
    BY <1>1 DEF Copied
  <2>2. Settled(disk) \in Nat /\ disk.next \in Nat
    BY <1>1, RowsNumbers, RowsFields
  <2>. QED BY <1>2, <2>1, <2>2
<1>6. \A r \in Copies' : Copied(r)'
  BY <1>1, <1>3, <1>4, <1>5 DEF Copied, Reloaded, Settled
<1>. QED BY <1>1, <1>6 DEF CopiesInv, Reloaded

-----------------------------------------------------------------------------
(* Who is at work, before and after a step. *)

BusyIsKnown ==
  MoversInv => \A m \in Movers :
    Busy(m) <=> \/ job[m].op \in {"one_time", "transfer", "redeem", "deposit"} /\ job[m].pc > 1
                \/ job[m].op = "tick" /\ job[m].pc \in 2 .. 6

LEMMA BusyNow == BusyIsKnown
BY Places DEF BusyIsKnown

LEMMA BusyNext == BusyIsKnown'
BY BusyNow, PTL

LEMMA RecordersAreBusy ==
  ASSUME MoversInv'
  PROVE  Recorders' \subseteq Busies'
<1>1. ASSUME NEW m \in Movers, Recorder(m)' PROVE Busy(m)'
  BY <1>1, BusyNext DEF BusyIsKnown, Recorder
<1>. QED BY <1>1 DEF Recorders, Busies

LEMMA OthersStay ==
  ASSUME NEW m \in Movers, Stays(m), NEW o \in Movers, o # m
  PROVE  /\ Busy(o)' <=> Busy(o)
         /\ Recorder(o)' <=> Recorder(o)
         /\ Paying(o)' <=> Paying(o)
         /\ Counted(o)' <=> Counted(o)
         /\ job'[o] = job[o]
BY DEF Stays, Busy, Recorder, Paying, Counted

(* The sets of those at work change by the one that moves. *)
LEMMA WorkMoves ==
  ASSUME NEW m \in Movers, Stays(m)
  PROVE  /\ Busies' \subseteq Busies \union {m} /\ Recorders' \subseteq Recorders \union {m}
         /\ (Busy(m)' => Busy(m)) => Busies' \subseteq Busies
         /\ (Recorder(m)' => Recorder(m)) => Recorders' \subseteq Recorders
         /\ ~Recorder(m)' => Recorders' \subseteq Recorders \ {m}
BY OthersStay DEF Busies, Recorders

LEMMA BusyBound ==
  ASSUME MoversInv, LimitInv, Busies' \subseteq Busies, overlaps' \in Nat, overlaps <= overlaps'
  PROVE  Cardinality(Busies') <= overlaps' + 1
<1>1. /\ Cardinality(Busies) \in Nat /\ Cardinality(Busies') \in Nat
      /\ Cardinality(Busies') <= Cardinality(Busies)
  BY MoversCount DEF Busies
<1>2. Cardinality(Busies) <= overlaps + 1 /\ overlaps \in Nat
  BY DEF LimitInv, MoversInv
<1>. QED BY <1>1, <1>2

LEMMA StartBound ==
  ASSUME MoversInv, LimitInv, NEW m \in Movers, Stays(m), Starts(m),
         job[m].pc # 1 => (Busy(m)' => Busy(m))
  PROVE  /\ overlaps' \in Nat /\ overlaps <= overlaps'
         /\ Cardinality(Busies') <= overlaps' + 1
<1>. DEFINE others == Busies \ {m}
<1>1. overlaps \in Nat /\ Cardinality(others) \in Nat
  BY MoversCount DEF MoversInv, Busies
<1>2. {o \in Movers \ {m} : Busy(o)} = others
  BY DEF Busies
<1>3. CASE job[m].pc = 1
  <2>1. overlaps' = overlaps + Cardinality(others)
    BY <1>2, <1>3 DEF Starts
  <2>2. Busies' \subseteq Busies \union {m}
    BY WorkMoves
  <2>3. /\ Cardinality(Busies') \in Nat /\ Cardinality(Busies \union {m}) \in Nat
        /\ Cardinality(Busies') <= Cardinality(Busies \union {m})
    BY <2>2, MoversCount DEF Busies
  <2>4. Cardinality(Busies \union {m}) <= Cardinality(others) + 1
    BY MoversCountOne DEF Busies
  <2>. HIDE DEF others
  <2>. QED BY <1>1, <2>1, <2>3, <2>4
<1>4. CASE job[m].pc # 1
  <2>1. overlaps' = overlaps
    BY <1>4 DEF Starts
  <2>2. Busies' \subseteq Busies
    BY <1>4, WorkMoves
  <2>. QED BY <1>1, <2>1, <2>2, BusyBound
<1>. QED BY <1>3, <1>4

-----------------------------------------------------------------------------
(* The limit. *)

LEMMA LimitNumbers ==
  ASSUME MoversInv, rows \in Rows
  PROVE  /\ Limit \in Nat /\ overlaps \in Nat /\ now \in 0 .. Horizon
         /\ \A t \in 0 .. Horizon : rows.received[t] \in Nat
         /\ Cardinality(Recorders) \in Nat /\ Cardinality(Recorders') \in Nat
         /\ Cardinality(Busies) \in Nat /\ Cardinality(Busies') \in Nat
         /\ Recorders' \subseteq Recorders => Cardinality(Recorders') <= Cardinality(Recorders)
         /\ Recorders' \subseteq Busies' => Cardinality(Recorders') <= Cardinality(Busies')
BY AllowancesAssumption, RowsNumbers, MoversCount DEF MoversInv, Recorders, Busies

(* Nothing is received: a mover past the check is one of those counted, and  *)
(* one that passes it finds the others no more than the overlaps.            *)
LEMMA LimitStays ==
  ASSUME MoversInv, MoversInv', LimitInv, rows \in Rows, rows' \in Rows, now' = now,
         overlaps <= overlaps', Cardinality(Busies') <= overlaps' + 1,
         \A t \in 0 .. Horizon : rows'.received[t] <= rows.received[t],
         \/ Recorders' \subseteq Recorders
         \/ rows.received[now] + 1 <= Limit
  PROVE  LimitInv'
<1>1. /\ Limit \in Nat /\ overlaps \in Nat /\ now \in 0 .. Horizon /\ overlaps' \in Nat
      /\ Cardinality(Recorders) \in Nat /\ Cardinality(Recorders') \in Nat
      /\ Cardinality(Busies') \in Nat
  BY LimitNumbers DEF MoversInv
<1>2. \A t \in 0 .. Horizon : rows.received[t] \in Nat /\ rows'.received[t] \in Nat
  BY RowsNumbers
<1>3. \A t \in 0 .. Horizon : rows.received[t] <= Limit + overlaps
  BY DEF LimitInv, LimitNearlyHolds
<1>4. \A t \in 0 .. Horizon : rows'.received[t] <= Limit + overlaps'
  <2>1. \A a, b, c, d \in Nat : a <= b /\ b <= Limit + c /\ c <= d => a <= Limit + d
    BY <1>1
  <2>. QED BY <1>1, <1>2, <1>3, <2>1
<1>5. rows'.received[now] <= rows.received[now]
  BY <1>1
<1>6. rows'.received[now] + Cardinality(Recorders') <= Limit + overlaps'
  <2>1. CASE Recorders' \subseteq Recorders
    <3>1. Cardinality(Recorders') <= Cardinality(Recorders)
      BY <2>1, LimitNumbers
    <3>2. rows.received[now] + Cardinality(Recorders) <= Limit + overlaps
      BY DEF LimitInv
    <3>3. rows.received[now] \in Nat /\ rows'.received[now] \in Nat
      BY <1>1, <1>2
    <3>. QED BY <1>1, <1>5, <3>1, <3>2, <3>3
  <2>2. CASE rows.received[now] + 1 <= Limit
    <3>1. Cardinality(Recorders') <= Cardinality(Busies')
      BY RecordersAreBusy, LimitNumbers
    <3>3. rows.received[now] \in Nat /\ rows'.received[now] \in Nat
      BY <1>1, <1>2
    <3>. QED BY <1>1, <1>5, <2>2, <3>1, <3>3
  <2>. QED BY <2>1, <2>2
<1>. QED BY <1>4, <1>6 DEF LimitInv, LimitNearlyHolds

(* A payment is recorded, and its mover no longer counted. *)
LEMMA LimitRecorded ==
  ASSUME MoversInv, MoversInv', LimitInv, rows \in Rows, rows' \in Rows, now' = now,
         overlaps' = overlaps, Busies' \subseteq Busies,
         NEW m \in Movers, m \in Recorders, Recorders' \subseteq Recorders \ {m},
         rows'.received = [rows.received EXCEPT ![now] = @ + 1]
  PROVE  LimitInv'
<1>1. /\ Limit \in Nat /\ overlaps \in Nat /\ now \in 0 .. Horizon
      /\ Cardinality(Recorders) \in Nat /\ Cardinality(Recorders') \in Nat
  BY LimitNumbers
<1>2. rows.received \in Tally /\ \A t \in 0 .. Horizon : rows.received[t] \in Nat
  BY RowsFields, RowsNumbers
<1>3. /\ rows'.received[now] = rows.received[now] + 1
      /\ \A t \in 0 .. Horizon : t # now => rows'.received[t] = rows.received[t]
  BY <1>1, <1>2 DEF Tally
<1>4. Cardinality(Recorders') + 1 <= Cardinality(Recorders)
  <2>1. Cardinality(Recorders \ {m}) + 1 = Cardinality(Recorders)
    BY MoversCountOne DEF Recorders
  <2>2. Cardinality(Recorders') <= Cardinality(Recorders \ {m}) /\ Cardinality(Recorders \ {m}) \in Nat
    BY MoversCount DEF Recorders
  <2>. QED BY <1>1, <2>1, <2>2
<1>5. rows.received[now] + Cardinality(Recorders) <= Limit + overlaps
  BY DEF LimitInv
<1>6. rows'.received[now] + Cardinality(Recorders') <= Limit + overlaps'
  <2>1. rows.received[now] \in Nat
    BY <1>1, <1>2
  <2>. QED BY <1>1, <1>3, <1>4, <1>5, <2>1
<1>7. \A t \in 0 .. Horizon : rows'.received[t] <= Limit + overlaps'
  <2>1. rows'.received[now] <= Limit + overlaps'
    <3>1. rows'.received[now] \in Nat
      BY <1>1, <1>2, <1>3
    <3>. QED BY <1>1, <1>6, <3>1
  <2>2. ASSUME NEW t \in 0 .. Horizon, t # now PROVE rows'.received[t] <= Limit + overlaps'
    BY <1>3, <2>2 DEF LimitInv, LimitNearlyHolds
  <2>. QED BY <2>1, <2>2
<1>8. Cardinality(Busies') <= overlaps' + 1
  BY <1>1, BusyBound
<1>. QED BY <1>6, <1>7, <1>8 DEF LimitInv, LimitNearlyHolds

-----------------------------------------------------------------------------
(* The payments. *)

(* Nothing is settled and nothing advanced. *)
LEMMA PayStays ==
  ASSUME MoversInv, PayInv, rows \in Rows, rows' \in Rows,
         rows'.active => rows.active /\ rows'.next = rows.next,
         Settled(rows') = Settled(rows),
         \A m \in Movers : /\ Paying(m)' => Paying(m) /\ job'[m].next = job[m].next
                           /\ Counted(m)' <=> Counted(m),
         rollbacks' = rollbacks, restarts' = restarts, unadvanced' = unadvanced
  PROVE  PayInv'
<1>1. Counting' = Counting /\ Setbacks' = Setbacks
  BY DEF Counting, Setbacks
<1>2. rows'.active =>
        /\ Settled(rows') <= rows'.next + Setbacks' + Counting'
        /\ rollbacks' = 0 => rows'.next <= Settled(rows')
  BY <1>1 DEF PayInv
<1>3. \A m \in Movers : Paying(m)' =>
        /\ Settled(rows') <= job'[m].next + Setbacks' + Counting'
        /\ rollbacks' = 0 => job'[m].next + Counting' <= Settled(rows')
  BY <1>1 DEF PayInv
<1>. QED BY <1>2, <1>3 DEF PayInv, Settled

(* The one run there is counts its payment. *)
LEMMA PayCounted ==
  ASSUME MoversInv, PayInv, rows \in Rows, rows' \in Rows,
         rows'.active = rows.active, rows'.next = rows.next,
         Settled(rows') = Settled(rows) + 1,
         NEW m \in Movers, Stays(m), Paying(m), ~Counted(m), Counted(m)',
         job'[m].next = job[m].next,
         rollbacks' = rollbacks, Undisturbed
  PROVE  PayInv'
<1>1. \A k \in Movers : Paying(k) => k = m
  BY DEF MoversInv
<1>2. \A k \in Movers : Paying(k)' => k = m
  BY <1>1, OthersStay
<1>3. Counting = 0 /\ Counting' = 1 /\ Setbacks' = Setbacks
  BY <1>1 DEF Counting, Setbacks, Counted, Undisturbed
<1>4. /\ Settled(rows) \in Nat /\ Setbacks \in Nat
      /\ rows.next \in Nat /\ job[m].next \in Nat
  BY BookTypes, RowsNumbers
<1>5. rows.active =>
        /\ Settled(rows) <= rows.next + Setbacks + Counting
        /\ rollbacks = 0 => rows.next <= Settled(rows)
  BY DEF PayInv
<1>6. /\ Settled(rows) <= job[m].next + Setbacks + Counting
      /\ rollbacks = 0 => job[m].next + Counting <= Settled(rows)
  BY DEF PayInv
<1>7. rows'.active =>
        /\ Settled(rows') <= rows'.next + Setbacks' + Counting'
        /\ rollbacks' = 0 => rows'.next <= Settled(rows')
  BY <1>3, <1>4, <1>5
<1>8. /\ Settled(rows') <= job'[m].next + Setbacks' + Counting'
      /\ rollbacks' = 0 => job'[m].next + Counting' <= Settled(rows')
  BY <1>3, <1>4, <1>6
<1>. QED BY <1>2, <1>7, <1>8 DEF PayInv, Settled

(* It advances the allowance, and is over. *)
LEMMA PayAdvanced ==
  ASSUME MoversInv, PayInv, rows \in Rows, rows' \in Rows,
         Settled(rows') = Settled(rows),
         NEW m \in Movers, Stays(m), Paying(m), Counted(m), job'[m] = Idle,
         rows'.next = job[m].next + 1,
         rollbacks' = rollbacks, Undisturbed
  PROVE  PayInv'
<1>1. \A k \in Movers : Paying(k) => k = m
  BY DEF MoversInv
<1>2. ~Paying(m)'
  BY DEF Paying, Idle
<1>3. \A k \in Movers : ~Paying(k)'
  BY <1>1, <1>2, OthersStay
<1>4. Counting = 1 /\ Counting' = 0 /\ Setbacks' = Setbacks
  BY <1>3 DEF Counting, Setbacks, Counted, Undisturbed
<1>5. /\ Settled(rows) \in Nat /\ Setbacks \in Nat /\ job[m].next \in Nat
  BY BookTypes, RowsNumbers
<1>6. /\ Settled(rows) <= job[m].next + Setbacks + Counting
      /\ rollbacks = 0 => job[m].next + Counting <= Settled(rows)
  BY DEF PayInv
<1>7. /\ Settled(rows') <= rows'.next + Setbacks' + Counting'
      /\ rollbacks' = 0 => rows'.next <= Settled(rows')
  BY <1>4, <1>5, <1>6
<1>. QED BY <1>3, <1>7 DEF PayInv, Settled

(* A run begins, with the allowance as it is. *)
LEMMA PayBegins ==
  ASSUME MoversInv, PayInv, rows \in Rows, rows' = rows, rows.active,
         NEW m \in Movers, Stays(m), \A k \in Movers : ~Paying(k),
         job'[m].next = rows.next, job'[m].pc = 1,
         rollbacks' = rollbacks, Undisturbed
  PROVE  PayInv'
<1>1. \A k \in Movers : Paying(k)' => k = m
  BY OthersStay
<1>2. Counting = 0 /\ Setbacks' = Setbacks
  BY DEF Counting, Setbacks, Counted, Undisturbed
<1>3. \A k \in Movers : ~Counted(k)'
  BY <1>1 DEF Counted
<1>4. Counting' = 0
  BY <1>3 DEF Counting
<1>5. Settled(rows) \in Nat /\ Setbacks \in Nat /\ rows.next \in Nat
  BY BookTypes, RowsNumbers
<1>6. /\ Settled(rows) <= rows.next + Setbacks + Counting
      /\ rollbacks = 0 => rows.next <= Settled(rows)
  BY DEF PayInv
<1>7. /\ Settled(rows') <= rows'.next + Setbacks' + Counting'
      /\ rollbacks' = 0 => rows'.next <= Settled(rows')
  BY <1>2, <1>4, <1>6
<1>8. \A k \in Movers : Paying(k)' =>
        /\ Settled(rows') <= job'[k].next + Setbacks' + Counting'
        /\ rollbacks' = 0 => job'[k].next + Counting' <= Settled(rows')
  BY <1>1, <1>2, <1>4, <1>5, <1>6
<1>. QED BY <1>7, <1>8 DEF PayInv, Settled

(* The file is read back: a setback, unless nothing changes. *)
LEMMA PayReloaded ==
  ASSUME MoversInv, CopiesInv, PayInv, Reloaded, job' = job, Undisturbed
  PROVE  PayInv'
<1>1. CASE rows = disk
  <2>1. rollbacks' = rollbacks
    BY <1>1 DEF Reloaded, MoversInv
  <2>2. rows' = rows
    BY <1>1 DEF Reloaded
  <2>3. \A m \in Movers : /\ Paying(m)' => Paying(m) /\ job'[m].next = job[m].next
                          /\ Counted(m)' <=> Counted(m)
    BY DEF Paying, Counted
  <2>. QED BY <2>1, <2>2, <2>3, PayStays DEF CopiesInv, Undisturbed
<1>2. CASE rows # disk
  <2>1. /\ rollbacks' = rollbacks + 1 /\ rollbacks \in Nat
        /\ restarts \in Nat /\ unadvanced \in Nat
    BY <1>2 DEF Reloaded, MoversInv
  <2>2. Setbacks' = Setbacks + 1 /\ Counting' = Counting /\ rollbacks' # 0
    BY <2>1 DEF Setbacks, Counting, Counted, Paying, Undisturbed
  <2>3. rows' = disk /\ disk \in Rows /\ rows \in Rows /\ Copied(disk)
    BY DEF Reloaded, CopiesInv, Copies, Copied
  <2>4. /\ Settled(rows) \in Nat /\ Settled(disk) \in Nat /\ disk.next \in Nat
        /\ Setbacks \in Nat /\ Counting \in 0 .. 1
    BY <2>3, BookTypes, RowsNumbers, RowsFields
  <2>5. /\ Settled(disk) <= Settled(rows)
        /\ disk.active => Settled(disk) <= disk.next + Setbacks + 1
    BY <2>3 DEF Copied
  <2>6. disk.active => Settled(disk) <= disk.next + Setbacks' + Counting'
    BY <2>2, <2>4, <2>5
  <2>7. ASSUME NEW m \in Movers, Paying(m)
        PROVE  Settled(disk) <= job[m].next + Setbacks' + Counting'
    <3>1. job[m].next \in Nat
      BY <2>3, <2>7, BookTypes
    <3>2. Settled(rows) <= job[m].next + Setbacks + Counting
      BY <2>7 DEF PayInv
    <3>. QED BY <2>2, <2>4, <2>5, <3>1, <3>2
  <2>. QED BY <2>2, <2>3, <2>6, <2>7 DEF PayInv, Settled, Paying
<1>. QED BY <1>1, <1>2

LEMMA PayRestarted ==
  ASSUME MoversInv, CopiesInv, PayInv, Reloaded, restarts' = restarts + 1, unadvanced' = unadvanced,
         \A m \in Movers : ~Paying(m)'
  PROVE  PayInv'
<1>1. rollbacks \in Nat /\ restarts \in Nat /\ unadvanced \in Nat
  BY DEF MoversInv
<1>2. rows' = disk /\ disk \in Rows /\ rows \in Rows /\ Copied(disk)
  BY DEF Reloaded, CopiesInv, Copies, Copied
<1>3. Counting' = 0
  BY DEF Counting, Counted
<1>4. Setbacks \in Nat /\ Setbacks' \in Nat /\ Setbacks + 1 <= Setbacks'
  <2>1. rollbacks' = rollbacks \/ rollbacks' = rollbacks + 1
    BY <1>1 DEF Reloaded
  <2>. QED BY <1>1, <2>1 DEF Setbacks
<1>5. Settled(disk) \in Nat /\ disk.next \in Nat
  BY <1>2, RowsNumbers, RowsFields
<1>6. disk.active => Settled(disk) <= disk.next + Setbacks' + Counting'
  <2>1. disk.active => Settled(disk) <= disk.next + Setbacks + 1
    BY <1>2 DEF Copied
  <2>. QED BY <1>3, <1>4, <1>5, <2>1
<1>7. ASSUME disk.active, rollbacks' = 0 PROVE disk.next <= Settled(disk)
  <2>1. rows = disk /\ rollbacks = 0
    BY <1>1, <1>7 DEF Reloaded
  <2>. QED BY <1>7, <2>1 DEF PayInv
<1>. QED BY <1>2, <1>6, <1>7 DEF PayInv, Settled

-----------------------------------------------------------------------------
(* The steps of the movers. *)

BookInv == MoversInv /\ CopiesInv /\ LimitInv /\ PayInv

Pays(m) == Credit(m) \/ Record(m) \/ Advance(m)

(* Where a step of m can be from: only the check of the limit makes it one   *)
(* that will be recorded, only its first read one at work, and only three    *)
(* steps make or unmake a payment that is counted and not yet advanced.      *)
LEMMA StepWork ==
  ASSUME MoversInv, MoversInv', rows \in Rows, NEW m \in Movers, Works(m)
  PROVE  /\ Stays(m)
         /\ job[m].pc # 1 \/ FindAllowance(m) => (Busy(m)' => Busy(m))
         /\ ~CheckLimit(m) => (Recorder(m)' => Recorder(m))
         /\ Paying(m)' => Paying(m) /\ job'[m].next = job[m].next
         /\ ~Pays(m) => ~Counted(m) /\ ~Counted(m)'
<1>1. /\ job[m] \in Running /\ Stays(m)
      /\ job[m].pc \in 1 .. 7 /\ job[m].op \in Operations \union {"tick"}
  BY StepGoes DEF Ends, Advances, Fails, Keeps, Running
<1>2. /\ At(m, "limit") => CheckLimit(m)
      /\ At(m, "credit") \/ At(m, "record") \/ At(m, "advance") => Pays(m)
  BY DEF Works, CheckLimit, ReadFrom, Debit, ReadTo, Credit, Record, Advance, FindAllowance, Cancel,
     At, Pays
<1>3. ~Pays(m) => ~Counted(m)
  BY <1>2, Places DEF Counted, Paying, Place
<1>4. CASE Ends(m)
  <2>1. job'[m] = Idle
    BY <1>4 DEF Ends
  <2>2. ~Busy(m)' /\ ~Recorder(m)' /\ ~Paying(m)' /\ ~Counted(m)'
    BY <2>1, BusyNext DEF BusyIsKnown, Recorder, Paying, Counted, Idle
  <2>. QED BY <1>1, <1>3, <2>2
<1>5. CASE Advances(m)
  <2>1. /\ job'[m].op = job[m].op /\ job'[m].pc = job[m].pc + 1
        /\ job'[m].next = job[m].next /\ job'[m].ok = job[m].ok
    BY <1>5 DEF Advances, Keeps
  <2>2. job[m].pc # 1 => (Busy(m)' => Busy(m))
    BY <1>1, <2>1, BusyNow, BusyNext DEF BusyIsKnown
  <2>3. FindAllowance(m) => ~Busy(m)'
    <3>1. FindAllowance(m) => job[m].op = "cancel"
      BY Places DEF FindAllowance, Place
    <3>. QED BY <2>1, <3>1, BusyNext DEF BusyIsKnown
  <2>4. ~CheckLimit(m) => (Recorder(m)' => Recorder(m))
    <3>1. ASSUME ~CheckLimit(m)
          PROVE  ~Place(m, "tick", 1) /\ ~Place(m, "one_time", 1) /\ ~Place(m, "transfer", 2)
      BY <1>2, <3>1, Places
    <3>2. ASSUME ~CheckLimit(m), Recorder(m)' PROVE Recorder(m)
      BY <1>1, <2>1, <3>1, <3>2 DEF Recorder, Place
    <3>. QED BY <3>2
  <2>5. ~Pays(m) => ~Counted(m)'
    <3>1. ASSUME ~Pays(m), Paying(m) PROVE job[m].pc \in 1 .. 4
      BY <1>1, <1>2, <3>1, Places DEF Paying, Place
    <3>. QED BY <2>1, <3>1 DEF Counted, Paying
  <2>. QED BY <1>1, <1>3, <2>1, <2>2, <2>3, <2>4, <2>5 DEF Paying
<1>6. CASE Fails(m) /\ ReadFrom(m)
  <2>1. /\ job'[m].op = job[m].op /\ job'[m].pc = 6
        /\ job'[m].next = job[m].next /\ job'[m].ok = FALSE
    BY <1>6 DEF Fails, Keeps
  <2>2. job[m].op \in {"tick", "one_time"} /\ job[m].pc = 2
    BY <1>6, Places DEF Fails, ReadFrom, Place
  <2>5. Busy(m)
    BY <2>2, BusyNow DEF BusyIsKnown
  <2>6. ~FindAllowance(m) /\ ~Counted(m)'
    BY <1>6, <2>1 DEF FindAllowance, ReadFrom, At, Counted, Paying
  <2>7. Recorder(m)
    BY <2>2 DEF Recorder
  <2>. QED BY <1>1, <1>3, <2>1, <2>5, <2>6, <2>7 DEF Paying
<1>7. CASE Keeps(m) /\ job'[m].pc = 2 /\ FindAllowance(m)
  <2>1. job[m].op = "cancel" /\ job'[m].op = "cancel"
    BY <1>7, Places DEF FindAllowance, Place, Keeps
  <2>2. ~Busy(m)' /\ ~Recorder(m)' /\ ~Paying(m)' /\ ~Counted(m)'
    BY <2>1, BusyNext DEF BusyIsKnown, Recorder, Paying, Counted
  <2>. QED BY <1>1, <1>3, <2>2
<1>. QED BY <1>4, <1>5, <1>6, <1>7, StepGoes

LEMMA GrowsBy ==
  ASSUME rows \in Rows, rows' \in Rows, rows'.received = rows.received,
         Settled(rows') = Settled(rows) \/ Settled(rows') = Settled(rows) + 1
  PROVE  Grows
<1>1. Settled(rows) \in Nat /\ \A t \in 0 .. Horizon : rows.received[t] \in Nat
  BY RowsNumbers
<1>2. \A t \in 0 .. Horizon : rows.received[t] <= rows'.received[t]
  BY <1>1
<1>3. Settled(rows) <= Settled(rows')
  BY <1>1
<1>. QED BY <1>2, <1>3 DEF Grows

LEMMA LimitPlain ==
  ASSUME BookInv, MoversInv', NEW m \in Movers, Works(m), ~CheckLimit(m),
         job[m].pc # 1 \/ FindAllowance(m),
         rows' \in Rows, rows'.received = rows.received, now' = now, overlaps' = overlaps
  PROVE  LimitInv'
<1>1. MoversInv /\ LimitInv /\ rows \in Rows /\ overlaps \in Nat
  BY DEF BookInv, CopiesInv, MoversInv
<1>2. Busies' \subseteq Busies /\ Recorders' \subseteq Recorders
  BY <1>1, StepWork, WorkMoves
<1>3. Cardinality(Busies') <= overlaps' + 1
  BY <1>1, <1>2, BusyBound
<1>4. \A t \in 0 .. Horizon : rows'.received[t] <= rows.received[t]
  BY <1>1, RowsNumbers
<1>. QED BY <1>1, <1>2, <1>3, <1>4, LimitStays

LEMMA PayPlain ==
  ASSUME BookInv, MoversInv', NEW m \in Movers, Works(m),
         ~Pays(m) \/ (Counted(m) <=> Counted(m)'),
         rows' \in Rows, rows'.active => rows.active /\ rows'.next = rows.next,
         Settled(rows') = Settled(rows),
         rollbacks' = rollbacks, Undisturbed
  PROVE  PayInv'
<1>1. MoversInv /\ PayInv /\ rows \in Rows
  BY DEF BookInv, CopiesInv
<1>2. \A k \in Movers : /\ Paying(k)' => Paying(k) /\ job'[k].next = job[k].next
                        /\ Counted(k)' <=> Counted(k)
  BY <1>1, StepWork, OthersStay
<1>. QED BY <1>1, <1>2, PayStays DEF Undisturbed

LEMMA CheckLimitBook ==
  ASSUME BookInv, NEW m \in Movers, CheckLimit(m)
  PROVE  BookInv'
<1>1. MoversInv /\ LimitInv /\ CopiesInv /\ PayInv /\ rows \in Rows /\ overlaps \in Nat
  BY DEF BookInv, CopiesInv, MoversInv
<1>2. Works(m) /\ ~Pays(m)
  BY DEF Works, CheckLimit, Pays, Credit, Record, Advance, At
<1>3. /\ rows' = rows /\ UNCHANGED <<disk, saver, rollbacks>> /\ now' = now /\ Undisturbed
  BY DEF CheckLimit, Reads, Same, Undisturbed, errorVars, dbVars, fileVars
<1>4. Stays(m)
  BY <1>1, <1>2, StepGoes DEF Ends, Advances, Fails, Keeps
<1>5. /\ overlaps' \in Nat /\ overlaps <= overlaps'
      /\ Cardinality(Busies') <= overlaps' + 1
      /\ Recorders' \subseteq Recorders \/ rows.received[now] + 1 <= Limit
      /\ MoversInv'
  <2>1. CASE End(m) /\ UNCHANGED overlaps
    <3>1. job'[m] = Idle
      BY <1>1, <2>1, EndEnds DEF Ends
    <3>2. MoversInv'
      BY <1>1, <1>2, <1>3, <2>1, StepMovers
    <3>3. ~Busy(m)' /\ ~Recorder(m)'
      BY <3>1, <3>2, BusyNext DEF BusyIsKnown, Recorder, Idle
    <3>4. Busies' \subseteq Busies /\ Recorders' \subseteq Recorders
      BY <1>4, <3>3, WorkMoves
    <3>. QED BY <1>1, <2>1, <3>2, <3>4, BusyBound
  <2>2. CASE Used + 1 <= Limit /\ Starts(m)
    <3>1. overlaps' \in Nat
      <4>1. Cardinality({o \in Movers \ {m} : Busy(o)}) \in Nat
        BY MoversCount
      <4>. QED BY <1>1, <2>2, <4>1 DEF Starts
    <3>2. MoversInv'
      BY <1>1, <1>2, <1>3, <3>1, StepMovers
    <3>3. /\ overlaps <= overlaps' /\ Cardinality(Busies') <= overlaps' + 1
      BY <1>1, <1>2, <1>4, <2>2, <3>2, StepWork, StartBound
    <3>4. rows.received[now] + 1 <= Limit
      <4>1. rows.received[now] \in Nat /\ rows.redeemed[now] \in Nat /\ Limit \in Nat
        BY <1>1, RowsFields, AllowancesAssumption DEF Tally, MoversInv
      <4>. QED BY <2>2, <4>1 DEF Used
    <3>. QED BY <3>1, <3>2, <3>3, <3>4
  <2>. QED BY <2>1, <2>2 DEF CheckLimit
<1>6. LimitInv'
  <2>1. \A t \in 0 .. Horizon : rows'.received[t] <= rows.received[t]
    BY <1>1, <1>3, RowsNumbers
  <2>. QED BY <1>1, <1>3, <1>5, <2>1, LimitStays
<1>7. PayInv'
  BY <1>1, <1>2, <1>3, <1>5, PayPlain
<1>8. CopiesInv'
  BY <1>1, <1>3, SameCopies, CopiesStay, GrowsBy DEF Undisturbed
<1>. QED BY <1>5, <1>6, <1>7, <1>8 DEF BookInv

LEMMA ReadFromBook ==
  ASSUME BookInv, NEW m \in Movers, ReadFrom(m)
  PROVE  BookInv'
<1>1. MoversInv /\ LimitInv /\ CopiesInv /\ PayInv /\ rows \in Rows /\ overlaps \in Nat
  BY DEF BookInv, CopiesInv, MoversInv
<1>2. Works(m) /\ ~Pays(m) /\ ~CheckLimit(m)
  BY DEF Works, CheckLimit, ReadFrom, Pays, Credit, Record, Advance, At
<1>3. /\ rows' = rows /\ UNCHANGED <<disk, saver, rollbacks>> /\ now' = now /\ Undisturbed
  BY DEF ReadFrom, Reads, Same, Undisturbed, errorVars, dbVars, fileVars
<1>4. Stays(m)
  BY <1>1, <1>2, StepGoes DEF Ends, Advances, Fails, Keeps
<1>5. Starts(m) \/ (overlaps' = overlaps /\ (Ends(m) \/ job[m].pc = 2))
  <2>1. Does(m, {"tick", "one_time"}) => job[m].pc = 2
    BY <1>1, Places DEF ReadFrom, Does, Place
  <2>. QED BY <1>1, <2>1, EndEnds DEF ReadFrom
<1>6. overlaps' \in Nat
  <2>1. Cardinality({o \in Movers \ {m} : Busy(o)}) \in Nat
    BY MoversCount
  <2>. QED BY <1>1, <1>5, <2>1 DEF Starts
<1>7. MoversInv'
  BY <1>1, <1>2, <1>3, <1>6, StepMovers
<1>8. overlaps <= overlaps' /\ Cardinality(Busies') <= overlaps' + 1
  <2>1. CASE Starts(m)
    BY <1>1, <1>2, <1>4, <1>7, <2>1, StepWork, StartBound
  <2>2. CASE overlaps' = overlaps /\ (Ends(m) \/ job[m].pc = 2)
    <3>1. Ends(m) => ~Busy(m)'
      BY <1>7, BusyNext DEF BusyIsKnown, Ends, Idle
    <3>2. job[m].pc = 2 => job[m].pc # 1
      OBVIOUS
    <3>3. Busies' \subseteq Busies
      BY <1>1, <1>2, <1>4, <1>7, <2>2, <3>1, <3>2, StepWork, WorkMoves
    <3>. QED BY <1>1, <1>6, <2>2, <3>3, BusyBound
  <2>. QED BY <1>5, <2>1, <2>2
<1>9. LimitInv'
  <2>1. \A t \in 0 .. Horizon : rows'.received[t] <= rows.received[t]
    BY <1>1, <1>3, RowsNumbers
  <2>2. Recorders' \subseteq Recorders
    BY <1>1, <1>2, <1>4, <1>7, StepWork, WorkMoves
  <2>. QED BY <1>1, <1>3, <1>7, <1>8, <2>1, <2>2, LimitStays
<1>10. PayInv'
  BY <1>1, <1>2, <1>3, <1>7, PayPlain
<1>11. CopiesInv'
  BY <1>1, <1>3, SameCopies, CopiesStay, GrowsBy DEF Undisturbed
<1>. QED BY <1>7, <1>9, <1>10, <1>11 DEF BookInv

LEMMA OtherReadsBook ==
  ASSUME BookInv, NEW m \in Movers, ReadTo(m) \/ FindAllowance(m)
  PROVE  BookInv'
<1>1. MoversInv /\ LimitInv /\ CopiesInv /\ PayInv /\ rows \in Rows /\ overlaps \in Nat
  BY DEF BookInv, CopiesInv, MoversInv
<1>2. Works(m) /\ ~Pays(m) /\ ~CheckLimit(m)
  BY DEF Works, CheckLimit, ReadTo, FindAllowance, Pays, Credit, Record, Advance, At
<1>3. /\ rows' = rows /\ UNCHANGED <<disk, saver, rollbacks>> /\ now' = now /\ Undisturbed
      /\ overlaps' = overlaps
  BY DEF ReadTo, FindAllowance, Reads, JobOnly, Same, Undisturbed, errorVars, dbVars, fileVars
<1>4. MoversInv'
  BY <1>1, <1>2, <1>3, StepMovers
<1>5. job[m].pc # 1 \/ FindAllowance(m)
  BY <1>1, Places DEF ReadTo, Place
<1>6. LimitInv'
  BY <1>1, <1>2, <1>3, <1>4, <1>5, LimitPlain
<1>7. PayInv'
  BY <1>1, <1>2, <1>3, <1>4, PayPlain
<1>8. CopiesInv'
  BY <1>1, <1>3, SameCopies, CopiesStay, GrowsBy DEF Undisturbed
<1>. QED BY <1>4, <1>6, <1>7, <1>8 DEF BookInv

(* What every write shares. *)
LEMMA WriteBook ==
  ASSUME BookInv, NEW m \in Movers, Works(m), NEW changed, Write(m, changed),
         rows' \in Rows, Grows
  PROVE  /\ MoversInv' /\ CopiesInv'
         /\ now' = now /\ Undisturbed /\ overlaps' = overlaps /\ rollbacks' = rollbacks
<1>1. MoversInv /\ CopiesInv /\ PayInv /\ rows \in Rows /\ overlaps \in Nat
  BY DEF BookInv, CopiesInv, MoversInv
<1>2. Copying /\ now' = now /\ Undisturbed /\ overlaps' = overlaps
  BY ChangeCopies DEF Write, JobOnly, Same, Undisturbed, errorVars
<1>3. MoversInv'
  BY <1>1, <1>2, StepMovers DEF Copying
<1>4. CopiesInv'
  BY <1>1, <1>2, CopiesStay DEF Undisturbed
<1>. QED BY <1>2, <1>3, <1>4 DEF Copying

LEMMA DebitBook ==
  ASSUME BookInv, NEW m \in Movers, Debit(m)
  PROVE  BookInv'
<1>1. MoversInv /\ rows \in Rows
  BY DEF BookInv, CopiesInv
<1>2. Works(m) /\ ~Pays(m) /\ ~CheckLimit(m) /\ \E changed : Write(m, changed)
  BY DEF Works, CheckLimit, Debit, Pays, Credit, Record, Advance, At
<1>3. SameBooks
  BY <1>1, DebitRows
<1>4. Grows
  BY <1>1, <1>3, GrowsBy DEF SameBooks
<1>5. /\ MoversInv' /\ CopiesInv'
      /\ now' = now /\ Undisturbed /\ overlaps' = overlaps /\ rollbacks' = rollbacks
  BY <1>2, <1>4, WriteBook DEF Grows
<1>6. job[m].pc # 1
  BY <1>1, Places DEF Debit, Place
<1>7. LimitInv' /\ PayInv'
  BY <1>2, <1>3, <1>5, <1>6, LimitPlain, PayPlain DEF SameBooks
<1>. QED BY <1>5, <1>7 DEF BookInv

LEMMA CreditBook ==
  ASSUME BookInv, NEW m \in Movers, Credit(m)
  PROVE  BookInv'
<1>1. MoversInv /\ CopiesInv /\ PayInv /\ rows \in Rows
  BY DEF BookInv, CopiesInv
<1>2. Works(m) /\ ~CheckLimit(m) /\ \E changed : Write(m, changed)
  BY DEF Works, CheckLimit, Credit, At
<1>3. /\ rows' \in Rows
      /\ rows'.next = rows.next /\ rows'.active = rows.active /\ rows'.received = rows.received
      /\ Settled(rows') = Settled(rows) + (IF Paying(m) THEN 1 ELSE 0)
  BY <1>1, CreditRows
<1>4. Settled(rows') = Settled(rows) \/ Settled(rows') = Settled(rows) + 1
  BY <1>1, <1>3, RowsNumbers
<1>5. Grows
  BY <1>1, <1>3, <1>4, GrowsBy
<1>6. /\ MoversInv' /\ CopiesInv'
      /\ now' = now /\ Undisturbed /\ overlaps' = overlaps /\ rollbacks' = rollbacks
  BY <1>2, <1>3, <1>5, WriteBook
<1>7. job[m].pc = 5
  BY <1>1, Places DEF Credit, Place
<1>8. job[m].pc # 1
  BY <1>7
<1>9. LimitInv'
  BY <1>2, <1>3, <1>6, <1>8, LimitPlain
<1>10. CASE Paying(m)
  <2>1. ~(5 >= 6) /\ 5 # 6 /\ 5 # 7 /\ 5 + 1 = 6
    OBVIOUS
  <2>2. job[m].ok /\ ~Counted(m)
    BY <1>1, <1>7, <1>10, <2>1 DEF MoversInv, Counted
  <2>3. job[m].pc # Len(Route[job[m].op]) /\ job[m] \in Running
    BY <1>1, <1>7, <1>10, RouteLengths, Places DEF Paying
  <2>4. Advances(m)
    BY <1>1, <2>3, GoOnMoves DEF Credit, Write
  <2>5. Stays(m) /\ Counted(m)' /\ job'[m].next = job[m].next
    BY <1>7, <1>10, <2>1, <2>2, <2>4 DEF Advances, Keeps, Counted, Paying
  <2>6. Settled(rows') = Settled(rows) + 1
    BY <1>3, <1>10
  <2>. QED BY <1>1, <1>3, <1>6, <1>9, <1>10, <2>2, <2>5, <2>6, PayCounted DEF BookInv
<1>11. CASE ~Paying(m)
  <2>1. Counted(m) <=> Counted(m)'
    BY <1>1, <1>2, <1>6, <1>11, StepWork DEF Counted
  <2>2. Settled(rows') = Settled(rows)
    BY <1>1, <1>3, <1>11, RowsNumbers
  <2>3. PayInv'
    BY <1>2, <1>3, <1>6, <2>1, <2>2, PayPlain
  <2>. QED BY <1>6, <1>9, <2>3 DEF BookInv
<1>. QED BY <1>10, <1>11

LEMMA RecordBook ==
  ASSUME BookInv, NEW m \in Movers, Record(m)
  PROVE  BookInv'
<1>1. MoversInv /\ CopiesInv /\ LimitInv /\ PayInv /\ rows \in Rows /\ now \in 0 .. Horizon
  BY DEF BookInv, CopiesInv, MoversInv
<1>2. Works(m) /\ ~CheckLimit(m) /\ \E changed : Write(m, changed)
  BY DEF Works, CheckLimit, Record, At
<1>3. /\ rows' \in Rows
      /\ rows'.next = rows.next /\ rows'.active = rows.active
      /\ rows'.received = IF job[m].op # "redeem" /\ job[m].ok
                          THEN [rows.received EXCEPT ![now] = @ + 1] ELSE rows.received
      /\ Settled(rows') = Settled(rows) + (IF Paying(m) /\ ~job[m].ok THEN 1 ELSE 0)
  BY <1>1, RecordRows
<1>4. rows.received \in Tally /\ Settled(rows) \in Nat /\ \A t \in 0 .. Horizon : rows.received[t] \in Nat
  BY <1>1, RowsFields, RowsNumbers
<1>5. Grows
  <2>1. \A t \in 0 .. Horizon : rows.received[t] <= rows'.received[t]
    BY <1>1, <1>3, <1>4 DEF Tally
  <2>2. Settled(rows) <= Settled(rows')
    BY <1>3, <1>4
  <2>. QED BY <1>3, <2>1, <2>2 DEF Grows
<1>6. /\ MoversInv' /\ CopiesInv'
      /\ now' = now /\ Undisturbed /\ overlaps' = overlaps /\ rollbacks' = rollbacks
  BY <1>2, <1>3, <1>5, WriteBook
<1>7. /\ job[m] \in Running /\ job[m].pc # 1
      /\ job[m].op = "redeem" \/ (job[m].op \in {"tick", "one_time", "transfer"} /\ job[m].pc = 6)
  BY <1>1, Places DEF Record, Place, Idle
<1>8. Ends(m) \/ (Advances(m) /\ job[m].pc # Len(Route[job[m].op]))
  BY <1>1, <1>7, GoOnMoves DEF Record, Write
<1>9. Stays(m)
  BY <1>8 DEF Ends, Advances, Keeps
<1>10. LimitInv'
  <2>1. CASE job[m].op # "redeem" /\ job[m].ok
    <3>1. m \in Recorders
      BY <1>7, <2>1 DEF Recorders, Recorder
    <3>2. ~Recorder(m)'
      <4>1. CASE Ends(m)
        BY <4>1 DEF Ends, Idle, Recorder
      <4>2. CASE Advances(m)
        <5>1. job'[m].op \in {"tick", "one_time", "transfer"} /\ job'[m].pc = 7
          BY <1>7, <2>1, <4>2 DEF Advances, Keeps
        <5>. QED BY <5>1 DEF Recorder
      <4>. QED BY <1>8, <4>1, <4>2
    <3>3. Recorders' \subseteq Recorders \ {m}
      BY <1>9, <3>2, WorkMoves
    <3>4. Busies' \subseteq Busies
      BY <1>1, <1>2, <1>6, <1>7, <1>9, StepWork, WorkMoves
    <3>5. rows'.received = [rows.received EXCEPT ![now] = @ + 1]
      BY <1>3, <2>1
    <3>. QED BY <1>1, <1>3, <1>6, <3>1, <3>3, <3>4, <3>5, LimitRecorded
  <2>2. CASE ~(job[m].op # "redeem" /\ job[m].ok)
    BY <1>2, <1>3, <1>6, <1>7, <2>2, LimitPlain
  <2>. QED BY <2>1, <2>2
<1>11. CASE Paying(m)
  <2>1. job[m].pc = 6 /\ job[m].op = "tick" /\ Len(Route["tick"]) = 7
    BY <1>7, <1>11, RouteLengths DEF Paying
  <2>2. Advances(m)
    <3>1. job[m].pc # Len(Route[job[m].op])
      BY <2>1
    <3>. QED BY <1>1, <1>7, <3>1, GoOnMoves DEF Record, Write
  <2>3. Counted(m)' /\ job'[m].next = job[m].next
    BY <2>1, <2>2 DEF Advances, Keeps, Counted, Paying
  <2>4. CASE job[m].ok
    <3>1. Counted(m)
      BY <1>11, <2>1, <2>4 DEF Counted
    <3>2. Settled(rows') = Settled(rows)
      BY <1>3, <1>4, <2>4
    <3>3. PayInv'
      BY <1>2, <1>3, <1>6, <2>3, <3>1, <3>2, PayPlain
    <3>. QED BY <1>6, <1>10, <3>3 DEF BookInv
  <2>5. CASE ~job[m].ok
    <3>1. ~Counted(m)
      BY <2>1, <2>5 DEF Counted
    <3>2. Settled(rows') = Settled(rows) + 1
      BY <1>3, <1>11, <2>5
    <3>3. PayInv'
      BY <1>1, <1>3, <1>6, <1>9, <1>11, <2>3, <3>1, <3>2, PayCounted
    <3>. QED BY <1>6, <1>10, <3>3 DEF BookInv
  <2>. QED BY <2>4, <2>5
<1>12. CASE ~Paying(m)
  <2>1. Counted(m) <=> Counted(m)'
    BY <1>1, <1>2, <1>6, <1>12, StepWork DEF Counted
  <2>2. Settled(rows') = Settled(rows)
    BY <1>3, <1>4, <1>12
  <2>3. PayInv'
    BY <1>2, <1>3, <1>6, <2>1, <2>2, PayPlain
  <2>. QED BY <1>6, <1>10, <2>3 DEF BookInv
<1>. QED BY <1>11, <1>12

LEMMA AdvanceBook ==
  ASSUME BookInv, NEW m \in Movers, Advance(m)
  PROVE  BookInv'
<1>1. MoversInv /\ CopiesInv /\ PayInv /\ rows \in Rows
  BY DEF BookInv, CopiesInv
<1>2. Works(m) /\ ~CheckLimit(m) /\ \E changed : Write(m, changed)
  BY DEF Works, CheckLimit, Advance, At
<1>3. /\ rows' \in Rows /\ rows'.next = job[m].next + 1
      /\ rows'.received = rows.received /\ Settled(rows') = Settled(rows)
  BY <1>1, AdvanceRows
<1>4. Grows
  BY <1>1, <1>3, GrowsBy
<1>5. /\ MoversInv' /\ CopiesInv'
      /\ now' = now /\ Undisturbed /\ overlaps' = overlaps /\ rollbacks' = rollbacks
  BY <1>2, <1>3, <1>4, WriteBook
<1>6. job[m] \in Running /\ job[m].op = "tick" /\ job[m].pc = 7
  BY <1>1, Places DEF Advance, Place, Idle
<1>7. job[m].pc # 1 /\ Paying(m) /\ Counted(m)
  BY <1>6 DEF Counted, Paying
<1>8. Ends(m)
  <2>1. job[m].pc = Len(Route[job[m].op])
    BY <1>6, RouteLengths
  <2>. QED BY <1>1, <1>6, <2>1, GoOnMoves DEF Advance, Write
<1>9. LimitInv'
  BY <1>2, <1>3, <1>5, <1>7, LimitPlain
<1>10. PayInv'
  BY <1>1, <1>3, <1>5, <1>7, <1>8, PayAdvanced DEF Ends
<1>. QED BY <1>5, <1>9, <1>10 DEF BookInv

LEMMA CancelBook ==
  ASSUME BookInv, NEW m \in Movers, Cancel(m)
  PROVE  BookInv'
<1>1. MoversInv /\ rows \in Rows
  BY DEF BookInv, CopiesInv
<1>2. Works(m) /\ ~Pays(m) /\ ~CheckLimit(m) /\ \E changed : Write(m, changed)
  BY DEF Works, CheckLimit, Cancel, Pays, Credit, Record, Advance, At
<1>3. /\ rows' \in Rows /\ rows'.active = FALSE
      /\ rows'.received = rows.received /\ Settled(rows') = Settled(rows)
  BY <1>1, CancelRows
<1>4. Grows
  BY <1>1, <1>3, GrowsBy
<1>5. /\ MoversInv' /\ CopiesInv'
      /\ now' = now /\ Undisturbed /\ overlaps' = overlaps /\ rollbacks' = rollbacks
  BY <1>2, <1>3, <1>4, WriteBook
<1>6. job[m].pc # 1
  BY <1>1, Places DEF Cancel, Place
<1>7. LimitInv' /\ PayInv'
  BY <1>2, <1>3, <1>5, <1>6, LimitPlain, PayPlain
<1>. QED BY <1>5, <1>7 DEF BookInv

LEMMA StepBook ==
  ASSUME BookInv, NEW m \in Movers, Works(m)
  PROVE  BookInv'
BY CheckLimitBook, ReadFromBook, DebitBook, OtherReadsBook, CreditBook, RecordBook, AdvanceBook,
   CancelBook DEF Works

-----------------------------------------------------------------------------
(* An error: the mover is over, or at its pending record. *)

LEMMA CountedIsExecuted ==
  ASSUME MoversInv, NEW m \in Movers
  PROVE  Counted(m) <=> Executed(m)
BY Places DEF Counted, Executed, Paying, Does, Place

(* Where an error leaves its mover. *)
Drops(m) ==
  /\ job[m].op \in {"tick", "one_time"} /\ job[m].pc \in 2 .. 5
  /\ job'[m] = [job[m] EXCEPT !.pc = 6, !.ok = FALSE]

LEMMA ErrorGoes ==
  ASSUME MoversInv, NEW m \in Movers, Errs(m)
  PROVE  /\ Stays(m) /\ job[m] \in Running
         /\ job'[m] = Idle \/ (Drops(m) /\ ~Executed(m) /\ job'[m] \in Running)
<1>1. job[m] \in Running
  BY Places DEF Errs
<1>2. CASE Throw(m)
  BY <1>1, <1>2, EndEnds DEF Throw, Ends
<1>3. CASE TransferFails(m)
  <2>. DEFINE x == [job[m] EXCEPT !.pc = 6, !.ok = FALSE]
  <2>1. job' = [job EXCEPT ![m] = x]
    BY <1>3 DEF TransferFails, Pending, MoversInv
  <2>2. x \in Running
    <3>1. 6 \in 1 .. 7
      OBVIOUS
    <3>. QED BY <1>1, <3>1 DEF Running
  <2>3. /\ job[m].op \in {"tick", "one_time"} /\ job[m].pc \in 2 .. 5
        /\ ~At(m, "record") /\ ~At(m, "advance")
    <3>1. \/ Place(m, "tick", 2) \/ Place(m, "one_time", 2) \/ Place(m, "tick", 3) \/ Place(m, "one_time", 3)
          \/ Place(m, "tick", 4) \/ Place(m, "one_time", 4) \/ Place(m, "tick", 5) \/ Place(m, "one_time", 5)
      BY <1>3, Places DEF TransferFails, InsideTry, InTransit, Does, Place
    <3>2. job[m].op \in {"tick", "one_time"} /\ job[m].pc \in 2 .. 5
      BY <3>1 DEF Place
    <3>3. job[m].op # "redeem" /\ job[m].pc # 6 /\ job[m].pc # 7
      BY <3>2
    <3>. QED BY <3>2, <3>3, Places DEF Place
  <2>. HIDE DEF x
  <2>4. Stays(m) /\ job'[m] = x
    BY <2>1, <2>2, Replaced
  <2>. QED BY <1>1, <2>2, <2>3, <2>4 DEF x, Drops, Executed
<1>. QED BY <1>2, <1>3 DEF Errs

LEMMA ErrorMovers ==
  ASSUME MoversInv, NEW m \in Movers, Errs(m)
  PROVE  /\ MoversInv'
         /\ now' = now /\ restarts' = restarts /\ overlaps' = overlaps /\ rollbacks' = rollbacks
         /\ rows' = rows /\ disk' = disk /\ saver' = saver
         /\ unadvanced' = unadvanced + (IF Executed(m) THEN 1 ELSE 0)
<1>1. /\ Stays(m) /\ job[m] \in Running
      /\ job'[m] = Idle \/ (Drops(m) /\ job'[m] \in Running)
  BY ErrorGoes
<1>2. /\ now' = now /\ restarts' = restarts /\ overlaps' = overlaps /\ rollbacks' = rollbacks
      /\ rows' = rows /\ disk' = disk /\ saver' = saver
      /\ unadvanced' = unadvanced + (IF Executed(m) THEN 1 ELSE 0)
      /\ stranded' = stranded + (IF InTransit(m) THEN 1 ELSE 0)
  BY DEF Errs, TransferFails, Throw, Error
<1>3. stranded' \in Nat /\ unadvanced' \in Nat
  BY <1>2 DEF MoversInv
<1>4. Idle.op = "none" /\ Idle.pc = 1 /\ Len(Route["none"]) = 1
  BY RouteIs DEF Idle
<1>5. Drops(m) => /\ job'[m].op = job[m].op /\ job'[m].pc = 6
                  /\ job[m].op = "tick" \/ job[m].op = "one_time"
  BY <1>1 DEF Drops, Running
<1>6. \A k \in Movers : Paying(k)' => Paying(k)
  BY <1>1, <1>4, <1>5 DEF Stays, Paying
<1>7. \A k \in Movers \ {m} :
        /\ job'[k].pc <= Len(Route[job'[k].op])
        /\ Paying(k)' => k \in Ticks /\ (~job'[k].ok => job'[k].pc >= 6)
  BY <1>1 DEF Stays, MoversInv, Paying
<1>8. job'[m].pc <= Len(Route[job'[m].op])
  <2>1. \A n, k : (n = 1 /\ k = 1) \/ (n = 6 /\ (k = 6 \/ k = 7)) => n <= k
    OBVIOUS
  <2>2. Drops(m) => Len(Route[job[m].op]) = 6 \/ Len(Route[job[m].op]) = 7
    BY <1>5, RouteLengths
  <2>3. CASE job'[m] = Idle
    <3>1. job'[m].pc = 1 /\ Len(Route[job'[m].op]) = 1
      BY <1>4, <2>3
    <3>. QED BY <2>1, <3>1
  <2>4. CASE Drops(m)
    <3>1. job'[m].pc = 6 /\ Len(Route[job'[m].op]) = Len(Route[job[m].op])
      BY <1>5, <2>4
    <3>. QED BY <2>1, <2>2, <2>4, <3>1
  <2>. QED BY <1>1, <2>3, <2>4
<1>9. Paying(m)' => m \in Ticks /\ (~job'[m].ok => job'[m].pc >= 6)
  <2>1. CASE job'[m] = Idle
    BY <1>4, <2>1 DEF Paying
  <2>2. CASE Drops(m)
    BY <1>5, <1>6, <2>2 DEF MoversInv
  <2>. QED BY <1>1, <2>1, <2>2
<1>. QED BY <1>1, <1>2, <1>3, <1>6, <1>7, <1>8, <1>9 DEF MoversInv, Stays

(* An execution that an error keeps from being advanced is no longer under   *)
(* way, and a setback instead.                                               *)
LEMMA PayUnadvanced ==
  ASSUME MoversInv, PayInv, rows \in Rows, rows' = rows,
         NEW m \in Movers, Stays(m), Counted(m), job'[m] = Idle,
         rollbacks' = rollbacks, restarts' = restarts, unadvanced' = unadvanced + 1
  PROVE  PayInv'
<1>1. \A k \in Movers : Paying(k) => k = m
  BY DEF MoversInv, Counted
<1>2. ~Paying(m)'
  BY DEF Paying, Idle
<1>3. \A k \in Movers : ~Paying(k)'
  BY <1>1, <1>2, OthersStay
<1>4. Counting = 1 /\ Counting' = 0
  BY <1>3 DEF Counting, Counted
<1>5. Setbacks' = Setbacks + 1 /\ Setbacks \in Nat
  BY DEF MoversInv, Setbacks
<1>6. Settled(rows) \in Nat /\ rows.next \in Nat
  BY BookTypes, RowsNumbers
<1>7. rows.active =>
        /\ Settled(rows) <= rows.next + Setbacks + Counting
        /\ rollbacks = 0 => rows.next <= Settled(rows)
  BY DEF PayInv
<1>8. rows.active =>
        /\ Settled(rows) <= rows.next + Setbacks' + Counting'
        /\ rollbacks' = 0 => rows.next <= Settled(rows)
  BY <1>4, <1>5, <1>6, <1>7
<1>. QED BY <1>3, <1>8 DEF PayInv, Settled

LEMMA ErrorBook ==
  ASSUME BookInv, NEW m \in Movers, Errs(m)
  PROVE  BookInv'
<1>1. MoversInv /\ CopiesInv /\ LimitInv /\ PayInv /\ rows \in Rows
      /\ overlaps \in Nat /\ unadvanced \in Nat
  BY DEF BookInv, CopiesInv, MoversInv
<1>2. /\ MoversInv'
      /\ now' = now /\ restarts' = restarts /\ overlaps' = overlaps /\ rollbacks' = rollbacks
      /\ rows' = rows /\ disk' = disk /\ saver' = saver
      /\ unadvanced' = unadvanced + (IF Executed(m) THEN 1 ELSE 0)
  BY <1>1, ErrorMovers
<1>3. /\ Stays(m) /\ job[m] \in Running
      /\ job'[m] = Idle \/ (Drops(m) /\ ~Executed(m))
  BY <1>1, ErrorGoes
<1>4. Drops(m) => /\ job'[m].op = job[m].op /\ job'[m].pc = 6
                  /\ job'[m].next = job[m].next /\ job'[m].ok = FALSE
                  /\ job[m].op \in {"tick", "one_time"} /\ job[m].pc \in 2 .. 5
  BY <1>3 DEF Drops, Running
<1>5. /\ Busy(m)' => Busy(m)
      /\ Recorder(m)' => Recorder(m)
      /\ ~Counted(m)'
      /\ Paying(m)' => Paying(m) /\ job'[m].next = job[m].next
  <2>1. CASE job'[m] = Idle
    BY <1>2, <2>1, BusyNext DEF BusyIsKnown, Recorder, Paying, Counted, Idle
  <2>2. CASE Drops(m)
    BY <1>1, <1>4, <2>2, BusyNow DEF BusyIsKnown, Recorder, Paying, Counted
  <2>. QED BY <1>3, <2>1, <2>2
<1>6. LimitInv'
  <2>1. Busies' \subseteq Busies /\ Recorders' \subseteq Recorders
    BY <1>3, <1>5, WorkMoves
  <2>2. \A t \in 0 .. Horizon : rows'.received[t] <= rows.received[t]
    BY <1>1, <1>2, RowsNumbers
  <2>. QED BY <1>1, <1>2, <2>1, <2>2, BusyBound, LimitStays
<1>7. CopiesInv'
  BY <1>1, <1>2, SameCopies, CopiesStay, GrowsBy
<1>8. PayInv'
  <2>1. CASE Counted(m)
    BY <1>1, <1>2, <1>3, <2>1, CountedIsExecuted, PayUnadvanced
  <2>2. CASE ~Counted(m)
    <3>1. unadvanced' = unadvanced
      BY <1>1, <1>2, <2>2, CountedIsExecuted
    <3>2. \A k \in Movers : /\ Paying(k)' => Paying(k) /\ job'[k].next = job[k].next
                            /\ Counted(k)' <=> Counted(k)
      BY <1>3, <1>5, <2>2, OthersStay
    <3>. QED BY <1>1, <1>2, <3>1, <3>2, PayStays
  <2>. QED BY <2>1, <2>2
<1>. QED BY <1>2, <1>6, <1>7, <1>8 DEF BookInv

-----------------------------------------------------------------------------
(* A mover begins: it is at its first await, and counts for nothing yet. *)
LEMMA BeginBook ==
  ASSUME BookInv, NEW m \in Movers, NEW x \in Running, job' = [job EXCEPT ![m] = x],
         job[m] = Idle, x.pc = 1, x.ok = TRUE, Reads,
         UNCHANGED <<now, overlaps>>, Undisturbed,
         x.op = "tick" => m \in Ticks /\ ~Processing /\ rows.active /\ x.next = rows.next
  PROVE  BookInv'
<1>1. MoversInv /\ CopiesInv /\ LimitInv /\ PayInv /\ rows \in Rows /\ overlaps \in Nat
  BY DEF BookInv, CopiesInv, MoversInv
<1>2. Stays(m) /\ job'[m] = x
  BY <1>1, Replaced
<1>3. /\ rows' = rows /\ UNCHANGED <<disk, saver, rollbacks>>
      /\ now' = now /\ Undisturbed /\ overlaps' = overlaps
  BY DEF Reads, dbVars, fileVars
<1>4. x.op = "tick" => \A k \in Movers : ~Paying(k)
  <2>1. \A k \in Movers : Paying(k) => k \in Ticks /\ job[k] # Idle
    BY <1>1, Places DEF MoversInv, Paying
  <2>. QED BY <2>1 DEF Processing
<1>5. MoversInv'
  <2>1. x.pc <= Len(Route[x.op])
    <3>1. Len(Route[x.op]) \in 1 .. 7
      BY RouteLengths DEF Running
    <3>2. \A n \in 1 .. 7 : 1 <= n
      OBVIOUS
    <3>. QED BY <3>1, <3>2
  <2>2. \A k \in Movers : job'[k].pc <= Len(Route[job'[k].op])
    BY <1>1, <1>2, <2>1 DEF Stays, MoversInv
  <2>3. \A k \in Movers : Paying(k)' => k \in Ticks /\ (~job'[k].ok => job'[k].pc >= 6)
    BY <1>1, <1>2 DEF Stays, MoversInv, Paying
  <2>4. \A k, l \in Movers : Paying(k)' /\ Paying(l)' => k = l
    BY <1>1, <1>2, <1>4 DEF Stays, MoversInv, Paying
  <2>. QED BY <1>1, <1>2, <1>3, <2>2, <2>3, <2>4 DEF MoversInv, Stays, Undisturbed
<1>6. ~Busy(m)' /\ ~Recorder(m)' /\ ~Counted(m)'
  BY <1>2, <1>5, BusyNext DEF BusyIsKnown, Recorder, Counted
<1>7. LimitInv'
  <2>1. Busies' \subseteq Busies /\ Recorders' \subseteq Recorders
    BY <1>2, <1>6, WorkMoves
  <2>2. Cardinality(Busies') <= overlaps' + 1
    BY <1>1, <1>3, <2>1, BusyBound
  <2>3. \A t \in 0 .. Horizon : rows'.received[t] <= rows.received[t]
    BY <1>1, <1>3, RowsNumbers
  <2>. QED BY <1>1, <1>3, <1>5, <2>1, <2>2, <2>3, LimitStays
<1>8. PayInv'
  <2>1. CASE x.op = "tick"
    BY <1>1, <1>2, <1>3, <1>4, <2>1, PayBegins
  <2>2. CASE x.op # "tick"
    <3>1. ~Paying(m)' /\ ~Counted(m)
      BY <1>2, <2>2 DEF Paying, Counted, Idle
    <3>2. \A k \in Movers : /\ Paying(k)' => Paying(k) /\ job'[k].next = job[k].next
                            /\ Counted(k)' <=> Counted(k)
      BY <1>2, <1>6, <3>1, OthersStay
    <3>. QED BY <1>1, <1>3, <3>2, PayStays DEF Undisturbed
  <2>. QED BY <2>1, <2>2
<1>9. CopiesInv'
  BY <1>1, <1>3, SameCopies, CopiesStay, GrowsBy DEF Undisturbed
<1>. QED BY <1>5, <1>7, <1>8, <1>9 DEF BookInv

LEMMA TickBook ==
  ASSUME BookInv, NEW m \in Ticks, Tick(m)
  PROVE  BookInv'
<1>1. m \in Movers /\ rows.next \in Nat /\ 1 \in 1 .. 7
  BY RowsFields DEF Movers, BookInv, CopiesInv
<1>. DEFINE x == [op |-> "tick", pc |-> 1, seen |-> 0, next |-> rows.next, ok |-> TRUE]
<1>2. x \in Running /\ x.pc = 1 /\ x.ok = TRUE /\ x.next = rows.next
  BY <1>1 DEF Running
<1>3. job' = [job EXCEPT ![m] = x]
  BY DEF Tick
<1>. HIDE DEF x
<1>. QED BY <1>1, <1>2, <1>3, BeginBook DEF Tick, JobOnly, Same, Due, Undisturbed, errorVars

LEMMA RequestBook ==
  ASSUME BookInv, NEW m \in Requests, NEW op \in Operations, Request(m, op)
  PROVE  BookInv'
<1>1. m \in Movers /\ 1 \in 1 .. 7
  BY DEF Movers
<1>. DEFINE x == [op |-> op, pc |-> 1, seen |-> 0, next |-> 0, ok |-> TRUE]
<1>2. x \in Running /\ x.pc = 1 /\ x.ok = TRUE /\ x.op # "tick"
  BY <1>1 DEF Running, Operations
<1>3. job' = [job EXCEPT ![m] = x]
  BY DEF Request
<1>. HIDE DEF x
<1>. QED BY <1>1, <1>2, <1>3, BeginBook DEF Request, Undisturbed, errorVars

(* The movers are left alone, and the rows are what they were. *)
LEMMA CalmBook ==
  ASSUME BookInv, UNCHANGED <<rows, job, now, overlaps>>, Undisturbed, Copying
  PROVE  BookInv'
<1>1. MoversInv /\ CopiesInv /\ LimitInv /\ PayInv /\ rows \in Rows
  BY DEF BookInv, CopiesInv
<1>2. MoversInv'
  BY <1>1 DEF MoversInv, Paying, Copying, Undisturbed
<1>3. LimitInv'
  BY <1>1 DEF LimitInv, LimitNearlyHolds, Busies, Busy, Recorders, Recorder
<1>4. PayInv'
  BY <1>1 DEF PayInv, Settled, Setbacks, Counting, Counted, Paying, Copying, Undisturbed
<1>5. CopiesInv'
  BY <1>1, CopiesStay, GrowsBy DEF Undisturbed
<1>. QED BY <1>2, <1>3, <1>4, <1>5 DEF BookInv

LEMMA ReloadNumbers ==
  ASSUME BookInv, Reloaded
  PROVE  /\ rows' \in Rows /\ rollbacks' \in Nat
         /\ \A t \in 0 .. Horizon : rows'.received[t] <= rows.received[t]
<1>1. disk \in Copies /\ rollbacks \in Nat
  BY DEF Copies, BookInv, MoversInv
<1>2. Copied(disk)
  BY <1>1 DEF BookInv, CopiesInv
<1>3. rollbacks' \in Nat
  BY <1>1 DEF Reloaded
<1>. QED BY <1>2, <1>3 DEF Copied, Reloaded

LEMMA ReloadBook ==
  ASSUME BookInv, Reloaded, UNCHANGED <<job, now, overlaps>>, Undisturbed
  PROVE  BookInv'
<1>1. MoversInv /\ CopiesInv /\ LimitInv /\ PayInv /\ rows \in Rows /\ overlaps \in Nat
  BY DEF BookInv, CopiesInv, MoversInv
<1>2. MoversInv'
  BY <1>1, ReloadNumbers DEF MoversInv, Paying, Undisturbed
<1>3. Busies' = Busies /\ Recorders' = Recorders
  BY DEF Busies, Busy, Recorders, Recorder
<1>4. LimitInv'
  BY <1>1, <1>2, <1>3, ReloadNumbers, BusyBound, LimitStays
<1>5. PayInv'
  BY <1>1, PayReloaded
<1>6. CopiesInv'
  BY <1>1, CopiesReload DEF Undisturbed
<1>. QED BY <1>2, <1>4, <1>5, <1>6 DEF BookInv

LEMMA AllIdle ==
  ASSUME \A m \in Movers : job'[m] = Idle, job' \in [Movers -> {Idle}],
         now' \in 0 .. Horizon, overlaps' \in Nat, restarts' \in Nat, rollbacks' \in Nat,
         stranded' \in Nat, unadvanced' \in Nat
  PROVE  /\ MoversInv' /\ Busies' = {} /\ Recorders' = {}
         /\ \A m \in Movers : ~Paying(m)'
<1>1. /\ Idle.op = "none" /\ Idle.pc = 1 /\ 1 <= Len(Route["none"])
  BY RouteIs DEF Idle
<1>2. \A m \in Movers : ~Paying(m)'
  BY <1>1 DEF Paying
<1>3. job' \in [Movers -> {Idle} \union Running]
  OBVIOUS
<1>4. \A m \in Movers : job'[m].pc <= Len(Route[job'[m].op])
  BY <1>1
<1>5. MoversInv'
  BY <1>2, <1>3, <1>4 DEF MoversInv
<1>6. \A m \in Movers : ~Busy(m)' /\ ~Recorder(m)'
  BY <1>1, <1>5, BusyNext DEF BusyIsKnown, Recorder
<1>. QED BY <1>2, <1>5, <1>6 DEF Busies, Recorders

LEMMA RestartBook ==
  ASSUME BookInv, Restart
  PROVE  BookInv'
<1>1. MoversInv /\ CopiesInv /\ LimitInv /\ PayInv /\ rows \in Rows
      /\ overlaps \in Nat /\ restarts \in Nat /\ now \in 0 .. Horizon
      /\ stranded \in Nat /\ unadvanced \in Nat
  BY DEF BookInv, CopiesInv, MoversInv
<1>2. /\ Reloaded /\ restarts' = restarts + 1 /\ now' = now /\ overlaps' = overlaps
      /\ stranded' = stranded /\ unadvanced' = unadvanced
  BY ReopenReloads DEF Restart, errorVars
<1>3. job' \in [Movers -> {Idle}] /\ \A m \in Movers : job'[m] = Idle
  BY DEF Restart
<1>4. /\ MoversInv' /\ Busies' = {} /\ Recorders' = {}
      /\ \A m \in Movers : ~Paying(m)'
  BY <1>1, <1>2, <1>3, ReloadNumbers, AllIdle
<1>5. LimitInv'
  <2>1. Busies' \subseteq Busies /\ Recorders' \subseteq Recorders
    BY <1>4
  <2>. QED BY <1>1, <1>2, <1>4, <2>1, ReloadNumbers, BusyBound, LimitStays
<1>6. PayInv'
  BY <1>1, <1>2, <1>4, PayRestarted
<1>7. CopiesInv'
  BY <1>1, <1>2, CopiesReload
<1>. QED BY <1>4, <1>5, <1>6, <1>7 DEF BookInv

(* A period ends when nobody is at work: what it received stays in bounds,   *)
(* and so is what the next has received.                                     *)
LEMMA ElapseBook ==
  ASSUME BookInv, Elapse
  PROVE  BookInv'
<1>1. MoversInv /\ CopiesInv /\ LimitInv /\ PayInv /\ rows \in Rows
      /\ overlaps \in Nat /\ restarts \in Nat /\ rollbacks \in Nat /\ now \in 0 .. Horizon
      /\ stranded \in Nat /\ unadvanced \in Nat
  BY DEF BookInv, CopiesInv, MoversInv
<1>2. /\ UNCHANGED <<rows, disk, saver, rollbacks, job, overlaps>> /\ Undisturbed
      /\ now' = now + 1 /\ now < Horizon /\ \A m \in Movers : job[m] = Idle
  BY DEF Elapse, Undisturbed, errorVars, dbVars, fileVars
<1>3. now' \in 0 .. Horizon
  BY <1>1, <1>2, AllowancesAssumption
<1>4. job' \in [Movers -> {Idle}]
  BY <1>1, <1>2 DEF MoversInv
<1>5. /\ MoversInv' /\ Busies' = {} /\ Recorders' = {}
      /\ \A m \in Movers : ~Paying(m)'
  BY <1>1, <1>2, <1>3, <1>4, AllIdle DEF Undisturbed
<1>6. LimitInv'
  <2>1. Cardinality(Busies') = 0 /\ Cardinality(Recorders') = 0
    BY <1>5, FS_EmptySet
  <2>2. rows.received[now'] \in Nat /\ rows.received[now'] <= Limit + overlaps
    BY <1>1, <1>3, RowsNumbers DEF LimitInv, LimitNearlyHolds
  <2>3. rows'.received[now'] + Cardinality(Recorders') <= Limit + overlaps'
    BY <1>2, <2>1, <2>2
  <2>4. Cardinality(Busies') <= overlaps' + 1
    BY <1>1, <1>2, <2>1
  <2>5. LimitNearlyHolds'
    BY <1>1, <1>2 DEF LimitInv, LimitNearlyHolds
  <2>. QED BY <2>3, <2>4, <2>5 DEF LimitInv
<1>7. PayInv'
  <2>1. \A k \in Movers : Paying(k)' => Paying(k) /\ job'[k].next = job[k].next
    BY <1>5
  <2>2. \A k \in Movers : Counted(k)' <=> Counted(k)
    BY <1>2 DEF Counted, Paying
  <2>. QED BY <1>1, <1>2, <2>1, <2>2, PayStays DEF Undisturbed
<1>8. CopiesInv'
  BY <1>1, <1>2, SameCopies, CopiesStay, GrowsBy DEF Undisturbed
<1>. QED BY <1>5, <1>6, <1>7, <1>8 DEF BookInv

LEMMA InitBook == Init => BookInv
<1> SUFFICES ASSUME Init PROVE BookInv
  OBVIOUS
<1>. DEFINE never == [t \in 0 .. Horizon |-> 0]
<1>1. never \in Tally /\ Funds \in Int /\ Limit \in Nat /\ Horizon \in Nat
  BY AllowancesAssumption DEF Tally
<1>2. /\ rows = [next |-> 0, active |-> TRUE, parent |-> Funds, member |-> 0, held |-> Funds,
                 received |-> never, redeemed |-> never, paid |-> 0, missed |-> 0]
      /\ disk = rows /\ rollbacks = 0 /\ Copies = {disk}
  BY DEF Init, DbInit, Blank, Copies, Asleep
<1>3. \A t \in 0 .. Horizon : never[t] = 0
  OBVIOUS
<1>. HIDE DEF never
<1>4. rows \in Rows /\ rows.next = 0 /\ Settled(rows) = 0 /\ rows.received = never
  BY <1>1, <1>2 DEF Rows, Settled
<1>5. /\ job \in [Movers -> {Idle}] /\ now = 0 /\ restarts = 0 /\ overlaps = 0
      /\ stranded = 0 /\ unadvanced = 0
      /\ \A m \in Movers : job[m] = Idle
  BY DEF Init
<1>6. Idle.op = "none" /\ Idle.pc = 1 /\ 1 <= Len(Route["none"])
  BY RouteIs DEF Idle
<1>7. \A m \in Movers : ~Paying(m) /\ job[m].pc <= Len(Route[job[m].op])
  BY <1>5, <1>6 DEF Paying
<1>8. MoversInv
  <2>1. job \in [Movers -> {Idle} \union Running]
    BY <1>5
  <2>2. 0 \in 0 .. Horizon
    BY <1>1
  <2>. QED BY <1>2, <1>5, <1>7, <2>1, <2>2 DEF MoversInv
<1>9. Busies = {} /\ Recorders = {}
  <2>1. \A m \in Movers : ~Busy(m) /\ ~Recorder(m)
    BY <1>5, <1>6, <1>8, BusyNow DEF BusyIsKnown, Recorder
  <2>. QED BY <2>1 DEF Busies, Recorders
<1>10. LimitInv
  <2>1. Cardinality(Busies) = 0 /\ Cardinality(Recorders) = 0
    BY <1>9, FS_EmptySet
  <2>2. \A t \in 0 .. Horizon : rows.received[t] = 0
    BY <1>3, <1>4
  <2>3. 0 \in 0 .. Horizon
    BY <1>1
  <2>. QED BY <1>1, <1>5, <2>1, <2>2, <2>3 DEF LimitInv, LimitNearlyHolds
<1>11. Setbacks = 0 /\ Counting = 0
  BY <1>2, <1>5, <1>7 DEF Setbacks, Counting, Counted
<1>12. PayInv
  BY <1>4, <1>7, <1>11 DEF PayInv
<1>13. CopiesInv
  <2>1. \A t \in 0 .. Horizon : disk.received[t] <= rows.received[t]
    BY <1>2, <1>3, <1>4
  <2>. QED BY <1>2, <1>4, <1>11, <2>1 DEF CopiesInv, Copied
<1>. QED BY <1>8, <1>10, <1>12, <1>13 DEF BookInv

LEMMA NextBook == FileInv /\ BookInv /\ [Next]_vars => BookInv'
<1> SUFFICES ASSUME FileInv, BookInv, [Next]_vars PROVE BookInv'
  OBVIOUS
<1>1. ASSUME NEW s \in Savers, SaveStep(s), UNCHANGED moverVars PROVE BookInv'
  BY <1>1, SaveCopies, CalmBook, ReloadBook DEF moverVars, Undisturbed, errorVars
<1>2. CASE OtherChange /\ UNCHANGED moverVars
  BY <1>2, ChangeCopies, CalmBook DEF OtherChange, moverVars, Undisturbed, errorVars
<1>3. CASE SyncFromDisk /\ UNCHANGED moverVars
  BY <1>3, SyncReloads, ReloadBook DEF moverVars, Undisturbed, errorVars
<1>4. CASE ExternalWrite /\ UNCHANGED moverVars
  BY <1>4, SameCopies, CalmBook DEF ExternalWrite, moverVars, Undisturbed, errorVars
<1>5. CASE UNCHANGED vars
  BY <1>5, SameCopies, CalmBook DEF vars, moverVars, dbVars, fileVars, Undisturbed, errorVars
<1>6. ASSUME NEW m \in Working, Step(m) PROVE BookInv'
  BY <1>6, StepIs, StepBook, ErrorBook
<1>. QED BY <1>1, <1>2, <1>3, <1>4, <1>5, <1>6, TickBook, RequestBook, ElapseBook, RestartBook DEF Next

LEMMA BookInvariant == Spec => []BookInv
BY InitFileInv, InitBook, NextKeepsInv, NextBook, PTL DEF Spec

(* In every period the member has received on record at most the limit and   *)
(* one more for each overlap of two at work, however many handlers and runs  *)
(* of the scheduler there are (checkLimit, _setPosition).                    *)
THEOREM LimitHolds == Spec => []LimitNearlyHolds
<1>1. BookInv => LimitNearlyHolds
  BY DEF BookInv, LimitInv
<1>. QED BY <1>1, BookInvariant, PTL

(* The allowance is paid once for each period it is advanced over, but for   *)
(* setbacks, errors before the advance among them, and the payment under     *)
(* way: the scheduler's flag keeps its runs apart, and what is read back is  *)
(* never ahead of what was paid (processDueAllowances).                      *)
THEOREM PaymentsArePaidOnce == Spec => []PaidOncePerPeriod
<1>1. BookInv => PaidOncePerPeriod
  <2> SUFFICES ASSUME BookInv, rows.active PROVE PaidOncePerPeriod
    BY DEF PaidOncePerPeriod
  <2>. DEFINE underWay == {m \in Ticks : Executed(m)}
  <2>1. MoversInv /\ PayInv /\ rows \in Rows
    BY DEF BookInv, CopiesInv
  <2>2. underWay \in SUBSET Movers
    BY DEF Movers
  <2>3. Cardinality(underWay) \in Nat
    BY <2>2, MoversCount
  <2>4. Counting <= Cardinality(underWay)
    <3>1. CASE \E m \in Movers : Counted(m)
      <4>1. PICK m \in Movers : Counted(m)
        BY <3>1
      <4>2. m \in underWay
        BY <2>1, <4>1, CountedIsExecuted DEF MoversInv, Counted
      <4>3. Cardinality({m}) <= Cardinality(underWay)
        BY <2>2, <4>2, MoversCount
      <4>. QED BY <3>1, <4>3, FS_Singleton DEF Counting
    <3>2. CASE ~\E m \in Movers : Counted(m)
      BY <2>3, <3>2 DEF Counting
    <3>. QED BY <3>1, <3>2
  <2>5. /\ Settled(rows) \in Nat /\ rows.next \in Nat /\ Setbacks \in Nat /\ Counting \in 0 .. 1
    BY <2>1, BookTypes, RowsNumbers
  <2>6. /\ Settled(rows) <= rows.next + Setbacks + Counting
        /\ rollbacks = 0 => rows.next <= Settled(rows)
    BY <2>1 DEF PayInv
  <2>. HIDE DEF underWay
  <2>7. Settled(rows) <= rows.next + Setbacks + Cardinality(underWay)
    BY <2>3, <2>4, <2>5, <2>6
  <2>. QED BY <2>6, <2>7 DEF PaidOncePerPeriod, Settled, underWay
<1>. QED BY <1>1, BookInvariant, PTL

-----------------------------------------------------------------------------
(* The positions.  What a mover has read of one is its view of it: it writes *)
(* the view back lowered or raised, whatever the others have written since.  *)

Payers == {"tick", "one_time", "transfer"}

(* Who holds a view of the parent or of the member, to lower or to raise it. *)
Spender(m) ==
  \/ job[m].op \in {"tick", "one_time"} /\ job[m].pc = 3
  \/ job[m].op = "transfer" /\ job[m].pc \in 2 .. 3
Depositor(m) == job[m].op = "deposit" /\ job[m].pc = 2
Redeemer(m) == job[m].op = "redeem" /\ job[m].pc = 2
Creditor(m) == job[m].op \in Payers /\ job[m].pc = 5

(* Who will yet lower a position, or raise one; and between the two. *)
Lowers(m) == (job[m].op \in Payers /\ job[m].pc \in 2 .. 3) \/ Redeemer(m)
Raises(m) == (job[m].op \in Payers /\ job[m].pc \in 2 .. 5) \/ Depositor(m)
Crosses(m) == job[m].op \in Payers /\ job[m].pc \in 4 .. 5

Lowering == {m \in Movers : Lowers(m)}
Raising == {m \in Movers : Raises(m)}
Crossing == {m \in Movers : Crosses(m)}

LoweredParents == {rows.parent} \union {job[m].seen : m \in {o \in Movers : Spender(o)}}
RaisedParents == {rows.parent} \union {job[m].seen : m \in {o \in Movers : Depositor(o)}}
LoweredMembers == {rows.member} \union {job[m].seen : m \in {o \in Movers : Redeemer(o)}}
RaisedMembers == {rows.member} \union {job[m].seen : m \in {o \in Movers : Creditor(o)}}
Parents == LoweredParents \union RaisedParents
Members == LoweredMembers \union RaisedMembers

(* Nobody is at work, or somebody not of these. *)
NotOnly(these) == Busies = {} \/ \E m \in Busies : m \notin these

(* What any two views may add up to: each that will yet lower (or raise) one *)
(* is one unit from the bound, but for the last of them; and those that      *)
(* raise do so from views that are no worse than the positions.              *)
Ceiling ==
  rows.held + overlaps + restarts - Cardinality(Crossing) - Cardinality(Lowering)
Floor ==
  rows.held - overlaps - restarts - stranded - Cardinality(Crossing) + Cardinality(Raising)

HighInv ==
  /\ \A x \in Parents, y \in Members : x + y <= Ceiling + 1
  /\ NotOnly(Lowering) =>
       \A x \in RaisedParents, y \in RaisedMembers : x + y <= Ceiling
LowInv ==
  /\ \A x \in Parents, y \in Members : Floor - 1 <= x + y
  /\ NotOnly(Raising) =>
       \A x \in LoweredParents, y \in LoweredMembers : Floor <= x + y

AddUpInv == rollbacks = 0 => HighInv /\ LowInv

LEMMA ViewNumbers ==
  ASSUME MoversInv, rows \in Rows
  PROVE  /\ rows.parent \in Int /\ rows.member \in Int /\ rows.held \in Int
         /\ overlaps \in Nat /\ restarts \in Nat /\ stranded \in Nat
         /\ Cardinality(Busies) \in Nat /\ Cardinality(Crossing) \in Nat
         /\ Cardinality(Lowering) \in Nat /\ Cardinality(Raising) \in Nat
         /\ Ceiling \in Int /\ Floor \in Int
         /\ Parents \subseteq Int /\ Members \subseteq Int
<1>1. /\ rows.parent \in Int /\ rows.member \in Int /\ rows.held \in Int
      /\ overlaps \in Nat /\ restarts \in Nat /\ stranded \in Nat
  BY RowsFields DEF MoversInv
<1>2. /\ Cardinality(Busies) \in Nat /\ Cardinality(Crossing) \in Nat
      /\ Cardinality(Lowering) \in Nat /\ Cardinality(Raising) \in Nat
  BY MoversCount DEF Busies, Crossing, Lowering, Raising
<1>3. Ceiling \in Int /\ Floor \in Int
  BY <1>1, <1>2 DEF Ceiling, Floor
<1>4. ASSUME NEW m \in Movers, Spender(m) \/ Depositor(m) \/ Redeemer(m) \/ Creditor(m)
      PROVE  job[m].seen \in Int
  <2>1. job[m] \in Running
    BY <1>4, Places DEF Spender, Depositor, Redeemer, Creditor, Payers
  <2>. QED BY <2>1 DEF Running
<1>5. Parents \subseteq Int
  BY <1>1, <1>4 DEF Parents, LoweredParents, RaisedParents
<1>6. Members \subseteq Int
  BY <1>1, <1>4 DEF Members, LoweredMembers, RaisedMembers
<1>. QED BY <1>1, <1>2, <1>3, <1>5, <1>6

ViewsAreNumbers ==
  MoversInv /\ rows \in Rows =>
    /\ rows.parent \in Int /\ rows.member \in Int
    /\ Ceiling \in Int /\ Floor \in Int
    /\ Parents \subseteq Int /\ Members \subseteq Int

LEMMA ViewsNow == ViewsAreNumbers
BY ViewNumbers DEF ViewsAreNumbers

LEMMA ViewsNext == ViewsAreNumbers'
BY ViewsNow, PTL

(* What holds at once: the positions and what is on its way add up. *)
LEMMA AddUpSuffices ==
  ASSUME MoversInv, rows \in Rows, AddUpInv
  PROVE  PositionsAddUp
<1> SUFFICES ASSUME rollbacks = 0 PROVE PositionsAddUp
  BY DEF PositionsAddUp
<1>1. {m \in Movers : InTransit(m)} = Crossing
  <2>1. ASSUME NEW m \in Movers PROVE InTransit(m) <=> Crosses(m)
    <3>1. job[m] = Idle \/ job[m] \in Running
      BY DEF MoversInv
    <3>2. job[m].pc \in 1 .. 7
      BY <3>1 DEF Idle, Running
    <3>. QED BY <3>2, Places DEF InTransit, Crosses, Payers, Place
  <2>. QED BY <2>1 DEF Crossing
<1>2. rows.parent \in LoweredParents \cap RaisedParents /\ rows.member \in LoweredMembers \cap RaisedMembers
  BY DEF LoweredParents, RaisedParents, LoweredMembers, RaisedMembers
<1>3. rows.parent \in Parents /\ rows.member \in Members
  BY <1>2 DEF Parents, Members
<1>4. /\ rows.parent \in Int /\ rows.member \in Int /\ rows.held \in Int /\ stranded \in Nat
      /\ overlaps \in Nat /\ restarts \in Nat /\ Cardinality(Crossing) \in Nat
      /\ Cardinality(Lowering) \in Nat /\ Cardinality(Raising) \in Nat
  BY ViewNumbers
<1>5. ASSUME NEW S \in SUBSET Movers, Cardinality(S) = 0 PROVE NotOnly(S)
  <2>1. S = {}
    BY <1>5, MoversCount, FS_EmptySet
  <2>. QED BY <2>1 DEF NotOnly
<1>6. rows.parent + rows.member + Cardinality(Crossing) <= rows.held + (overlaps + restarts)
  <2>1. CASE Cardinality(Lowering) = 0
    <3>1. rows.parent + rows.member <= Ceiling
      BY <1>2, <1>5, <2>1 DEF AddUpInv, HighInv, Lowering
    <3>. QED BY <1>4, <2>1, <3>1 DEF Ceiling
  <2>2. CASE Cardinality(Lowering) # 0
    <3>1. rows.parent + rows.member <= Ceiling + 1
      BY <1>3 DEF AddUpInv, HighInv
    <3>. QED BY <1>4, <2>2, <3>1 DEF Ceiling
  <2>. QED BY <2>1, <2>2
<1>7. rows.held <= rows.parent + rows.member + Cardinality(Crossing) + (overlaps + restarts) + stranded
  <2>1. CASE Cardinality(Raising) = 0
    <3>1. Floor <= rows.parent + rows.member
      BY <1>2, <1>5, <2>1 DEF AddUpInv, LowInv, Raising
    <3>. QED BY <1>4, <2>1, <3>1 DEF Floor
  <2>2. CASE Cardinality(Raising) # 0
    <3>1. Floor - 1 <= rows.parent + rows.member
      BY <1>3 DEF AddUpInv, LowInv
    <3>. QED BY <1>4, <2>2, <3>1 DEF Floor
  <2>. QED BY <2>1, <2>2
<1>. QED BY <1>1, <1>6, <1>7 DEF PositionsAddUp

-----------------------------------------------------------------------------
(* What a step does to the views. *)

LEMMA GoOnSees ==
  ASSUME MoversInv, NEW m \in Movers, job[m] \in Running, NEW seen, GoOn(m, seen),
         job[m].pc # Len(Route[job[m].op])
  PROVE  job'[m].seen = seen /\ job'[m].pc = job[m].pc + 1 /\ job'[m].op = job[m].op
BY DEF GoOn, MoversInv, Running

(* The last await of each handler. *)
LEMMA Lasts ==
  ASSUME NEW m \in Movers
  PROVE  /\ job[m].op = "tick" => Len(Route[job[m].op]) = 7
         /\ job[m].op \in {"one_time", "transfer"} => Len(Route[job[m].op]) = 6
         /\ job[m].op = "redeem" => Len(Route[job[m].op]) = 3
         /\ job[m].op \in {"deposit", "cancel"} => Len(Route[job[m].op]) = 2
<1>1. job[m].op = "tick" => Len(Route[job[m].op]) = 7
  BY RouteIs
<1>2. job[m].op = "one_time" => Len(Route[job[m].op]) = 6
  BY RouteIs
<1>3. job[m].op = "transfer" => Len(Route[job[m].op]) = 6
  BY RouteIs
<1>4. job[m].op = "redeem" => Len(Route[job[m].op]) = 3
  BY RouteIs
<1>5. job[m].op = "deposit" => Len(Route[job[m].op]) = 2
  BY RouteIs
<1>6. job[m].op = "cancel" => Len(Route[job[m].op]) = 2
  BY RouteIs
<1>. QED BY <1>1, <1>2, <1>3, <1>4, <1>5, <1>6

LEMMA Lasting ==
  ASSUME NEW m \in Movers,
         \/ job[m].op \in Payers /\ job[m].pc \in 1 .. 5
         \/ job[m].op = "redeem" /\ job[m].pc \in 1 .. 2
         \/ job[m].op \in {"deposit", "cancel"} /\ job[m].pc = 1
  PROVE  job[m].pc # Len(Route[job[m].op])
<1>. DEFINE last == Len(Route[job[m].op])
<1>1. /\ job[m].op = "tick" => last = 7
      /\ job[m].op \in {"one_time", "transfer"} => last = 6
      /\ job[m].op = "redeem" => last = 3
      /\ job[m].op \in {"deposit", "cancel"} => last = 2
  BY Lasts
<1>. HIDE DEF last
<1>2. job[m].pc # last
  BY <1>1 DEF Payers
<1>. QED BY <1>2 DEF last

(* A mover that does not write a position: it takes a view, if any, of the   *)
(* position as it is, or keeps the one it has.  It counts as at work from    *)
(* its first read, and is then noted beside the others.                      *)
LEMMA PlainMoves ==
  ASSUME MoversInv, MoversInv', rows \in Rows, NEW m \in Movers, Works(m), ~Debit(m), ~Credit(m)
  PROVE  /\ Stays(m)
         /\ Spender(m)' => \/ job'[m].seen = rows.parent
                           \/ Spender(m) /\ job'[m].seen = job[m].seen
         /\ Depositor(m)' => job'[m].seen = rows.parent
         /\ Redeemer(m)' \/ Creditor(m)' => job'[m].seen = rows.member
         /\ Crosses(m)' <=> Crosses(m)
         /\ \/ /\ Busy(m)' => Busy(m)
               /\ Lowers(m)' => Lowers(m)
               /\ Raises(m)' => Raises(m)
               /\ Lowers(m) /\ ~Busy(m)' => ~Lowers(m)'
               /\ overlaps' = overlaps
            \/ /\ ~Busy(m) /\ Busy(m)' /\ overlaps' = overlaps + Cardinality(Busies)
<1>1. job[m] \in Running /\ Stays(m) /\ job[m].pc \in 1 .. 7
  BY StepGoes DEF Ends, Advances, Fails, Keeps, Running
<1>2. ASSUME Ends(m), overlaps' = overlaps, ~Crosses(m)
      PROVE  /\ ~Spender(m)' /\ ~Depositor(m)' /\ ~Redeemer(m)' /\ ~Creditor(m)'
             /\ ~Crosses(m)' /\ ~Lowers(m)' /\ ~Raises(m)' /\ ~Busy(m)'
  <2>1. job'[m] = Idle
    BY <1>2 DEF Ends
  <2>. QED BY <2>1, BusyNext
       DEF BusyIsKnown, Idle, Spender, Depositor, Redeemer, Creditor, Crosses, Lowers, Raises, Payers
<1>3. End(m) => Ends(m)
  BY EndEnds
<1>4. {o \in Movers \ {m} : Busy(o)} = IF Busy(m) THEN Busies \ {m} ELSE Busies
  BY DEF Busies
<1>6. CASE CheckLimit(m)
  <2>1. Place(m, "tick", 1) \/ Place(m, "one_time", 1) \/ Place(m, "transfer", 2)
    BY <1>6, Places DEF CheckLimit
  <2>2. CASE End(m) /\ UNCHANGED overlaps
    BY <1>1, <1>2, <1>3, <2>1, <2>2 DEF Place, Crosses, Payers
  <2>3. CASE GoOn(m, job[m].seen) /\ Starts(m)
    <3>1. job'[m].seen = job[m].seen /\ job'[m].pc = job[m].pc + 1 /\ job'[m].op = job[m].op
      <4>1. job[m].pc # Len(Route[job[m].op])
        BY <2>1, Lasting DEF Place, Payers
      <4>. QED BY <1>1, <2>3, <4>1, GoOnSees
    <3>2. CASE Place(m, "transfer", 2)
      BY <1>1, <2>3, <3>1, <3>2, BusyNow, BusyNext
      DEF BusyIsKnown, Place, Starts, Spender, Depositor, Redeemer, Creditor, Crosses, Lowers,
          Raises, Payers
    <3>3. CASE Place(m, "tick", 1) \/ Place(m, "one_time", 1)
      <4>1. job[m].pc = 1 /\ ~Busy(m) /\ Busy(m)'
        BY <3>1, <3>3, BusyNow, BusyNext DEF BusyIsKnown, Place
      <4>2. overlaps' = overlaps + Cardinality(Busies)
        BY <1>4, <2>3, <4>1 DEF Starts
      <4>. QED BY <1>1, <3>1, <3>3, <4>1, <4>2
           DEF Place, Spender, Depositor, Redeemer, Creditor, Crosses, Payers
    <3>. QED BY <2>1, <3>2, <3>3
  <2>. QED BY <1>6, <2>2, <2>3 DEF CheckLimit
<1>7. CASE ReadFrom(m)
  <2>1. \/ Place(m, "tick", 2) \/ Place(m, "one_time", 2) \/ Place(m, "transfer", 1)
        \/ Place(m, "redeem", 1) \/ Place(m, "deposit", 1)
    BY <1>7, Places DEF ReadFrom
  <2>2. CASE End(m) /\ UNCHANGED overlaps
    BY <1>1, <1>2, <1>3, <2>1, <2>2 DEF Place, Crosses, Payers
  <2>3. CASE /\ job' = [job EXCEPT ![m].pc = 6, ![m].ok = FALSE]
             /\ Does(m, {"tick", "one_time"}) /\ UNCHANGED overlaps
    <3>1. job'[m].pc = 6 /\ job'[m].op = job[m].op
      BY <1>1, <2>3 DEF MoversInv, Running
    <3>2. Place(m, "tick", 2) \/ Place(m, "one_time", 2)
      BY <2>1, <2>3 DEF Does, Place
    <3>. QED BY <1>1, <2>3, <3>1, <3>2, BusyNow
         DEF BusyIsKnown, Place, Spender, Depositor, Redeemer, Creditor, Crosses, Lowers, Raises, Payers
  <2>4. ASSUME NEW balance, GoOn(m, balance), Starts(m),
               balance = IF Does(m, {"redeem"}) THEN rows.member ELSE rows.parent
        PROVE  /\ Spender(m)' \/ Depositor(m)' => job'[m].seen = rows.parent
               /\ Redeemer(m)' => job'[m].seen = rows.member
               /\ ~Crosses(m) /\ ~Crosses(m)' /\ ~Creditor(m)'
               /\ \/ /\ Busy(m) /\ Busy(m)' /\ overlaps' = overlaps
                     /\ Lowers(m) /\ Raises(m)
                  \/ /\ ~Busy(m) /\ Busy(m)' /\ overlaps' = overlaps + Cardinality(Busies)
    <3>1. job'[m].seen = balance /\ job'[m].pc = job[m].pc + 1 /\ job'[m].op = job[m].op
      <4>1. job[m].pc # Len(Route[job[m].op])
        BY <2>1, Lasting DEF Place, Payers
      <4>. QED BY <1>1, <2>4, <4>1, GoOnSees
    <3>2. CASE Place(m, "tick", 2) \/ Place(m, "one_time", 2)
      BY <1>1, <2>4, <3>1, <3>2, BusyNow, BusyNext
      DEF BusyIsKnown, Place, Starts, Does, Spender, Depositor, Redeemer, Creditor, Crosses, Lowers,
          Raises, Payers
    <3>3. CASE Place(m, "transfer", 1) \/ Place(m, "redeem", 1) \/ Place(m, "deposit", 1)
      <4>1. job[m].pc = 1 /\ ~Busy(m) /\ Busy(m)'
        BY <3>1, <3>3, BusyNow, BusyNext DEF BusyIsKnown, Place
      <4>2. overlaps' = overlaps + Cardinality(Busies)
        BY <1>4, <2>4, <4>1 DEF Starts
      <4>. QED BY <1>1, <2>4, <3>1, <3>3, <4>1, <4>2
           DEF Place, Does, Spender, Depositor, Redeemer, Creditor, Crosses, Payers
    <3>. QED BY <2>1, <3>2, <3>3
  <2>. QED BY <1>1, <1>7, <2>2, <2>3, <2>4 DEF ReadFrom, Pending
<1>8. CASE ReadTo(m)
  <2>1. Place(m, "tick", 4) \/ Place(m, "one_time", 4) \/ Place(m, "transfer", 4)
    BY <1>8, Places DEF ReadTo
  <2>2. job[m].pc # Len(Route[job[m].op])
    BY <2>1, Lasting DEF Place, Payers
  <2>3. job'[m].seen = rows.member /\ job'[m].pc = job[m].pc + 1 /\ job'[m].op = job[m].op
    BY <1>1, <1>8, <2>2, GoOnSees DEF ReadTo
  <2>. QED BY <1>1, <1>8, <2>1, <2>3, BusyNow
       DEF ReadTo, JobOnly, BusyIsKnown, Place, Spender, Depositor, Redeemer, Creditor, Crosses, Lowers,
           Raises, Payers
<1>9. CASE Record(m) \/ Advance(m) \/ Cancel(m)
  <2>1. \/ Place(m, "tick", 6) \/ Place(m, "one_time", 6) \/ Place(m, "transfer", 6)
        \/ Place(m, "redeem", 3) \/ Place(m, "tick", 7) \/ Place(m, "cancel", 2)
    BY <1>9, Places DEF Record, Advance, Cancel
  <2>2. GoOn(m, 0) /\ overlaps' = overlaps
    BY <1>9 DEF Record, Advance, Cancel, Write, JobOnly
  <2>3. CASE job[m].pc = Len(Route[job[m].op])
    <3>1. Ends(m)
      BY <1>3, <2>2, <2>3 DEF GoOn
    <3>2. ~Crosses(m)
      BY <2>1 DEF Place, Crosses, Payers
    <3>. QED BY <1>1, <1>2, <2>2, <3>1, <3>2
  <2>4. CASE job[m].pc # Len(Route[job[m].op])
    <3>1. job'[m].pc = job[m].pc + 1 /\ job'[m].op = job[m].op
      BY <1>1, <2>2, <2>4, GoOnSees
    <3>2. Place(m, "tick", 6)
      <4>. DEFINE last == Len(Route[job[m].op])
      <4>1. /\ job[m].op = "tick" => last = 7
            /\ job[m].op \in {"one_time", "transfer"} => last = 6
            /\ job[m].op = "redeem" => last = 3
            /\ job[m].op \in {"deposit", "cancel"} => last = 2
        BY Lasts
      <4>2. job[m].pc # last
        BY <2>4
      <4>. HIDE DEF last
      <4>. QED BY <2>1, <4>1, <4>2 DEF Place
    <3>. QED BY <1>1, <2>2, <3>1, <3>2, BusyNow
         DEF BusyIsKnown, Place, Spender, Depositor, Redeemer, Creditor, Crosses, Lowers, Raises, Payers
  <2>. QED BY <2>3, <2>4
<1>10. CASE FindAllowance(m)
  <2>1. job[m].op = "cancel" /\ overlaps' = overlaps
    BY <1>10, Places DEF FindAllowance, Place, JobOnly
  <2>2. CASE End(m)
    BY <1>1, <1>2, <1>3, <2>1, <2>2 DEF Crosses, Payers
  <2>3. CASE job'[m].op = "cancel"
    BY <1>1, <2>1, <2>3, BusyNext
    DEF BusyIsKnown, Spender, Depositor, Redeemer, Creditor, Crosses, Lowers, Raises, Payers
  <2>4. job' = [job EXCEPT ![m].pc = 2, ![m].next = rows.next] => job'[m].op = "cancel"
    BY <1>1, <2>1 DEF MoversInv, Running
  <2>. QED BY <1>10, <2>2, <2>3, <2>4 DEF FindAllowance
<1>. QED BY <1>6, <1>7, <1>8, <1>9, <1>10 DEF Works
(* The views after a step are of the new positions, the mover's own, and     *)
(* those of the others.                                                      *)
LEMMA ViewsMove ==
  ASSUME NEW m \in Movers, Stays(m)
  PROVE  /\ \A x \in LoweredParents' :
              \/ x = rows'.parent \/ (Spender(m)' /\ x = job'[m].seen)
              \/ \E o \in Movers \ {m} : Spender(o) /\ x = job[o].seen
         /\ \A x \in RaisedParents' :
              \/ x = rows'.parent \/ (Depositor(m)' /\ x = job'[m].seen)
              \/ \E o \in Movers \ {m} : Depositor(o) /\ x = job[o].seen
         /\ \A y \in LoweredMembers' :
              \/ y = rows'.member \/ (Redeemer(m)' /\ y = job'[m].seen)
              \/ \E o \in Movers \ {m} : Redeemer(o) /\ y = job[o].seen
         /\ \A y \in RaisedMembers' :
              \/ y = rows'.member \/ (Creditor(m)' /\ y = job'[m].seen)
              \/ \E o \in Movers \ {m} : Creditor(o) /\ y = job[o].seen
<1>1. \A o \in Movers \ {m} : /\ job'[o] = job[o]
                              /\ Spender(o)' => Spender(o)
                              /\ Depositor(o)' => Depositor(o)
                              /\ Redeemer(o)' => Redeemer(o)
                              /\ Creditor(o)' => Creditor(o)
  BY DEF Stays, Spender, Depositor, Redeemer, Creditor
<1>2. \A x \in LoweredParents' : x = rows'.parent \/ \E o \in Movers : Spender(o)' /\ x = job'[o].seen
  BY DEF LoweredParents
<1>3. \A x \in RaisedParents' : x = rows'.parent \/ \E o \in Movers : Depositor(o)' /\ x = job'[o].seen
  BY DEF RaisedParents
<1>4. \A y \in LoweredMembers' : y = rows'.member \/ \E o \in Movers : Redeemer(o)' /\ y = job'[o].seen
  BY DEF LoweredMembers
<1>5. \A y \in RaisedMembers' : y = rows'.member \/ \E o \in Movers : Creditor(o)' /\ y = job'[o].seen
  BY DEF RaisedMembers
<1>6. \A x \in LoweredParents' :
        \/ x = rows'.parent \/ (Spender(m)' /\ x = job'[m].seen)
        \/ \E o \in Movers \ {m} : Spender(o) /\ x = job[o].seen
  BY <1>1, <1>2
<1>7. \A x \in RaisedParents' :
        \/ x = rows'.parent \/ (Depositor(m)' /\ x = job'[m].seen)
        \/ \E o \in Movers \ {m} : Depositor(o) /\ x = job[o].seen
  BY <1>1, <1>3
<1>8. \A y \in LoweredMembers' :
        \/ y = rows'.member \/ (Redeemer(m)' /\ y = job'[m].seen)
        \/ \E o \in Movers \ {m} : Redeemer(o) /\ y = job[o].seen
  BY <1>1, <1>4
<1>9. \A y \in RaisedMembers' :
        \/ y = rows'.member \/ (Creditor(m)' /\ y = job'[m].seen)
        \/ \E o \in Movers \ {m} : Creditor(o) /\ y = job[o].seen
  BY <1>1, <1>5
<1>. QED BY <1>6, <1>7, <1>8, <1>9

(* Whose views they are. *)
ViewsAreHeld ==
  /\ rows.parent \in LoweredParents /\ rows.parent \in RaisedParents
  /\ rows.member \in LoweredMembers /\ rows.member \in RaisedMembers
  /\ \A o \in Movers : /\ Spender(o) => job[o].seen \in LoweredParents
                       /\ Depositor(o) => job[o].seen \in RaisedParents
                       /\ Redeemer(o) => job[o].seen \in LoweredMembers
                       /\ Creditor(o) => job[o].seen \in RaisedMembers
  /\ LoweredParents \subseteq Parents /\ RaisedParents \subseteq Parents
  /\ LoweredMembers \subseteq Members /\ RaisedMembers \subseteq Members
  /\ \A x \in Parents : x \in LoweredParents \/ x \in RaisedParents
  /\ \A y \in Members : y \in LoweredMembers \/ y \in RaisedMembers

LEMMA Viewed == ViewsAreHeld
BY DEF ViewsAreHeld, LoweredParents, RaisedParents, LoweredMembers, RaisedMembers, Parents, Members

LEMMA ViewedNext == ViewsAreHeld'
BY Viewed, PTL

(* Who holds a view, or will write one, is at work. *)
MoversWork ==
  MoversInv =>
    /\ Lowering \subseteq Busies /\ Raising \subseteq Busies
    /\ Busies = {} => Parents = {rows.parent} /\ Members = {rows.member}

LEMMA WorkNow == MoversWork
<1> SUFFICES ASSUME MoversInv PROVE MoversWork
  BY DEF MoversWork
<1>1. \A m \in Movers :
        Lowers(m) \/ Raises(m) \/ Spender(m) \/ Depositor(m) \/ Redeemer(m) \/ Creditor(m) => Busy(m)
  BY BusyNow DEF BusyIsKnown, Lowers, Raises, Spender, Depositor, Redeemer, Creditor, Payers
<1>2. Lowering \subseteq Busies /\ Raising \subseteq Busies
  BY <1>1 DEF Lowering, Raising, Busies
<1>3. Busies = {} => Parents = {rows.parent} /\ Members = {rows.member}
  BY <1>1 DEF Busies, Parents, Members, LoweredParents, RaisedParents, LoweredMembers, RaisedMembers
<1>. QED BY <1>2, <1>3 DEF MoversWork

LEMMA WorkNext == MoversWork'
BY WorkNow, PTL
-----------------------------------------------------------------------------
(* Steps that write no position: the views are no more than before. *)

FewerViews ==
  /\ LoweredParents' \subseteq LoweredParents /\ RaisedParents' \subseteq RaisedParents
  /\ LoweredMembers' \subseteq LoweredMembers /\ RaisedMembers' \subseteq RaisedMembers
SameHeld ==
  /\ rows'.held = rows.held /\ Crossing' = Crossing
  /\ restarts' = restarts /\ stranded' = stranded

LEMMA FewerAtAll ==
  ASSUME FewerViews
  PROVE  Parents' \subseteq Parents /\ Members' \subseteq Members
BY DEF FewerViews, Parents, Members

LEMMA Slack ==
  /\ \A a, b \in Int : a <= b => a <= b + 1 /\ a - 1 <= b
  /\ \A a, b, c \in Int : a <= b + 1 /\ b <= c => a <= c + 1
OBVIOUS

(* Nothing is begun: either the same ones will yet write, or fewer. *)
LEMMA QuietCount ==
  ASSUME NEW S \in SUBSET Movers, NEW T \in SUBSET Movers, T \subseteq S
  PROVE  T = S \/ Cardinality(T) + 1 <= Cardinality(S)
<1> SUFFICES ASSUME NEW o \in S, o \notin T PROVE Cardinality(T) + 1 <= Cardinality(S)
  OBVIOUS
<1>1. T \subseteq S \ {o} /\ S \ {o} \in SUBSET Movers
  OBVIOUS
<1>2. /\ Cardinality(T) <= Cardinality(S \ {o}) /\ Cardinality(S \ {o}) + 1 = Cardinality(S)
      /\ Cardinality(T) \in Nat /\ Cardinality(S \ {o}) \in Nat /\ Cardinality(S) \in Nat
  BY <1>1, MoversCount, MoversCountOne
<1>. QED BY <1>2

(* The bound is a unit wider, and the views are no more.                     *)
LEMMA HighLoosens ==
  ASSUME MoversInv, MoversInv', rows \in Rows, rows' \in Rows, HighInv, FewerViews,
         Ceiling + 1 <= Ceiling'
  PROVE  HighInv'
<1>1. /\ Ceiling \in Int /\ Ceiling' \in Int
      /\ Parents \subseteq Int /\ Members \subseteq Int
  BY ViewsNow, ViewsNext DEF ViewsAreNumbers
<1>0. Ceiling \in Int /\ Ceiling' \in Int
  BY <1>1
<1>2. Parents' \subseteq Parents /\ Members' \subseteq Members
  BY FewerAtAll
<1>3. \A x \in Parents', y \in Members' : x + y <= Ceiling'
  <2> SUFFICES ASSUME NEW x \in Parents', NEW y \in Members' PROVE x + y <= Ceiling'
    OBVIOUS
  <2>1. x + y <= Ceiling + 1 /\ x \in Int /\ y \in Int
    BY <1>1, <1>2 DEF HighInv
  <2>2. Ceiling + 1 <= Ceiling'
    OBVIOUS
  <2>. QED BY ONLY <1>0, <2>1, <2>2
<1>4. \A x \in Parents', y \in Members' : x + y <= Ceiling' + 1
  <2> SUFFICES ASSUME NEW x \in Parents', NEW y \in Members' PROVE x + y <= Ceiling' + 1
    OBVIOUS
  <2>1. x + y <= Ceiling' /\ x + y \in Int
    BY <1>1, <1>2, <1>3
  <2>. QED BY <1>0, <2>1, Slack
<1>. QED BY <1>3, <1>4, ViewedNext DEF HighInv, ViewsAreHeld

LEMMA LowLoosens ==
  ASSUME MoversInv, MoversInv', rows \in Rows, rows' \in Rows, LowInv, FewerViews,
         Floor' <= Floor - 1
  PROVE  LowInv'
<1>1. /\ Floor \in Int /\ Floor' \in Int
      /\ Parents \subseteq Int /\ Members \subseteq Int
  BY ViewsNow, ViewsNext DEF ViewsAreNumbers
<1>0. Floor \in Int /\ Floor' \in Int
  BY <1>1
<1>2. Parents' \subseteq Parents /\ Members' \subseteq Members
  BY FewerAtAll
<1>3. \A x \in Parents', y \in Members' : Floor' <= x + y
  <2> SUFFICES ASSUME NEW x \in Parents', NEW y \in Members' PROVE Floor' <= x + y
    OBVIOUS
  <2>1. Floor - 1 <= x + y /\ x \in Int /\ y \in Int
    BY <1>1, <1>2 DEF LowInv
  <2>2. Floor' <= Floor - 1
    OBVIOUS
  <2>. QED BY ONLY <1>0, <2>1, <2>2
<1>4. \A x \in Parents', y \in Members' : Floor' - 1 <= x + y
  <2> SUFFICES ASSUME NEW x \in Parents', NEW y \in Members' PROVE Floor' - 1 <= x + y
    OBVIOUS
  <2>1. Floor' <= x + y /\ x + y \in Int
    BY <1>1, <1>2, <1>3
  <2>. QED BY <1>0, <2>1, Slack
<1>. QED BY <1>3, <1>4, ViewedNext DEF LowInv, ViewsAreHeld

LEMMA HighQuiet ==
  ASSUME MoversInv, MoversInv', rows \in Rows, rows' \in Rows, HighInv, FewerViews, SameHeld,
         overlaps' = overlaps, Lowering' \subseteq Lowering, Busies' \subseteq Busies
  PROVE  HighInv'
<1>1. /\ Cardinality(Lowering) \in Nat /\ Cardinality(Lowering') \in Nat
      /\ Cardinality(Crossing) \in Nat /\ overlaps \in Nat /\ restarts \in Nat /\ stranded \in Nat
      /\ rows.held \in Int
      /\ Ceiling \in Int /\ Ceiling' \in Int
      /\ Parents \subseteq Int /\ Members \subseteq Int
  BY ViewNumbers, ViewsNext, MoversCount DEF ViewsAreNumbers, Lowering
<1>0. Ceiling \in Int /\ Ceiling' \in Int
  BY <1>1
<1>2. Parents' \subseteq Parents /\ Members' \subseteq Members
  BY FewerAtAll
<1>3. CASE Lowering' = Lowering
  <2>1. Ceiling' = Ceiling
    BY <1>3 DEF Ceiling, SameHeld
  <2>2. NotOnly(Lowering)' => NotOnly(Lowering)
    BY <1>3, WorkNext DEF MoversWork, NotOnly
  <2>. QED BY <1>2, <2>1, <2>2 DEF HighInv, FewerViews
<1>4. CASE Cardinality(Lowering') + 1 <= Cardinality(Lowering)
  <2>1. Ceiling + 1 <= Ceiling'
    BY <1>1, <1>4 DEF Ceiling, SameHeld
  <2>. QED BY <2>1, HighLoosens
<1>. QED BY <1>3, <1>4, QuietCount DEF Lowering

LEMMA LowQuiet ==
  ASSUME MoversInv, MoversInv', rows \in Rows, rows' \in Rows, LowInv, FewerViews, SameHeld,
         overlaps' = overlaps, Raising' \subseteq Raising, Busies' \subseteq Busies
  PROVE  LowInv'
<1>1. /\ Cardinality(Raising) \in Nat /\ Cardinality(Raising') \in Nat
      /\ Cardinality(Crossing) \in Nat /\ overlaps \in Nat /\ restarts \in Nat /\ stranded \in Nat
      /\ rows.held \in Int
      /\ Floor \in Int /\ Floor' \in Int
      /\ Parents \subseteq Int /\ Members \subseteq Int
  BY ViewNumbers, ViewsNext, MoversCount DEF ViewsAreNumbers, Raising
<1>0. Floor \in Int /\ Floor' \in Int
  BY <1>1
<1>2. Parents' \subseteq Parents /\ Members' \subseteq Members
  BY FewerAtAll
<1>3. CASE Raising' = Raising
  <2>1. Floor' = Floor
    BY <1>3 DEF Floor, SameHeld
  <2>2. NotOnly(Raising)' => NotOnly(Raising)
    BY <1>3, WorkNext DEF MoversWork, NotOnly
  <2>. QED BY <1>2, <2>1, <2>2 DEF LowInv, FewerViews
<1>4. CASE Cardinality(Raising') + 1 <= Cardinality(Raising)
  <2>1. Floor' <= Floor - 1
    BY <1>1, <1>4 DEF Floor, SameHeld
  <2>. QED BY <2>1, LowLoosens
<1>. QED BY <1>3, <1>4, QuietCount DEF Raising

(* One begins beside the others, each of which is an overlap. *)
Begins(m) ==
  /\ m \notin Busies /\ Busies' = Busies \union {m}
  /\ overlaps' = overlaps + Cardinality(Busies)

LEMMA BeginCount ==
  ASSUME NEW S \in SUBSET Movers, NEW T \in SUBSET Movers, NEW m \in Movers,
         S \subseteq T, T \subseteq S \union {m}, m \notin S
  PROVE  T = S \/ (m \in T /\ Cardinality(T) = Cardinality(S) + 1)
<1>1. T = S \/ T = S \union {m}
  OBVIOUS
<1>2. Cardinality(S \union {m}) = Cardinality(S) + 1
  BY MoversCount, FS_AddElement
<1>. QED BY <1>1, <1>2

LEMMA HighBegins ==
  ASSUME MoversInv, MoversInv', rows \in Rows, rows' \in Rows, HighInv, FewerViews, SameHeld,
         NEW m \in Movers, Begins(m), Lowering \subseteq Lowering', Lowering' \subseteq Lowering \union {m}
  PROVE  HighInv'
<1>1. /\ Cardinality(Lowering) \in Nat /\ Cardinality(Lowering') \in Nat
      /\ Cardinality(Crossing) \in Nat /\ overlaps \in Nat /\ restarts \in Nat /\ stranded \in Nat
      /\ rows.held \in Int
      /\ Cardinality(Busies) \in Nat
      /\ Ceiling \in Int /\ Ceiling' \in Int
      /\ Parents \subseteq Int /\ Members \subseteq Int
  BY ViewNumbers, ViewsNext, MoversCount DEF ViewsAreNumbers, Lowering
<1>0. Ceiling \in Int /\ Ceiling' \in Int
  BY <1>1
<1>2. Parents' \subseteq Parents /\ Members' \subseteq Members
  BY FewerAtAll
<1>3. m \notin Lowering
  BY WorkNow DEF MoversWork, Begins
<1>4. Lowering' = Lowering \/ (m \in Lowering' /\ Cardinality(Lowering') = Cardinality(Lowering) + 1)
  BY <1>3, BeginCount DEF Lowering
<1>5. /\ Lowering' = Lowering => Ceiling' = Ceiling + Cardinality(Busies)
      /\ Lowering' # Lowering => Ceiling' = Ceiling + Cardinality(Busies) - 1
  BY <1>1, <1>4 DEF Ceiling, SameHeld, Begins
<1>6. CASE Busies = {}
  <2>1. Cardinality(Busies) = 0
    BY <1>6, FS_EmptySet
  <2>2. Parents = {rows.parent} /\ Members = {rows.member}
    BY <1>6, WorkNow DEF MoversWork
  <2>3. rows.parent + rows.member <= Ceiling
    BY <1>6, Viewed DEF HighInv, NotOnly, ViewsAreHeld
  <2>4. \A x \in Parents', y \in Members' : x + y = rows.parent + rows.member
    BY <1>2, <2>2
  <2>5. rows.parent + rows.member \in Int
    BY ViewNumbers
  <2>6. rows.parent + rows.member <= Ceiling' + 1
    BY <1>1, <1>5, <2>1, <2>3, <2>5
  <2>7. NotOnly(Lowering)' => rows.parent + rows.member <= Ceiling'
    <3>1. NotOnly(Lowering)' => m \notin Lowering'
      BY <1>6 DEF NotOnly, Begins
    <3>. QED BY <1>1, <1>4, <1>5, <2>1, <2>3, <2>5, <3>1
  <2>. QED BY <2>4, <2>6, <2>7, ViewedNext DEF HighInv, ViewsAreHeld
<1>7. CASE Busies # {}
  <2>1. 1 <= Cardinality(Busies)
    BY <1>1, <1>7, MoversCount, FS_EmptySet DEF Busies
  <2>2. Ceiling <= Ceiling' /\ (Lowering' = Lowering => Ceiling + 1 <= Ceiling')
    BY <1>1, <1>5, <2>1
  <2>3. \A x \in Parents', y \in Members' : x + y <= Ceiling' + 1
    <3> SUFFICES ASSUME NEW x \in Parents', NEW y \in Members' PROVE x + y <= Ceiling' + 1
      OBVIOUS
    <3>1. x + y <= Ceiling + 1 /\ x + y \in Int
      BY <1>1, <1>2 DEF HighInv
    <3>. QED BY <1>0, <2>2, <3>1, Slack
  <2>4. ASSUME NotOnly(Lowering)', NEW x \in RaisedParents', NEW y \in RaisedMembers'
        PROVE  x + y <= Ceiling'
    <3>1. x \in RaisedParents /\ y \in RaisedMembers /\ x \in Parents /\ y \in Members
      BY Viewed DEF FewerViews, ViewsAreHeld
    <3>2. x \in Int /\ y \in Int /\ x + y <= Ceiling + 1
      BY <1>1, <3>1 DEF HighInv
    <3>3. CASE Lowering' = Lowering
      BY ONLY <1>0, <2>2, <3>2, <3>3
    <3>4. CASE m \in Lowering'
      <4>1. NotOnly(Lowering)
        BY <1>7, <2>4, <3>4 DEF NotOnly, Begins
      <4>2. x + y <= Ceiling
        BY <3>1, <4>1 DEF HighInv
      <4>. QED BY ONLY <1>0, <2>2, <3>2, <4>2
    <3>. QED BY <1>4, <3>3, <3>4
  <2>. QED BY <2>3, <2>4 DEF HighInv
<1>. QED BY <1>6, <1>7
LEMMA LowBegins ==
  ASSUME MoversInv, MoversInv', rows \in Rows, rows' \in Rows, LowInv, FewerViews, SameHeld,
         NEW m \in Movers, Begins(m), Raising \subseteq Raising', Raising' \subseteq Raising \union {m}
  PROVE  LowInv'
<1>1. /\ Cardinality(Raising) \in Nat /\ Cardinality(Raising') \in Nat
      /\ Cardinality(Crossing) \in Nat /\ overlaps \in Nat /\ restarts \in Nat /\ stranded \in Nat
      /\ rows.held \in Int
      /\ Cardinality(Busies) \in Nat
      /\ Floor \in Int /\ Floor' \in Int
      /\ Parents \subseteq Int /\ Members \subseteq Int
  BY ViewNumbers, ViewsNext, MoversCount DEF ViewsAreNumbers, Raising
<1>0. Floor \in Int /\ Floor' \in Int
  BY <1>1
<1>2. Parents' \subseteq Parents /\ Members' \subseteq Members
  BY FewerAtAll
<1>3. m \notin Raising
  BY WorkNow DEF MoversWork, Begins
<1>4. Raising' = Raising \/ (m \in Raising' /\ Cardinality(Raising') = Cardinality(Raising) + 1)
  BY <1>3, BeginCount DEF Raising
<1>5. /\ Raising' = Raising => Floor' = Floor - Cardinality(Busies)
      /\ Raising' # Raising => Floor' = Floor - Cardinality(Busies) + 1
  BY <1>1, <1>4 DEF Floor, SameHeld, Begins
<1>6. CASE Busies = {}
  <2>1. Cardinality(Busies) = 0
    BY <1>6, FS_EmptySet
  <2>2. Parents = {rows.parent} /\ Members = {rows.member}
    BY <1>6, WorkNow DEF MoversWork
  <2>3. Floor <= rows.parent + rows.member
    BY <1>6, Viewed DEF LowInv, NotOnly, ViewsAreHeld
  <2>4. \A x \in Parents', y \in Members' : x + y = rows.parent + rows.member
    BY <1>2, <2>2
  <2>5. rows.parent + rows.member \in Int
    BY ViewNumbers
  <2>6. Floor' - 1 <= rows.parent + rows.member
    BY <1>1, <1>5, <2>1, <2>3, <2>5
  <2>7. NotOnly(Raising)' => Floor' <= rows.parent + rows.member
    <3>1. NotOnly(Raising)' => m \notin Raising'
      BY <1>6 DEF NotOnly, Begins
    <3>. QED BY <1>1, <1>4, <1>5, <2>1, <2>3, <2>5, <3>1
  <2>. QED BY <2>4, <2>6, <2>7, ViewedNext DEF LowInv, ViewsAreHeld
<1>7. CASE Busies # {}
  <2>1. 1 <= Cardinality(Busies)
    BY <1>1, <1>7, MoversCount, FS_EmptySet DEF Busies
  <2>2. Floor' <= Floor /\ (Raising' = Raising => Floor' <= Floor - 1)
    <3>. DEFINE others == Cardinality(Busies)
    <3>1. others \in Nat /\ 1 <= others
      BY <1>1, <2>1
    <3>2. Raising' = Raising => Floor' = Floor - others
      BY <1>5
    <3>3. Raising' # Raising => Floor' = Floor - others + 1
      BY <1>5
    <3>. HIDE DEF others
    <3>. QED BY <1>0, <3>1, <3>2, <3>3
  <2>3. \A x \in Parents', y \in Members' : Floor' - 1 <= x + y
    <3> SUFFICES ASSUME NEW x \in Parents', NEW y \in Members' PROVE Floor' - 1 <= x + y
      OBVIOUS
    <3>1. Floor - 1 <= x + y /\ x + y \in Int
      BY <1>1, <1>2 DEF LowInv
    <3>. QED BY <1>0, <2>2, <3>1, Slack
  <2>4. ASSUME NotOnly(Raising)', NEW x \in LoweredParents', NEW y \in LoweredMembers'
        PROVE  Floor' <= x + y
    <3>1. x \in LoweredParents /\ y \in LoweredMembers /\ x \in Parents /\ y \in Members
      BY Viewed DEF FewerViews, ViewsAreHeld
    <3>2. x \in Int /\ y \in Int /\ Floor - 1 <= x + y
      BY <1>1, <3>1 DEF LowInv
    <3>3. CASE Raising' = Raising
      BY ONLY <1>0, <2>2, <3>2, <3>3
    <3>4. CASE m \in Raising'
      <4>1. NotOnly(Raising)
        BY <1>7, <2>4, <3>4 DEF NotOnly, Begins
      <4>2. Floor <= x + y
        BY <3>1, <4>1 DEF LowInv
      <4>. QED BY ONLY <1>0, <2>2, <3>2, <4>2
    <3>. QED BY <1>4, <3>3, <3>4
  <2>. QED BY <2>3, <2>4 DEF LowInv
<1>. QED BY <1>6, <1>7

(* Who will yet write, and who is on the way, change by the one that moves. *)
LEMMA WritersMove ==
  ASSUME NEW m \in Movers, Stays(m)
  PROVE  /\ Lowering' \ {m} = Lowering \ {m} /\ Raising' \ {m} = Raising \ {m}
         /\ Crossing' \ {m} = Crossing \ {m} /\ Busies' \ {m} = Busies \ {m}
         /\ (m \in Lowering <=> Lowers(m)) /\ (m \in Raising <=> Raises(m))
         /\ (m \in Crossing <=> Crosses(m)) /\ (m \in Busies <=> Busy(m))
         /\ (m \in Lowering' <=> Lowers(m)') /\ (m \in Raising' <=> Raises(m)')
         /\ (m \in Crossing' <=> Crosses(m)') /\ (m \in Busies' <=> Busy(m)')
<1>1. \A o \in Movers \ {m} : /\ Lowers(o)' <=> Lowers(o)
                              /\ Raises(o)' <=> Raises(o)
                              /\ Crosses(o)' <=> Crosses(o)
                              /\ Busy(o)' <=> Busy(o)
  BY DEF Stays, Lowers, Raises, Crosses, Busy, Depositor, Redeemer
<1>. QED BY <1>1 DEF Lowering, Raising, Crossing, Busies

LEMMA PlainAddUp ==
  ASSUME MoversInv, MoversInv', rows \in Rows, rows' \in Rows, NEW m \in Movers, Works(m),
         ~Debit(m), ~Credit(m), Undisturbed, rollbacks' = rollbacks,
         rows'.parent = rows.parent, rows'.member = rows.member, rows'.held = rows.held, AddUpInv
  PROVE  AddUpInv'
<1> SUFFICES ASSUME rollbacks = 0 PROVE HighInv' /\ LowInv'
  BY DEF AddUpInv
<1>1. /\ Stays(m)
      /\ Spender(m)' => \/ job'[m].seen = rows.parent
                        \/ Spender(m) /\ job'[m].seen = job[m].seen
      /\ Depositor(m)' => job'[m].seen = rows.parent
      /\ Redeemer(m)' \/ Creditor(m)' => job'[m].seen = rows.member
      /\ Crosses(m)' <=> Crosses(m)
  BY PlainMoves
<1>2. \/ /\ Busy(m)' => Busy(m)
         /\ Lowers(m)' => Lowers(m)
         /\ Raises(m)' => Raises(m)
         /\ overlaps' = overlaps
      \/ /\ ~Busy(m) /\ Busy(m)' /\ overlaps' = overlaps + Cardinality(Busies)
  BY PlainMoves
<1>3. FewerViews
  BY <1>1, Viewed, ViewsMove DEF FewerViews, ViewsAreHeld
<1>4. SameHeld
  BY <1>1, WritersMove DEF SameHeld, Undisturbed
<1>5. HighInv /\ LowInv
  BY DEF AddUpInv
<1>6. CASE /\ Busy(m)' => Busy(m)
           /\ Lowers(m)' => Lowers(m)
           /\ Raises(m)' => Raises(m)
           /\ overlaps' = overlaps
  <2>1. Lowering' \subseteq Lowering /\ Raising' \subseteq Raising /\ Busies' \subseteq Busies
    BY <1>1, <1>6, WritersMove
  <2>. QED BY <1>3, <1>4, <1>5, <1>6, <2>1, HighQuiet, LowQuiet
<1>7. CASE ~Busy(m) /\ Busy(m)' /\ overlaps' = overlaps + Cardinality(Busies)
  <2>1. Begins(m)
    BY <1>1, <1>7, WritersMove DEF Begins
  <2>2. ~Lowers(m) /\ ~Raises(m)
    BY <1>1, <1>7, WorkNow, WritersMove DEF MoversWork
  <2>3. /\ Lowering \subseteq Lowering' /\ Lowering' \subseteq Lowering \union {m}
        /\ Raising \subseteq Raising' /\ Raising' \subseteq Raising \union {m}
    BY <1>1, <2>2, WritersMove
  <2>. QED BY <1>3, <1>4, <1>5, <2>1, <2>3, HighBegins, LowBegins
<1>. QED BY <1>2, <1>6, <1>7
-----------------------------------------------------------------------------
(* Steps that write a position.  Two views after it are two from before, or  *)
(* differ from two from before by the unit that was written.                 *)

Old(x, y, xs, ys) == x \in xs /\ y \in ys
Fallen(x, y, xs, ys) == \E v \in xs, w \in ys : x + y = v + w - 1
Risen(x, y, xs, ys) == \E v \in xs, w \in ys : x + y = v + w + 1

LEMMA Shifted ==
  ASSUME NEW xs \in SUBSET Int, NEW ys \in SUBSET Int, NEW c \in Int, NEW x \in Int, NEW y \in Int
  PROVE  /\ (\A v \in xs, w \in ys : v + w <= c) =>
              /\ Old(x, y, xs, ys) => x + y <= c
              /\ Fallen(x, y, xs, ys) => x + y <= c - 1
              /\ Risen(x, y, xs, ys) => x + y <= c + 1
         /\ (\A v \in xs, w \in ys : c <= v + w) =>
              /\ Old(x, y, xs, ys) => c <= x + y
              /\ Fallen(x, y, xs, ys) => c - 1 <= x + y
              /\ Risen(x, y, xs, ys) => c + 1 <= x + y
<1>1. ASSUME NEW v \in xs, NEW w \in ys, v + w <= c
      PROVE  /\ x + y = v + w - 1 => x + y <= c - 1
             /\ x + y = v + w + 1 => x + y <= c + 1
  BY <1>1
<1>2. ASSUME NEW v \in xs, NEW w \in ys, c <= v + w
      PROVE  /\ x + y = v + w - 1 => c - 1 <= x + y
             /\ x + y = v + w + 1 => c + 1 <= x + y
  BY <1>2
<1>3. ASSUME \A v \in xs, w \in ys : v + w <= c
      PROVE  /\ Old(x, y, xs, ys) => x + y <= c
             /\ Fallen(x, y, xs, ys) => x + y <= c - 1
             /\ Risen(x, y, xs, ys) => x + y <= c + 1
  BY <1>1, <1>3 DEF Old, Fallen, Risen
<1>4. ASSUME \A v \in xs, w \in ys : c <= v + w
      PROVE  /\ Old(x, y, xs, ys) => c <= x + y
             /\ Fallen(x, y, xs, ys) => c - 1 <= x + y
             /\ Risen(x, y, xs, ys) => c + 1 <= x + y
  BY <1>2, <1>4 DEF Old, Fallen, Risen
<1>. QED BY <1>3, <1>4

ViewTypes ==
  /\ Ceiling \in Int /\ Ceiling' \in Int /\ Floor \in Int /\ Floor' \in Int
  /\ Parents \subseteq Int /\ Members \subseteq Int /\ Parents' \subseteq Int /\ Members' \subseteq Int
  /\ RaisedParents \subseteq Int /\ RaisedMembers \subseteq Int
  /\ LoweredParents \subseteq Int /\ LoweredMembers \subseteq Int
  /\ RaisedParents' \subseteq Int /\ RaisedMembers' \subseteq Int
  /\ LoweredParents' \subseteq Int /\ LoweredMembers' \subseteq Int

LEMMA ViewsTyped ==
  ASSUME MoversInv, MoversInv', rows \in Rows, rows' \in Rows
  PROVE  ViewTypes
BY ViewsNow, ViewsNext, Viewed, ViewedNext DEF ViewsAreNumbers, ViewsAreHeld, ViewTypes

LEMMA HighFalls ==
  ASSUME ViewTypes, HighInv, Ceiling' = Ceiling,
         \A x \in Parents', y \in Members' :
           Old(x, y, Parents, Members) \/ Fallen(x, y, Parents, Members),
         \A x \in RaisedParents', y \in RaisedMembers' :
           \/ Old(x, y, RaisedParents, RaisedMembers) /\ NotOnly(Lowering)
           \/ Fallen(x, y, Parents, Members)
  PROVE  HighInv'
<1>1. /\ Ceiling \in Int /\ Ceiling + 1 \in Int /\ Ceiling + 1 - 1 = Ceiling
      /\ \A a \in Int : a <= Ceiling => a <= Ceiling + 1
  BY DEF ViewTypes
<1>2. \A v \in Parents, w \in Members : v + w <= Ceiling + 1
  BY DEF HighInv
<1>3. ASSUME NEW x \in Int, NEW y \in Int
      PROVE  /\ Old(x, y, Parents, Members) => x + y <= Ceiling + 1
             /\ Fallen(x, y, Parents, Members) => x + y <= Ceiling
  <2>1. Parents \in SUBSET Int /\ Members \in SUBSET Int
    BY DEF ViewTypes
  <2>. DEFINE c == Ceiling + 1
  <2>2. c \in Int /\ c - 1 = Ceiling /\ \A v \in Parents, w \in Members : v + w <= c
    BY <1>1, <1>2
  <2>. HIDE DEF c
  <2>3. /\ Old(x, y, Parents, Members) => x + y <= c
        /\ Fallen(x, y, Parents, Members) => x + y <= c - 1
    BY <1>3, <2>1, <2>2, Shifted
  <2>. QED BY <2>2, <2>3 DEF c
<1>4. \A x \in Parents', y \in Members' : x + y <= Ceiling' + 1
  <2> SUFFICES ASSUME NEW x \in Parents', NEW y \in Members' PROVE x + y <= Ceiling + 1
    OBVIOUS
  <2>1. x \in Int /\ y \in Int /\ x + y \in Int
    BY DEF ViewTypes
  <2>. QED BY <1>1, <1>3, <2>1
<1>5. ASSUME NEW x \in RaisedParents', NEW y \in RaisedMembers' PROVE x + y <= Ceiling'
  <2>1. x \in Int /\ y \in Int
    BY DEF ViewTypes
  <2>2. Old(x, y, RaisedParents, RaisedMembers) /\ NotOnly(Lowering) => x + y <= Ceiling
    BY DEF HighInv, Old
  <2>. QED BY <1>3, <2>1, <2>2
<1>. QED BY <1>4, <1>5 DEF HighInv

LEMMA HighRises ==
  ASSUME ViewTypes, HighInv, Ceiling' = Ceiling + 1, NotOnly(Lowering),
         \A x \in Parents', y \in Members' :
           Old(x, y, Parents, Members) \/ Risen(x, y, Parents, Members),
         \A x \in RaisedParents', y \in RaisedMembers' :
           \/ Old(x, y, RaisedParents, RaisedMembers)
           \/ Risen(x, y, RaisedParents, RaisedMembers)
  PROVE  HighInv'
<1>1. /\ Ceiling \in Int /\ Ceiling + 1 \in Int /\ Ceiling' + 1 = Ceiling + 1 + 1
      /\ \A a \in Int : a <= Ceiling + 1 => a <= Ceiling + 1 + 1
      /\ \A a \in Int : a <= Ceiling => a <= Ceiling + 1
  BY DEF ViewTypes
<1>2. /\ \A v \in Parents, w \in Members : v + w <= Ceiling + 1
      /\ \A v \in RaisedParents, w \in RaisedMembers : v + w <= Ceiling
  BY DEF HighInv
<1>3. ASSUME NEW x \in Int, NEW y \in Int
      PROVE  /\ Old(x, y, Parents, Members) => x + y <= Ceiling + 1
             /\ Risen(x, y, Parents, Members) => x + y <= Ceiling + 1 + 1
             /\ Old(x, y, RaisedParents, RaisedMembers) => x + y <= Ceiling
             /\ Risen(x, y, RaisedParents, RaisedMembers) => x + y <= Ceiling + 1
  BY <1>1, <1>2, Shifted DEF ViewTypes
<1>4. \A x \in Parents', y \in Members' : x + y <= Ceiling' + 1
  <2> SUFFICES ASSUME NEW x \in Parents', NEW y \in Members' PROVE x + y <= Ceiling + 1 + 1
    BY <1>1
  <2>1. x \in Int /\ y \in Int /\ x + y \in Int
    BY DEF ViewTypes
  <2>. QED BY <1>1, <1>3, <2>1
<1>5. ASSUME NEW x \in RaisedParents', NEW y \in RaisedMembers' PROVE x + y <= Ceiling'
  <2>1. x \in Int /\ y \in Int /\ x + y \in Int
    BY DEF ViewTypes
  <2>. QED BY <1>1, <1>3, <2>1
<1>. QED BY <1>4, <1>5 DEF HighInv

LEMMA LowRises ==
  ASSUME ViewTypes, LowInv, Floor' = Floor,
         \A x \in Parents', y \in Members' :
           Old(x, y, Parents, Members) \/ Risen(x, y, Parents, Members),
         NotOnly(Raising)' =>
           \A x \in LoweredParents', y \in LoweredMembers' :
             \/ Old(x, y, LoweredParents, LoweredMembers) /\ NotOnly(Raising)
             \/ Risen(x, y, Parents, Members)
  PROVE  LowInv'
<1>1. /\ Floor \in Int /\ Floor - 1 \in Int /\ Floor - 1 + 1 = Floor
      /\ \A a \in Int : Floor <= a => Floor - 1 <= a
  BY DEF ViewTypes
<1>2. \A v \in Parents, w \in Members : Floor - 1 <= v + w
  BY DEF LowInv
<1>3. ASSUME NEW x \in Int, NEW y \in Int
      PROVE  /\ Old(x, y, Parents, Members) => Floor - 1 <= x + y
             /\ Risen(x, y, Parents, Members) => Floor <= x + y
  BY <1>1, <1>2, Shifted DEF ViewTypes
<1>4. \A x \in Parents', y \in Members' : Floor' - 1 <= x + y
  <2> SUFFICES ASSUME NEW x \in Parents', NEW y \in Members' PROVE Floor - 1 <= x + y
    OBVIOUS
  <2>1. x \in Int /\ y \in Int /\ x + y \in Int
    BY DEF ViewTypes
  <2>. QED BY <1>1, <1>3, <2>1
<1>5. ASSUME NotOnly(Raising)', NEW x \in LoweredParents', NEW y \in LoweredMembers' PROVE Floor' <= x + y
  <2>1. x \in Int /\ y \in Int
    BY DEF ViewTypes
  <2>2. Old(x, y, LoweredParents, LoweredMembers) /\ NotOnly(Raising) => Floor <= x + y
    BY DEF LowInv, Old
  <2>. QED BY <1>3, <1>5, <2>1, <2>2
<1>. QED BY <1>4, <1>5 DEF LowInv

LEMMA LowFalls ==
  ASSUME ViewTypes, LowInv, Floor' = Floor - 1, NotOnly(Raising)' => NotOnly(Raising),
         \A x \in Parents', y \in Members' :
           Old(x, y, Parents, Members) \/ Fallen(x, y, Parents, Members),
         \A x \in LoweredParents', y \in LoweredMembers' :
           \/ Old(x, y, LoweredParents, LoweredMembers)
           \/ Fallen(x, y, LoweredParents, LoweredMembers)
  PROVE  LowInv'
<1>1. /\ Floor \in Int /\ Floor - 1 \in Int /\ Floor' - 1 = Floor - 1 - 1
      /\ \A a \in Int : Floor - 1 <= a => Floor - 1 - 1 <= a
      /\ \A a \in Int : Floor <= a => Floor - 1 <= a
  BY DEF ViewTypes
<1>2. /\ \A v \in Parents, w \in Members : Floor - 1 <= v + w
      /\ NotOnly(Raising) => \A v \in LoweredParents, w \in LoweredMembers : Floor <= v + w
  BY DEF LowInv
<1>3. ASSUME NEW x \in Int, NEW y \in Int
      PROVE  /\ Old(x, y, Parents, Members) => Floor - 1 <= x + y
             /\ Fallen(x, y, Parents, Members) => Floor - 1 - 1 <= x + y
             /\ NotOnly(Raising) =>
                  /\ Old(x, y, LoweredParents, LoweredMembers) => Floor <= x + y
                  /\ Fallen(x, y, LoweredParents, LoweredMembers) => Floor - 1 <= x + y
  BY <1>1, <1>2, Shifted DEF ViewTypes
<1>4. \A x \in Parents', y \in Members' : Floor' - 1 <= x + y
  <2> SUFFICES ASSUME NEW x \in Parents', NEW y \in Members' PROVE Floor - 1 - 1 <= x + y
    BY <1>1
  <2>1. x \in Int /\ y \in Int /\ x + y \in Int
    BY DEF ViewTypes
  <2>. QED BY <1>1, <1>3, <2>1
<1>5. ASSUME NotOnly(Raising)', NEW x \in LoweredParents', NEW y \in LoweredMembers' PROVE Floor' <= x + y
  <2>1. x \in Int /\ y \in Int /\ x + y \in Int /\ NotOnly(Raising)
    BY <1>5 DEF ViewTypes
  <2>. QED BY <1>1, <1>3, <2>1
<1>. QED BY <1>4, <1>5 DEF LowInv
(* The step of one mover takes it out of a set, or into it. *)
LEMMA CountOut ==
  ASSUME NEW S \in SUBSET Movers, NEW T \in SUBSET Movers, NEW m \in Movers, T \ {m} = S \ {m}
  PROVE  /\ (m \in S <=> m \in T) => T = S
         /\ m \in S /\ m \notin T => Cardinality(S) = Cardinality(T) + 1
         /\ m \notin S /\ m \in T => Cardinality(T) = Cardinality(S) + 1
<1>1. (m \in S <=> m \in T) => T = S
  OBVIOUS
<1>2. m \in S /\ m \notin T => Cardinality(S) = Cardinality(T) + 1
  <2>1. m \notin T => S \ {m} = T
    OBVIOUS
  <2>. QED BY <2>1, MoversCountOne
<1>3. m \notin S /\ m \in T => Cardinality(T) = Cardinality(S) + 1
  <2>1. m \notin S => T \ {m} = S
    OBVIOUS
  <2>. QED BY <2>1, MoversCountOne
<1>. QED BY <1>1, <1>2, <1>3

LEMMA BoundsMove ==
  ASSUME MoversInv, MoversInv', rows \in Rows, rows' \in Rows, NEW m \in Movers, Stays(m),
         overlaps' = overlaps, Undisturbed
  PROVE  /\ /\ Lowers(m) /\ ~Lowers(m)' /\ rows'.held = rows.held /\ ~Crosses(m) /\ Crosses(m)'
            => Ceiling' = Ceiling
         /\ /\ Lowers(m) /\ ~Lowers(m)' /\ rows'.held = rows.held - 1 /\ ~Crosses(m) /\ ~Crosses(m)'
            => Ceiling' = Ceiling
         /\ /\ ~Lowers(m) /\ ~Lowers(m)' /\ rows'.held = rows.held /\ Crosses(m) /\ ~Crosses(m)'
            => Ceiling' = Ceiling + 1
         /\ /\ ~Lowers(m) /\ ~Lowers(m)' /\ rows'.held = rows.held + 1 /\ ~Crosses(m) /\ ~Crosses(m)'
            => Ceiling' = Ceiling + 1
         /\ /\ Raises(m) /\ Raises(m)' /\ rows'.held = rows.held /\ ~Crosses(m) /\ Crosses(m)'
            => Floor' = Floor - 1
         /\ /\ ~Raises(m) /\ ~Raises(m)' /\ rows'.held = rows.held - 1 /\ ~Crosses(m) /\ ~Crosses(m)'
            => Floor' = Floor - 1
         /\ /\ Raises(m) /\ ~Raises(m)' /\ rows'.held = rows.held /\ Crosses(m) /\ ~Crosses(m)'
            => Floor' = Floor
         /\ /\ Raises(m) /\ ~Raises(m)' /\ rows'.held = rows.held + 1 /\ ~Crosses(m) /\ ~Crosses(m)'
            => Floor' = Floor
<1>. DEFINE l == Cardinality(Lowering)  l2 == Cardinality(Lowering')
            r == Cardinality(Raising)   r2 == Cardinality(Raising')
            c == Cardinality(Crossing)  c2 == Cardinality(Crossing')
<1>1. /\ l \in Nat /\ l2 \in Nat /\ r \in Nat /\ r2 \in Nat /\ c \in Nat /\ c2 \in Nat
      /\ rows.held \in Int /\ overlaps \in Nat /\ restarts \in Nat /\ stranded \in Nat
  BY ViewNumbers, MoversCount DEF Lowering, Raising, Crossing
<1>2. /\ Lowering \in SUBSET Movers /\ Raising \in SUBSET Movers /\ Crossing \in SUBSET Movers
      /\ Lowering' \in SUBSET Movers /\ Raising' \in SUBSET Movers /\ Crossing' \in SUBSET Movers
  BY DEF Lowering, Raising, Crossing
<1>3. /\ (Lowers(m) <=> Lowers(m)') => l2 = l
      /\ Lowers(m) /\ ~Lowers(m)' => l = l2 + 1
  BY <1>2, WritersMove, CountOut
<1>4. /\ (Raises(m) <=> Raises(m)') => r2 = r
      /\ Raises(m) /\ ~Raises(m)' => r = r2 + 1
  BY <1>2, WritersMove, CountOut
<1>5. /\ (Crosses(m) <=> Crosses(m)') => c2 = c
      /\ Crosses(m) /\ ~Crosses(m)' => c = c2 + 1
      /\ ~Crosses(m) /\ Crosses(m)' => c2 = c + 1
  BY <1>2, WritersMove, CountOut
<1>. DEFINE h == rows.held + overlaps + restarts   h2 == rows'.held + overlaps + restarts
            f == rows.held - overlaps - restarts - stranded
            f2 == rows'.held - overlaps - restarts - stranded
<1>6. h \in Int /\ h2 \in Int /\ f \in Int /\ f2 \in Int
  BY <1>1, RowsFields
<1>7. /\ rows'.held = rows.held => h2 = h /\ f2 = f
      /\ rows'.held = rows.held - 1 => h2 = h - 1 /\ f2 = f - 1
      /\ rows'.held = rows.held + 1 => h2 = h + 1 /\ f2 = f + 1
  BY <1>1
<1>8. Ceiling = h - c - l
  BY <1>1 DEF Ceiling
<1>9. Floor = f - c + r
  BY DEF Floor
<1>10. Ceiling' = rows'.held + overlaps' + restarts' - c2 - l2
  BY DEF Ceiling
<1>11. Floor' = rows'.held - overlaps' - restarts' - stranded' - c2 + r2
  BY DEF Floor
<1>12. Ceiling' = h2 - c2 - l2 /\ Floor' = f2 - c2 + r2
  BY <1>1, <1>6, <1>10, <1>11, RowsFields DEF Undisturbed
<1>. HIDE DEF l, l2, r, r2, c, c2, h, h2, f, f2
<1>13. ASSUME l = l2 + 1, c2 = c + 1, h2 = h PROVE Ceiling' = Ceiling
  BY ONLY <1>1, <1>6, <1>8, <1>12, <1>13
<1>14. ASSUME l = l2 + 1, c2 = c, h2 = h - 1 PROVE Ceiling' = Ceiling
  BY ONLY <1>1, <1>6, <1>8, <1>12, <1>14
<1>15. ASSUME l2 = l, c = c2 + 1, h2 = h PROVE Ceiling' = Ceiling + 1
  BY ONLY <1>1, <1>6, <1>8, <1>12, <1>15
<1>16. ASSUME l2 = l, c2 = c, h2 = h + 1 PROVE Ceiling' = Ceiling + 1
  BY ONLY <1>1, <1>6, <1>8, <1>12, <1>16
<1>17. ASSUME r2 = r, c2 = c + 1, f2 = f PROVE Floor' = Floor - 1
  BY ONLY <1>1, <1>6, <1>9, <1>12, <1>17
<1>18. ASSUME r2 = r, c2 = c, f2 = f - 1 PROVE Floor' = Floor - 1
  BY ONLY <1>1, <1>6, <1>9, <1>12, <1>18
<1>19. ASSUME r = r2 + 1, c = c2 + 1, f2 = f PROVE Floor' = Floor
  BY ONLY <1>1, <1>6, <1>9, <1>12, <1>19
<1>20. ASSUME r = r2 + 1, c2 = c, f2 = f + 1 PROVE Floor' = Floor
  BY ONLY <1>1, <1>6, <1>9, <1>12, <1>20
<1>21. /\ Lowers(m) /\ ~Lowers(m)' /\ rows'.held = rows.held /\ ~Crosses(m) /\ Crosses(m)'
          => Ceiling' = Ceiling
       /\ Lowers(m) /\ ~Lowers(m)' /\ rows'.held = rows.held - 1 /\ ~Crosses(m) /\ ~Crosses(m)'
          => Ceiling' = Ceiling
  BY ONLY <1>3, <1>5, <1>7, <1>13, <1>14
<1>22. /\ ~Lowers(m) /\ ~Lowers(m)' /\ rows'.held = rows.held /\ Crosses(m) /\ ~Crosses(m)'
          => Ceiling' = Ceiling + 1
       /\ ~Lowers(m) /\ ~Lowers(m)' /\ rows'.held = rows.held + 1 /\ ~Crosses(m) /\ ~Crosses(m)'
          => Ceiling' = Ceiling + 1
  BY ONLY <1>3, <1>5, <1>7, <1>15, <1>16
<1>23. /\ Raises(m) /\ Raises(m)' /\ rows'.held = rows.held /\ ~Crosses(m) /\ Crosses(m)'
          => Floor' = Floor - 1
       /\ ~Raises(m) /\ ~Raises(m)' /\ rows'.held = rows.held - 1 /\ ~Crosses(m) /\ ~Crosses(m)'
          => Floor' = Floor - 1
  BY ONLY <1>4, <1>5, <1>7, <1>17, <1>18
<1>24. /\ Raises(m) /\ ~Raises(m)' /\ rows'.held = rows.held /\ Crosses(m) /\ ~Crosses(m)'
          => Floor' = Floor
       /\ Raises(m) /\ ~Raises(m)' /\ rows'.held = rows.held + 1 /\ ~Crosses(m) /\ ~Crosses(m)'
          => Floor' = Floor
  BY ONLY <1>4, <1>5, <1>7, <1>19, <1>20
<1>. QED BY ONLY <1>21, <1>22, <1>23, <1>24
(* Where a mover that writes a position goes, and what it has no more.       *)
LEMMA WriterMoves ==
  ASSUME MoversInv, MoversInv', rows \in Rows, NEW m \in Movers, Debit(m) \/ Credit(m)
  PROVE  /\ Stays(m) /\ job[m].seen \in Int
         /\ overlaps' = overlaps /\ Undisturbed /\ rollbacks' = rollbacks
         /\ ~Spender(m)' /\ ~Depositor(m)' /\ ~Redeemer(m)' /\ ~Creditor(m)'
         /\ Debit(m) /\ job[m].op \in Payers =>
              /\ Spender(m) /\ Busy(m) /\ Busy(m)' /\ Lowers(m) /\ ~Lowers(m)'
              /\ Raises(m) /\ Raises(m)' /\ ~Crosses(m) /\ Crosses(m)'
         /\ Debit(m) /\ job[m].op = "redeem" =>
              /\ Redeemer(m) /\ Busy(m) /\ Busy(m)' /\ Lowers(m) /\ ~Lowers(m)'
              /\ ~Raises(m) /\ ~Raises(m)' /\ ~Crosses(m) /\ ~Crosses(m)'
         /\ Debit(m) /\ job[m].op = "deposit" =>
              /\ Depositor(m) /\ Busy(m) /\ ~Busy(m)' /\ ~Lowers(m) /\ ~Lowers(m)'
              /\ Raises(m) /\ ~Raises(m)' /\ ~Crosses(m) /\ ~Crosses(m)'
         /\ Debit(m) => job[m].op \in Payers \union {"redeem", "deposit"}
         /\ Credit(m) =>
              /\ Creditor(m) /\ Busy(m) /\ Busy(m)' /\ ~Lowers(m) /\ ~Lowers(m)'
              /\ Raises(m) /\ ~Raises(m)' /\ Crosses(m) /\ ~Crosses(m)'
<1>1. job[m] \in Running /\ Stays(m) /\ job[m].pc \in 1 .. 7 /\ job[m].seen \in Int
  BY StepGoes DEF Works, Ends, Advances, Fails, Keeps, Running
<1>2. /\ Debit(m) => \/ job[m].op \in Payers /\ job[m].pc = 3
                     \/ job[m].op = "redeem" /\ job[m].pc = 2
                     \/ job[m].op = "deposit" /\ job[m].pc = 2
      /\ Credit(m) => job[m].op \in Payers /\ job[m].pc = 5
  BY Places DEF Debit, Credit, Place, Payers
<1>3. /\ GoOn(m, 0)
      /\ overlaps' = overlaps /\ Undisturbed /\ rollbacks' = rollbacks
  BY DEF Debit, Credit, Write, JobOnly, Same, Change, Undisturbed, errorVars
<1>4. CASE job[m].op = "deposit"
  <2>1. Debit(m) /\ ~Credit(m) /\ job[m].pc = 2
    BY <1>2, <1>4 DEF Payers
  <2>2. job[m].pc = Len(Route[job[m].op])
    BY <1>4, <2>1, Lasts
  <2>3. job'[m] = Idle
    BY <1>3, <2>2, EndEnds DEF GoOn, Ends
  <2>. QED BY <1>1, <1>3, <1>4, <2>1, <2>3, BusyNow, BusyNext
       DEF BusyIsKnown, Idle, Spender, Depositor, Redeemer, Creditor, Lowers, Raises, Crosses, Payers
<1>5. CASE job[m].op # "deposit"
  <2>1. \/ job[m].op \in Payers /\ job[m].pc \in {3, 5}
        \/ job[m].op = "redeem" /\ job[m].pc = 2
    BY <1>2, <1>5
  <2>2. job[m].pc # Len(Route[job[m].op])
    BY <2>1, Lasting
  <2>3. job'[m].pc = job[m].pc + 1 /\ job'[m].op = job[m].op
    BY <1>1, <1>3, <2>2, GoOnSees
  <2>4. CASE job[m].op \in Payers /\ job[m].pc = 3
    <3>1. ~Credit(m)
      BY <1>2, <2>4
    <3>. QED BY <1>1, <1>3, <2>3, <2>4, <3>1, BusyNow, BusyNext
         DEF BusyIsKnown, Spender, Depositor, Redeemer, Creditor, Lowers, Raises, Crosses, Payers
  <2>5. CASE job[m].op \in Payers /\ job[m].pc = 5
    <3>1. ~Debit(m)
      BY <1>2, <2>5 DEF Payers
    <3>. QED BY <1>1, <1>3, <2>3, <2>5, <3>1, BusyNow, BusyNext
         DEF BusyIsKnown, Spender, Depositor, Redeemer, Creditor, Lowers, Raises, Crosses, Payers
  <2>6. CASE job[m].op = "redeem" /\ job[m].pc = 2
    <3>1. ~Credit(m)
      BY <1>2, <2>6 DEF Payers
    <3>. QED BY <1>1, <1>3, <2>3, <2>6, <3>1, BusyNow, BusyNext
         DEF BusyIsKnown, Spender, Depositor, Redeemer, Creditor, Lowers, Raises, Crosses, Payers
  <2>. QED BY <2>1, <2>4, <2>5, <2>6
<1>. QED BY <1>4, <1>5

(* What it writes. *)
LEMMA WriterRows ==
  ASSUME MoversInv, rows \in Rows, NEW m \in Movers
  PROVE  /\ Debit(m) /\ job[m].op \in Payers =>
              rows'.parent = job[m].seen - 1 /\ rows'.member = rows.member /\ rows'.held = rows.held
         /\ Debit(m) /\ job[m].op = "redeem" =>
              rows'.parent = rows.parent /\ rows'.member = job[m].seen - 1 /\ rows'.held = rows.held - 1
         /\ Debit(m) /\ job[m].op = "deposit" =>
              rows'.parent = job[m].seen + 1 /\ rows'.member = rows.member /\ rows'.held = rows.held + 1
         /\ Credit(m) =>
              rows'.parent = rows.parent /\ rows'.member = job[m].seen + 1 /\ rows'.held = rows.held
<1>1. ASSUME Debit(m), job[m].op \in Payers
      PROVE  rows'.parent = job[m].seen - 1 /\ rows'.member = rows.member /\ rows'.held = rows.held
  <2>1. rows' = [rows EXCEPT !.parent = job[m].seen - 1]
    BY <1>1 DEF Debit, Write, Change, Does, Payers
  <2>. QED BY <2>1 DEF Rows
<1>2. ASSUME Debit(m), job[m].op = "redeem"
      PROVE  rows'.parent = rows.parent /\ rows'.member = job[m].seen - 1 /\ rows'.held = rows.held - 1
  <2>1. rows' = [rows EXCEPT !.member = job[m].seen - 1, !.held = rows.held - 1]
    BY <1>2 DEF Debit, Write, Change, Does
  <2>. QED BY <2>1 DEF Rows
<1>3. ASSUME Debit(m), job[m].op = "deposit"
      PROVE  rows'.parent = job[m].seen + 1 /\ rows'.member = rows.member /\ rows'.held = rows.held + 1
  <2>1. rows' = [rows EXCEPT !.parent = job[m].seen + 1, !.held = rows.held + 1]
    BY <1>3 DEF Debit, Write, Change, Does
  <2>. QED BY <2>1 DEF Rows
<1>4. ASSUME Credit(m)
      PROVE  rows'.parent = rows.parent /\ rows'.member = job[m].seen + 1 /\ rows'.held = rows.held
  <2>. DEFINE one == IF Does(m, {"tick"}) THEN 1 ELSE 0
  <2>1. rows' = [rows EXCEPT !.member = job[m].seen + 1, !.paid = rows.paid + one]
    BY <1>4 DEF Credit, Write, Change
  <2>. HIDE DEF one
  <2>. QED BY <2>1 DEF Rows
<1>. QED BY <1>1, <1>2, <1>3, <1>4
LEMMA OthersAtWork ==
  ASSUME MoversInv, NEW o \in Movers
  PROVE  /\ Depositor(o) \/ Creditor(o) => NotOnly(Lowering)
         /\ Redeemer(o) => NotOnly(Raising)
         /\ Busy(o) /\ ~Lowers(o) => NotOnly(Lowering)
         /\ Busy(o) /\ ~Raises(o) => NotOnly(Raising)
<1>1. Depositor(o) \/ Creditor(o) => Busy(o) /\ ~Lowers(o)
  BY BusyNow DEF BusyIsKnown, Depositor, Creditor, Redeemer, Lowers, Payers
<1>2. Redeemer(o) => Busy(o) /\ ~Raises(o)
  BY BusyNow DEF BusyIsKnown, Depositor, Redeemer, Raises, Payers
<1>3. /\ Busy(o) /\ ~Lowers(o) => NotOnly(Lowering)
      /\ Busy(o) /\ ~Raises(o) => NotOnly(Raising)
  BY DEF NotOnly, Busies, Lowering, Raising
<1>. QED BY <1>1, <1>2, <1>3

LEMMA PayerDebits ==
  ASSUME MoversInv, MoversInv', rows \in Rows, rows' \in Rows, HighInv, LowInv,
         NEW m \in Movers, Debit(m), job[m].op \in Payers
  PROVE  HighInv' /\ LowInv'
<1>1. ViewTypes
  BY ViewsTyped
<1>2. /\ Stays(m) /\ overlaps' = overlaps /\ Undisturbed /\ job[m].seen \in Int
      /\ ~Spender(m)' /\ ~Depositor(m)' /\ ~Redeemer(m)' /\ ~Creditor(m)'
      /\ Spender(m) /\ Busy(m) /\ Busy(m)' /\ Lowers(m) /\ ~Lowers(m)'
      /\ Raises(m) /\ Raises(m)' /\ ~Crosses(m) /\ Crosses(m)'
  BY WriterMoves
<1>3. rows'.parent = job[m].seen - 1 /\ rows'.member = rows.member /\ rows'.held = rows.held
  BY WriterRows
<1>4. Ceiling' = Ceiling /\ Floor' = Floor - 1
  BY <1>2, <1>3, BoundsMove
<1>5. job[m].seen \in LoweredParents /\ job[m].seen \in Parents
  BY <1>2, Viewed DEF ViewsAreHeld
<1>6. /\ \A x \in LoweredParents' : x = job[m].seen - 1 \/ x \in LoweredParents
      /\ \A x \in RaisedParents' :
           x = job[m].seen - 1 \/ (x \in RaisedParents /\ \E o \in Movers : Depositor(o))
      /\ \A y \in LoweredMembers' : y \in LoweredMembers
      /\ \A y \in RaisedMembers' : y \in RaisedMembers
  BY <1>2, <1>3, ViewsMove, Viewed DEF ViewsAreHeld
<1>7. /\ \A x \in Parents' : x = job[m].seen - 1 \/ x \in Parents
      /\ \A y \in Members' : y \in Members
  BY <1>6 DEF Parents, Members
<1>8. ASSUME NEW x, x = job[m].seen - 1, NEW y \in Int
      PROVE  x + y = job[m].seen + y - 1
  BY <1>2, <1>8
<1>9. \A x \in Parents', y \in Members' :
        Old(x, y, Parents, Members) \/ Fallen(x, y, Parents, Members)
  <2> SUFFICES ASSUME NEW x \in Parents', NEW y \in Members', x = job[m].seen - 1
               PROVE  Fallen(x, y, Parents, Members)
    BY <1>7 DEF Old
  <2>1. y \in Members /\ y \in Int
    BY <1>1, <1>7 DEF ViewTypes
  <2>. QED BY <1>5, <1>8, <2>1 DEF Fallen
<1>10. \A x \in RaisedParents', y \in RaisedMembers' :
         \/ Old(x, y, RaisedParents, RaisedMembers) /\ NotOnly(Lowering)
         \/ Fallen(x, y, Parents, Members)
  <2> SUFFICES ASSUME NEW x \in RaisedParents', NEW y \in RaisedMembers', x = job[m].seen - 1
               PROVE  Fallen(x, y, Parents, Members)
    BY <1>6, OthersAtWork DEF Old
  <2>1. y \in Members /\ y \in Int
    BY <1>1, <1>6, Viewed DEF ViewTypes, ViewsAreHeld
  <2>. QED BY <1>5, <1>8, <2>1 DEF Fallen
<1>11. \A x \in LoweredParents', y \in LoweredMembers' :
         \/ Old(x, y, LoweredParents, LoweredMembers)
         \/ Fallen(x, y, LoweredParents, LoweredMembers)
  <2> SUFFICES ASSUME NEW x \in LoweredParents', NEW y \in LoweredMembers', x = job[m].seen - 1
               PROVE  Fallen(x, y, LoweredParents, LoweredMembers)
    BY <1>6 DEF Old
  <2>1. y \in LoweredMembers /\ y \in Int
    BY <1>1, <1>6 DEF ViewTypes
  <2>. QED BY <1>5, <1>8, <2>1 DEF Fallen
<1>12. NotOnly(Raising)' => NotOnly(Raising)
  <2>1. Raising' = Raising /\ Busies' = Busies
    BY <1>2, WritersMove
  <2>. QED BY <2>1 DEF NotOnly
<1>13. HighInv'
  BY <1>1, <1>4, <1>9, <1>10, HighFalls
<1>14. LowInv'
  BY <1>1, <1>4, <1>9, <1>11, <1>12, LowFalls
<1>. QED BY <1>13, <1>14

LEMMA RedeemDebits ==
  ASSUME MoversInv, MoversInv', rows \in Rows, rows' \in Rows, HighInv, LowInv,
         NEW m \in Movers, Debit(m), job[m].op = "redeem"
  PROVE  HighInv' /\ LowInv'
<1>1. ViewTypes
  BY ViewsTyped
<1>2. /\ Stays(m) /\ overlaps' = overlaps /\ Undisturbed /\ job[m].seen \in Int
      /\ ~Spender(m)' /\ ~Depositor(m)' /\ ~Redeemer(m)' /\ ~Creditor(m)'
      /\ Redeemer(m) /\ Busy(m) /\ Busy(m)' /\ Lowers(m) /\ ~Lowers(m)'
      /\ ~Raises(m) /\ ~Raises(m)' /\ ~Crosses(m) /\ ~Crosses(m)'
  BY WriterMoves
<1>3. rows'.parent = rows.parent /\ rows'.member = job[m].seen - 1 /\ rows'.held = rows.held - 1
  BY WriterRows
<1>4. Ceiling' = Ceiling /\ Floor' = Floor - 1
  BY <1>2, <1>3, BoundsMove
<1>5. job[m].seen \in LoweredMembers /\ job[m].seen \in Members
  BY <1>2, Viewed DEF ViewsAreHeld
<1>6. /\ \A y \in LoweredMembers' : y = job[m].seen - 1 \/ y \in LoweredMembers
      /\ \A y \in RaisedMembers' :
           y = job[m].seen - 1 \/ (y \in RaisedMembers /\ \E o \in Movers : Creditor(o))
      /\ \A x \in LoweredParents' : x \in LoweredParents
      /\ \A x \in RaisedParents' : x \in RaisedParents
  BY <1>2, <1>3, ViewsMove, Viewed DEF ViewsAreHeld
<1>7. /\ \A y \in Members' : y = job[m].seen - 1 \/ y \in Members
      /\ \A x \in Parents' : x \in Parents
  BY <1>6 DEF Parents, Members
<1>8. ASSUME NEW y, y = job[m].seen - 1, NEW x \in Int
      PROVE  x + y = x + job[m].seen - 1
  BY <1>2, <1>8
<1>9. \A x \in Parents', y \in Members' :
        Old(x, y, Parents, Members) \/ Fallen(x, y, Parents, Members)
  <2> SUFFICES ASSUME NEW x \in Parents', NEW y \in Members', y = job[m].seen - 1
               PROVE  Fallen(x, y, Parents, Members)
    BY <1>7 DEF Old
  <2>1. x \in Parents /\ x \in Int
    BY <1>1, <1>7 DEF ViewTypes
  <2>. QED BY <1>5, <1>8, <2>1 DEF Fallen
<1>10. \A x \in RaisedParents', y \in RaisedMembers' :
         \/ Old(x, y, RaisedParents, RaisedMembers) /\ NotOnly(Lowering)
         \/ Fallen(x, y, Parents, Members)
  <2> SUFFICES ASSUME NEW x \in RaisedParents', NEW y \in RaisedMembers', y = job[m].seen - 1
               PROVE  Fallen(x, y, Parents, Members)
    BY <1>6, OthersAtWork DEF Old
  <2>1. x \in Parents /\ x \in Int
    BY <1>1, <1>6, Viewed DEF ViewTypes, ViewsAreHeld
  <2>. QED BY <1>5, <1>8, <2>1 DEF Fallen
<1>11. \A x \in LoweredParents', y \in LoweredMembers' :
         \/ Old(x, y, LoweredParents, LoweredMembers)
         \/ Fallen(x, y, LoweredParents, LoweredMembers)
  <2> SUFFICES ASSUME NEW x \in LoweredParents', NEW y \in LoweredMembers', y = job[m].seen - 1
               PROVE  Fallen(x, y, LoweredParents, LoweredMembers)
    BY <1>6 DEF Old
  <2>1. x \in LoweredParents /\ x \in Int
    BY <1>1, <1>6 DEF ViewTypes
  <2>. QED BY <1>5, <1>8, <2>1 DEF Fallen
<1>12. NotOnly(Raising)
  BY <1>2, OthersAtWork
<1>13. HighInv'
  BY <1>1, <1>4, <1>9, <1>10, HighFalls
<1>14. LowInv'
  BY <1>1, <1>4, <1>9, <1>11, <1>12, LowFalls
<1>. QED BY <1>13, <1>14
LEMMA Deposits ==
  ASSUME MoversInv, MoversInv', rows \in Rows, rows' \in Rows, HighInv, LowInv,
         NEW m \in Movers, Debit(m), job[m].op = "deposit"
  PROVE  HighInv' /\ LowInv'
<1>1. ViewTypes
  BY ViewsTyped
<1>2. /\ Stays(m) /\ overlaps' = overlaps /\ Undisturbed /\ job[m].seen \in Int
      /\ ~Spender(m)' /\ ~Depositor(m)' /\ ~Redeemer(m)' /\ ~Creditor(m)'
      /\ Depositor(m) /\ Busy(m) /\ ~Busy(m)' /\ ~Lowers(m) /\ ~Lowers(m)'
      /\ Raises(m) /\ ~Raises(m)' /\ ~Crosses(m) /\ ~Crosses(m)'
  BY WriterMoves
<1>3. rows'.parent = job[m].seen + 1 /\ rows'.member = rows.member /\ rows'.held = rows.held + 1
  BY WriterRows
<1>4. Ceiling' = Ceiling + 1 /\ Floor' = Floor
  BY <1>2, <1>3, BoundsMove
<1>5. job[m].seen \in RaisedParents /\ job[m].seen \in Parents
  BY <1>2, Viewed DEF ViewsAreHeld
<1>6. /\ \A x \in RaisedParents' : x = job[m].seen + 1 \/ x \in RaisedParents
      /\ \A x \in LoweredParents' :
           \/ x = job[m].seen + 1
           \/ x \in LoweredParents /\ \E o \in Movers \ {m} : Spender(o)
      /\ \A y \in LoweredMembers' : y \in LoweredMembers
      /\ \A y \in RaisedMembers' : y \in RaisedMembers
  BY <1>2, <1>3, ViewsMove, Viewed DEF ViewsAreHeld
<1>7. /\ \A x \in Parents' : x = job[m].seen + 1 \/ x \in Parents
      /\ \A y \in Members' : y \in Members
  BY <1>6 DEF Parents, Members
<1>8. ASSUME NEW x, x = job[m].seen + 1, NEW y \in Int
      PROVE  x + y = job[m].seen + y + 1
  BY <1>2, <1>8
<1>9. \A x \in Parents', y \in Members' :
        Old(x, y, Parents, Members) \/ Risen(x, y, Parents, Members)
  <2> SUFFICES ASSUME NEW x \in Parents', NEW y \in Members', x = job[m].seen + 1
               PROVE  Risen(x, y, Parents, Members)
    BY <1>7 DEF Old
  <2>1. y \in Members /\ y \in Int
    BY <1>1, <1>7 DEF ViewTypes
  <2>. QED BY <1>5, <1>8, <2>1 DEF Risen
<1>10. \A x \in RaisedParents', y \in RaisedMembers' :
         \/ Old(x, y, RaisedParents, RaisedMembers)
         \/ Risen(x, y, RaisedParents, RaisedMembers)
  <2> SUFFICES ASSUME NEW x \in RaisedParents', NEW y \in RaisedMembers', x = job[m].seen + 1
               PROVE  Risen(x, y, RaisedParents, RaisedMembers)
    BY <1>6 DEF Old
  <2>1. y \in RaisedMembers /\ y \in Int
    BY <1>1, <1>6 DEF ViewTypes
  <2>. QED BY <1>5, <1>8, <2>1 DEF Risen
(* Another that holds a view of the parent is still at work when this one is *)
(* not: unless all of them raise something, there was one before that did    *)
(* not.                                                                      *)
<1>11. ASSUME NotOnly(Raising)', NEW o \in Movers \ {m}, Spender(o)
       PROVE  NotOnly(Raising)
  <2>1. Busy(o)
    BY <1>11, BusyNow DEF BusyIsKnown, Spender
  <2>2. o \in Busies' /\ m \notin Busies'
    BY <1>2, <2>1, WritersMove DEF Busies
  <2>3. PICK k \in Busies' : k \notin Raising'
    BY <1>11, <2>2 DEF NotOnly
  <2>4. k \in Busies /\ k \notin Raising
    BY <1>2, <2>2, <2>3, WritersMove
  <2>. QED BY <2>4 DEF NotOnly
<1>12. ASSUME NotOnly(Raising)', NEW x \in LoweredParents', NEW y \in LoweredMembers'
       PROVE  \/ Old(x, y, LoweredParents, LoweredMembers) /\ NotOnly(Raising)
              \/ Risen(x, y, Parents, Members)
  <2> SUFFICES ASSUME x = job[m].seen + 1
               PROVE  Risen(x, y, Parents, Members)
    BY <1>6, <1>11, <1>12 DEF Old
  <2>1. y \in Members /\ y \in Int
    BY <1>1, <1>6, Viewed DEF ViewTypes, ViewsAreHeld
  <2>. QED BY <1>5, <1>8, <2>1 DEF Risen
<1>13. HighInv'
  <2>1. NotOnly(Lowering)
    BY <1>2, OthersAtWork
  <2>. QED BY <1>1, <1>4, <1>9, <1>10, <2>1, HighRises
<1>14. LowInv'
  BY <1>1, <1>4, <1>9, <1>12, LowRises
<1>. QED BY <1>13, <1>14

LEMMA PayerCredits ==
  ASSUME MoversInv, MoversInv', rows \in Rows, rows' \in Rows, HighInv, LowInv,
         NEW m \in Movers, Credit(m)
  PROVE  HighInv' /\ LowInv'
<1>1. ViewTypes
  BY ViewsTyped
<1>2. /\ Stays(m) /\ overlaps' = overlaps /\ Undisturbed /\ job[m].seen \in Int
      /\ ~Spender(m)' /\ ~Depositor(m)' /\ ~Redeemer(m)' /\ ~Creditor(m)'
      /\ Creditor(m) /\ Busy(m) /\ Busy(m)' /\ ~Lowers(m) /\ ~Lowers(m)'
      /\ Raises(m) /\ ~Raises(m)' /\ Crosses(m) /\ ~Crosses(m)'
  BY WriterMoves
<1>3. rows'.parent = rows.parent /\ rows'.member = job[m].seen + 1 /\ rows'.held = rows.held
  BY WriterRows
<1>4. Ceiling' = Ceiling + 1 /\ Floor' = Floor
  BY <1>2, <1>3, BoundsMove
<1>5. job[m].seen \in RaisedMembers /\ job[m].seen \in Members
  BY <1>2, Viewed DEF ViewsAreHeld
<1>6. /\ \A y \in RaisedMembers' : y = job[m].seen + 1 \/ y \in RaisedMembers
      /\ \A y \in LoweredMembers' :
           y = job[m].seen + 1 \/ (y \in LoweredMembers /\ \E o \in Movers : Redeemer(o))
      /\ \A x \in LoweredParents' : x \in LoweredParents
      /\ \A x \in RaisedParents' : x \in RaisedParents
  BY <1>2, <1>3, ViewsMove, Viewed DEF ViewsAreHeld
<1>7. /\ \A y \in Members' : y = job[m].seen + 1 \/ y \in Members
      /\ \A x \in Parents' : x \in Parents
  BY <1>6 DEF Parents, Members
<1>8. ASSUME NEW y, y = job[m].seen + 1, NEW x \in Int
      PROVE  x + y = x + job[m].seen + 1
  BY <1>2, <1>8
<1>9. \A x \in Parents', y \in Members' :
        Old(x, y, Parents, Members) \/ Risen(x, y, Parents, Members)
  <2> SUFFICES ASSUME NEW x \in Parents', NEW y \in Members', y = job[m].seen + 1
               PROVE  Risen(x, y, Parents, Members)
    BY <1>7 DEF Old
  <2>1. x \in Parents /\ x \in Int
    BY <1>1, <1>7 DEF ViewTypes
  <2>. QED BY <1>5, <1>8, <2>1 DEF Risen
<1>10. \A x \in RaisedParents', y \in RaisedMembers' :
         \/ Old(x, y, RaisedParents, RaisedMembers)
         \/ Risen(x, y, RaisedParents, RaisedMembers)
  <2> SUFFICES ASSUME NEW x \in RaisedParents', NEW y \in RaisedMembers', y = job[m].seen + 1
               PROVE  Risen(x, y, RaisedParents, RaisedMembers)
    BY <1>6 DEF Old
  <2>1. x \in RaisedParents /\ x \in Int
    BY <1>1, <1>6 DEF ViewTypes
  <2>. QED BY <1>5, <1>8, <2>1 DEF Risen
<1>11. ASSUME NEW x \in LoweredParents', NEW y \in LoweredMembers'
       PROVE  \/ Old(x, y, LoweredParents, LoweredMembers) /\ NotOnly(Raising)
              \/ Risen(x, y, Parents, Members)
  <2> SUFFICES ASSUME y = job[m].seen + 1
               PROVE  Risen(x, y, Parents, Members)
    BY <1>6, OthersAtWork DEF Old
  <2>1. x \in Parents /\ x \in Int
    BY <1>1, <1>6, Viewed DEF ViewTypes, ViewsAreHeld
  <2>. QED BY <1>5, <1>8, <2>1 DEF Risen
<1>12. HighInv'
  <2>1. NotOnly(Lowering)
    BY <1>2, OthersAtWork
  <2>. QED BY <1>1, <1>4, <1>9, <1>10, <2>1, HighRises
<1>13. LowInv'
  BY <1>1, <1>4, <1>9, <1>11, LowRises
<1>. QED BY <1>12, <1>13
-----------------------------------------------------------------------------
(* The other steps. *)

LEMMA PlainRows ==
  ASSUME rows \in Rows, NEW m \in Movers, Works(m), ~Debit(m), ~Credit(m)
  PROVE  /\ rows'.parent = rows.parent /\ rows'.member = rows.member /\ rows'.held = rows.held
         /\ Undisturbed /\ rollbacks' = rollbacks
<1>1. CASE CheckLimit(m) \/ ReadFrom(m) \/ ReadTo(m) \/ FindAllowance(m)
  BY <1>1
  DEF CheckLimit, ReadFrom, ReadTo, FindAllowance, Reads, dbVars, JobOnly, Same, Undisturbed, errorVars
<1>2. CASE Record(m) \/ Advance(m) \/ Cancel(m)
  <2>1. Undisturbed /\ rollbacks' = rollbacks
    BY <1>2 DEF Record, Advance, Cancel, Write, Change, JobOnly, Same, Undisturbed, errorVars
  <2>2. CASE Record(m)
    <3>1. \/ rows' = [rows EXCEPT !.redeemed[now] = @ + 1]
          \/ rows' = [rows EXCEPT !.received[now] = @ + 1]
          \/ rows' = [rows EXCEPT !.missed = @ + 1]
          \/ rows' = rows
      BY <2>2 DEF Record, Write, Change, Does
    <3>. QED BY <2>1, <3>1 DEF Rows
  <2>3. CASE Advance(m)
    <3>1. rows' = [rows EXCEPT !.next = job[m].next + 1, !.active = TRUE]
      BY <2>3 DEF Advance, Write, Change
    <3>. QED BY <2>1, <3>1 DEF Rows
  <2>4. CASE Cancel(m)
    <3>1. rows' = [rows EXCEPT !.next = job[m].next, !.active = FALSE]
      BY <2>4 DEF Cancel, Write, Change
    <3>. QED BY <2>1, <3>1 DEF Rows
  <2>. QED BY <1>2, <2>2, <2>3, <2>4
<1>. QED BY <1>1, <1>2 DEF Works

LEMMA StepAddUp ==
  ASSUME MoversInv, MoversInv', rows \in Rows, rows' \in Rows, AddUpInv, NEW m \in Movers, Works(m)
  PROVE  AddUpInv'
<1>1. CASE Debit(m) \/ Credit(m)
  <2>1. rollbacks' = rollbacks
    BY <1>1, WriterMoves
  <2>2. Debit(m) => job[m].op \in Payers \union {"redeem", "deposit"}
    BY <1>1, WriterMoves
  <2>. QED BY <1>1, <2>1, <2>2, PayerDebits, RedeemDebits, Deposits, PayerCredits DEF AddUpInv
<1>2. CASE ~Debit(m) /\ ~Credit(m)
  BY <1>2, PlainRows, PlainAddUp
<1>. QED BY <1>1, <1>2

(* An error takes a mover's views with it, and the unit between the positions. *)
LEMMA ErrorAddUp ==
  ASSUME MoversInv, MoversInv', rows \in Rows, rows' \in Rows, AddUpInv, NEW m \in Movers, Errs(m)
  PROVE  AddUpInv'
<1>1. /\ rows' = rows /\ restarts' = restarts /\ overlaps' = overlaps /\ rollbacks' = rollbacks
      /\ stranded' = stranded + (IF InTransit(m) THEN 1 ELSE 0)
  BY DEF Errs, TransferFails, Throw, Error
<1> SUFFICES ASSUME rollbacks = 0 PROVE HighInv' /\ LowInv'
  BY <1>1 DEF AddUpInv
<1>2. /\ Stays(m) /\ job[m] \in Running
      /\ job'[m] = Idle \/ Drops(m)
  BY ErrorGoes
<1>3. Drops(m) => /\ job'[m].op = job[m].op /\ job'[m].pc = 6
                  /\ job[m].op \in {"tick", "one_time"} /\ job[m].pc \in 2 .. 5
  BY <1>2 DEF Drops, Running
<1>4. /\ ~Spender(m)' /\ ~Depositor(m)' /\ ~Redeemer(m)' /\ ~Creditor(m)'
      /\ ~Lowers(m)' /\ ~Raises(m)' /\ ~Crosses(m)' /\ (Busy(m)' => Busy(m))
  <2>1. CASE job'[m] = Idle
    BY <2>1, BusyNext
    DEF BusyIsKnown, Idle, Spender, Depositor, Redeemer, Creditor, Lowers, Raises, Crosses, Payers
  <2>2. CASE Drops(m)
    BY <1>3, <2>2, BusyNow
    DEF BusyIsKnown, Spender, Depositor, Redeemer, Creditor, Lowers, Raises, Crosses, Payers
  <2>. QED BY <1>2, <2>1, <2>2
<1>5. FewerViews
  BY <1>1, <1>2, <1>4, ViewsMove, Viewed DEF FewerViews, ViewsAreHeld
<1>6. Lowering' \subseteq Lowering /\ Raising' \subseteq Raising /\ Busies' \subseteq Busies
  BY <1>2, <1>4, WritersMove
<1>7. HighInv /\ LowInv
  BY DEF AddUpInv
<1>8. InTransit(m) <=> Crosses(m)
  BY <1>2, Places DEF InTransit, Crosses, Payers, Place, Running
<1>9. CASE ~Crosses(m)
  <2>1. stranded' = stranded
    BY <1>1, <1>8, <1>9 DEF MoversInv
  <2>2. SameHeld
    BY <1>1, <1>2, <1>4, <1>9, <2>1, WritersMove DEF SameHeld
  <2>. QED BY <1>1, <1>5, <1>6, <1>7, <2>2, HighQuiet, LowQuiet
<1>10. CASE Crosses(m)
  <2>1. ~Lowers(m) /\ Raises(m)
    BY <1>2, <1>10 DEF Crosses, Lowers, Raises, Redeemer, Payers, Running
  <2>2. /\ Lowering \in SUBSET Movers /\ Raising \in SUBSET Movers /\ Crossing \in SUBSET Movers
        /\ Lowering' \in SUBSET Movers /\ Raising' \in SUBSET Movers /\ Crossing' \in SUBSET Movers
    BY DEF Lowering, Raising, Crossing
  <2>3. /\ Lowering' = Lowering
        /\ Cardinality(Raising) = Cardinality(Raising') + 1
        /\ Cardinality(Crossing) = Cardinality(Crossing') + 1
    <3>1. Lowering' = Lowering
      BY <1>2, <1>4, <2>1, <2>2, WritersMove, CountOut
    <3>2. Cardinality(Raising) = Cardinality(Raising') + 1
      <4>1. Raising' \ {m} = Raising \ {m} /\ m \in Raising /\ m \notin Raising'
        BY <1>2, <1>4, <2>1, WritersMove
      <4>. QED BY <2>2, <4>1, CountOut
    <3>3. Cardinality(Crossing) = Cardinality(Crossing') + 1
      <4>1. Crossing' \ {m} = Crossing \ {m} /\ m \in Crossing /\ m \notin Crossing'
        BY <1>2, <1>4, <1>10, WritersMove
      <4>. QED BY <2>2, <4>1, CountOut
    <3>. QED BY <3>1, <3>2, <3>3
  <2>4. /\ rows.held \in Int /\ overlaps \in Nat /\ restarts \in Nat /\ stranded \in Nat
        /\ Cardinality(Lowering) \in Nat /\ Cardinality(Raising') \in Nat
        /\ Cardinality(Crossing') \in Nat
    BY <2>2, ViewNumbers, MoversCount
  <2>5. stranded' = stranded + 1
    BY <1>1, <1>8, <1>10
  <2>6. Ceiling + 1 <= Ceiling'
    BY <1>1, <2>3, <2>4 DEF Ceiling
  <2>7. Floor' <= Floor - 1
    BY <1>1, <2>3, <2>4, <2>5 DEF Floor
  <2>. QED BY <1>5, <1>7, <2>6, <2>7, HighLoosens, LowLoosens
<1>. QED BY <1>9, <1>10

(* A mover begins: it has no view yet. *)
LEMMA BeginAddUp ==
  ASSUME MoversInv, MoversInv', rows \in Rows, AddUpInv, NEW m \in Movers, NEW x \in Running,
         job' = [job EXCEPT ![m] = x], job[m] = Idle, x.pc = 1, Reads, Undisturbed, overlaps' = overlaps
  PROVE  AddUpInv'
<1>1. rows' = rows /\ rollbacks' = rollbacks /\ Undisturbed /\ overlaps' = overlaps
  BY DEF Reads, dbVars
<1>2. Stays(m) /\ job'[m] = x
  BY Replaced
<1>3. /\ ~Spender(m)' /\ ~Depositor(m)' /\ ~Redeemer(m)' /\ ~Creditor(m)'
      /\ ~Lowers(m)' /\ ~Raises(m)' /\ ~Crosses(m)' /\ ~Busy(m)'
  BY <1>2, BusyNext
  DEF BusyIsKnown, Spender, Depositor, Redeemer, Creditor, Lowers, Raises, Crosses, Payers
<1>4. ~Crosses(m)
  BY DEF Idle, Crosses, Payers
<1>5. FewerViews
  BY <1>1, <1>2, <1>3, ViewsMove, Viewed DEF FewerViews, ViewsAreHeld
<1>6. SameHeld
  BY <1>1, <1>2, <1>3, <1>4, WritersMove DEF SameHeld, Undisturbed
<1>7. Lowering' \subseteq Lowering /\ Raising' \subseteq Raising /\ Busies' \subseteq Busies
  BY <1>2, <1>3, WritersMove
<1>. QED BY <1>1, <1>5, <1>6, <1>7, HighQuiet, LowQuiet DEF AddUpInv

LEMMA CalmAddUp ==
  ASSUME AddUpInv, UNCHANGED <<job, restarts, overlaps, stranded>>, rollbacks' = 0 => rollbacks = 0 /\ rows' = rows
  PROVE  AddUpInv'
<1> SUFFICES ASSUME rollbacks = 0, rows' = rows PROVE HighInv' /\ LowInv'
  BY DEF AddUpInv
<1>1. /\ LoweredParents' = LoweredParents /\ RaisedParents' = RaisedParents
      /\ LoweredMembers' = LoweredMembers /\ RaisedMembers' = RaisedMembers
  BY DEF LoweredParents, RaisedParents, LoweredMembers, RaisedMembers, Spender, Depositor, Redeemer,
     Creditor
<1>2. /\ Lowering' = Lowering /\ Raising' = Raising /\ Crossing' = Crossing /\ Busies' = Busies
  BY DEF Lowering, Raising, Crossing, Busies, Lowers, Raises, Crosses, Busy, Redeemer, Depositor
<1>3. /\ Parents' = Parents /\ Members' = Members /\ Ceiling' = Ceiling /\ Floor' = Floor
      /\ (NotOnly(Lowering)' <=> NotOnly(Lowering)) /\ (NotOnly(Raising)' <=> NotOnly(Raising))
  BY <1>1, <1>2 DEF Parents, Members, Ceiling, Floor, NotOnly
<1>. QED BY <1>1, <1>3 DEF AddUpInv, HighInv, LowInv

LEMMA ReloadedZero ==
  ASSUME MoversInv, Reloaded, rollbacks' = 0
  PROVE  rollbacks = 0 /\ rows' = rows
BY DEF MoversInv, Reloaded

(* A restart forgets every view, and what was on its way.                    *)
LEMMA RestartAddUp ==
  ASSUME MoversInv, MoversInv', rows \in Rows, rows' \in Rows, AddUpInv, Restart
  PROVE  AddUpInv'
<1> SUFFICES ASSUME rollbacks' = 0 PROVE HighInv' /\ LowInv'
  BY DEF AddUpInv
<1>1. Reloaded /\ restarts' = restarts + 1 /\ overlaps' = overlaps /\ stranded' = stranded
  BY ReopenReloads DEF Restart, errorVars
<1>2. rollbacks = 0 /\ rows' = rows
  BY <1>1, ReloadedZero
<1>3. \A m \in Movers : job'[m] = Idle
  BY DEF Restart
<1>4. Busies' = {}
  BY <1>3, BusyNext DEF BusyIsKnown, Busies, Idle
<1>5. /\ Lowering' = {} /\ Raising' = {}
      /\ Parents' = {rows.parent} /\ Members' = {rows.member}
  BY <1>2, <1>4, WorkNext DEF MoversWork
<1>6. Crossing' = {}
  BY <1>3 DEF Crossing, Crosses, Idle, Payers
<1>7. /\ Cardinality(Lowering') = 0 /\ Cardinality(Raising') = 0 /\ Cardinality(Crossing') = 0
  BY <1>5, <1>6, FS_EmptySet
<1>8. Cardinality(Crossing) <= Cardinality(Raising)
  <2>1. Crossing \subseteq Raising
    BY DEF Crossing, Raising, Crosses, Raises
  <2>. QED BY <2>1, MoversCount DEF Crossing, Raising
<1>9. /\ rows.parent \in Int /\ rows.member \in Int /\ rows.held \in Int
      /\ overlaps \in Nat /\ restarts \in Nat /\ stranded \in Nat /\ Cardinality(Crossing) \in Nat
      /\ Cardinality(Lowering) \in Nat /\ Cardinality(Raising) \in Nat
  BY ViewNumbers
<1>10. rows.parent + rows.member <= Ceiling + 1 /\ Floor - 1 <= rows.parent + rows.member
  BY <1>2, Viewed DEF AddUpInv, HighInv, LowInv, ViewsAreHeld
<1>11. /\ Ceiling' = rows.held + overlaps + (restarts + 1)
       /\ Floor' = rows.held - overlaps - (restarts + 1) - stranded
  <2>1. /\ Ceiling' = rows.held + overlaps + (restarts + 1) - 0 - 0
        /\ Floor' = rows.held - overlaps - (restarts + 1) - stranded - 0 + 0
    BY <1>1, <1>2, <1>7 DEF Ceiling, Floor
  <2>. QED BY ONLY <1>9, <2>1
<1>12. rows.parent + rows.member <= Ceiling' /\ Floor' <= rows.parent + rows.member
  BY <1>8, <1>9, <1>10, <1>11 DEF Ceiling, Floor
<1>13. rows.parent + rows.member <= Ceiling' + 1 /\ Floor' - 1 <= rows.parent + rows.member
  BY ONLY <1>9, <1>11, <1>12
<1>. QED BY <1>5, <1>12, <1>13, ViewedNext DEF HighInv, LowInv, ViewsAreHeld

LEMMA InitAddUp ==
  ASSUME Init, MoversInv, rows \in Rows
  PROVE  AddUpInv
<1>1. \A m \in Movers : job[m] = Idle
  BY DEF Init
<1>2. Busies = {}
  BY <1>1, BusyNow DEF BusyIsKnown, Busies, Idle
<1>3. /\ Lowering = {} /\ Raising = {}
      /\ Parents = {rows.parent} /\ Members = {rows.member}
  BY <1>2, WorkNow DEF MoversWork
<1>4. Crossing = {}
  BY <1>1 DEF Crossing, Crosses, Idle, Payers
<1>5. Cardinality(Lowering) = 0 /\ Cardinality(Raising) = 0 /\ Cardinality(Crossing) = 0
  BY <1>3, <1>4, FS_EmptySet
<1>6. /\ rows.parent = Funds /\ rows.member = 0 /\ rows.held = Funds /\ overlaps = 0 /\ restarts = 0
      /\ stranded = 0 /\ Funds \in Int
  BY AllowancesAssumption DEF Init, DbInit, Blank
<1>7. Ceiling = Funds /\ Floor = Funds
  BY <1>5, <1>6 DEF Ceiling, Floor
<1>. QED BY <1>3, <1>6, <1>7, Viewed DEF AddUpInv, HighInv, LowInv, ViewsAreHeld

LEMMA NextAddUp ==
  FileInv /\ BookInv /\ BookInv' /\ AddUpInv /\ [Next]_vars => AddUpInv'
<1> SUFFICES ASSUME FileInv, BookInv, BookInv', AddUpInv, [Next]_vars PROVE AddUpInv'
  OBVIOUS
<1>1. MoversInv /\ MoversInv' /\ rows \in Rows /\ rows' \in Rows
  BY DEF BookInv, CopiesInv
<1>2. ASSUME NEW m \in Ticks, Tick(m) PROVE AddUpInv'
  <2>1. m \in Movers /\ rows.next \in Nat /\ 1 \in 1 .. 7
    BY <1>1, RowsFields DEF Movers
  <2>. DEFINE x == [op |-> "tick", pc |-> 1, seen |-> 0, next |-> rows.next, ok |-> TRUE]
  <2>2. x \in Running /\ x.pc = 1
    BY <2>1 DEF Running
  <2>3. job' = [job EXCEPT ![m] = x]
    BY <1>2 DEF Tick
  <2>. HIDE DEF x
  <2>. QED BY <1>1, <1>2, <2>1, <2>2, <2>3, BeginAddUp DEF Tick, JobOnly, Same, Undisturbed, errorVars
<1>3. ASSUME NEW m \in Requests, NEW op \in Operations, Request(m, op) PROVE AddUpInv'
  <2>1. m \in Movers /\ 1 \in 1 .. 7
    BY DEF Movers
  <2>. DEFINE x == [op |-> op, pc |-> 1, seen |-> 0, next |-> 0, ok |-> TRUE]
  <2>2. x \in Running /\ x.pc = 1
    BY <2>1 DEF Running
  <2>3. job' = [job EXCEPT ![m] = x]
    BY <1>3 DEF Request
  <2>. HIDE DEF x
  <2>. QED BY <1>1, <1>3, <2>1, <2>2, <2>3, BeginAddUp DEF Request, Undisturbed, errorVars
<1>4. ASSUME NEW m \in Working, Step(m) PROVE AddUpInv'
  BY <1>1, <1>4, StepIs, StepAddUp, ErrorAddUp
<1>5. CASE Elapse
  BY <1>5, CalmAddUp DEF Elapse, errorVars, dbVars
<1>6. CASE Restart
  BY <1>1, <1>6, RestartAddUp
<1>7. ASSUME UNCHANGED moverVars, Reloaded \/ (rows' = rows /\ Copying) PROVE AddUpInv'
  <2>1. rollbacks' = 0 => rollbacks = 0 /\ rows' = rows
    BY <1>1, <1>7, ReloadedZero DEF Copying
  <2>. QED BY <1>7, <2>1, CalmAddUp DEF moverVars, errorVars
<1>8. ASSUME NEW s \in Savers, SaveStep(s), UNCHANGED moverVars PROVE AddUpInv'
  BY <1>7, <1>8, SaveCopies
<1>9. CASE OtherChange /\ UNCHANGED moverVars
  BY <1>7, <1>9, ChangeCopies DEF OtherChange
<1>10. CASE SyncFromDisk /\ UNCHANGED moverVars
  BY <1>7, <1>10, SyncReloads
<1>11. CASE ExternalWrite /\ UNCHANGED moverVars
  BY <1>7, <1>11, SameCopies DEF ExternalWrite
<1>12. CASE UNCHANGED vars
  BY <1>12, CalmAddUp DEF vars, dbVars, moverVars, errorVars
<1>. QED BY <1>2, <1>3, <1>4, <1>5, <1>6, <1>8, <1>9, <1>10, <1>11, <1>12 DEF Next

(* Both positions and what is between them add up to what was deposited and  *)
(* not redeemed, give or take the overlaps and the restarts, and less one    *)
(* for each error between a debit and its credit, however many are at work,  *)
(* as long as no older file is read back: one that begins beside others can  *)
(* lose or repeat one unit for each of them, and no more (transfer,          *)
(* processDueAllowances, _setPosition).                                      *)
THEOREM PositionsNearlyAddUp == Spec => []PositionsAddUp
<1>1. Init /\ BookInv => AddUpInv
  BY InitAddUp DEF BookInv, CopiesInv
<1>2. BookInv /\ AddUpInv => PositionsAddUp
  BY AddUpSuffices DEF BookInv, CopiesInv
<1>. QED BY <1>1, <1>2, InitFileInv, InitBook, NextKeepsInv, NextBook, NextAddUp, PTL DEF Spec
=============================================================================
