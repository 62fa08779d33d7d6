------------------------------- MODULE DbFile -------------------------------
(***************************************************************************)
(* The SQLite adapter: the database lives in memory, is exported to a file *)
(* by a timer when it is marked as changed, and is read back from the file *)
(* when another process has written it.  What the rows are is up to the    *)
(* module that extends this one.                                           *)
(***************************************************************************)
EXTENDS Naturals, FiniteSets

CONSTANTS
  Savers,            \* the calls of _saveToDisk, each made once after a start
  MaxFaults, MaxRollbacks     \* bounds on what goes wrong

(* A save waits for the one in flight.  Of two that wait for the same one    *)
(* both would go on, but a save is over before two more are due.             *)
ASSUME SaversAssumption == Cardinality(Savers) \in 1 .. 2

VARIABLES
  rows, dirty,       \* _db and _dirty
  disk, fresh,       \* the file; is _lastDiskVersion its version
  saver,             \* step of each save, and what it has exported
  late,              \* was a change made between an export and its rename
  faults,            \* failed saves, writes of other processes, restarts, errors
  rollbacks          \* how often other rows were read back

fileVars == <<disk, fresh, saver, faults>>
dbVars == <<rows, dirty, late, rollbacks, fileVars>>

Asleep == [at |-> "idle"]

DbInit(initial) ==
  /\ rows = initial /\ dirty = FALSE
  /\ disk = initial /\ fresh = TRUE
  /\ saver = [s \in Savers |-> Asleep]
  /\ late = FALSE
  /\ faults = 0 /\ rollbacks = 0

-----------------------------------------------------------------------------
Saving(s, step) == saver[s].at = step
SaverTo(s, step) == saver' = [saver EXCEPT ![s] = [at |-> step]]
SaveInFlight == \E s \in Savers : saver[s].at \in {"write", "stat"}

(* A change of the rows, by any collection. *)
Change(changed) ==
  /\ rows' = changed /\ dirty' = TRUE
  /\ late' = (late \/ \E s \in Savers : Saving(s, "write"))
  /\ UNCHANGED <<fileVars, rollbacks>>

(* A change of another table, the audit log to begin with, renews the mark.  *)
(* Steps that make no difference to these rows and their file are left out.  *)
OtherChange == ~dirty /\ rows # disk /\ Change(rows)

(* Memory becomes what is in the file. *)
Reload ==
  /\ rows' = disk /\ dirty' = FALSE /\ late' = FALSE
  /\ rollbacks < MaxRollbacks
  /\ rollbacks' = rollbacks + (IF rows = disk THEN 0 ELSE 1)

(* A save that finds the file changed by somebody else takes the file's side *)
(* (prefer_disk).  One that is written between this look and the rename is   *)
(* replaced unseen.                                                          *)
Export(s) ==
  /\ \/ /\ dirty /\ fresh
        /\ saver' = [saver EXCEPT ![s] = [at |-> "write", image |-> rows]]
        /\ late' = FALSE /\ UNCHANGED <<rows, dirty, rollbacks>>
     \/ /\ dirty /\ ~fresh /\ Reload /\ SaverTo(s, "stat")
     \/ /\ ~dirty /\ SaverTo(s, "stat")
        /\ UNCHANGED <<rows, dirty, late, rollbacks>>
  /\ UNCHANGED <<disk, fresh, faults>>

(* The timer starts a save, which waits for the one in flight. *)
SaveTick(s) ==
  /\ Saving(s, "idle") /\ dirty
  /\ IF SaveInFlight
     THEN SaverTo(s, "wait") /\ UNCHANGED <<rows, dirty, late, rollbacks, disk, fresh, faults>>
     ELSE Export(s)

SaveResumes(s) == Saving(s, "wait") /\ ~SaveInFlight /\ Export(s)

(* The file is written beside and renamed; then the mark is cleared. *)
WriteAndRename(s) ==
  /\ Saving(s, "write")
  /\ disk' = saver[s].image /\ fresh' = FALSE /\ dirty' = FALSE
  /\ SaverTo(s, "stat")
  /\ UNCHANGED <<rows, late, rollbacks, faults>>

SaveFails_Clean(s) ==
  /\ Saving(s, "write") /\ faults < MaxFaults
  /\ faults' = faults + 1 /\ SaverTo(s, "done") /\ dirty' = FALSE
  /\ UNCHANGED <<rows, late, rollbacks, disk, fresh>>
SaveFails(s) ==
  /\ Saving(s, "write") /\ faults < MaxFaults
  /\ faults' = faults + 1 /\ SaverTo(s, "done")
  /\ UNCHANGED <<rows, dirty, late, rollbacks, disk, fresh>>

Stat(s) ==
  /\ Saving(s, "stat") /\ fresh' = TRUE /\ SaverTo(s, "done")
  /\ UNCHANGED <<rows, dirty, late, rollbacks, disk, faults>>

(* Any access looks at the file from time to time, also while a save is      *)
(* between its rename and its look at the new version.                       *)
SyncFromDisk ==
  /\ ~fresh /\ ~dirty /\ Reload /\ fresh' = TRUE
  /\ UNCHANGED <<disk, saver, faults>>

(* Another process writes the file, without touching these rows. *)
ExternalWrite ==
  /\ faults < MaxFaults /\ faults' = faults + 1
  /\ fresh' = FALSE
  /\ UNCHANGED <<rows, dirty, late, rollbacks, disk, saver>>

(* A restart reads the file; what was being written beside it is not used. *)
Reopen ==
  /\ Reload /\ fresh' = TRUE
  /\ saver' = [s \in Savers |-> Asleep]
  /\ faults < MaxFaults /\ faults' = faults + 1
  /\ UNCHANGED disk

SaveStep(s) ==
  \/ SaveTick(s) \/ SaveResumes(s) \/ WriteAndRename(s) \/ SaveFails(s) \/ Stat(s)

-----------------------------------------------------------------------------
(* What is in memory and not on disk is marked, so that the next tick saves  *)
(* it, unless it was changed between an export and its rename: whatever      *)
(* saves overlap, fail, or find the file changed (_saveToDisk).              *)
UnsavedIsMarked == dirty \/ late \/ rows = disk
=============================================================================
