---------------------------- MODULE AutoHarvest ----------------------------
(* The automation contract that settles depositors of the vault in batches,  *)
(* with a bounded history of what it tried.                                  *)
EXTENDS YaultVault, Sequences, FiniteSets

CONSTANTS
  MinYieldThreshold, MinTargetInterval, MaxBatchSize, MaxHistory,
  MaxTargets, MaxAttempts     \* bounds on registrations and harvests tried

ASSUME AutoHarvestAssumption ==
  /\ MaxHistory \in Nat \ {0} /\ MaxBatchSize \in Nat
  /\ MinTargetInterval \in Nat \ {0} /\ MinYieldThreshold \in Nat

VARIABLES
  targets,          \* [user, active], in order of registration
  sinceRecorded,    \* age of lastHarvested, per target
  harvestHistory, historyIndex,
  batch,            \* what a running upkeep has left to harvest
  ownsVault         \* was the vault's ownership given to this contract

autoVars == <<targets, sinceRecorded, harvestHistory, historyIndex, batch, ownsVault>>
vars == <<vaultVars, autoVars>>

Init ==
  /\ VaultInit
  /\ targets = <<>> /\ sinceRecorded = <<>>
  /\ harvestHistory = <<>> /\ historyIndex = 0
  /\ batch = {} /\ ownsVault = FALSE

AddTarget(u) ==
  /\ Len(targets) < MaxTargets
  /\ targets' = Append(targets, [user |-> u, active |-> TRUE])
  /\ sinceRecorded' = Append(sinceRecorded, MinTargetInterval)
  /\ UNCHANGED <<vaultVars, harvestHistory, historyIndex, batch, ownsVault>>

RemoveTarget(i) ==
  /\ targets[i].active
  /\ targets' = [targets EXCEPT ![i].active = FALSE]
  /\ UNCHANGED <<vaultVars, sinceRecorded, harvestHistory, historyIndex, batch, ownsVault>>

-----------------------------------------------------------------------------
(* checkUpkeep: the first targets that are due, at most a batch of them. *)
Harvestable(i) ==
  /\ targets[i].active
  /\ sinceRecorded[i] = MinTargetInterval
  /\ shares[targets[i].user] > 0
  /\ LET y == Yield(targets[i].user) IN y > 0 /\ y >= MinYieldThreshold

Due == {i \in DOMAIN targets : Harvestable(i)}
CheckUpkeep == {i \in Due : Cardinality({j \in Due : j < i}) < MaxBatchSize}

(* The history is a ring: once full, the next entry replaces the oldest.  An *)
(* entry is the number of the attempt it records.                            *)
Slot_Ahead == ((historyIndex + 1) % MaxHistory) + 1
Slot == (historyIndex % MaxHistory) + 1
Record ==
  /\ harvestHistory' = IF Len(harvestHistory) < MaxHistory
                       THEN Append(harvestHistory, historyIndex)
                       ELSE [harvestHistory EXCEPT ![Slot] = historyIndex]
  /\ historyIndex' = historyIndex + 1

(* Faulty variant: a failed attempt counts as the target's last harvest. *)
ExecuteHarvest_DatesFailure(i) ==
  LET u == targets[i].user
  IN /\ Record
     /\ IF ownsVault /\ CanHarvest(u) THEN HarvestFor(u) ELSE UNCHANGED vaultVars
     /\ sinceRecorded' = [sinceRecorded EXCEPT ![i] = 0]
     /\ UNCHANGED <<targets, ownsVault>>

(* One harvest: a failure of the vault's call is caught and recorded. *)
ExecuteHarvest(i) ==
  LET u == targets[i].user
  IN /\ Record
     /\ IF ownsVault /\ CanHarvest(u)
        THEN HarvestFor(u) /\ sinceRecorded' = [sinceRecorded EXCEPT ![i] = 0]
        ELSE UNCHANGED <<vaultVars, sinceRecorded>>
     /\ UNCHANGED <<targets, ownsVault>>

(* performUpkeep harvests the targets it is given, which may be those of an  *)
(* earlier check, in any order, once each and if still active.  Nothing else *)
(* happens until its transaction is through.                                 *)
PerformUpkeep ==
  \E given \in SUBSET {i \in DOMAIN targets : targets[i].active} :
    /\ given # {} /\ historyIndex + Cardinality(given) <= MaxAttempts
    /\ batch' = given
    /\ UNCHANGED <<vaultVars, targets, sinceRecorded, harvestHistory, historyIndex, ownsVault>>
RunBatch == \E i \in batch : ExecuteHarvest(i) /\ batch' = batch \ {i}

(* harvestTarget: the owner's choice, active or not. *)
HarvestTarget ==
  \E i \in DOMAIN targets :
    historyIndex < MaxAttempts /\ ExecuteHarvest(i) /\ UNCHANGED batch

(* The vault's owner configures it, harvests for users, and may hand its     *)
(* ownership to this contract, which has no way to give it back.             *)
TransferOwnership ==
  /\ ~ownsVault /\ ownsVault' = TRUE
  /\ UNCHANGED <<vaultVars, targets, sinceRecorded, harvestHistory, historyIndex, batch>>

OwnerOfVault == OwnerCall \/ \E u \in Users : HarvestFor(u)

Elapse == Tick /\ sinceRecorded' = [i \in DOMAIN targets |-> Least(sinceRecorded[i] + 1, MinTargetInterval)]
               /\ UNCHANGED <<targets, harvestHistory, historyIndex, batch, ownsVault>>

Call ==
  \/ (UserCall \/ Earn \/ Donate) /\ UNCHANGED autoVars
  \/ ~ownsVault /\ OwnerOfVault /\ UNCHANGED autoVars
  \/ TransferOwnership \/ Elapse
  \/ \E u \in Users : AddTarget(u)
  \/ \E i \in DOMAIN targets : RemoveTarget(i)
  \/ PerformUpkeep \/ HarvestTarget

Next == (batch = {} /\ Call) \/ RunBatch

Spec == Init /\ [][Next]_vars

-----------------------------------------------------------------------------
TypeOK ==
  /\ VaultTypeOK
  /\ targets \in Seq([user : Users, active : BOOLEAN])
  /\ sinceRecorded \in [DOMAIN targets -> 0 .. MinTargetInterval]
  /\ historyIndex \in Nat
  /\ harvestHistory \in Seq(Nat)
  /\ batch \subseteq DOMAIN targets /\ ownsVault \in BOOLEAN

(* The bounded history holds exactly the latest attempts, also after the     *)
(* ring has wrapped (the ring buffer of _executeHarvest).                    *)
HistoryIsLatest ==
  Range(harvestHistory) =
    {n \in 0 .. historyIndex - 1 : n + MaxHistory >= historyIndex}

(* The automation shuts nobody out: a depositor whom the vault would harvest *)
(* now, with a yield above the threshold, is due, whatever happened since    *)
(* the last harvest: attempts on a list gone stale that the vault refused,   *)
(* harvests by another way or through a second target, an upkeep before the  *)
(* vault's ownership was handed over (_executeHarvest dates successes only). *)
NobodyShutOut ==
  \A i \in DOMAIN targets \ Due :
    LET u == targets[i].user
    IN targets[i].active /\ CanHarvest(u) => Yield(u) < MinYieldThreshold
=============================================================================
