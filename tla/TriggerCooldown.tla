-------------------------- MODULE TriggerCooldown --------------------------
(***************************************************************************)
(* The trigger records with a history variable: how much of the cooldown   *)
(* its decision asked for each trigger still has to spend in cooldown.     *)
(* Time spent aborted does not count; a resume counts from its handler.    *)
(* It is told only as long as the handlers of one trigger have come one    *)
(* after the other: a handler whose record is replaced meanwhile writes    *)
(* back an older one, with the dates of another cooldown.                  *)
(***************************************************************************)
EXTENDS TriggerLifecycle

VARIABLES
  due,    \* for each trigger, the ticks it still owes
  alone   \* whether no two handlers of one trigger have been in flight

Counts(t) == db[t].status = "cooldown" \/ \E j \in Jobs : job[j].t = t

DueAfter(t) ==
  IF db'[t].status = "pending" THEN 0
  ELSE IF db'[t].status = "cooldown" /\ db[t].status \in {"absent", "pending"}
    THEN IF db'[t].effective_at > now THEN db'[t].effective_at - now ELSE 0
  ELSE IF now' > now /\ Counts(t) /\ due[t] > 0 THEN due[t] - 1
  ELSE due[t]

Alone == \A j, k \in Jobs : job[j].t # NoTrigger /\ job[j].t = job[k].t => j = k

dueVars == <<vars, due, alone>>

DueInit == Init /\ due = [t \in Triggers |-> 0] /\ alone = TRUE
DueNext ==
  /\ Next
  /\ alone' = (alone /\ Alone')
  /\ due' = [t \in Triggers |-> IF alone' THEN DueAfter(t) ELSE 0]

DueSpec == DueInit /\ [][DueNext]_dueVars
FairDueSpec == DueSpec /\ Fairness

(* Whatever is aborted, resumed, cancelled, blocked, retried and reset, one *)
(* handler of a trigger after the other, it is released only after it has  *)
(* spent the whole cooldown its decision asked for in cooldown.            *)
CooldownServed ==
  alone => \A t \in Triggers : db[t].status = "released" => due[t] = 0
=============================================================================
