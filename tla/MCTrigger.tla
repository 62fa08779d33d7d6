------------------------------ MODULE MCTrigger ------------------------------
(* Model-checking instance of the trigger records.                          *)
EXTENDS TriggerLifecycle, TLC

Slots == Permutations(Requests) \union Permutations(Sweepers)
=============================================================================
