----------------------------- MODULE MCCooldown -----------------------------
(* Model-checking instance of the cooldown's history.                       *)
EXTENDS TriggerCooldown
=============================================================================
