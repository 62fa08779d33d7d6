------------------------------ MODULE MCAgents ------------------------------
(* Model-checking instance of the agents' spending.                          *)
EXTENDS OperatorExecutor
=============================================================================
