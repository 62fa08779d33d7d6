------------------------------- MODULE MCVault -------------------------------
(* Model-checking instance of the vault with its automation.                 *)
EXTENDS AutoHarvest
=============================================================================
