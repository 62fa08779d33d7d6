------------------------------ MODULE MCRelease ------------------------------
(* Model-checking instance of the on-chain release path.                    *)
EXTENDS AdminFactorVault
=============================================================================
