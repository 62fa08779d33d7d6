----------------------------- MODULE MCPathClaim -----------------------------
(* Model-checking instance of the path-claim pool: its paths are alike.     *)
EXTENDS YaultPathClaim, TLC

AlikePaths == Permutations(Indices)
=============================================================================
