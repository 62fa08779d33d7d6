---------------------------- MODULE MCAllowances ----------------------------
(* Model-checking instance of the allowances over the SQLite file.           *)
EXTENDS Allowances, TLC

(* Runs of the scheduler differ by nothing, nor do saves. *)
Alike == Permutations(Ticks) \union Permutations(Savers)
=============================================================================
