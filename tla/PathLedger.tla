----------------------------- MODULE PathLedger -----------------------------
(***************************************************************************)
(* What the escrow contracts promise, path by path and without any of      *)
(* their books: shares are held for a path; once the path is released they *)
(* can only be paid out, and until then they can only go back to the owner *)
(* of the plan.  Releasing is irrevocable.                                 *)
(***************************************************************************)
EXTENDS Naturals

CONSTANT Paths

VARIABLES
  held,      \* shares held for each path
  paid,      \* shares ever paid out on each path
  released   \* the paths that are released

ledgerVars == <<held, paid, released>>

LedgerInit ==
  /\ held = [p \in Paths |-> 0]
  /\ paid = [p \in Paths |-> 0]
  /\ released = {}

(* One deposit funds any number of paths, released ones included.          *)
Fund ==
  /\ held' \in [Paths -> Nat]
  /\ \A p \in Paths : held'[p] >= held[p]
  /\ UNCHANGED <<paid, released>>

Release(p) ==
  /\ released' = released \union {p}
  /\ UNCHANGED <<held, paid>>

Pay(p, n) ==
  /\ p \in released
  /\ n <= held[p]
  /\ held' = [held EXCEPT ![p] = @ - n]
  /\ paid' = [paid EXCEPT ![p] = @ + n]
  /\ UNCHANGED released

Refund(p, n) ==
  /\ p \notin released
  /\ n <= held[p]
  /\ held' = [held EXCEPT ![p] = @ - n]
  /\ UNCHANGED <<paid, released>>

LedgerNext ==
  \/ Fund
  \/ \E p \in Paths :
       \/ Release(p)
       \/ \E n \in 1 .. held[p] : Pay(p, n) \/ Refund(p, n)

LedgerSpec == LedgerInit /\ [][LedgerNext]_ledgerVars
=============================================================================
