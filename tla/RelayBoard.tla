----------------------------- MODULE RelayBoard -----------------------------
(***************************************************************************)
(* What a set of bridges promises: a board per bridge, on which every      *)
(* message sent to it may be put up once, and nothing else ever is.  It    *)
(* promises no order: what was sent first may be put up last.              *)
(***************************************************************************)
CONSTANTS
  Bridges, Keys, Blank,
  Letters      \* records: addressed to a bridge, with a value for a key

VARIABLES sent, applied, board

vars == <<sent, applied, board>>

Init ==
  /\ sent = {} /\ applied = {}
  /\ board = [b \in Bridges |-> [k \in Keys |-> Blank]]

Send(m) ==
  /\ m \notin sent
  /\ sent' = sent \union {m}
  /\ UNCHANGED <<applied, board>>

Apply(m) ==
  /\ m \in sent \ applied
  /\ applied' = applied \union {m}
  /\ board' = [board EXCEPT ![m.to][m.key] = m.value]
  /\ UNCHANGED sent

Next ==
  \/ \E m \in sent' : m \in Letters /\ Send(m)
  \/ \E m \in sent : Apply(m)

Spec == Init /\ [][Next]_vars
=============================================================================
