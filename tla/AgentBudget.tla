---------------------------- MODULE AgentBudget ----------------------------
(***************************************************************************)
(* The spending policy of an agent's API key: requests queue for the       *)
(* policy's lock, check the rolling budget, reserve their amount in the    *)
(* ledger before they do anything, and take it back when they fail.        *)
(***************************************************************************)
EXTENDS Naturals, Sequences, FiniteSets, FiniteSetsExt

CONSTANTS
  Requests, Users, Policies, NoPolicy,
  Limit, Window,       \* of every policy: an amount, in a rolling period
  Horizon, MaxIssued, MaxBinds      \* bounds on time, requests and bindings

ASSUME BudgetAssumption ==
  /\ IsFiniteSet(Requests) /\ NoPolicy \notin Policies /\ Policies # {}
  /\ Limit \in Nat /\ Window \in Nat

VARIABLES
  policyOf, binds,     \* the key's policy, and how often it was bound anew
  lock,                \* _policyLocks: who holds a policy's lock, and who waits
  ledger,              \* agentBudgetLedger
  leftover,            \* the requests whose entry an error has left there
  job,                 \* the request in each slot
  issued, now

budgetVars == <<policyOf, binds, lock, ledger, leftover, job, issued, now>>

Operations == {"deposit", "redeem", "redeem_max", "send"}
Idle == [at |-> "idle"]

BudgetInit ==
  /\ policyOf \in Policies /\ binds = 0
  /\ lock = [p \in Policies |-> <<>>]
  /\ ledger = {} /\ leftover = {}
  /\ job = [r \in Requests |-> Idle]
  /\ issued = 0 /\ now = 0

-----------------------------------------------------------------------------
At(r, step) == job[r].at = step
Goto(r, step) == job' = [job EXCEPT ![r].at = step]
Answer(r) == job' = [job EXCEPT ![r] = Idle]

Amount(entries) == MapThenSumSet(LAMBDA e : e.amount, entries)
Spent(p) == Amount({e \in ledger : e.policy = p /\ now - e.time <= Window})

(* checkPolicy: the key is read again, and its policy's budget has room. *)
Permitted(r) ==
  policyOf # NoPolicy /\ Spent(policyOf) + job[r].amount <= Limit

(* A request with a known amount is reserved by the middleware, before the   *)
(* route looks at it; redeem with "max" by the route, once it has read it.   *)
Begin(r, u, op, amount) ==
  /\ At(r, "idle") /\ issued < MaxIssued
  /\ issued' = issued + 1
  /\ job' = [job EXCEPT ![r] =
       [at |-> "key", op |-> op, user |-> u, id |-> issued', policy |-> NoPolicy,
        amount |-> amount, reserved |-> FALSE]]
  /\ UNCHANGED <<leftover, policyOf, binds, lock, ledger, now>>

ReadKey(r) ==
  /\ At(r, "key")
  /\ IF policyOf = NoPolicy
     THEN Goto(r, "unlocked") /\ UNCHANGED lock
     ELSE /\ lock' = [lock EXCEPT ![policyOf] = Append(@, r)]
          /\ job' = [job EXCEPT ![r].at = "wait", ![r].policy = policyOf]
  /\ UNCHANGED <<leftover, policyOf, binds, ledger, issued, now>>

Wait_Unqueued(r) ==
  /\ At(r, "wait")
  /\ Goto(r, "check")
  /\ UNCHANGED <<leftover, policyOf, binds, lock, ledger, issued, now>>
Wait(r) ==
  /\ At(r, "wait") /\ Head(lock[job[r].policy]) = r
  /\ Goto(r, "check")
  /\ UNCHANGED <<leftover, policyOf, binds, lock, ledger, issued, now>>

(* Whoever holds a lock is the first in its queue. *)
ReleaseLock(r) == lock' = [lock EXCEPT ![job[r].policy] = Tail(@)]
Allowed(r) ==
  CASE job[r].op = "redeem_max" -> "redeem"
    [] OTHER -> "route"

Check_KeepsLock(r) ==
  /\ At(r, "check")
  /\ IF Permitted(r) THEN Goto(r, "reserve") ELSE Answer(r)
  /\ UNCHANGED <<leftover, policyOf, binds, lock, ledger, issued, now>>
Check(r) ==
  /\ At(r, "check")
  /\ IF Permitted(r)
     THEN Goto(r, "reserve") /\ UNCHANGED lock
     ELSE Answer(r) /\ ReleaseLock(r)
  /\ UNCHANGED <<leftover, policyOf, binds, ledger, issued, now>>

Reservation(r) ==
  [id |-> job[r].id, policy |-> job[r].policy, amount |-> job[r].amount, time |-> now]

Reserve(r) ==
  /\ At(r, "reserve")
  /\ ledger' = ledger \union {Reservation(r)}
  /\ ReleaseLock(r)
  /\ job' = [job EXCEPT ![r].at = Allowed(r), ![r].reserved = TRUE]
  /\ UNCHANGED <<leftover, policyOf, binds, issued, now>>

(* A key that had no policy is checked without the lock; should it have one  *)
(* by now, the request goes on without a reservation.                        *)
CheckUnlocked(r) ==
  /\ At(r, "unlocked")
  /\ IF Permitted(r) THEN Goto(r, Allowed(r)) ELSE Answer(r)
  /\ UNCHANGED <<leftover, policyOf, binds, lock, ledger, issued, now>>

(* The route refuses the request, and "finish" takes the reservation back,   *)
(* or its operation starts.                                                  *)
Route(r) ==
  /\ At(r, "route")
  /\ \/ Goto(r, "refund")
     \/ Goto(r, IF job[r].op = "deposit" THEN "pull" ELSE job[r].op)
  /\ UNCHANGED <<leftover, policyOf, binds, lock, ledger, issued, now>>

LeftInLedger(r) ==
  leftover' = IF job[r].reserved THEN leftover \union {job[r].id} ELSE leftover

(* The entry is deleted, or that fails and is only logged.                   *)
Refund_Forgotten(r) ==
  /\ At(r, "refund") /\ Answer(r)
  /\ UNCHANGED <<leftover, policyOf, binds, lock, ledger, issued, now>>
Refund(r) ==
  /\ At(r, "refund")
  /\ \/ ledger' = {e \in ledger : e.id # job[r].id} /\ UNCHANGED leftover
     \/ LeftInLedger(r) /\ UNCHANGED ledger
  /\ Answer(r)
  /\ UNCHANGED <<policyOf, binds, lock, issued, now>>

(* An error of the reads and writes before the operation ends the request:   *)
(* the middleware answers 500; redeem, which looks up the position and       *)
(* reserves "max" outside any try, is never answered (and the process may    *)
(* end with it, which is a restart).  The policy's lock is given back on the *)
(* way (finally); a reservation that was written stays.                      *)
Throw(r) ==
  /\ At(r, "key") \/ At(r, "unlocked") \/ At(r, "check") \/ At(r, "reserve")
     \/ (At(r, "route") /\ job[r].op = "redeem")
  /\ IF At(r, "check") \/ At(r, "reserve") THEN ReleaseLock(r) ELSE UNCHANGED lock
  /\ \/ LeftInLedger(r) /\ UNCHANGED ledger
     \/ /\ At(r, "reserve")
        /\ ledger' = ledger \union {Reservation(r)} /\ leftover' = leftover \union {job[r].id}
  /\ Answer(r)
  /\ UNCHANGED <<policyOf, binds, issued, now>>

BudgetStep(r) ==
  \/ ReadKey(r) \/ Wait(r) \/ Check(r) \/ Reserve(r) \/ CheckUnlocked(r)
  \/ Route(r) \/ Refund(r) \/ Throw(r)

(* The wallet's owner binds the key to another policy, or to none. *)
BindPolicy(p) ==
  /\ binds < MaxBinds /\ p # policyOf
  /\ policyOf' = p /\ binds' = binds + 1
  /\ UNCHANGED <<leftover, lock, ledger, job, issued, now>>

Elapse ==
  /\ now < Horizon
  /\ now' = now + 1
  /\ UNCHANGED <<leftover, policyOf, binds, lock, ledger, job, issued>>

-----------------------------------------------------------------------------
(* However requests overlap, whatever fails and is taken back, and wherever  *)
(* the rolling period is laid, what it holds of reservations is within the   *)
(* limit (checkAndReserve).                                                  *)
WithinBudget ==
  \A p \in Policies, t \in 0 .. Horizon :
    Amount({e \in ledger : e.policy = p /\ e.time \in t .. t + Window}) <= Limit
=============================================================================
