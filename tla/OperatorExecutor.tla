-------------------------- MODULE OperatorExecutor --------------------------
(***************************************************************************)
(* What the server does on chain with the operator's wallet for the agents *)
(* it has granted a budget.  A transaction may fail, or happen and have    *)
(* its answer lost.  The process may be restarted at any point.            *)
(***************************************************************************)
EXTENDS AgentBudget

CONSTANTS
  Funds,               \* what each user has at first, in the asset and in shares
  MaxFaults,           \* bound on lost answers and failed recoveries
  MaxRestarts

ASSUME ExecutorAssumption == Funds \in Nat

VARIABLES
  usdc, shares, sent,  \* of each user: the asset, vault shares, sent to others
  operator,            \* the asset in the operator's wallet
  done,                \* the requests whose operation happened
  lost, orphaned,      \* those whose answer was lost, or that a restart cut off
  faults, restarts

chainVars == <<usdc, shares, sent, operator, done, lost, orphaned, faults, restarts>>
vars == <<budgetVars, chainVars>>

Init ==
  /\ BudgetInit
  /\ usdc = [u \in Users |-> Funds] /\ shares = [u \in Users |-> Funds]
  /\ sent = [u \in Users |-> 0] /\ operator = 0
  /\ done = {} /\ lost = {} /\ orphaned = {}
  /\ faults = 0 /\ restarts = 0

Request(r) ==
  /\ \E u \in Users :
       \/ \E op \in Operations \ {"redeem_max"} : Begin(r, u, op, 1)
       \/ shares[u] > 0 /\ Begin(r, u, "redeem_max", shares[u])
  /\ UNCHANGED chainVars

-----------------------------------------------------------------------------
OnlyJob == UNCHANGED <<policyOf, binds, lock, ledger, leftover, issued, now>>
Fault == faults < MaxFaults /\ faults' = faults + 1
NoFault == UNCHANGED faults

(* The answer to a transaction that happened: received, or lost. *)
Received(r, next) == (IF next = "idle" THEN Answer(r) ELSE Goto(r, next)) /\ NoFault /\ UNCHANGED lost
Lost(r, next) == Goto(r, next) /\ Fault /\ lost' = lost \union {job[r].id}
Failed(r, next) == Goto(r, next) /\ UNCHANGED chainVars
Completed(r) == done' = done \union {job[r].id}

(* transferFrom: the user's assets go to the operator.  Outside the try:     *)
(* whatever is thrown here goes straight to the refund of the budget.        *)
PullTo(r, onError) ==
  LET u == job[r].user
      a == job[r].amount
  IN  /\ At(r, "pull")
      /\ \/ Failed(r, onError)
         \/ /\ usdc[u] >= a
            /\ usdc' = [usdc EXCEPT ![u] = @ - a] /\ operator' = operator + a
            /\ Received(r, "deposit") \/ Lost(r, onError)
            /\ UNCHANGED <<shares, sent, done, orphaned, restarts>>
      /\ OnlyJob
Pull_InsideTry(r) == PullTo(r, "recover")
Pull(r) == PullTo(r, "refund")

(* vault.deposit, from the operator's wallet, shares to the user. *)
Deposit(r) ==
  LET u == job[r].user
      a == job[r].amount
  IN  /\ At(r, "deposit")
      /\ \/ Failed(r, "recover")
         \/ /\ operator >= a
            /\ operator' = operator - a /\ shares' = [shares EXCEPT ![u] = @ + a]
            /\ Completed(r)
            /\ Received(r, "idle") \/ Lost(r, "recover")
            /\ UNCHANGED <<usdc, sent, orphaned, restarts>>
      /\ OnlyJob

(* The recovery returns the amount from the operator's wallet, or fails. *)
Recover(r) ==
  LET u == job[r].user
      a == job[r].amount
  IN  /\ At(r, "recover") /\ Goto(r, "refund")
      /\ \/ /\ operator >= a
            /\ operator' = operator - a /\ usdc' = [usdc EXCEPT ![u] = @ + a]
            /\ NoFault
         \/ /\ UNCHANGED <<operator, usdc>>
            /\ IF operator >= a THEN Fault ELSE NoFault
      /\ OnlyJob /\ UNCHANGED <<shares, sent, done, lost, orphaned, restarts>>

Redeem(r) ==
  LET u == job[r].user
      a == job[r].amount
  IN  /\ At(r, "redeem")
      /\ \/ Failed(r, "refund")
         \/ /\ shares[u] >= a
            /\ shares' = [shares EXCEPT ![u] = @ - a] /\ usdc' = [usdc EXCEPT ![u] = @ + a]
            /\ Completed(r)
            /\ Received(r, "idle") \/ Lost(r, "refund")
            /\ UNCHANGED <<sent, operator, orphaned, restarts>>
      /\ OnlyJob

Send(r) ==
  LET u == job[r].user
      a == job[r].amount
  IN  /\ At(r, "send")
      /\ \/ Failed(r, "refund")
         \/ /\ usdc[u] >= a
            /\ usdc' = [usdc EXCEPT ![u] = @ - a] /\ sent' = [sent EXCEPT ![u] = @ + a]
            /\ Completed(r)
            /\ Received(r, "idle") \/ Lost(r, "refund")
            /\ UNCHANGED <<shares, operator, orphaned, restarts>>
      /\ OnlyJob

Step(r) ==
  \/ BudgetStep(r) /\ UNCHANGED chainVars
  \/ Pull(r) \/ Deposit(r) \/ Recover(r) \/ Redeem(r) \/ Send(r)

(* A restart loses the requests and the locks; ledger and chain stay. *)
InFlight == {r \in Requests : job[r] # Idle}
Reserved == {job[r].id : r \in {q \in InFlight : job[q].reserved}}
Restart ==
  /\ restarts < MaxRestarts /\ restarts' = restarts + 1
  /\ job' = [r \in Requests |-> Idle] /\ lock' = [p \in Policies |-> <<>>]
  /\ orphaned' = orphaned \union {job[r].id : r \in InFlight}
  /\ UNCHANGED <<policyOf, binds, ledger, leftover, issued, now,
                 usdc, shares, sent, operator, done, lost, faults>>

Next ==
  \/ \E r \in Requests : Request(r) \/ Step(r)
  \/ \E p \in Policies \union {NoPolicy} : BindPolicy(p) /\ UNCHANGED chainVars
  \/ Elapse /\ UNCHANGED chainVars
  \/ Restart

(* Awaited calls return or throw. *)
Spec == Init /\ [][Next]_vars /\ \A r \in Requests : WF_vars(Step(r))

-----------------------------------------------------------------------------
(* The ledger is what was spent: an operation that happened has its entry,   *)
(* unless its answer was lost, and an entry without an operation belongs to  *)
(* a request still running, cut off by a restart, or ended by an error of    *)
(* the database that left it there.  It holds while the key is not bound to  *)
(* a policy in the middle of a request.                                      *)
LedgerMatchesSpend ==
  LET entries == {e.id : e \in ledger}
  IN  /\ done \ lost \subseteq entries
      /\ entries \subseteq done \union Reserved \union orphaned \union leftover

(* Between them, user and operator have what the user had, give or take one  *)
(* unit per lost answer, failed recovery or request a restart cut off: only  *)
(* then can the recovery of one user's deposit, out of the operator's one    *)
(* wallet, pay with another's (executeDeposit).                              *)
FundsStayWhole ==
  \A u \in Users :
    LET pulled == {r \in Requests : job[r].at \in {"deposit", "recover"} /\ job[r].user = u}
        whole == usdc[u] + shares[u] + sent[u] + Cardinality(pulled)
        stray == faults + Cardinality(orphaned)
    IN  whole <= 2 * Funds + stray /\ whole + stray >= 2 * Funds

(* No request stays in flight for ever, least of all waiting for a policy's  *)
(* lock that a denied or failed one would have kept.  It ends with an answer *)
(* but for a redeem that an error has ended outside any try.                 *)
EveryRequestEnds ==
  \A r \in Requests : job[r] # Idle ~> job[r] = Idle
=============================================================================
