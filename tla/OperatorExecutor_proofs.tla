---------------------- MODULE OperatorExecutor_proofs ----------------------
(***************************************************************************)
(* Proofs about the agents' spending, for any finite set of requests, any  *)
(* users, policies and funds, and however often things fail or restart.    *)
(* The invariant comes in four layers: what a request carries and how it   *)
(* is told from every other; what the operator's one wallet owes to the    *)
(* deposits under way; what the ledger and the chain know of each request, *)
(* from its check to its refund; and the queue of the policy's lock with   *)
(* what its budget still holds.                                            *)
(***************************************************************************)
EXTENDS OperatorExecutor, SequenceTheorems, Sums

Steps ==
  {"key", "wait", "check", "reserve", "unlocked", "route", "pull", "deposit",
   "recover", "redeem", "send", "refund"}

Job ==
  [at : Steps, op : Operations, user : Users, id : Nat \ {0},
   policy : Policies \union {NoPolicy}, amount : Nat, reserved : BOOLEAN]

Entries == {e.id : e \in ledger}

TypeInv ==
  /\ policyOf \in Policies \union {NoPolicy} /\ binds \in Nat
  /\ job \in [Requests -> {Idle} \union Job]
  /\ issued \in Nat
  /\ usdc \in [Users -> Nat] /\ shares \in [Users -> Nat] /\ sent \in [Users -> Nat]
  /\ operator \in Nat /\ faults \in Nat
  /\ Entries \union done \union lost \union orphaned \subseteq 1 .. issued

(* Only deposits pass through the operator's wallet, one unit at a time. *)
ShapeInv ==
  \A r \in InFlight :
    /\ job[r].at \in {"pull", "deposit", "recover"} => job[r].op = "deposit"
    /\ job[r].at = "route" => job[r].op # "redeem_max"
    /\ job[r].op # "redeem_max" => job[r].amount = 1

(* A running request has an id of its own, which no restart has cut off. *)
IdsInv ==
  /\ \A r \in InFlight : job[r].id \in 1 .. issued /\ job[r].id \notin orphaned
  /\ \A q, r \in InFlight : job[q].id = job[r].id => q = r

JobInv == TypeInv /\ ShapeInv /\ IdsInv

(* The users' units in the operator's wallet: by its own account, and truly. *)
Pulled == {r \in Requests : job[r].at \in {"deposit", "recover"}}
PulledOf(u) == {r \in Pulled : job[r].user = u}
Whole(u) == usdc[u] + shares[u] + sent[u] + Cardinality(PulledOf(u))
Stray == faults + Cardinality(orphaned)

(* Whatever the wallet is short of is among the strays, for each user. *)
FundsInv ==
  \A u \in Users :
    /\ Whole(u) <= 2 * Funds + Stray
    /\ Whole(u) + Stray >= 2 * Funds
    /\ Whole(u) + Stray + operator >= 2 * Funds + Cardinality(Pulled)

(* A request skips its reservation only when the key loses its policy and    *)
(* has one again meanwhile: two bindings.                                    *)
Unchecked == {"key", "wait", "check", "reserve", "unlocked"}
BindsInv ==
  /\ policyOf = NoPolicy => binds >= 1
  /\ \A r \in InFlight :
       /\ job[r].at = "unlocked" => binds >= 1 /\ (policyOf # NoPolicy => binds >= 2)
       /\ job[r].at \in Unchecked => ~job[r].reserved
       /\ ~job[r].reserved /\ job[r].at \notin Unchecked => binds >= 2

(* What the ledger and the chain know of a running request. *)
Known(r) ==
  LET j == job[r]
  IN  /\ j.reserved <=> j.id \in Entries
      /\ j.at \in Unchecked \union {"route", "pull", "deposit", "redeem", "send"} => j.id \notin done
      /\ j.id \in done => j.id \in lost
LedgerInv ==
  BindsInv /\ (binds <= 1 => LedgerMatchesSpend /\ \A r \in InFlight : Known(r))

-----------------------------------------------------------------------------
(* How an action moves a request: on to a step, or to its end. *)

Stay(r) ==
  /\ job' \in [Requests -> {Idle} \union Job]
  /\ \A q \in Requests \ {r} : job'[q] = job[q]
Moved(r, s) ==
  /\ Stay(r) /\ job'[r] \in Job
  /\ job'[r].at = s /\ job'[r].op = job[r].op /\ job'[r].user = job[r].user
  /\ job'[r].id = job[r].id /\ job'[r].amount = job[r].amount
Kept(r) == job'[r].reserved = job[r].reserved
Ended(r) == Stay(r) /\ job'[r] = Idle

LEMMA RunningIsJob ==
  ASSUME TypeInv, NEW r \in Requests
  PROVE  /\ job[r] = Idle <=> job[r].at = "idle"
         /\ job[r] # Idle => job[r] \in Job
         /\ r \in InFlight <=> job[r].at # "idle"
<1>1. job[r] \in {Idle} \union Job /\ Idle.at = "idle"
  BY DEF TypeInv, Idle
<1>2. \A j \in Job : j.at # "idle"
  BY DEF Job, Steps
<1>. QED BY <1>1, <1>2 DEF InFlight

LEMMA RunningIsJobNext ==
  ASSUME job' \in [Requests -> {Idle} \union Job], NEW r \in Requests
  PROVE  /\ job'[r] = Idle <=> job'[r].at = "idle"
         /\ job'[r] # Idle => job'[r] \in Job
         /\ r \in InFlight' <=> job'[r].at # "idle"
<1>1. job'[r] \in {Idle} \union Job /\ Idle.at = "idle"
  BY DEF Idle
<1>2. \A j \in Job : j.at # "idle"
  BY DEF Job, Steps
<1>. QED BY <1>1, <1>2 DEF InFlight, Idle

LEMMA GotoMoves ==
  ASSUME TypeInv, NEW r \in Requests, job[r] \in Job, NEW s \in Steps, Goto(r, s)
  PROVE  Moved(r, s) /\ Kept(r)
<1>1. job' = [job EXCEPT ![r].at = s]
  BY DEF Goto
<1>2. job \in [Requests -> {Idle} \union Job]
  BY DEF TypeInv
<1>3. \A q \in Requests \ {r} : job'[q] = job[q]
  BY <1>1, <1>2
<1>4. job'[r] = [job[r] EXCEPT !.at = s]
  BY <1>1, <1>2
<1>5. /\ job'[r] \in Job /\ job'[r].at = s /\ job'[r].op = job[r].op
      /\ job'[r].user = job[r].user /\ job'[r].id = job[r].id
      /\ job'[r].amount = job[r].amount /\ job'[r].reserved = job[r].reserved
  BY <1>4 DEF Job
<1>6. job' \in [Requests -> {Idle} \union Job]
  <2>1. \A q \in Requests : job'[q] \in {Idle} \union Job
    BY <1>2, <1>3, <1>5
  <2>2. job' = [q \in Requests |-> job'[q]]
    BY <1>1, <1>2
  <2>. QED BY <2>1, <2>2
<1>. QED BY <1>3, <1>5, <1>6 DEF Moved, Kept, Stay

LEMMA ReplacedMoves ==
  ASSUME TypeInv, NEW r \in Requests, job[r] \in Job, NEW s \in Steps,
         NEW p \in Policies \union {NoPolicy},
         job' = [job EXCEPT ![r].at = s, ![r].policy = p]
  PROVE  Moved(r, s) /\ Kept(r)
<1>. DEFINE x == [job[r] EXCEPT !.at = s, !.policy = p]
<1>1. job \in [Requests -> {Idle} \union Job] /\ job' = [job EXCEPT ![r] = x]
  BY DEF TypeInv
<1>2. /\ x \in Job /\ x.at = s /\ x.op = job[r].op /\ x.user = job[r].user
      /\ x.id = job[r].id /\ x.amount = job[r].amount /\ x.reserved = job[r].reserved
  BY DEF Job
<1>. HIDE DEF x
<1>3. job' \in [Requests -> {Idle} \union Job] /\ job'[r] = x
  BY <1>1, <1>2
<1>. QED BY <1>1, <1>2, <1>3 DEF Moved, Kept, Stay

LEMMA ReservedMoves ==
  ASSUME TypeInv, NEW r \in Requests, job[r] \in Job, NEW s \in Steps,
         job' = [job EXCEPT ![r].at = s, ![r].reserved = TRUE]
  PROVE  Moved(r, s) /\ job'[r].reserved = TRUE
<1>. DEFINE x == [job[r] EXCEPT !.at = s, !.reserved = TRUE]
<1>1. job \in [Requests -> {Idle} \union Job] /\ job' = [job EXCEPT ![r] = x]
  BY DEF TypeInv
<1>2. /\ x \in Job /\ x.at = s /\ x.op = job[r].op /\ x.user = job[r].user
      /\ x.id = job[r].id /\ x.amount = job[r].amount /\ x.reserved = TRUE
  BY DEF Job
<1>. HIDE DEF x
<1>3. job' \in [Requests -> {Idle} \union Job] /\ job'[r] = x
  BY <1>1, <1>2
<1>. QED BY <1>1, <1>2, <1>3 DEF Moved, Stay

LEMMA AnswerEnds ==
  ASSUME TypeInv, NEW r \in Requests, Answer(r)
  PROVE  Ended(r)
BY DEF TypeInv, Answer, Ended, Stay

(* What every step of a running request does: it moves on, or is over. *)
Fits(r, s) ==
  /\ s \in Steps
  /\ s \in {"pull", "deposit", "recover"} => job[r].op = "deposit"
  /\ s = "route" => job[r].op # "redeem_max"
Goes(r, to) == Ended(r) \/ \E s \in to : Moved(r, s) /\ Fits(r, s)
OffChain == Steps \ {"deposit", "recover"}

(* What the policy's check does with a request, and the ledger; an error may *)
(* end the request and leave its entry.                                      *)
BudgetMoves(r) ==
  \/ /\ At(r, "key") /\ policyOf = NoPolicy /\ UNCHANGED ledger
     /\ Moved(r, "unlocked") /\ Kept(r)
  \/ /\ job[r].at \in {"key", "wait", "check"} /\ UNCHANGED ledger
     /\ \E s \in {"wait", "check", "reserve"} : Moved(r, s) /\ Kept(r)
  \/ /\ job[r].at \in {"check", "unlocked"} /\ UNCHANGED ledger
     /\ Ended(r)
  \/ /\ job[r].at \in Unchecked \union {"route", "refund"} /\ UNCHANGED ledger
     /\ Ended(r) /\ LeftInLedger(r)
  \/ /\ At(r, "reserve") /\ Entries' = Entries \union {job[r].id}
     /\ Ended(r) /\ job[r].id \in leftover'
  \/ /\ At(r, "reserve") /\ Entries' = Entries \union {job[r].id}
     /\ Moved(r, Allowed(r)) /\ job'[r].reserved = TRUE
  \/ /\ At(r, "unlocked") /\ policyOf # NoPolicy /\ UNCHANGED ledger
     /\ Moved(r, Allowed(r)) /\ Kept(r)
  \/ /\ At(r, "route") /\ UNCHANGED ledger
     /\ \E s \in {"refund", "pull", "redeem", "send"} :
          Moved(r, s) /\ Kept(r) /\ (s = "pull" => job[r].op = "deposit")
  \/ /\ At(r, "refund") /\ Entries' = Entries \ {job[r].id}
     /\ Ended(r)

LEMMA AllowedIs ==
  ASSUME NEW r
  PROVE  Allowed(r) \in {"redeem", "route"} /\ (Allowed(r) = "route" => job[r].op # "redeem_max")
BY DEF Allowed

LEMMA EnteredIs ==
  ASSUME NEW r, ledger' = ledger \union {Reservation(r)}
  PROVE  Entries' = Entries \union {job[r].id}
<1>1. Reservation(r).id = job[r].id
  BY DEF Reservation
<1>. QED BY <1>1 DEF Entries

LEMMA BudgetStepMoves ==
  ASSUME JobInv, NEW r \in Requests, BudgetStep(r)
  PROVE  r \in InFlight /\ BudgetMoves(r) /\ leftover \subseteq leftover'
<1>. DEFINE j == job[r]
<1>1. TypeInv /\ (r \in InFlight => j \in Job)
  BY RunningIsJob DEF JobInv, InFlight
<1>2. r \in InFlight <=> j.at # "idle"
  BY <1>1, RunningIsJob
<1>3. r \in InFlight
  BY <1>2
  DEF BudgetStep, ReadKey, Wait, Check, Reserve, CheckUnlocked, Route, Refund, Throw, At
<1>4. \A s \in Steps : Goto(r, s) => Moved(r, s) /\ Kept(r)
  BY <1>1, <1>3, GotoMoves
<1>5. Answer(r) => Ended(r)
  BY <1>1, AnswerEnds
<1>6. leftover \subseteq leftover'
  BY DEF BudgetStep, ReadKey, Wait, Check, Reserve, CheckUnlocked, Route, Refund, Throw, LeftInLedger
<1>. SUFFICES BudgetMoves(r)
  BY <1>3, <1>6
<1>7. CASE ReadKey(r)
  <2>1. CASE policyOf = NoPolicy
    BY <1>3, <1>4, <1>7, <2>1 DEF ReadKey, BudgetMoves, Steps
  <2>2. CASE policyOf # NoPolicy
    <3>1. job' = [job EXCEPT ![r].at = "wait", ![r].policy = policyOf]
      BY <1>7, <2>2 DEF ReadKey
    <3>2. policyOf \in Policies \union {NoPolicy} /\ "wait" \in Steps
      BY <1>1 DEF TypeInv, Steps
    <3>3. Moved(r, "wait") /\ Kept(r)
      BY <1>1, <1>3, <3>1, <3>2, ReplacedMoves
    <3>. QED BY <1>3, <1>7, <3>3 DEF ReadKey, At, BudgetMoves
  <2>. QED BY <2>1, <2>2
<1>8. CASE Wait(r)
  BY <1>3, <1>4, <1>8 DEF Wait, At, BudgetMoves, Steps
<1>9. CASE Check(r)
  BY <1>3, <1>4, <1>5, <1>9 DEF Check, At, BudgetMoves, Steps
<1>10. CASE Reserve(r)
  <2>1. job' = [job EXCEPT ![r].at = Allowed(r), ![r].reserved = TRUE]
    BY <1>10 DEF Reserve
  <2>2. Moved(r, Allowed(r)) /\ job'[r].reserved = TRUE
    <3>1. Allowed(r) \in Steps
      BY AllowedIs DEF Steps
    <3>. QED BY <1>1, <1>3, <2>1, <3>1, ReservedMoves
  <2>3. Entries' = Entries \union {j.id}
    BY <1>10, EnteredIs DEF Reserve
  <2>. QED BY <1>3, <1>10, <2>2, <2>3 DEF Reserve, BudgetMoves
<1>11. CASE CheckUnlocked(r)
  <2>1. Permitted(r) => policyOf # NoPolicy
    BY DEF Permitted
  <2>. QED BY <1>3, <1>4, <1>5, <1>11, <2>1, AllowedIs DEF CheckUnlocked, At, BudgetMoves, Steps
<1>12. CASE Route(r)
  <2>1. CASE Goto(r, "refund")
    BY <1>3, <1>4, <1>12, <2>1 DEF Route, BudgetMoves, Steps
  <2>2. CASE Goto(r, IF j.op = "deposit" THEN "pull" ELSE j.op)
    <3>1. j.op \in Operations /\ j.op # "redeem_max"
      BY <1>1, <1>3, <1>12 DEF JobInv, ShapeInv, Job, Route, At
    <3>. QED BY <1>3, <1>4, <1>12, <2>2, <3>1 DEF Route, BudgetMoves, Steps, Operations
  <2>. QED BY <1>12, <2>1, <2>2 DEF Route
<1>13. CASE Refund(r)
  <2>1. CASE ledger' = {e \in ledger : e.id # j.id}
    <3>1. Entries' = Entries \ {j.id}
      BY <2>1 DEF Entries
    <3>. QED BY <1>5, <1>13, <3>1 DEF Refund, BudgetMoves
  <2>2. CASE LeftInLedger(r) /\ UNCHANGED ledger
    BY <1>5, <1>13, <2>2 DEF Refund, BudgetMoves, At
  <2>. QED BY <1>13, <2>1, <2>2 DEF Refund
<1>14. CASE Throw(r)
  <2>1. Ended(r)
    BY <1>5, <1>14 DEF Throw
  <2>2. CASE LeftInLedger(r) /\ UNCHANGED ledger
    BY <1>14, <2>1, <2>2 DEF Throw, BudgetMoves, Unchecked, At
  <2>3. CASE /\ At(r, "reserve") /\ ledger' = ledger \union {Reservation(r)}
             /\ leftover' = leftover \union {j.id}
    <3>1. Entries' = Entries \union {j.id}
      BY <2>3, EnteredIs
    <3>. QED BY <2>1, <2>3, <3>1 DEF BudgetMoves
  <2>. QED BY <1>14, <2>2, <2>3 DEF Throw
<1>. QED BY <1>3, <1>7, <1>8, <1>9, <1>10, <1>11, <1>12, <1>13, <1>14 DEF BudgetStep

LEMMA BudgetStepGoes ==
  ASSUME JobInv, NEW r \in Requests, BudgetStep(r)
  PROVE  r \in InFlight /\ Goes(r, OffChain)
<1>1. r \in InFlight /\ BudgetMoves(r)
  BY BudgetStepMoves
<1>2. \A s \in OffChain \ {"pull", "route"} : Fits(r, s)
  BY DEF OffChain, Steps, Fits
<1>3. job[r].op = "deposit" => Fits(r, "pull")
  BY DEF Steps, Fits
<1>4. Fits(r, Allowed(r))
  BY AllowedIs DEF Steps, Fits
<1>. QED BY <1>1, <1>2, <1>3, <1>4, AllowedIs DEF BudgetMoves, Goes, OffChain, Steps

(* What a transaction does with a request, and is known to have done. *)
Outcomes(r) ==
  /\ job[r].at \in {"pull", "deposit", "recover", "redeem", "send"}
  /\ lost \subseteq lost' /\ lost' \subseteq lost \union {job[r].id}
  /\ \/ /\ done' = done
        /\ \E s \in {"deposit", "recover", "refund"} :
             Moved(r, s) /\ Kept(r) /\ (s = "deposit" => At(r, "pull"))
     \/ /\ ~At(r, "pull") /\ ~At(r, "recover") /\ done' = done \union {job[r].id}
        /\ \/ Ended(r)
           \/ \E s \in {"recover", "refund"} : Moved(r, s) /\ Kept(r) /\ job[r].id \in lost'

LEMMA ChainStepOutcomes ==
  ASSUME JobInv, NEW r \in Requests,
         Pull(r) \/ Deposit(r) \/ Recover(r) \/ Redeem(r) \/ Send(r)
  PROVE  r \in InFlight /\ Outcomes(r)
<1>1. TypeInv /\ (r \in InFlight <=> job[r].at # "idle")
  BY RunningIsJob DEF JobInv
<1>2. r \in InFlight /\ job[r] \in Job
  BY <1>1, RunningIsJob DEF Pull, PullTo, Deposit, Recover, Redeem, Send, At, InFlight
<1>3. \A s \in {"deposit", "recover", "refund"} : Goto(r, s) => Moved(r, s) /\ Kept(r)
  BY <1>1, <1>2, GotoMoves DEF Steps
<1>4. Answer(r) => Ended(r)
  BY <1>1, AnswerEnds
<1>5. CASE Pull(r)
  BY <1>2, <1>3, <1>5 DEF Pull, PullTo, Failed, Received, Lost, At, chainVars, Outcomes
<1>6. CASE Deposit(r)
  BY <1>2, <1>3, <1>4, <1>6 DEF Deposit, Failed, Received, Lost, Completed, At, chainVars, Outcomes
<1>7. CASE Recover(r)
  BY <1>2, <1>3, <1>7 DEF Recover, At, Outcomes
<1>8. CASE Redeem(r)
  BY <1>2, <1>3, <1>4, <1>8 DEF Redeem, Failed, Received, Lost, Completed, At, chainVars, Outcomes
<1>9. CASE Send(r)
  BY <1>2, <1>3, <1>4, <1>9 DEF Send, Failed, Received, Lost, Completed, At, chainVars, Outcomes
<1>. QED BY <1>2, <1>5, <1>6, <1>7, <1>8, <1>9

LEMMA ChainStepGoes ==
  ASSUME JobInv, NEW r \in Requests,
         Pull(r) \/ Deposit(r) \/ Recover(r) \/ Redeem(r) \/ Send(r)
  PROVE  r \in InFlight /\ Goes(r, Steps)
<1>1. TypeInv /\ (r \in InFlight <=> job[r].at # "idle")
  BY RunningIsJob DEF JobInv
<1>2. r \in InFlight
  BY <1>1 DEF Pull, PullTo, Deposit, Recover, Redeem, Send, At
<1>3. job[r] \in Job
  BY <1>1, <1>2, RunningIsJob DEF InFlight
<1>4. Answer(r) => Goes(r, Steps)
  BY <1>1, AnswerEnds DEF Goes
<1>5. ASSUME NEW s \in Steps, Goto(r, s), Fits(r, s)
      PROVE  Goes(r, Steps)
  BY <1>1, <1>3, <1>5, GotoMoves DEF Goes
<1>6. CASE Pull(r) \/ Deposit(r) \/ Recover(r)
  <2>1. \A s \in {"deposit", "recover", "refund"} : Fits(r, s)
    BY <1>2, <1>6 DEF JobInv, ShapeInv, Pull, PullTo, Deposit, Recover, At, Fits, Steps
  <2>2. \/ Answer(r) \/ \E s \in {"deposit", "recover", "refund"} : Goto(r, s)
    BY <1>6 DEF Pull, PullTo, Deposit, Recover, Failed, Received, Lost
  <2>. QED BY <1>2, <1>4, <1>5, <2>1, <2>2 DEF Steps
<1>7. CASE Redeem(r) \/ Send(r)
  <2>1. Answer(r) \/ Goto(r, "refund")
    BY <1>7 DEF Redeem, Send, Failed, Received, Lost
  <2>. QED BY <1>2, <1>4, <1>5, <2>1 DEF Fits, Steps
<1>. QED BY <1>2, <1>6, <1>7

(* Such a step keeps what tells the requests apart. *)
LEMMA GoingKeepsJobs ==
  ASSUME JobInv, NEW r \in InFlight, Goes(r, Steps), UNCHANGED <<issued, orphaned>>
  PROVE  ShapeInv' /\ IdsInv'
<1>1. r \in Requests /\ TypeInv /\ ShapeInv /\ IdsInv
  BY DEF InFlight, JobInv
<1>2. CASE Ended(r)
  <2>1. InFlight' \subseteq InFlight \ {r} /\ \A q \in InFlight' : job'[q] = job[q]
    BY <1>1, <1>2 DEF Ended, Stay, InFlight
  <2>2. IdsInv'
    BY <1>1, <2>1 DEF IdsInv
  <2>3. ShapeInv'
    BY <1>1, <2>1 DEF ShapeInv
  <2>. QED BY <2>2, <2>3
<1>3. ASSUME NEW s \in Steps, Moved(r, s), Fits(r, s)
      PROVE  ShapeInv' /\ IdsInv'
  <2>1. InFlight' \subseteq InFlight /\ \A q \in InFlight' : job'[q].id = job[q].id
    BY <1>1, <1>3 DEF Moved, Stay, InFlight
  <2>2. IdsInv'
    BY <1>1, <2>1 DEF IdsInv
  <2>3. \A q \in InFlight' \ {r} : job'[q] = job[q]
    BY <1>1, <1>3 DEF Moved, Stay, InFlight
  <2>4. ShapeInv'
    BY <1>1, <1>3, <2>1, <2>3 DEF ShapeInv, Moved, Fits
  <2>. QED BY <2>2, <2>4
<1>. QED BY <1>2, <1>3 DEF Goes

-----------------------------------------------------------------------------
(* The first layer. *)

LEMMA BudgetStepTypes ==
  ASSUME JobInv, NEW r \in Requests, BudgetStep(r), UNCHANGED chainVars
  PROVE  JobInv'
<1>1. r \in InFlight /\ Goes(r, Steps)
  BY BudgetStepGoes DEF Goes, OffChain
<1>2. UNCHANGED <<policyOf, binds, issued, orphaned>>
  BY DEF BudgetStep, ReadKey, Wait, Check, Reserve, CheckUnlocked, Route, Refund, Throw, chainVars
<1>3. Entries' \subseteq Entries \union {job[r].id}
  <2>1. ledger' \subseteq ledger \/ ledger' = ledger \union {Reservation(r)}
    BY DEF BudgetStep, ReadKey, Wait, Check, Reserve, CheckUnlocked, Route, Refund, Throw
  <2>. QED BY <2>1, EnteredIs DEF Entries
<1>4. job[r].id \in 1 .. issued
  BY <1>1 DEF JobInv, IdsInv
<1>5. job' \in [Requests -> {Idle} \union Job]
  BY <1>1 DEF Goes, Ended, Moved, Stay
<1>6. TypeInv'
  BY <1>2, <1>3, <1>4, <1>5 DEF JobInv, TypeInv, chainVars
<1>. QED BY <1>1, <1>2, <1>6, GoingKeepsJobs DEF JobInv

LEMMA ChainStepTypes ==
  ASSUME JobInv, NEW r \in Requests,
         Pull(r) \/ Deposit(r) \/ Recover(r) \/ Redeem(r) \/ Send(r)
  PROVE  JobInv'
<1>. DEFINE u == job[r].user
            a == job[r].amount
<1>1. r \in InFlight /\ Goes(r, Steps) /\ TypeInv
  BY ChainStepGoes DEF JobInv
<1>2. UNCHANGED <<policyOf, binds, ledger, issued, orphaned>>
  BY DEF Pull, PullTo, Deposit, Recover, Redeem, Send, Failed, chainVars, OnlyJob
<1>3. u \in Users /\ a \in Nat /\ job[r].id \in 1 .. issued
  BY <1>1, RunningIsJob DEF JobInv, IdsInv, InFlight, Job
<1>4. job' \in [Requests -> {Idle} \union Job]
  BY <1>1 DEF Goes, Ended, Moved, Stay
<1>5. (done \union lost)' \subseteq done \union lost \union {job[r].id}
  BY DEF Pull, PullTo, Deposit, Recover, Redeem, Send, Failed, chainVars, Received, Lost, Completed
<1>6. faults' \in Nat
  BY <1>1 DEF TypeInv, Pull, PullTo, Deposit, Recover, Redeem, Send, Failed, chainVars, Received,
       Lost, Fault, NoFault
<1>7. /\ usdc' \in [Users -> Nat] /\ shares' \in [Users -> Nat] /\ sent' \in [Users -> Nat]
      /\ operator' \in Nat
  <2>1. CASE UNCHANGED chainVars
    BY <1>1, <2>1 DEF TypeInv, chainVars
  <2>2. CASE /\ usdc[u] >= a
             /\ usdc' = [usdc EXCEPT ![u] = @ - a] /\ operator' = operator + a
             /\ UNCHANGED <<shares, sent>>
    BY <1>1, <1>3, <2>2 DEF TypeInv
  <2>3. CASE /\ operator >= a
             /\ operator' = operator - a /\ shares' = [shares EXCEPT ![u] = @ + a]
             /\ UNCHANGED <<usdc, sent>>
    BY <1>1, <1>3, <2>3 DEF TypeInv
  <2>4. CASE /\ operator >= a
             /\ operator' = operator - a /\ usdc' = [usdc EXCEPT ![u] = @ + a]
             /\ UNCHANGED <<shares, sent>>
    BY <1>1, <1>3, <2>4 DEF TypeInv
  <2>5. CASE UNCHANGED <<usdc, shares, sent, operator>>
    BY <1>1, <2>5 DEF TypeInv
  <2>6. CASE /\ shares[u] >= a
             /\ shares' = [shares EXCEPT ![u] = @ - a] /\ usdc' = [usdc EXCEPT ![u] = @ + a]
             /\ UNCHANGED <<sent, operator>>
    BY <1>1, <1>3, <2>6 DEF TypeInv
  <2>7. CASE /\ usdc[u] >= a
             /\ usdc' = [usdc EXCEPT ![u] = @ - a] /\ sent' = [sent EXCEPT ![u] = @ + a]
             /\ UNCHANGED <<shares, operator>>
    BY <1>1, <1>3, <2>7 DEF TypeInv
  <2>. QED
    BY <2>1, <2>2, <2>3, <2>4, <2>5, <2>6, <2>7
    DEF Pull, PullTo, Deposit, Recover, Redeem, Send, Failed
<1>8. TypeInv'
  BY <1>1, <1>2, <1>3, <1>4, <1>5, <1>6, <1>7 DEF TypeInv, Entries
<1>. QED BY <1>1, <1>2, <1>8, GoingKeepsJobs DEF JobInv

(* What a new request looks like. *)
New(r) ==
  /\ job[r] = Idle /\ Stay(r) /\ job'[r] \in Job /\ issued' = issued + 1
  /\ job'[r].at = "key" /\ job'[r].id = issued' /\ job'[r].reserved = FALSE
  /\ (job'[r].op # "redeem_max" => job'[r].amount = 1)
  /\ UNCHANGED <<policyOf, binds, ledger, leftover, chainVars>>

LEMMA RequestIsNew ==
  ASSUME JobInv, NEW r \in Requests, Request(r)
  PROVE  New(r)
<1>1. PICK u \in Users, op \in Operations, n \in Nat :
        Begin(r, u, op, n) /\ (op # "redeem_max" => n = 1)
  BY DEF Request, JobInv, TypeInv, Operations
<1>. DEFINE x == [at |-> "key", op |-> op, user |-> u, id |-> issued + 1, policy |-> NoPolicy,
                  amount |-> n, reserved |-> FALSE]
<1>2. job \in [Requests -> {Idle} \union Job] /\ issued \in Nat
  BY DEF JobInv, TypeInv
<1>3. job' = [job EXCEPT ![r] = x] /\ issued' = issued + 1 /\ job[r] = Idle
  BY <1>1, RunningIsJob DEF Begin, At, JobInv
<1>4. x \in Job /\ x.at = "key" /\ x.id = issued + 1 /\ x.reserved = FALSE
      /\ (x.op # "redeem_max" => x.amount = 1)
  BY <1>1, <1>2 DEF Job, Steps
<1>. HIDE DEF x
<1>5. job' \in [Requests -> {Idle} \union Job] /\ job'[r] = x
      /\ \A q \in Requests \ {r} : job'[q] = job[q]
  BY <1>2, <1>3, <1>4
<1>6. UNCHANGED <<policyOf, binds, ledger, leftover, chainVars>>
  BY <1>1 DEF Begin, Request
<1>. QED BY <1>3, <1>4, <1>5, <1>6 DEF New, Stay

LEMMA NewTypes ==
  ASSUME JobInv, NEW r \in Requests, New(r)
  PROVE  JobInv'
<1>1. TypeInv /\ ShapeInv /\ IdsInv /\ issued' = issued + 1 /\ issued \in Nat
  BY DEF JobInv, New, TypeInv
<1>2. InFlight' \subseteq InFlight \union {r} /\ \A q \in InFlight' \ {r} : job'[q] = job[q]
  BY DEF New, Stay, InFlight
<1>3. TypeInv'
  BY <1>1 DEF TypeInv, New, Stay, chainVars, Entries
<1>4. orphaned \subseteq 1 .. issued /\ orphaned' = orphaned
  BY <1>1 DEF TypeInv, New, chainVars
<1>5. ShapeInv'
  BY <1>1, <1>2 DEF ShapeInv, New
<1>6. IdsInv'
  BY <1>1, <1>2, <1>4 DEF IdsInv, New
<1>. QED BY <1>3, <1>5, <1>6 DEF JobInv

LEMMA RestartTypes ==
  ASSUME JobInv, Restart
  PROVE  JobInv'
<1>1. InFlight' = {}
  BY DEF Restart, InFlight
<1>2. ShapeInv' /\ IdsInv'
  BY <1>1 DEF ShapeInv, IdsInv
<1>3. \A r \in InFlight : job[r].id \in 1 .. issued
  BY DEF JobInv, IdsInv
<1>4. TypeInv'
  BY <1>3 DEF JobInv, TypeInv, Restart, Entries
<1>. QED BY <1>2, <1>4 DEF JobInv

LEMMA JobStep ==
  ASSUME JobInv, [Next]_vars
  PROVE  JobInv'
<1>1. ASSUME NEW r \in Requests, Request(r) PROVE JobInv'
  BY <1>1, RequestIsNew, NewTypes
<1>2. ASSUME NEW r \in Requests, Step(r) PROVE JobInv'
  BY <1>2, BudgetStepTypes, ChainStepTypes DEF Step
<1>3. ASSUME NEW p \in Policies \union {NoPolicy}, BindPolicy(p), UNCHANGED chainVars
      PROVE  JobInv'
  BY <1>3 DEF BindPolicy, JobInv, TypeInv, ShapeInv, IdsInv, InFlight, Entries, chainVars
<1>4. CASE (Elapse /\ UNCHANGED chainVars) \/ UNCHANGED vars
  BY <1>4 DEF Elapse, JobInv, TypeInv, ShapeInv, IdsInv, InFlight, Entries, chainVars, vars,
       budgetVars
<1>5. CASE Restart
  BY <1>5, RestartTypes
<1>. QED BY <1>1, <1>2, <1>3, <1>4, <1>5 DEF Next

LEMMA JobInit == Init => JobInv
<1>. SUFFICES ASSUME Init PROVE JobInv
  OBVIOUS
<1>1. TypeInv
  BY ExecutorAssumption DEF Init, BudgetInit, TypeInv, Entries
<1>2. InFlight = {}
  BY DEF Init, BudgetInit, InFlight
<1>. QED BY <1>1, <1>2 DEF JobInv, ShapeInv, IdsInv

(* Every variable keeps its type, each running request its shape, and an id  *)
(* no other request, finished or running, has had.                           *)
THEOREM ExecutorTypes == Spec => []JobInv
BY JobInit, JobStep, PTL DEF Spec

-----------------------------------------------------------------------------
(* The second layer: counting the deposits under way. *)

CountsOK ==
  /\ IsFiniteSet(Pulled) /\ Cardinality(Pulled) \in Nat
  /\ \A u \in Users :
       /\ IsFiniteSet(PulledOf(u)) /\ Cardinality(PulledOf(u)) \in Nat
       /\ Cardinality(PulledOf(u)) <= Cardinality(Pulled)

LEMMA Counts == CountsOK
<1>1. IsFiniteSet(Requests) /\ Pulled \in SUBSET Requests
  BY BudgetAssumption DEF Pulled
<1>2. IsFiniteSet(Pulled)
  BY <1>1, FS_Subset
<1>3. ASSUME NEW u \in Users
      PROVE  IsFiniteSet(PulledOf(u)) /\ Cardinality(PulledOf(u)) <= Cardinality(Pulled)
  <2>1. PulledOf(u) \in SUBSET Pulled
    BY DEF PulledOf
  <2>. QED BY <1>2, <2>1, FS_Subset
<1>4. Cardinality(Pulled) \in Nat /\ \A u \in Users : Cardinality(PulledOf(u)) \in Nat
  BY <1>2, <1>3, FS_CardinalityType
<1>. QED BY <1>2, <1>3, <1>4 DEF CountsOK

LEMMA CountsNext == CountsOK'
BY Counts, PTL

LEMMA StrayType ==
  ASSUME TypeInv
  PROVE  IsFiniteSet(orphaned) /\ Cardinality(orphaned) \in Nat /\ Stray \in Nat
<1>1. IsFiniteSet(1 .. issued)
  BY FS_Interval DEF TypeInv
<1>2. orphaned \in SUBSET (1 .. issued)
  BY DEF TypeInv
<1>3. IsFiniteSet(orphaned) /\ Cardinality(orphaned) \in Nat
  BY <1>1, <1>2, FS_Subset, FS_CardinalityType
<1>. QED BY <1>3 DEF Stray, TypeInv

(* How the counts change when one request moves. *)
LEMMA SamePulled ==
  ASSUME NEW r \in Requests, \A q \in Requests \ {r} : job'[q] = job[q],
         r \in Pulled <=> r \in Pulled', r \in Pulled => job'[r].user = job[r].user
  PROVE  /\ Cardinality(Pulled)' = Cardinality(Pulled)
         /\ \A u \in Users : Cardinality(PulledOf(u))' = Cardinality(PulledOf(u))
<1>1. Pulled' = Pulled
  BY DEF Pulled
<1>2. \A u \in Users : PulledOf(u)' = PulledOf(u)
  BY <1>1 DEF PulledOf, Pulled
<1>. QED BY <1>1, <1>2

LEMMA NowPulled ==
  ASSUME NEW r \in Requests, \A q \in Requests \ {r} : job'[q] = job[q],
         r \notin Pulled, r \in Pulled', NEW v \in Users, job'[r].user = v
  PROVE  /\ Cardinality(Pulled)' = Cardinality(Pulled) + 1
         /\ Cardinality(PulledOf(v))' = Cardinality(PulledOf(v)) + 1
         /\ \A u \in Users \ {v} : Cardinality(PulledOf(u))' = Cardinality(PulledOf(u))
<1>1. Pulled' = Pulled \union {r}
  BY DEF Pulled
<1>2. PulledOf(v)' = PulledOf(v) \union {r} /\ r \notin PulledOf(v)
  BY <1>1 DEF PulledOf, Pulled
<1>3. \A u \in Users \ {v} : PulledOf(u)' = PulledOf(u)
  BY <1>1 DEF PulledOf, Pulled
<1>4. IsFiniteSet(Pulled) /\ IsFiniteSet(PulledOf(v))
  BY Counts DEF CountsOK
<1>. QED BY <1>1, <1>2, <1>3, <1>4, FS_AddElement

LEMMA NoLongerPulled ==
  ASSUME NEW r \in Requests, \A q \in Requests \ {r} : job'[q] = job[q],
         r \in Pulled, r \notin Pulled', NEW v \in Users, job[r].user = v
  PROVE  /\ Cardinality(Pulled)' = Cardinality(Pulled) - 1
         /\ Cardinality(PulledOf(v))' = Cardinality(PulledOf(v)) - 1
         /\ \A u \in Users \ {v} : Cardinality(PulledOf(u))' = Cardinality(PulledOf(u))
<1>1. Pulled' = Pulled \ {r}
  BY DEF Pulled
<1>2. PulledOf(v)' = PulledOf(v) \ {r} /\ r \in PulledOf(v)
  BY <1>1 DEF PulledOf, Pulled
<1>3. \A u \in Users \ {v} : PulledOf(u)' = PulledOf(u)
  BY <1>1 DEF PulledOf, Pulled
<1>4. IsFiniteSet(Pulled) /\ IsFiniteSet(PulledOf(v))
  BY Counts DEF CountsOK
<1>. QED BY <1>1, <1>2, <1>3, <1>4, FS_RemoveElement

(* A step that leaves the chain alone, and pulls nothing. *)
LEMMA FundsUntouched ==
  ASSUME JobInv, FundsInv, NEW r \in Requests, \A q \in Requests \ {r} : job'[q] = job[q],
         r \in Pulled <=> r \in Pulled', r \in Pulled => job'[r].user = job[r].user,
         UNCHANGED <<usdc, shares, sent, operator, faults, orphaned>>
  PROVE  FundsInv'
<1>1. /\ Cardinality(Pulled)' = Cardinality(Pulled)
      /\ \A u \in Users : Cardinality(PulledOf(u))' = Cardinality(PulledOf(u))
  BY SamePulled
<1>2. \A u \in Users : Whole(u)' = Whole(u)
  BY <1>1 DEF Whole
<1>3. Stray' = Stray
  BY DEF Stray
<1>. QED BY <1>1, <1>2, <1>3 DEF FundsInv

LEMMA BudgetFunds ==
  ASSUME JobInv, FundsInv, NEW r \in Requests, BudgetStep(r), UNCHANGED chainVars
  PROVE  FundsInv'
<1>1. Goes(r, OffChain)
  BY BudgetStepGoes
<1>2. r \notin Pulled
  BY DEF Pulled, BudgetStep, ReadKey, Wait, Check, Reserve, CheckUnlocked, Route, Refund, Throw, At
<1>3. r \notin Pulled' /\ \A q \in Requests \ {r} : job'[q] = job[q]
  BY <1>1 DEF Pulled, Goes, Ended, Moved, Stay, OffChain, Idle
<1>. QED BY <1>2, <1>3, FundsUntouched DEF chainVars

(* What a chain step has to work with. *)
LEMMA Funded ==
  ASSUME JobInv, JobInv', NEW r \in Requests, job[r] # Idle
  PROVE  /\ job[r] \in Job /\ job[r].user \in Users /\ job[r].amount \in Nat
         /\ job[r].at \in {"pull", "deposit", "recover"} => job[r].amount = 1
         /\ Stray \in Nat /\ operator \in Nat
         /\ Stray' \in Nat /\ operator' \in Nat
<1>1. Stray \in Nat /\ operator \in Nat
  BY StrayType DEF JobInv, TypeInv
<1>2. Stray' \in Nat /\ operator' \in Nat
  <2>1. operator' \in Nat /\ faults' \in Nat /\ orphaned' \subseteq 1 .. issued' /\ issued' \in Nat
    BY DEF JobInv, TypeInv
  <2>2. IsFiniteSet(1 .. issued')
    BY <2>1, FS_Interval
  <2>3. IsFiniteSet(orphaned') /\ Cardinality(orphaned') \in Nat
    BY <2>1, <2>2, FS_Subset, FS_CardinalityType
  <2>. QED BY <2>1, <2>3 DEF Stray
<1>3. job[r] \in Job
  BY RunningIsJob DEF JobInv
<1>4. job[r].at \in {"pull", "deposit", "recover"} => job[r].amount = 1
  BY <1>3 DEF JobInv, ShapeInv, InFlight
<1>. QED BY <1>1, <1>2, <1>3, <1>4 DEF Job

LEMMA FundsTyped ==
  ASSUME TypeInv, NEW u \in Users
  PROVE  /\ usdc[u] \in Nat /\ shares[u] \in Nat /\ sent[u] \in Nat
         /\ Cardinality(PulledOf(u)) \in Nat /\ Whole(u) \in Nat
         /\ Cardinality(Pulled) \in Nat /\ Cardinality(PulledOf(u)) <= Cardinality(Pulled)
BY Counts DEF TypeInv, CountsOK, Whole

FundsTypes ==
  TypeInv =>
    /\ Stray \in Nat
    /\ \A u \in Users :
         /\ usdc[u] \in Nat /\ shares[u] \in Nat /\ sent[u] \in Nat
         /\ Cardinality(PulledOf(u)) \in Nat /\ Whole(u) \in Nat
LEMMA AllFundsTyped == FundsTypes
BY FundsTyped, StrayType DEF FundsTypes
LEMMA AllFundsTypedNext == FundsTypes'
BY AllFundsTyped, PTL

LEMMA FundsTypedNext ==
  ASSUME JobInv'
  PROVE  /\ Stray' \in Nat /\ operator' \in Nat
         /\ \A u \in Users :
              /\ usdc'[u] \in Nat /\ shares'[u] \in Nat /\ sent'[u] \in Nat
              /\ Cardinality(PulledOf(u))' \in Nat /\ Whole(u)' \in Nat
BY AllFundsTypedNext DEF FundsTypes, JobInv, TypeInv

(* A lost answer: one stray more. *)
LEMMA OneMoreFault ==
  ASSUME TypeInv, faults' = faults + 1, orphaned' = orphaned
  PROVE  Stray' = Stray + 1
BY StrayType DEF Stray, TypeInv

(* What has to add up when one user's funds, the wallet, the strays and the  *)
(* deposits under way change.                                                *)
LEMMA FundsMove ==
  ASSUME JobInv, JobInv', FundsInv, NEW v \in Users, \A u \in Users \ {v} : Whole(u)' = Whole(u),
         Stray' >= Stray, Whole(v)' + Stray <= Whole(v) + Stray',
         Whole(v)' + Stray' >= 2 * Funds,
         Whole(v)' + Stray' + operator' + Cardinality(Pulled)
           >= Whole(v) + Stray + operator + Cardinality(Pulled)',
         Stray' + operator' + Cardinality(Pulled) >= Stray + operator + Cardinality(Pulled)'
  PROVE  FundsInv'
<1>1. /\ Funds \in Nat /\ Stray \in Nat /\ operator \in Nat /\ Cardinality(Pulled) \in Nat
      /\ Stray' \in Nat /\ operator' \in Nat /\ Cardinality(Pulled)' \in Nat
  BY ExecutorAssumption, StrayType, FundsTypedNext, Counts, CountsNext DEF JobInv, TypeInv, CountsOK
<1>2. ASSUME NEW u \in Users
      PROVE  /\ Whole(u)' <= 2 * Funds + Stray'
             /\ Whole(u)' + Stray' >= 2 * Funds
             /\ Whole(u)' + Stray' + operator' >= 2 * Funds + Cardinality(Pulled)'
  <2>1. /\ Whole(u) \in Nat /\ Whole(u)' \in Nat
        /\ Whole(u) <= 2 * Funds + Stray /\ Whole(u) + Stray >= 2 * Funds
        /\ Whole(u) + Stray + operator >= 2 * Funds + Cardinality(Pulled)
    BY FundsTyped, FundsTypedNext DEF JobInv, FundsInv
  <2>2. CASE u = v
    BY <1>1, <2>1, <2>2
  <2>3. CASE u # v
    BY <1>1, <2>1, <2>3
  <2>. QED BY <2>2, <2>3
<1>. QED BY <1>2 DEF FundsInv

LEMMA WholeMove ==
  ASSUME JobInv, JobInv', NEW u \in Users
  PROVE  Whole(u)' = Whole(u) + (usdc'[u] - usdc[u]) + (shares'[u] - shares[u])
                       + (sent'[u] - sent[u]) + (Cardinality(PulledOf(u))' - Cardinality(PulledOf(u)))
BY FundsTyped, FundsTypedNext DEF Whole, JobInv

LEMMA PullFunds ==
  ASSUME JobInv, JobInv', FundsInv, NEW r \in Requests, Pull(r)
  PROVE  FundsInv'
<1>1. job[r].at = "pull" /\ job[r] # Idle /\ r \notin Pulled
  BY DEF Pull, PullTo, At, Idle, Pulled
<1>2. /\ TypeInv /\ job[r] \in Job /\ job[r].user \in Users /\ job[r].amount = 1
      /\ Stray \in Nat /\ operator \in Nat
  BY <1>1, Funded DEF JobInv
<1>3. PICK v \in Users : v = job[r].user
  BY <1>2
<1>4. ASSUME NEW s \in Steps, Goto(r, s)
      PROVE  /\ job'[r].at = s /\ job'[r].user = v /\ \A q \in Requests \ {r} : job'[q] = job[q]
             /\ r \in Pulled' <=> s \in {"deposit", "recover"}
  BY <1>2, <1>3, <1>4, GotoMoves DEF Moved, Stay, Pulled
<1>5. CASE Failed(r, "refund")
  <2>1. Goto(r, "refund") /\ UNCHANGED <<usdc, shares, sent, operator, faults, orphaned>>
    BY <1>5 DEF Failed, chainVars
  <2>. QED BY <1>1, <1>4, <2>1, FundsUntouched DEF Steps
<1>6. CASE /\ usdc[v] >= 1
           /\ usdc' = [usdc EXCEPT ![v] = @ - 1] /\ operator' = operator + 1
           /\ Received(r, "deposit") \/ Lost(r, "refund")
           /\ UNCHANGED <<shares, sent, orphaned>>
  <2>1. usdc'[v] = usdc[v] - 1 /\ \A u \in Users \ {v} : usdc'[u] = usdc[u]
    BY <1>2, <1>6 DEF TypeInv
  <2>2. /\ Whole(v) \in Nat /\ Whole(v) + Stray >= 2 * Funds /\ Funds \in Nat
        /\ Cardinality(Pulled) \in Nat
    BY <1>2, FundsTyped, ExecutorAssumption DEF FundsInv
  <2>3. Whole(v)' = Whole(v) - 1 + (Cardinality(PulledOf(v))' - Cardinality(PulledOf(v)))
    BY <1>2, <1>6, <2>1, FundsTyped, FundsTypedNext, WholeMove
  <2>4. CASE Received(r, "deposit")
    <3>1. Goto(r, "deposit") /\ faults' = faults
      BY <2>4 DEF Received, NoFault
    <3>2. /\ Cardinality(Pulled)' = Cardinality(Pulled) + 1
          /\ Cardinality(PulledOf(v))' = Cardinality(PulledOf(v)) + 1
          /\ \A u \in Users \ {v} : Cardinality(PulledOf(u))' = Cardinality(PulledOf(u))
      BY <1>1, <1>2, <1>4, <3>1, NowPulled DEF Steps
    <3>3. Stray' = Stray
      BY <1>6, <3>1 DEF Stray
    <3>4. Whole(v)' = Whole(v)
      BY <1>2, <2>2, <2>3, <3>2, FundsTyped
    <3>5. \A u \in Users \ {v} : Whole(u)' = Whole(u)
      BY <1>6, <2>1, <3>2 DEF Whole
    <3>. QED BY <1>2, <1>6, <2>2, <3>2, <3>3, <3>4, <3>5, FundsMove
  <2>5. CASE Lost(r, "refund")
    <3>1. Goto(r, "refund") /\ faults' = faults + 1
      BY <2>5 DEF Lost, Fault
    <3>2. /\ Cardinality(Pulled)' = Cardinality(Pulled)
          /\ \A u \in Users : Cardinality(PulledOf(u))' = Cardinality(PulledOf(u))
      BY <1>1, <1>4, <3>1, SamePulled DEF Steps
    <3>3. Stray' = Stray + 1
      BY <1>2, <1>6, <3>1, OneMoreFault
    <3>4. Whole(v)' = Whole(v) - 1
      BY <1>2, <2>2, <2>3, <3>2, FundsTyped
    <3>5. \A u \in Users \ {v} : Whole(u)' = Whole(u)
      BY <1>6, <2>1, <3>2 DEF Whole
    <3>. QED BY <1>2, <1>6, <2>2, <3>2, <3>3, <3>4, <3>5, FundsMove
  <2>. QED BY <1>6, <2>4, <2>5
<1>. QED BY <1>2, <1>3, <1>5, <1>6 DEF Pull, PullTo

LEMMA DepositFunds ==
  ASSUME JobInv, JobInv', FundsInv, NEW r \in Requests, Deposit(r)
  PROVE  FundsInv'
<1>1. job[r].at = "deposit" /\ job[r] # Idle /\ r \in Pulled
  BY DEF Deposit, At, Idle, Pulled
<1>2. /\ TypeInv /\ job[r] \in Job /\ job[r].user \in Users /\ job[r].amount = 1
      /\ Stray \in Nat /\ operator \in Nat
  BY <1>1, Funded DEF JobInv
<1>3. PICK v \in Users : v = job[r].user
  BY <1>2
<1>4. Goto(r, "recover") =>
        /\ job'[r].user = v /\ r \in Pulled' /\ \A q \in Requests \ {r} : job'[q] = job[q]
  BY <1>2, <1>3, GotoMoves DEF Moved, Stay, Pulled, Steps
<1>5. Answer(r) => r \notin Pulled' /\ \A q \in Requests \ {r} : job'[q] = job[q]
  BY <1>2, AnswerEnds DEF Ended, Stay, Pulled, Idle
<1>6. CASE Failed(r, "recover")
  <2>1. Goto(r, "recover") /\ UNCHANGED <<usdc, shares, sent, operator, faults, orphaned>>
    BY <1>6 DEF Failed, chainVars
  <2>. QED BY <1>1, <1>3, <1>4, <2>1, FundsUntouched
<1>7. CASE /\ operator >= 1
           /\ operator' = operator - 1 /\ shares' = [shares EXCEPT ![v] = @ + 1]
           /\ Received(r, "idle") \/ Lost(r, "recover")
           /\ UNCHANGED <<usdc, sent, orphaned>>
  <2>1. shares'[v] = shares[v] + 1 /\ \A u \in Users \ {v} : shares'[u] = shares[u]
    BY <1>2, <1>7 DEF TypeInv
  <2>2. /\ Whole(v) \in Nat /\ Whole(v) + Stray >= 2 * Funds /\ Funds \in Nat
        /\ Cardinality(Pulled) \in Nat
    BY <1>2, FundsTyped, ExecutorAssumption DEF FundsInv
  <2>3. Whole(v)' = Whole(v) + 1 + (Cardinality(PulledOf(v))' - Cardinality(PulledOf(v)))
    BY <1>2, <1>7, <2>1, FundsTyped, FundsTypedNext, WholeMove
  <2>4. CASE Received(r, "idle")
    <3>1. Answer(r) /\ faults' = faults
      BY <2>4 DEF Received, NoFault
    <3>2. /\ Cardinality(Pulled)' = Cardinality(Pulled) - 1
          /\ Cardinality(PulledOf(v))' = Cardinality(PulledOf(v)) - 1
          /\ \A u \in Users \ {v} : Cardinality(PulledOf(u))' = Cardinality(PulledOf(u))
      BY <1>1, <1>3, <1>5, <3>1, NoLongerPulled
    <3>3. Stray' = Stray
      BY <1>7, <3>1 DEF Stray
    <3>4. Whole(v)' = Whole(v)
      BY <1>2, <2>2, <2>3, <3>2, FundsTyped
    <3>5. \A u \in Users \ {v} : Whole(u)' = Whole(u)
      BY <1>7, <2>1, <3>2 DEF Whole
    <3>. QED BY <1>2, <1>7, <2>2, <3>2, <3>3, <3>4, <3>5, FundsMove
  <2>5. CASE Lost(r, "recover")
    <3>1. Goto(r, "recover") /\ faults' = faults + 1
      BY <2>5 DEF Lost, Fault
    <3>2. /\ Cardinality(Pulled)' = Cardinality(Pulled)
          /\ \A u \in Users : Cardinality(PulledOf(u))' = Cardinality(PulledOf(u))
      BY <1>1, <1>3, <1>4, <3>1, SamePulled
    <3>3. Stray' = Stray + 1
      BY <1>2, <1>7, <3>1, OneMoreFault
    <3>4. Whole(v)' = Whole(v) + 1
      BY <1>2, <2>2, <2>3, <3>2, FundsTyped
    <3>5. \A u \in Users \ {v} : Whole(u)' = Whole(u)
      BY <1>7, <2>1, <3>2 DEF Whole
    <3>. QED BY <1>2, <1>7, <2>2, <3>2, <3>3, <3>4, <3>5, FundsMove
  <2>. QED BY <1>7, <2>4, <2>5
<1>. QED BY <1>2, <1>3, <1>6, <1>7 DEF Deposit

LEMMA RecoverFunds ==
  ASSUME JobInv, JobInv', FundsInv, NEW r \in Requests, Recover(r)
  PROVE  FundsInv'
<1>1. job[r].at = "recover" /\ job[r] # Idle /\ r \in Pulled
  BY DEF Recover, At, Idle, Pulled
<1>2. /\ TypeInv /\ job[r] \in Job /\ job[r].user \in Users /\ job[r].amount = 1
      /\ Stray \in Nat /\ operator \in Nat
  BY <1>1, Funded DEF JobInv
<1>3. PICK v \in Users : v = job[r].user
  BY <1>2
<1>4. r \notin Pulled' /\ \A q \in Requests \ {r} : job'[q] = job[q]
  BY <1>2, GotoMoves DEF Recover, Moved, Stay, Pulled, Steps
<1>5. /\ Cardinality(Pulled)' = Cardinality(Pulled) - 1
      /\ Cardinality(PulledOf(v))' = Cardinality(PulledOf(v)) - 1
      /\ \A u \in Users \ {v} : Cardinality(PulledOf(u))' = Cardinality(PulledOf(u))
  BY <1>1, <1>3, <1>4, NoLongerPulled
<1>6. /\ Whole(v) \in Nat /\ Whole(v) + Stray >= 2 * Funds /\ Funds \in Nat
      /\ Whole(v) + Stray + operator >= 2 * Funds + Cardinality(Pulled)
      /\ Cardinality(Pulled) \in Nat /\ Cardinality(Pulled)' \in Nat
  BY <1>2, FundsTyped, Counts, CountsNext, ExecutorAssumption DEF FundsInv, CountsOK
<1>7. UNCHANGED <<shares, sent, orphaned>>
  BY DEF Recover
<1>8. CASE operator >= 1 /\ operator' = operator - 1 /\ usdc' = [usdc EXCEPT ![v] = @ + 1] /\ NoFault
  <2>1. usdc'[v] = usdc[v] + 1 /\ \A u \in Users \ {v} : usdc'[u] = usdc[u]
    BY <1>2, <1>8 DEF TypeInv
  <2>2. Whole(v)' = Whole(v)
    BY <1>2, <1>5, <1>6, <1>7, <2>1, FundsTyped, FundsTypedNext, WholeMove
  <2>3. \A u \in Users \ {v} : Whole(u)' = Whole(u)
    BY <1>5, <1>7, <2>1 DEF Whole
  <2>4. Stray' = Stray
    BY <1>7, <1>8 DEF Stray, NoFault
  <2>. QED BY <1>2, <1>5, <1>6, <1>8, <2>2, <2>3, <2>4, FundsMove
<1>9. CASE UNCHANGED <<operator, usdc>> /\ IF operator >= 1 THEN Fault ELSE NoFault
  <2>1. Whole(v)' = Whole(v) - 1
    BY <1>2, <1>5, <1>6, <1>7, <1>9, FundsTyped, FundsTypedNext, WholeMove
  <2>2. \A u \in Users \ {v} : Whole(u)' = Whole(u)
    BY <1>5, <1>7, <1>9 DEF Whole
  <2>3. CASE operator >= 1
    <3>1. Stray' = Stray + 1
      BY <1>2, <1>7, <1>9, <2>3, OneMoreFault DEF Fault
    <3>. QED BY <1>2, <1>5, <1>6, <1>9, <2>1, <2>2, <3>1, FundsMove
  <2>4. CASE ~(operator >= 1)
    <3>1. Stray' = Stray
      BY <1>7, <1>9, <2>4 DEF Stray, NoFault
    <3>2. operator = 0
      BY <1>2, <2>4
    <3>. QED BY <1>2, <1>5, <1>6, <1>9, <2>1, <2>2, <3>1, <3>2, FundsMove
  <2>. QED BY <2>3, <2>4
<1>. QED BY <1>2, <1>3, <1>8, <1>9 DEF Recover

LEMMA OwnFunds ==
  ASSUME JobInv, JobInv', FundsInv, NEW r \in Requests, Redeem(r) \/ Send(r)
  PROVE  FundsInv'
<1>1. job[r].at \in {"redeem", "send"} /\ job[r] # Idle /\ r \notin Pulled
  BY DEF Redeem, Send, At, Idle, Pulled
<1>2. /\ TypeInv /\ job[r] \in Job /\ job[r].user \in Users /\ job[r].amount \in Nat
      /\ Stray \in Nat /\ operator \in Nat
  BY <1>1, Funded DEF JobInv
<1>3. PICK v \in Users, a \in Nat : v = job[r].user /\ a = job[r].amount
  BY <1>2
<1>4. Goto(r, "refund") => r \notin Pulled' /\ \A q \in Requests \ {r} : job'[q] = job[q]
  BY <1>2, GotoMoves DEF Moved, Stay, Pulled, Steps
<1>5. Answer(r) => r \notin Pulled' /\ \A q \in Requests \ {r} : job'[q] = job[q]
  BY <1>2, AnswerEnds DEF Ended, Stay, Pulled, Idle
<1>6. Goto(r, "refund") \/ Answer(r)
  BY DEF Redeem, Send, Failed, Received, Lost
<1>7. r \notin Pulled' /\ \A q \in Requests \ {r} : job'[q] = job[q]
  BY <1>4, <1>5, <1>6
<1>8. CASE Failed(r, "refund")
  <2>1. UNCHANGED <<usdc, shares, sent, operator, faults, orphaned>>
    BY <1>8 DEF Failed, chainVars
  <2>. QED BY <1>1, <1>7, <2>1, FundsUntouched
<1>9. CASE ~Failed(r, "refund")
  <2>1. \/ /\ shares[v] >= a /\ shares' = [shares EXCEPT ![v] = @ - a]
           /\ usdc' = [usdc EXCEPT ![v] = @ + a] /\ UNCHANGED sent
        \/ /\ usdc[v] >= a /\ usdc' = [usdc EXCEPT ![v] = @ - a]
           /\ sent' = [sent EXCEPT ![v] = @ + a] /\ UNCHANGED shares
    BY <1>3, <1>9 DEF Redeem, Send
  <2>2. UNCHANGED <<operator, orphaned>> /\ (faults' = faults \/ faults' = faults + 1)
    BY <1>9 DEF Redeem, Send, Received, Lost, Fault, NoFault
  <2>3. /\ Cardinality(Pulled)' = Cardinality(Pulled)
        /\ \A u \in Users : Cardinality(PulledOf(u))' = Cardinality(PulledOf(u))
    BY <1>1, <1>7, SamePulled
  <2>4. usdc'[v] + shares'[v] + sent'[v] = usdc[v] + shares[v] + sent[v]
    BY <1>2, <2>1, FundsTyped DEF TypeInv
  <2>5. Whole(v)' = Whole(v)
    BY <2>3, <2>4 DEF Whole
  <2>6. \A u \in Users \ {v} :
          usdc'[u] = usdc[u] /\ shares'[u] = shares[u] /\ sent'[u] = sent[u]
    BY <1>2, <2>1 DEF TypeInv
  <2>7. \A u \in Users \ {v} : Whole(u)' = Whole(u)
    BY <2>3, <2>6 DEF Whole
  <2>8. Stray' = Stray \/ Stray' = Stray + 1
    BY <1>2, <2>2, OneMoreFault DEF Stray
  <2>9. /\ Whole(v) \in Nat /\ Whole(v) + Stray >= 2 * Funds /\ Funds \in Nat
        /\ Cardinality(Pulled) \in Nat
    BY <1>2, FundsTyped, ExecutorAssumption DEF FundsInv
  <2>. QED BY <1>2, <2>2, <2>3, <2>5, <2>7, <2>8, <2>9, FundsMove
<1>. QED BY <1>8, <1>9

(* A restart cuts off at least as many requests as deposits under way. *)
LEMMA CutOff ==
  ASSUME JobInv, orphaned' = orphaned \union {job[r].id : r \in InFlight}, faults' = faults
  PROVE  Stray' >= Stray + Cardinality(Pulled)
<1>. DEFINE C == {job[r].id : r \in InFlight}
            f == [r \in Pulled |-> job[r].id]
<1>1. TypeInv /\ IdsInv /\ issued \in Nat
  BY DEF JobInv, TypeInv
<1>2. Pulled \subseteq InFlight
  BY DEF Pulled, InFlight, Idle
<1>3. f \in [Pulled -> C] /\ \A q, r \in Pulled : f[q] = f[r] => q = r
  BY <1>1, <1>2 DEF IdsInv
<1>4. f \in Injection(Pulled, C)
  BY <1>3 DEF Injection, IsInjective
<1>5. C \in SUBSET (1 .. issued) /\ C \intersect orphaned = {}
  BY <1>1 DEF IdsInv
<1>. HIDE DEF f, C
<1>6. IsFiniteSet(C) /\ Cardinality(C) \in Nat
  <2>1. IsFiniteSet(1 .. issued)
    BY <1>1, FS_Interval
  <2>. QED BY <1>5, <2>1, FS_Subset, FS_CardinalityType
<1>7. Cardinality(Pulled) <= Cardinality(C)
  BY <1>4, <1>6, FS_Injection
<1>8. IsFiniteSet(orphaned) /\ Cardinality(orphaned) \in Nat /\ Cardinality(Pulled) \in Nat
  BY <1>1, StrayType, Counts DEF CountsOK
<1>9. Cardinality(orphaned \union C) = Cardinality(orphaned) + Cardinality(C) - Cardinality(orphaned \intersect C)
  BY <1>6, <1>8, FS_Union
<1>10. orphaned \intersect C = {}
  BY <1>5
<1>11. Cardinality(orphaned \union C) = Cardinality(orphaned) + Cardinality(C)
  <2>1. Cardinality(orphaned \intersect C) = 0
    BY <1>10, FS_EmptySet
  <2>. QED BY <1>6, <1>8, <1>9, <2>1
<1>12. orphaned' = orphaned \union C
  BY DEF C
<1>13. Cardinality(orphaned') = Cardinality(orphaned) + Cardinality(C)
  BY <1>11, <1>12
<1>. QED BY <1>1, <1>6, <1>7, <1>8, <1>13 DEF Stray, TypeInv

LEMMA RestartFunds ==
  ASSUME JobInv, JobInv', FundsInv, Restart
  PROVE  FundsInv'
<1>1. Pulled' = {} /\ \A u \in Users : PulledOf(u)' = {}
  BY DEF Restart, Pulled, PulledOf, Idle
<1>2. /\ Cardinality(Pulled)' = 0 /\ \A u \in Users : Cardinality(PulledOf(u))' = 0
  BY <1>1, FS_EmptySet
<1>3. UNCHANGED <<usdc, shares, sent, operator>>
  BY DEF Restart
<1>4. Stray' >= Stray + Cardinality(Pulled)
  BY CutOff DEF Restart
<1>5. /\ Stray \in Nat /\ Stray' \in Nat /\ operator \in Nat /\ Funds \in Nat
      /\ Cardinality(Pulled) \in Nat
  BY FundsTypedNext, StrayType, Counts, ExecutorAssumption DEF JobInv, TypeInv, CountsOK
<1>6. ASSUME NEW u \in Users
      PROVE  /\ Whole(u)' <= 2 * Funds + Stray'
             /\ Whole(u)' + Stray' >= 2 * Funds
             /\ Whole(u)' + Stray' + operator' >= 2 * Funds + Cardinality(Pulled)'
  <2>1. /\ Whole(u) \in Nat /\ Whole(u)' \in Nat /\ Cardinality(PulledOf(u)) \in Nat
        /\ Cardinality(PulledOf(u)) <= Cardinality(Pulled)
        /\ Whole(u) <= 2 * Funds + Stray /\ Whole(u) + Stray >= 2 * Funds
        /\ Whole(u) + Stray + operator >= 2 * Funds + Cardinality(Pulled)
    BY FundsTyped, FundsTypedNext DEF JobInv, FundsInv
  <2>2. usdc[u] \in Nat /\ shares[u] \in Nat /\ sent[u] \in Nat
    BY FundsTyped DEF JobInv
  <2>3. Whole(u)' = Whole(u) - Cardinality(PulledOf(u))
    BY <1>2, <1>3, <2>1, <2>2 DEF Whole
  <2>. QED BY <1>2, <1>3, <1>4, <1>5, <2>1, <2>3
<1>. QED BY <1>6 DEF FundsInv

LEMMA NewFunds ==
  ASSUME JobInv, FundsInv, NEW r \in Requests, New(r)
  PROVE  FundsInv'
<1>1. r \notin Pulled /\ r \notin Pulled' /\ \A q \in Requests \ {r} : job'[q] = job[q]
  BY DEF New, Stay, Pulled, Idle
<1>. QED BY <1>1, FundsUntouched DEF New, chainVars

LEMMA FundsStep ==
  ASSUME JobInv, JobInv', FundsInv, [Next]_vars
  PROVE  FundsInv'
<1>1. ASSUME NEW r \in Requests, Request(r) PROVE FundsInv'
  BY <1>1, RequestIsNew, NewFunds
<1>2. ASSUME NEW r \in Requests, Step(r) PROVE FundsInv'
  BY <1>2, BudgetFunds, PullFunds, DepositFunds, RecoverFunds, OwnFunds DEF Step
<1>3. CASE UNCHANGED <<job, chainVars>>
  BY <1>3 DEF FundsInv, Whole, Stray, PulledOf, Pulled, chainVars
<1>4. CASE Restart
  BY <1>4, RestartFunds
<1>5. ASSUME NEW p \in Policies \union {NoPolicy}, BindPolicy(p), UNCHANGED chainVars
      PROVE  UNCHANGED <<job, chainVars>>
  BY <1>5 DEF BindPolicy
<1>6. CASE (Elapse /\ UNCHANGED chainVars) \/ UNCHANGED vars
  BY <1>3, <1>6 DEF Elapse, vars, budgetVars
<1>. QED BY <1>1, <1>2, <1>3, <1>4, <1>5, <1>6 DEF Next

LEMMA FundsInit == Init => FundsInv
<1>. SUFFICES ASSUME Init PROVE FundsInv
  OBVIOUS
<1>1. Pulled = {} /\ \A u \in Users : PulledOf(u) = {}
  BY DEF Init, BudgetInit, Pulled, PulledOf, Idle
<1>2. /\ Cardinality(Pulled) = 0 /\ Cardinality(orphaned) = 0
      /\ \A u \in Users : Cardinality(PulledOf(u)) = 0
  BY <1>1, FS_EmptySet DEF Init
<1>3. Stray = 0 /\ operator = 0 /\ Funds \in Nat
  BY <1>2, ExecutorAssumption DEF Init, Stray
<1>4. \A u \in Users : Whole(u) = Funds + Funds
  BY <1>2, <1>3 DEF Init, Whole
<1>. QED BY <1>2, <1>3, <1>4 DEF FundsInv

(* However pulls, deposits and recoveries of any number of requests overlap  *)
(* in the operator's one wallet, fail, or are cut off by restarts, each user *)
(* gains or loses at most a unit per stray (executeDeposit).                 *)
THEOREM FundsAreWhole == Spec => []FundsStayWhole
<1>1. JobInv /\ FundsInv => FundsStayWhole
  <2>. SUFFICES ASSUME JobInv, FundsInv, NEW u \in Users
                PROVE  LET pulled == {r \in Requests : job[r].at \in {"deposit", "recover"}
                                                      /\ job[r].user = u}
                           whole == usdc[u] + shares[u] + sent[u] + Cardinality(pulled)
                           stray == faults + Cardinality(orphaned)
                       IN  whole <= 2 * Funds + stray /\ whole + stray >= 2 * Funds
    BY DEF FundsStayWhole
  <2>1. {r \in Requests : job[r].at \in {"deposit", "recover"} /\ job[r].user = u} = PulledOf(u)
    BY DEF PulledOf, Pulled
  <2>. QED BY <2>1 DEF FundsInv, Whole, Stray
<1>. QED BY <1>1, JobInit, JobStep, FundsInit, FundsStep, PTL DEF Spec

-----------------------------------------------------------------------------
(* The third layer: bindings, the ledger and what happened. *)

LEMMA BudgetBinds ==
  ASSUME JobInv, BindsInv, NEW r \in Requests, BudgetStep(r)
  PROVE  BindsInv'
<1>1. r \in InFlight /\ BudgetMoves(r)
  BY BudgetStepMoves
<1>2. UNCHANGED <<policyOf, binds>>
  BY DEF BudgetStep, ReadKey, Wait, Check, Reserve, CheckUnlocked, Route, Refund, Throw
<1>3. Stay(r)
  BY <1>1 DEF BudgetMoves, Moved, Ended
<1>4. \A q \in InFlight' \ {r} : q \in InFlight /\ job'[q] = job[q]
  BY <1>3 DEF Stay, InFlight
<1>5. /\ job[r].at = "unlocked" => binds >= 1 /\ (policyOf # NoPolicy => binds >= 2)
      /\ job[r].at \in Unchecked => ~job[r].reserved
      /\ ~job[r].reserved /\ job[r].at \notin Unchecked => binds >= 2
      /\ policyOf = NoPolicy => binds >= 1
  BY <1>1 DEF BindsInv
<1>6. ASSUME r \in InFlight'
      PROVE  /\ job'[r].at = "unlocked" => binds >= 1 /\ (policyOf # NoPolicy => binds >= 2)
             /\ job'[r].at \in Unchecked => ~job'[r].reserved
             /\ ~job'[r].reserved /\ job'[r].at \notin Unchecked => binds >= 2
  BY <1>1, <1>5, <1>6, AllowedIs
  DEF BudgetMoves, Moved, Kept, Ended, Stay, InFlight, Unchecked, At
<1>. QED BY <1>2, <1>4, <1>5, <1>6 DEF BindsInv

LEMMA ChainBinds ==
  ASSUME JobInv, BindsInv, NEW r \in Requests, Outcomes(r), r \in InFlight,
         UNCHANGED <<policyOf, binds>>
  PROVE  BindsInv'
<1>1. Stay(r)
  BY DEF Outcomes, Moved, Ended
<1>2. \A q \in InFlight' \ {r} : q \in InFlight /\ job'[q] = job[q]
  BY <1>1 DEF Stay, InFlight
<1>3. ASSUME r \in InFlight'
      PROVE  /\ job'[r].at \notin Unchecked
             /\ ~job'[r].reserved => binds >= 2
  BY <1>3 DEF BindsInv, Outcomes, Moved, Kept, Ended, Stay, InFlight, Unchecked
<1>. QED BY <1>2, <1>3 DEF BindsInv, Unchecked

(* The ids with a reservation, as a request moves. *)
LEMMA ReservedKept ==
  ASSUME NEW r \in InFlight, NEW s, Moved(r, s), s # "idle", Kept(r)
  PROVE  Reserved' = Reserved
<1>1. InFlight' = InFlight
  BY DEF Moved, Stay, InFlight, Idle
<1>2. \A q \in InFlight : job'[q].id = job[q].id /\ job'[q].reserved = job[q].reserved
  BY DEF Moved, Stay, Kept, InFlight
<1>. QED BY <1>1, <1>2 DEF Reserved

LEMMA ReservedAdded ==
  ASSUME NEW r \in InFlight, NEW s, Moved(r, s), s # "idle", job'[r].reserved = TRUE
  PROVE  Reserved' = Reserved \union {job[r].id}
<1>1. InFlight' = InFlight
  BY DEF Moved, Stay, InFlight, Idle
<1>2. \A q \in InFlight : job'[q].id = job[q].id
  BY DEF Moved, Stay, InFlight
<1>3. \A q \in InFlight \ {r} : job'[q] = job[q]
  BY DEF Moved, Stay, InFlight
<1>. QED BY <1>1, <1>2, <1>3 DEF Reserved

LEMMA ReservedEnded ==
  ASSUME NEW r \in InFlight, Ended(r)
  PROVE  Reserved \ {job[r].id} \subseteq Reserved'
<1>1. \A q \in InFlight \ {r} : q \in InFlight' /\ job'[q] = job[q]
  BY DEF Ended, Stay, InFlight
<1>. QED BY <1>1 DEF Reserved

(* What is known of the others, as one request moves. *)
LEMMA OthersKnown ==
  ASSUME JobInv, NEW r \in InFlight, Stay(r), \A q \in InFlight : Known(q),
         Entries' \subseteq Entries \union {job[r].id}, Entries \ {job[r].id} \subseteq Entries',
         done' \subseteq done \union {job[r].id}, lost \subseteq lost'
  PROVE  \A q \in InFlight' \ {r} : Known(q)'
<1>. SUFFICES ASSUME NEW q \in InFlight' \ {r} PROVE Known(q)'
  OBVIOUS
<1>1. q \in InFlight /\ job'[q] = job[q]
  BY DEF Stay, InFlight
<1>2. job[q].id # job[r].id
  BY <1>1 DEF JobInv, IdsInv
<1>3. Known(q)
  BY <1>1
<1>. QED BY <1>1, <1>2, <1>3 DEF Known

Matches ==
  /\ done \ lost \subseteq Entries
  /\ Entries \subseteq done \union Reserved \union orphaned \union leftover

LEMMA MatchesIs == LedgerMatchesSpend <=> Matches
BY DEF LedgerMatchesSpend, Matches, Entries

LEMMA MatchesIsNext == LedgerMatchesSpend' <=> Matches'
BY MatchesIs, PTL

LEMMA BudgetLedger ==
  ASSUME JobInv, BindsInv, binds <= 1, Matches, \A q \in InFlight : Known(q),
         NEW r \in Requests, BudgetStep(r), UNCHANGED chainVars
  PROVE  Matches' /\ \A q \in InFlight' : Known(q)'
<1>. DEFINE i == job[r].id
<1>1. r \in InFlight /\ BudgetMoves(r) /\ leftover \subseteq leftover'
  BY BudgetStepMoves
<1>2. UNCHANGED <<done, lost, orphaned>> /\ binds \in Nat
  BY DEF chainVars, JobInv, TypeInv
<1>3. Stay(r)
  BY <1>1 DEF BudgetMoves, Moved, Ended
<1>4. Entries' \subseteq Entries \union {i} /\ Entries \ {i} \subseteq Entries'
  BY <1>1 DEF BudgetMoves, Entries
<1>5. \A q \in InFlight' \ {r} : Known(q)'
  BY <1>1, <1>2, <1>3, <1>4, OthersKnown
<1>6. Known(r) /\ (job[r].at \in Unchecked => ~job[r].reserved)
  BY <1>1 DEF BindsInv
<1>7. CASE /\ UNCHANGED ledger
           /\ \E s \in Steps \ {"refund"} :
                Moved(r, s) /\ Kept(r) /\ job[r].at \in Unchecked /\ s \in Unchecked
  <2>1. PICK s \in Unchecked : Moved(r, s) /\ Kept(r) /\ job[r].at \in Unchecked
    BY <1>7
  <2>2. Reserved' = Reserved /\ Entries' = Entries
    BY <1>1, <1>7, <2>1, ReservedKept DEF Unchecked, Entries
  <2>3. Known(r)'
    BY <1>2, <1>6, <2>1, <2>2 DEF Known, Moved, Kept
  <2>. QED BY <1>1, <1>2, <1>5, <2>2, <2>3 DEF Matches
<1>8. CASE job[r].at \in {"check", "unlocked"} /\ UNCHANGED ledger /\ Ended(r)
  <2>1. Reserved \ {i} \subseteq Reserved' /\ i \notin Entries /\ Entries' = Entries
    BY <1>1, <1>6, <1>8, ReservedEnded DEF Known, Unchecked, Entries
  <2>2. r \notin InFlight'
    BY <1>8 DEF Ended, InFlight
  <2>. QED BY <1>1, <1>2, <1>5, <2>1, <2>2 DEF Matches
<1>9. CASE /\ At(r, "reserve") /\ Entries' = Entries \union {i}
           /\ Moved(r, Allowed(r)) /\ job'[r].reserved = TRUE
  <2>1. Allowed(r) \in {"redeem", "route"}
    BY AllowedIs
  <2>2. Reserved' = Reserved \union {i}
    BY <1>1, <1>9, <2>1, ReservedAdded
  <2>3. Known(r)'
    BY <1>2, <1>6, <1>9 DEF Known, Moved, At, Unchecked
  <2>. QED BY <1>1, <1>2, <1>5, <1>9, <2>2, <2>3 DEF Matches
<1>10. CASE At(r, "unlocked") /\ policyOf # NoPolicy
  BY <1>1, <1>2, <1>10 DEF At, BindsInv
<1>11. CASE /\ At(r, "route") /\ UNCHANGED ledger
            /\ \E s \in {"refund", "pull", "redeem", "send"} : Moved(r, s) /\ Kept(r)
  <2>1. PICK s \in {"refund", "pull", "redeem", "send"} : Moved(r, s) /\ Kept(r)
    BY <1>11
  <2>2. Reserved' = Reserved /\ Entries' = Entries
    BY <1>1, <1>11, <2>1, ReservedKept DEF Entries
  <2>3. Known(r)'
    BY <1>2, <1>6, <1>11, <2>1, <2>2 DEF Known, Moved, Kept, At
  <2>. QED BY <1>1, <1>2, <1>5, <2>2, <2>3 DEF Matches
<1>12. CASE At(r, "refund") /\ Entries' = Entries \ {i} /\ Ended(r)
  <2>1. Reserved \ {i} \subseteq Reserved' /\ (i \in done => i \in lost)
    BY <1>1, <1>6, <1>12, ReservedEnded DEF Known
  <2>2. r \notin InFlight'
    BY <1>12 DEF Ended, InFlight
  <2>. QED BY <1>1, <1>2, <1>5, <1>12, <2>1, <2>2 DEF Matches
<1>13. CASE UNCHANGED ledger /\ Ended(r) /\ LeftInLedger(r)
  <2>1. Reserved \ {i} \subseteq Reserved' /\ Entries' = Entries
        /\ (i \in Entries => i \in leftover')
    BY <1>1, <1>6, <1>13, ReservedEnded DEF Known, LeftInLedger, Entries
  <2>2. r \notin InFlight'
    BY <1>13 DEF Ended, InFlight
  <2>. QED BY <1>1, <1>2, <1>5, <2>1, <2>2 DEF Matches
<1>14. CASE Entries' = Entries \union {i} /\ Ended(r) /\ i \in leftover'
  <2>1. Reserved \ {i} \subseteq Reserved'
    BY <1>1, <1>14, ReservedEnded
  <2>2. r \notin InFlight'
    BY <1>14 DEF Ended, InFlight
  <2>. QED BY <1>1, <1>2, <1>5, <1>14, <2>1, <2>2 DEF Matches
<1>. QED
  BY <1>1, <1>7, <1>8, <1>9, <1>10, <1>11, <1>12, <1>13, <1>14 DEF BudgetMoves, Unchecked, Steps, At

LEMMA ChainLedger ==
  ASSUME JobInv, BindsInv, binds <= 1, Matches, \A q \in InFlight : Known(q),
         NEW r \in InFlight, Outcomes(r), UNCHANGED <<ledger, leftover, orphaned>>
  PROVE  Matches' /\ \A q \in InFlight' : Known(q)'
<1>. DEFINE i == job[r].id
<1>1. Entries' = Entries /\ binds \in Nat
  BY DEF Entries, JobInv, TypeInv
<1>2. Stay(r)
  BY DEF Outcomes, Moved, Ended
<1>3. \A q \in InFlight' \ {r} : Known(q)'
  BY <1>1, <1>2, OthersKnown DEF Outcomes
<1>4. Known(r) /\ job[r].reserved
  <2>1. job[r].at \notin Unchecked
    BY DEF Outcomes, Unchecked
  <2>2. ~job[r].reserved => binds >= 2
    BY <2>1 DEF BindsInv
  <2>. QED BY <1>1, <2>2
<1>5. i \in Entries
  BY <1>4 DEF Known
<1>6. CASE /\ done' = done
           /\ \E s \in {"deposit", "recover", "refund"} :
                Moved(r, s) /\ Kept(r) /\ (s = "deposit" => At(r, "pull"))
  <2>1. PICK s \in {"deposit", "recover", "refund"} :
          Moved(r, s) /\ Kept(r) /\ (s = "deposit" => At(r, "pull"))
    BY <1>6
  <2>2. Reserved' = Reserved
    BY <2>1, ReservedKept
  <2>3. Known(r)'
    BY <1>1, <1>4, <1>6, <2>1 DEF Known, Moved, Kept, At, Unchecked, Outcomes
  <2>. QED BY <1>1, <1>3, <1>6, <2>2, <2>3 DEF Matches, Outcomes
<1>7. CASE done' = done \union {i} /\ Ended(r)
  <2>1. Reserved \ {i} \subseteq Reserved'
    BY <1>7, ReservedEnded
  <2>2. r \notin InFlight'
    BY <1>7 DEF Ended, InFlight
  <2>. QED BY <1>1, <1>3, <1>5, <1>7, <2>1, <2>2 DEF Matches, Outcomes
<1>8. CASE /\ done' = done \union {i}
           /\ \E s \in {"recover", "refund"} : Moved(r, s) /\ Kept(r) /\ i \in lost'
  <2>1. PICK s \in {"recover", "refund"} : Moved(r, s) /\ Kept(r) /\ i \in lost'
    BY <1>8
  <2>2. Reserved' = Reserved
    BY <2>1, ReservedKept
  <2>3. Known(r)'
    BY <1>1, <1>4, <1>8, <2>1 DEF Known, Moved, Kept, Unchecked
  <2>. QED BY <1>1, <1>3, <1>5, <1>8, <2>2, <2>3 DEF Matches, Outcomes
<1>. QED BY <1>6, <1>7, <1>8 DEF Outcomes

LEMMA NewLedger ==
  ASSUME JobInv, LedgerInv, NEW r \in Requests, New(r)
  PROVE  LedgerInv'
<1>1. /\ TypeInv /\ issued \in Nat /\ job'[r].id = issued + 1
      /\ UNCHANGED <<policyOf, binds, ledger, leftover, done, lost, orphaned>>
  BY DEF JobInv, TypeInv, New, chainVars
<1>2. \A q \in Requests \ {r} : job'[q] = job[q]
  BY DEF New, Stay
<1>3. \A q \in InFlight : q \in InFlight' /\ job'[q] = job[q]
  BY <1>2 DEF New, InFlight
<1>4. \A q \in InFlight' \ {r} : q \in InFlight /\ job'[q] = job[q]
  BY <1>2 DEF InFlight
<1>5. BindsInv'
  BY <1>1, <1>4 DEF LedgerInv, BindsInv, New, Unchecked
<1>6. CASE binds <= 1
  <2>1. Matches /\ (\A q \in InFlight : Known(q)) /\ Entries' = Entries
    BY <1>1, <1>6, MatchesIs DEF LedgerInv, Entries
  <2>2. Reserved \subseteq Reserved'
    BY <1>3 DEF Reserved
  <2>3. Matches'
    BY <1>1, <2>1, <2>2 DEF Matches
  <2>4. job'[r].id \notin Entries /\ job'[r].id \notin done
    BY <1>1 DEF TypeInv
  <2>5. Known(r)'
    BY <1>1, <2>1, <2>4 DEF Known, New
  <2>6. \A q \in InFlight' \ {r} : Known(q)'
    BY <1>1, <1>4, <2>1 DEF Known
  <2>. QED BY <1>5, <2>3, <2>5, <2>6, MatchesIsNext DEF LedgerInv
<1>. QED BY <1>1, <1>5, <1>6 DEF LedgerInv

LEMMA RestartLedger ==
  ASSUME JobInv, LedgerInv, Restart
  PROVE  LedgerInv'
<1>1. InFlight' = {}
  BY DEF Restart, InFlight
<1>2. BindsInv'
  BY <1>1 DEF LedgerInv, BindsInv, Restart
<1>3. CASE binds <= 1
  <2>1. Matches /\ Entries' = Entries
    BY <1>3, MatchesIs DEF LedgerInv, Entries, Restart
  <2>2. Reserved \subseteq orphaned'
    BY DEF Reserved, Restart
  <2>3. Matches'
    BY <2>1, <2>2 DEF Matches, Restart
  <2>. QED BY <1>1, <1>2, <2>3, MatchesIsNext DEF LedgerInv
<1>. QED BY <1>2, <1>3 DEF LedgerInv, Restart

LEMMA BindLedger ==
  ASSUME JobInv, LedgerInv, NEW p \in Policies \union {NoPolicy}, BindPolicy(p), UNCHANGED chainVars
  PROVE  LedgerInv'
<1>1. binds \in Nat /\ binds' = binds + 1 /\ policyOf' = p /\ p # policyOf
      /\ UNCHANGED <<ledger, leftover, job>>
  BY DEF JobInv, TypeInv, BindPolicy
<1>2. InFlight' = InFlight /\ Reserved' = Reserved /\ Entries' = Entries
  BY <1>1 DEF InFlight, Reserved, Entries
<1>3. BindsInv'
  BY <1>1, <1>2 DEF LedgerInv, BindsInv
<1>4. CASE binds <= 1
  <2>1. Matches /\ \A q \in InFlight : Known(q)
    BY <1>4, MatchesIs DEF LedgerInv
  <2>2. Matches' /\ \A q \in InFlight' : Known(q)'
    BY <1>1, <1>2, <2>1 DEF Matches, Known, chainVars
  <2>. QED BY <1>3, <2>2, MatchesIsNext DEF LedgerInv
<1>. QED BY <1>1, <1>3, <1>4 DEF LedgerInv

LEMMA LedgerStep ==
  ASSUME JobInv, LedgerInv, [Next]_vars
  PROVE  LedgerInv'
<1>1. ASSUME NEW r \in Requests, Request(r) PROVE LedgerInv'
  BY <1>1, RequestIsNew, NewLedger
<1>2. ASSUME NEW r \in Requests, BudgetStep(r), UNCHANGED chainVars PROVE LedgerInv'
  <2>1. BindsInv'
    BY <1>2, BudgetBinds DEF LedgerInv
  <2>2. binds' = binds
    BY <1>2 DEF BudgetStep, ReadKey, Wait, Check, Reserve, CheckUnlocked, Route, Refund, Throw
  <2>3. CASE binds <= 1
    <3>1. Matches' /\ \A q \in InFlight' : Known(q)'
      BY <1>2, <2>3, BudgetLedger, MatchesIs DEF LedgerInv
    <3>. QED BY <2>1, <3>1, MatchesIsNext DEF LedgerInv
  <2>. QED BY <2>1, <2>2, <2>3 DEF LedgerInv
<1>3. ASSUME NEW r \in Requests, Pull(r) \/ Deposit(r) \/ Recover(r) \/ Redeem(r) \/ Send(r)
      PROVE  LedgerInv'
  <2>1. r \in InFlight /\ Outcomes(r)
    BY <1>3, ChainStepOutcomes
  <2>2. UNCHANGED <<policyOf, binds, ledger, leftover, orphaned>>
    BY <1>3 DEF Pull, PullTo, Deposit, Recover, Redeem, Send, Failed, chainVars, OnlyJob
  <2>3. BindsInv'
    BY <1>3, <2>1, <2>2, ChainBinds DEF LedgerInv
  <2>4. CASE binds <= 1
    <3>1. Matches' /\ \A q \in InFlight' : Known(q)'
      BY <2>1, <2>2, <2>4, ChainLedger, MatchesIs DEF LedgerInv
    <3>. QED BY <2>3, <3>1, MatchesIsNext DEF LedgerInv
  <2>. QED BY <2>2, <2>3, <2>4 DEF LedgerInv
<1>4. CASE Restart
  BY <1>4, RestartLedger
<1>5. ASSUME NEW p \in Policies \union {NoPolicy}, BindPolicy(p), UNCHANGED chainVars
      PROVE  LedgerInv'
  BY <1>5, BindLedger
<1>6. CASE UNCHANGED <<policyOf, binds, ledger, leftover, job, chainVars>>
  <2>1. InFlight' = InFlight /\ Reserved' = Reserved /\ Entries' = Entries
    BY <1>6 DEF InFlight, Reserved, Entries
  <2>2. BindsInv'
    BY <1>6, <2>1 DEF LedgerInv, BindsInv
  <2>3. CASE binds <= 1
    <3>1. Matches /\ \A q \in InFlight : Known(q)
      BY <2>3, MatchesIs DEF LedgerInv
    <3>2. Matches' /\ \A q \in InFlight' : Known(q)'
      BY <1>6, <2>1, <3>1 DEF Matches, Known, chainVars
    <3>. QED BY <2>2, <3>2, MatchesIsNext DEF LedgerInv
  <2>. QED BY <1>6, <2>2, <2>3 DEF LedgerInv
<1>7. CASE (Elapse /\ UNCHANGED chainVars) \/ UNCHANGED vars
  BY <1>6, <1>7 DEF Elapse, vars, budgetVars
<1>. QED BY <1>1, <1>2, <1>3, <1>4, <1>5, <1>7 DEF Next, Step

LEMMA LedgerInit == Init => LedgerInv
<1>. SUFFICES ASSUME Init PROVE LedgerInv
  OBVIOUS
<1>1. InFlight = {} /\ Entries = {} /\ done = {} /\ policyOf # NoPolicy
  BY BudgetAssumption DEF Init, BudgetInit, InFlight, Entries
<1>2. Matches
  BY <1>1 DEF Matches
<1>. QED BY <1>1, <1>2, MatchesIs DEF LedgerInv, BindsInv

(* However many requests share the budget, the ledger is what was spent, give *)
(* or take lost answers, restarts and the entries that errors have left, until *)
(* the key is bound a second time: losing its policy and getting one again     *)
(* lets a request that was waiting between the two spend without a reservation *)
(* (checkPolicy, rollbackReservation).                                         *)
THEOREM LedgerIsSpend == Spec => [](binds <= 1 => LedgerMatchesSpend)
<1>1. LedgerInv => (binds <= 1 => LedgerMatchesSpend)
  BY DEF LedgerInv
<1>. QED BY <1>1, JobInit, JobStep, LedgerInit, LedgerStep, PTL DEF Spec
-----------------------------------------------------------------------------
(* The fourth layer: amounts, queues and the budget. *)

(* What entries add up to, as a sum over a function. *)
AmountOf(S) == [e \in S |-> e.amount]

LEMMA AmountIs ==
  ASSUME NEW S, IsFiniteSet(S), \A e \in S : e.amount \in Nat
  PROVE  Amount(S) = SumFunctionOnSet(AmountOf(S), S)
<1>. DEFINE Adds2(g) == g = [s \in SUBSET S |-> IF s = {} THEN 0 ELSE Any(s).amount + g[s \ {Any(s)}]]
<1>1. \A s \in SUBSET S : s # {} => AmountOf(S)[Any(s)] = Any(s).amount
  <2>1. \A s \in SUBSET S : s # {} => Any(s) \in S
    BY AnyOf
  <2>. QED BY <2>1 DEF AmountOf
<1>2. \A g : Adds2(g) <=> Adds(g, AmountOf(S), S)
  BY <1>1 DEF Adds
<1>3. PICK g : Adds(g, AmountOf(S), S) /\ SumFunctionOnSet(AmountOf(S), S) = g[S]
  BY SumAdds
<1>4. Amount(S) = (CHOOSE h : Adds2(h))[S]
  BY DEF Amount, MapThenSumSet, MapThenFoldSet, Any
<1>. HIDE DEF Adds2
<1>5. PICK h : h = CHOOSE k : Adds2(k)
  OBVIOUS
<1>6. Adds(h, AmountOf(S), S)
  BY <1>2, <1>3, <1>5
<1>7. S \in SUBSET S /\ \A x \in S : AmountOf(S)[x] = AmountOf(S)[x]
  OBVIOUS
<1>8. \A s \in SUBSET S : g[s] = h[s]
  BY ONLY <1>3, <1>6, <1>7, IsFiniteSet(S), AddsAlike
<1>. QED BY <1>3, <1>4, <1>5, <1>7, <1>8

LEMMA AmountType ==
  ASSUME NEW S, IsFiniteSet(S), \A e \in S : e.amount \in Nat
  PROVE  Amount(S) \in Nat
<1>1. \A e \in S : AmountOf(S)[e] \in Nat
  BY DEF AmountOf
<1>. QED BY <1>1, AmountIs, SumNatural

LEMMA AmountSubset ==
  ASSUME NEW S, IsFiniteSet(S), \A e \in S : e.amount \in Nat, NEW R \in SUBSET S
  PROVE  Amount(R) <= Amount(S)
<1>1. \A e \in S : AmountOf(S)[e] \in Nat
  BY DEF AmountOf
<1>2. IsFiniteSet(R) /\ \A e \in R : e.amount \in Nat /\ AmountOf(S)[e] = AmountOf(R)[e]
  BY FS_Subset DEF AmountOf
<1>3. SumFunctionOnSet(AmountOf(S), R) = SumFunctionOnSet(AmountOf(R), R)
  BY <1>2, SumAlike
<1>4. SumFunctionOnSet(AmountOf(S), R) <= SumFunctionOnSet(AmountOf(S), S)
  BY <1>1, SumSubset
<1>. QED BY <1>2, <1>3, <1>4, AmountIs

LEMMA AmountOneMore ==
  ASSUME NEW S, IsFiniteSet(S), \A e \in S : e.amount \in Nat, NEW x, x.amount \in Nat
  PROVE  Amount(S \union {x}) <= Amount(S) + x.amount
<1>. DEFINE R == S \union {x}
<1>1. CASE x \in S
  <2>1. R = S
    BY <1>1
  <2>. HIDE DEF R
  <2>2. Amount(R) \in Nat /\ Amount(R) = Amount(S) /\ x.amount \in Nat
    BY <2>1, AmountType
  <2>3. Amount(R) <= Amount(S) + x.amount
    BY <2>2
  <2>. QED BY <2>3 DEF R
<1>2. CASE x \notin S
  <2>1. IsFiniteSet(R) /\ (\A e \in R : e.amount \in Nat) /\ x \in R /\ R \ {x} = S
    BY <1>2, FS_AddElement
  <2>2. \A e \in R : AmountOf(R)[e] = e.amount /\ AmountOf(R)[e] \in Int
    BY <2>1 DEF AmountOf
  <2>3. SumFunctionOnSet(AmountOf(R), R) = AmountOf(R)[x] + SumFunctionOnSet(AmountOf(R), R \ {x})
    BY <2>1, <2>2, SumOneMore
  <2>4. \A e \in S : AmountOf(R)[e] = AmountOf(S)[e]
    BY DEF AmountOf
  <2>5. SumFunctionOnSet(AmountOf(R), S) = SumFunctionOnSet(AmountOf(S), S)
    BY <2>4, SumAlike
  <2>6. Amount(R) = x.amount + Amount(S)
    BY <2>1, <2>2, <2>3, <2>5, AmountIs
  <2>7. Amount(S) \in Nat
    BY AmountType
  <2>. QED BY <2>6, <2>7
<1>. QED BY <1>1, <1>2
Entry == [id : Nat, policy : Policies, amount : Nat, time : Nat]
Recent(p) == {e \in ledger : e.policy = p /\ now - e.time <= Window}
Between(p, t) == {e \in ledger : e.policy = p /\ e.time \in t .. t + Window}

LedgerOK ==
  /\ now \in Nat
  /\ IsFiniteSet(ledger) /\ ledger \subseteq Entry
  /\ \A e \in ledger : e.time <= now

(* A request that checks and reserves is in its policy's queue, and first in *)
(* it from its check on.                                                     *)
LockSteps == {"wait", "check", "reserve"}
Queued(r) ==
  LET queue == lock[job[r].policy]
  IN  job[r].at \in LockSteps =>
        /\ job[r].policy \in Policies
        /\ \E i \in 1 .. Len(queue) : queue[i] = r
        /\ job[r].at # "wait" => queue[1] = r
QueueInv ==
  /\ lock \in [Policies -> Seq(Requests)]
  /\ \A r \in InFlight : Queued(r)

(* The key's policy is read again under the lock.  It is the one the lock is *)
(* of while the key was never bound anew, or to nothing but that or none.    *)
Steady == binds = 0 \/ \A p, q \in Policies : p = q

(* What was found to fit still fits when it is entered. *)
Room(r) ==
  /\ job[r].at \in LockSteps => policyOf \in {NoPolicy, job[r].policy}
  /\ job[r].at = "reserve" => Spent(job[r].policy) + job[r].amount <= Limit
BudgetInv ==
  /\ LedgerOK /\ QueueInv
  /\ Steady => WithinBudget /\ \A r \in InFlight : Room(r)

LEMMA SpentIs ==
  /\ \A p : Spent(p) = Amount(Recent(p))
  /\ WithinBudget <=> \A p \in Policies, t \in 0 .. Horizon : Amount(Between(p, t)) <= Limit
BY DEF Spent, Recent, WithinBudget, Between

LEMMA SpentIsNext ==
  /\ \A p : Spent(p)' = Amount(Recent(p)')
  /\ WithinBudget' <=> \A p \in Policies, t \in 0 .. Horizon : Amount(Between(p, t)') <= Limit
<1>1. \A p : Spent(p)' = Amount(Recent(p)')
  BY DEF Spent, Recent
<1>2. WithinBudget' <=> \A p \in Policies, t \in 0 .. Horizon : Amount(Between(p, t)') <= Limit
  BY DEF WithinBudget, Between
<1>. QED BY <1>1, <1>2

LEMMA PartsAreEntries ==
  ASSUME LedgerOK, NEW S \in SUBSET ledger
  PROVE  IsFiniteSet(S) /\ \A e \in S : e.amount \in Nat
BY FS_Subset DEF LedgerOK, Entry

(* As time goes by and entries are taken back, less was spent.             *)
LEMMA LessIsSpent ==
  ASSUME LedgerOK, now' \in Nat, now <= now', ledger' \subseteq ledger
  PROVE  /\ LedgerOK'
         /\ \A p : Spent(p) \in Nat /\ Spent(p)' \in Nat /\ Spent(p)' <= Spent(p)
         /\ WithinBudget => WithinBudget'
<1>1. LedgerOK'
  BY FS_Subset DEF LedgerOK, Entry
<1>2. ASSUME NEW S \in SUBSET ledger
      PROVE  Amount(S) \in Nat /\ \A R \in SUBSET S : Amount(R) <= Amount(S) /\ Amount(R) \in Nat
  <2>1. IsFiniteSet(S) /\ \A e \in S : e.amount \in Nat
    BY PartsAreEntries
  <2>2. \A R \in SUBSET S : IsFiniteSet(R) /\ \A e \in R : e.amount \in Nat
    BY <2>1, FS_Subset
  <2>. QED BY <2>1, <2>2, AmountType, AmountSubset
<1>3. \A p : Recent(p) \in SUBSET ledger /\ Recent(p)' \in SUBSET Recent(p)
  BY BudgetAssumption DEF Recent, LedgerOK, Entry
<1>4. \A p, t : Between(p, t) \in SUBSET ledger /\ Between(p, t)' \in SUBSET Between(p, t)
  BY DEF Between
<1>5. \A p : Spent(p) \in Nat /\ Spent(p)' \in Nat /\ Spent(p)' <= Spent(p)
  BY <1>2, <1>3, SpentIs, SpentIsNext
<1>6. WithinBudget => WithinBudget'
  <2>1. \A p, t : /\ Amount(Between(p, t)') <= Amount(Between(p, t))
                  /\ Amount(Between(p, t)') \in Nat /\ Amount(Between(p, t)) \in Nat
    BY <1>2, <1>4
  <2>2. Limit \in Nat
    BY BudgetAssumption
  <2>. QED BY <2>1, <2>2, SpentIs, SpentIsNext
<1>. QED BY <1>1, <1>5, <1>6
(* What a request that leaves the lock's queue alone does to the budget: it  *)
(* goes where there is no queue, and at most takes its reservation back.     *)
LEMMA QueueUntouched ==
  ASSUME JobInv, BudgetInv, now' \in Nat, now <= now', ledger' \subseteq ledger,
         UNCHANGED <<lock, policyOf, binds>>,
         \A q \in InFlight' : job'[q].at \in LockSteps => q \in InFlight /\ job'[q] = job[q]
  PROVE  BudgetInv'
<1>1. /\ LedgerOK'
      /\ \A p : Spent(p) \in Nat /\ Spent(p)' \in Nat /\ Spent(p)' <= Spent(p)
      /\ WithinBudget => WithinBudget'
  BY LessIsSpent DEF BudgetInv
<1>2. QueueInv'
  BY DEF BudgetInv, QueueInv, Queued
<1>3. ASSUME Steady', NEW q \in InFlight' PROVE Room(q)'
  <2>1. Steady
    BY <1>3 DEF Steady
  <2>2. CASE job'[q].at \in LockSteps
    <3>1. q \in InFlight /\ job'[q] = job[q] /\ Room(q)
      BY <2>1, <2>2 DEF BudgetInv
    <3>2. job[q].amount \in Nat /\ Limit \in Nat
      BY <3>1, RunningIsJob, BudgetAssumption DEF JobInv, InFlight, Job
    <3>. DEFINE x == job[q].policy
    <3>3. Spent(x) \in Nat /\ Spent(x)' \in Nat /\ Spent(x)' <= Spent(x) /\ x' = x
      BY <1>1, <3>1
    <3>4. job[q].at = "reserve" => Spent(x)' + job[q].amount <= Limit
      BY <3>1, <3>2, <3>3 DEF Room
    <3>5. policyOf' = policyOf
      OBVIOUS
    <3>. QED BY <3>1, <3>3, <3>4, <3>5 DEF Room
  <2>3. CASE job'[q].at \notin LockSteps
    BY <2>3 DEF Room, LockSteps
  <2>. QED BY <2>2, <2>3
<1>4. Steady' => WithinBudget'
  BY <1>1 DEF BudgetInv, Steady
<1>. QED BY <1>1, <1>2, <1>3, <1>4 DEF BudgetInv
LEMMA SamePolicy ==
  ASSUME TypeInv, NEW r \in Requests, job[r] \in Job, NEW s \in Steps, Goto(r, s)
  PROVE  job'[r].policy = job[r].policy /\ job'[r].amount = job[r].amount /\ job'[r].at = s
BY DEF Goto, TypeInv, Job

(* A key with a policy: the request goes to the end of its queue.          *)
LEMMA ReadKeyBudget ==
  ASSUME JobInv, BudgetInv, NEW r \in InFlight, ReadKey(r)
  PROVE  BudgetInv'
<1>1. /\ TypeInv /\ job[r] \in Job /\ job \in [Requests -> {Idle} \union Job] /\ r \in Requests
  BY RunningIsJob DEF JobInv, InFlight, TypeInv
<1>2. At(r, "key") /\ UNCHANGED <<policyOf, binds, ledger, issued, now>>
  BY DEF ReadKey
<1>3. CASE policyOf = NoPolicy
  <2>1. Goto(r, "unlocked") /\ UNCHANGED lock
    BY <1>3 DEF ReadKey
  <2>2. Stay(r) /\ job'[r].at = "unlocked"
    BY <1>1, <2>1, GotoMoves DEF Moved, Steps
  <2>3. \A q \in InFlight' : job'[q].at \in LockSteps => q \in InFlight /\ job'[q] = job[q]
    BY <2>2 DEF Stay, InFlight, LockSteps
  <2>. QED BY <1>2, <2>1, <2>3, QueueUntouched DEF BudgetInv, LedgerOK
<1>4. CASE policyOf # NoPolicy
  <2>. DEFINE p == policyOf
  <2>1. /\ p \in Policies
        /\ lock' = [lock EXCEPT ![p] = Append(@, r)]
        /\ job' = [job EXCEPT ![r].at = "wait", ![r].policy = p]
    BY <1>1, <1>4 DEF ReadKey, TypeInv
  <2>2. /\ job'[r].at = "wait" /\ job'[r].policy = p
        /\ \A q \in Requests \ {r} : job'[q] = job[q]
    BY <1>1, <2>1 DEF Job
  <2>3. \A q \in InFlight' \ {r} : q \in InFlight /\ job'[q] = job[q]
    BY <2>2 DEF InFlight
  <2>4. /\ lock \in [Policies -> Seq(Requests)] /\ lock' \in [Policies -> Seq(Requests)]
        /\ lock'[p] = Append(lock[p], r) /\ lock[p] \in Seq(Requests)
        /\ \A x \in Policies \ {p} : lock'[x] = lock[x]
    BY <1>1, <2>1 DEF BudgetInv, QueueInv
  <2>5. /\ Len(lock'[p]) = Len(lock[p]) + 1 /\ Len(lock[p]) \in Nat
        /\ lock'[p][Len(lock[p]) + 1] = r
        /\ \A i \in 1 .. Len(lock[p]) : lock'[p][i] = lock[p][i]
    BY <2>4
  <2>. HIDE DEF p
  <2>6. ASSUME NEW q \in InFlight' PROVE Queued(q)'
    <3>1. CASE q = r
      <4>1. Len(lock[p]) + 1 \in 1 .. Len(lock'[p])
        BY <2>5
      <4>. QED BY <2>1, <2>2, <2>5, <3>1, <4>1 DEF Queued
    <3>2. CASE q # r
      <4>1. q \in InFlight /\ job'[q] = job[q] /\ Queued(q)
        BY <2>3, <3>2 DEF BudgetInv, QueueInv
      <4>2. CASE job[q].policy = p
        BY <2>5, <4>1, <4>2 DEF Queued
      <4>3. CASE job[q].policy # p
        BY <2>4, <4>1, <4>3 DEF Queued
      <4>. QED BY <4>2, <4>3
    <3>. QED BY <3>1, <3>2
  <2>7. QueueInv'
    BY <2>4, <2>6 DEF QueueInv
  <2>8. /\ LedgerOK' /\ \A x : Spent(x)' = Spent(x)
        /\ WithinBudget' = WithinBudget /\ Steady' = Steady
    BY <1>2 DEF BudgetInv, LedgerOK, Spent, WithinBudget, Steady
  <2>9. ASSUME Steady', NEW q \in InFlight' PROVE Room(q)'
    <3>1. CASE q = r
      BY <1>2, <2>2, <3>1 DEF Room, p
    <3>2. CASE q # r
      <4>1. job'[q] = job[q] /\ Room(q)
        BY <1>2, <2>3, <2>8, <1>2, <2>9, <3>2 DEF BudgetInv
      <4>. QED BY <1>2, <2>8, <4>1 DEF Room
    <3>. QED BY <3>1, <3>2
  <2>. QED BY <2>7, <2>8, <2>9 DEF BudgetInv
<1>. QED BY <1>3, <1>4

(* The holder of a lock leaves: whoever waits behind it stays in the queue.  *)
LEMMA ReleaseBudget ==
  ASSUME JobInv, BudgetInv, NEW r \in InFlight, job[r].at \in {"check", "reserve"},
         ReleaseLock(r), Stay(r), r \in InFlight' => job'[r].at \notin LockSteps
  PROVE  QueueInv'
<1>. DEFINE p == job[r].policy
<1>1. /\ r \in Requests /\ p \in Policies
      /\ lock \in [Policies -> Seq(Requests)] /\ lock[p] \in Seq(Requests)
      /\ Len(lock[p]) \in Nat /\ Len(lock[p]) >= 1 /\ lock[p][1] = r
  BY DEF BudgetInv, QueueInv, Queued, LockSteps, InFlight
<1>2. /\ lock'[p] = Tail(lock[p]) /\ lock[p] # <<>>
      /\ \A x \in Policies \ {p} : lock'[x] = lock[x]
  BY <1>1 DEF ReleaseLock
<1>3. /\ Tail(lock[p]) \in Seq(Requests) /\ Len(lock'[p]) = Len(lock[p]) - 1
      /\ \A i \in 1 .. Len(lock[p]) - 1 : lock'[p][i] = lock[p][i + 1]
  BY <1>1, <1>2
<1>4. lock' \in [Policies -> Seq(Requests)]
  BY <1>1, <1>2, <1>3 DEF ReleaseLock
<1>. HIDE DEF p
<1>5. ASSUME NEW q \in InFlight' PROVE Queued(q)'
  <2>1. CASE q = r
    BY <2>1 DEF Queued
  <2>2. CASE q # r
    <3>1. q \in InFlight /\ job'[q] = job[q] /\ Queued(q)
      BY <2>2 DEF BudgetInv, QueueInv, InFlight, Stay
    <3>2. CASE job[q].policy # p
      BY <1>2, <3>1, <3>2 DEF Queued
    <3>3. CASE job[q].policy = p /\ job[q].at \in LockSteps
      <4>1. job[q].at = "wait"
        BY <1>1, <2>2, <3>1, <3>3 DEF Queued, LockSteps
      <4>2. PICK i \in 1 .. Len(lock[p]) : lock[p][i] = q
        BY <3>1, <3>3 DEF Queued
      <4>3. i # 1 /\ i - 1 \in 1 .. Len(lock'[p]) /\ (i - 1) + 1 = i
        BY <1>1, <1>3, <2>2, <4>2
      <4>4. lock'[p][i - 1] = q
        BY <1>1, <1>3, <4>2, <4>3
      <4>. QED BY <1>1, <3>1, <3>3, <4>1, <4>3, <4>4 DEF Queued
    <3>. QED BY <3>1, <3>2, <3>3 DEF Queued
  <2>. QED BY <2>1, <2>2
<1>. QED BY <1>4, <1>5 DEF QueueInv
(* The first in a queue goes on to its check, or to its reservation.       *)
LEMMA ForwardBudget ==
  ASSUME JobInv, BudgetInv, NEW r \in InFlight, job[r].at \in LockSteps,
         NEW s \in {"check", "reserve"}, Goto(r, s),
         lock[job[r].policy][1] = r,
         Steady /\ s = "reserve" => Spent(job[r].policy) + job[r].amount <= Limit,
         UNCHANGED <<policyOf, binds, lock, ledger, now>>
  PROVE  BudgetInv'
<1>1. r \in Requests /\ TypeInv /\ job[r] \in Job /\ s \in Steps
  BY RunningIsJob DEF JobInv, InFlight, Steps
<1>2. /\ job'[r].policy = job[r].policy /\ job'[r].amount = job[r].amount
      /\ job'[r].at = s /\ Stay(r)
  BY <1>1, SamePolicy, GotoMoves DEF Moved
<1>3. \A q \in InFlight' \ {r} : q \in InFlight /\ job'[q] = job[q]
  BY <1>2 DEF Stay, InFlight
<1>4. /\ LedgerOK' /\ \A x : Spent(x)' = Spent(x)
      /\ WithinBudget' = WithinBudget /\ Steady' = Steady
  BY DEF BudgetInv, LedgerOK, Spent, WithinBudget, Steady
<1>5. QueueInv'
  <2>1. Queued(r) /\ \A q \in InFlight : Queued(q)
    BY DEF BudgetInv, QueueInv
  <2>2. ASSUME NEW q \in InFlight' PROVE Queued(q)'
    BY <1>2, <1>3, <2>1 DEF Queued
  <2>. QED BY <2>2 DEF BudgetInv, QueueInv
<1>6. ASSUME Steady', NEW q \in InFlight' PROVE Room(q)'
  <2>1. CASE q = r
    <3>1. Steady /\ Room(r)
      BY <1>4, <1>6 DEF BudgetInv
    <3>2. policyOf \in {NoPolicy, job[r].policy}
      BY <3>1 DEF Room
    <3>3. s = "reserve" => Spent(job[r].policy)' + job[r].amount <= Limit
      BY <1>2, <1>4, <3>1
    <3>. QED BY <1>2, <2>1, <3>2, <3>3 DEF Room
  <2>2. CASE q # r
    <3>1. job'[q] = job[q] /\ Room(q)
      BY <1>3, <1>4, <1>6, <2>2 DEF BudgetInv
    <3>. QED BY <1>4, <3>1 DEF Room
  <2>. QED BY <2>1, <2>2
<1>. QED BY <1>4, <1>5, <1>6 DEF BudgetInv

LEMMA WaitBudget ==
  ASSUME JobInv, BudgetInv, NEW r \in InFlight, Wait(r)
  PROVE  BudgetInv'
<1>. DEFINE queue == lock[job[r].policy]
<1>1. /\ At(r, "wait") /\ Head(queue) = r /\ Goto(r, "check")
      /\ UNCHANGED <<policyOf, binds, lock, ledger, issued, now>>
  BY DEF Wait
<1>2. queue \in Seq(Requests) /\ \E i \in 1 .. Len(queue) : queue[i] = r
  BY <1>1 DEF BudgetInv, QueueInv, Queued, LockSteps, At
<1>3. queue[1] = r
  BY <1>1, <1>2
<1>. HIDE DEF queue
<1>. QED BY <1>1, <1>3, ForwardBudget DEF LockSteps, At, queue

(* It leaves without having entered anything.                              *)
LEMMA LeaveBudget ==
  ASSUME JobInv, BudgetInv, NEW r \in InFlight, job[r].at \in {"check", "reserve"},
         ReleaseLock(r), Answer(r), UNCHANGED <<policyOf, binds, ledger, now>>
  PROVE  BudgetInv'
<1>1. Stay(r) /\ r \notin InFlight'
  BY AnswerEnds DEF Ended, InFlight, JobInv
<1>2. QueueInv'
  BY <1>1, ReleaseBudget
<1>3. /\ LedgerOK' /\ \A x : Spent(x)' = Spent(x)
      /\ WithinBudget' = WithinBudget /\ Steady' = Steady
  BY DEF BudgetInv, LedgerOK, Spent, WithinBudget, Steady
<1>4. ASSUME Steady', NEW q \in InFlight' PROVE Room(q)'
  <2>1. job'[q] = job[q] /\ q \in InFlight
    BY <1>1 DEF Stay, InFlight
  <2>2. Room(q)
    BY <1>3, <1>4, <2>1 DEF BudgetInv
  <2>. QED BY <1>3, <2>1, <2>2 DEF Room
<1>. QED BY <1>2, <1>3, <1>4 DEF BudgetInv

(* Once it has the lock, nobody else enters anything against its policy.   *)
LEMMA CheckBudget ==
  ASSUME JobInv, BudgetInv, NEW r \in InFlight, Check(r)
  PROVE  BudgetInv'
<1>1. /\ At(r, "check") /\ job[r].at \in LockSteps
      /\ UNCHANGED <<policyOf, binds, ledger, issued, now>>
  BY DEF Check, At, LockSteps
<1>2. CASE Permitted(r)
  <2>1. Goto(r, "reserve") /\ UNCHANGED lock
    BY <1>2 DEF Check
  <2>2. lock[job[r].policy][1] = r
    BY <1>1 DEF BudgetInv, QueueInv, Queued, At
  <2>3. Steady => Spent(job[r].policy) + job[r].amount <= Limit
    BY <1>1, <1>2 DEF BudgetInv, Room, Permitted
  <2>. QED BY <1>1, <2>1, <2>2, <2>3, ForwardBudget
<1>3. CASE ~Permitted(r)
  BY <1>1, <1>3, LeaveBudget DEF Check, At
<1>. QED BY <1>2, <1>3

LEMMA EnterBudget ==
  ASSUME JobInv, BudgetInv, NEW r \in InFlight, At(r, "reserve"),
         ledger' = ledger \union {Reservation(r)}, ReleaseLock(r),
         Stay(r), r \in InFlight' => job'[r].at \notin LockSteps,
         UNCHANGED <<policyOf, binds, now>>
  PROVE  BudgetInv'
<1>. DEFINE p == job[r].policy
            a == job[r].amount
            e == Reservation(r)
<1>1. /\ At(r, "reserve") /\ ledger' = ledger \union {e} /\ ReleaseLock(r)
      /\ UNCHANGED <<policyOf, binds, now>>
  OBVIOUS
<1>2. r \in Requests /\ TypeInv /\ job[r] \in Job
  BY RunningIsJob DEF JobInv, InFlight
<1>3. Stay(r) /\ (r \in InFlight' => job'[r].at \notin LockSteps)
  OBVIOUS
<1>4. QueueInv'
  BY <1>1, <1>3, ReleaseBudget DEF At
<1>5. p \in Policies /\ a \in Nat /\ job[r].id \in Nat /\ Queued(r)
  BY <1>1, <1>2 DEF BudgetInv, QueueInv, Queued, LockSteps, At, Job
<1>6. LedgerOK /\ now \in Nat
  BY DEF BudgetInv, LedgerOK
<1>7. e \in Entry /\ e.time = now /\ e.policy = p /\ e.amount = a
  BY <1>5, <1>6 DEF Entry, Reservation
<1>. HIDE DEF e
<1>8. LedgerOK'
  BY <1>1, <1>6, <1>7, FS_AddElement DEF LedgerOK, Entry
<1>9. \A x : x # p => Spent(x)' = Spent(x)
  <2>1. \A x : x # p => Recent(x)' = Recent(x)
    BY <1>1, <1>7 DEF Recent
  <2>. QED BY <2>1, SpentIs, SpentIsNext
<1>10. Steady' = Steady
  BY <1>1 DEF Steady
<1>11. ASSUME Steady, NEW q \in InFlight' PROVE Room(q)'
  <2>1. CASE q = r
    BY <1>3, <2>1 DEF Room, LockSteps
  <2>2. CASE q # r
    <3>1. job'[q] = job[q] /\ q \in InFlight
      BY <1>3, <2>2 DEF Stay, InFlight
    <3>2. Room(q) /\ Queued(q)
      BY <1>11, <3>1 DEF BudgetInv, QueueInv
    <3>3. job[q].at = "reserve" => job[q].policy # p
      BY <1>1, <1>5, <2>2, <3>2 DEF Queued, LockSteps, At
    <3>4. job[q].at = "reserve" => Spent(job[q].policy)' = Spent(job[q].policy)
      BY <1>9, <3>1, <3>3
    <3>. QED BY <1>1, <3>1, <3>2, <3>4 DEF Room
  <2>. QED BY <2>1, <2>2
<1>12. ASSUME Steady, NEW x \in Policies, NEW t \in 0 .. Horizon
       PROVE  Amount(Between(x, t)') <= Limit
  <2>1. Amount(Between(x, t)) <= Limit
    BY <1>12, SpentIs DEF BudgetInv
  <2>2. CASE ~(x = p /\ now \in t .. t + Window)
    <3>1. Between(x, t)' = Between(x, t)
      BY <1>1, <1>7, <2>2 DEF Between
    <3>. QED BY <2>1, <3>1
  <2>3. CASE x = p /\ now \in t .. t + Window
    <3>1. Between(x, t)' = Between(p, t) \union {e}
      BY <1>1, <1>7, <2>3 DEF Between
    <3>2. Between(p, t) \in SUBSET Recent(p) /\ Recent(p) \in SUBSET ledger
      BY <1>6, <2>3, BudgetAssumption DEF Between, Recent, LedgerOK, Entry
    <3>3. /\ IsFiniteSet(Recent(p)) /\ \A f \in Recent(p) : f.amount \in Nat
          /\ IsFiniteSet(Between(p, t)) /\ \A f \in Between(p, t) : f.amount \in Nat
      BY <1>6, <3>2, PartsAreEntries
    <3>4. Amount(Between(p, t) \union {e}) <= Amount(Between(p, t)) + e.amount
      BY <1>5, <1>7, <3>3, AmountOneMore
    <3>5. Amount(Between(p, t)) <= Amount(Recent(p))
      BY <3>2, <3>3, AmountSubset
    <3>6. Spent(p) + a <= Limit
      BY <1>1, <1>12 DEF BudgetInv, Room, At
    <3>7. Amount(Between(p, t)) \in Nat /\ Amount(Recent(p)) \in Nat
      BY <3>3, AmountType
    <3>8. Amount(Between(p, t) \union {e}) \in Nat
      <4>1. /\ IsFiniteSet(Between(p, t) \union {e})
            /\ \A f \in Between(p, t) \union {e} : f.amount \in Nat
        BY <1>5, <1>7, <3>3, FS_AddElement
      <4>. QED BY <4>1, AmountType
    <3>9. Amount(Recent(p)) + a <= Limit
      BY <3>6, SpentIs
    <3>10. e.amount = a /\ a \in Nat /\ Limit \in Nat
      BY <1>5, <1>7, BudgetAssumption
    <3>. HIDE DEF a, p
    <3>. QED BY <3>1, <3>4, <3>5, <3>7, <3>8, <3>9, <3>10
  <2>. QED BY <2>2, <2>3
<1>13. Steady => WithinBudget'
  BY <1>12, SpentIsNext
<1>. QED BY <1>4, <1>8, <1>10, <1>11, <1>13 DEF BudgetInv

LEMMA ReserveBudget ==
  ASSUME JobInv, BudgetInv, NEW r \in InFlight, Reserve(r)
  PROVE  BudgetInv'
<1>1. /\ At(r, "reserve") /\ ledger' = ledger \union {Reservation(r)} /\ ReleaseLock(r)
      /\ job' = [job EXCEPT ![r].at = Allowed(r), ![r].reserved = TRUE]
      /\ UNCHANGED <<policyOf, binds, now>>
  BY DEF Reserve
<1>2. r \in Requests /\ TypeInv /\ job[r] \in Job /\ Allowed(r) \in Steps
  BY RunningIsJob, AllowedIs DEF JobInv, InFlight, Steps
<1>3. Stay(r) /\ job'[r].at = Allowed(r)
  BY <1>1, <1>2, ReservedMoves DEF Moved
<1>4. job'[r].at \notin LockSteps
  BY <1>3, AllowedIs DEF LockSteps
<1>. QED BY <1>1, <1>3, <1>4, EnterBudget

(* An error ends the request: it gives the lock back if it has it, with its  *)
(* entry written or not.                                                     *)
LEMMA ThrowBudget ==
  ASSUME JobInv, BudgetInv, NEW r \in InFlight, Throw(r)
  PROVE  BudgetInv'
<1>1. Answer(r) /\ UNCHANGED <<policyOf, binds, issued, now>>
  BY DEF Throw
<1>2. Stay(r) /\ r \notin InFlight'
  BY <1>1, AnswerEnds DEF Ended, InFlight, JobInv
<1>3. CASE job[r].at \in {"check", "reserve"} /\ UNCHANGED ledger
  BY <1>1, <1>3, LeaveBudget DEF Throw, At
<1>4. CASE At(r, "reserve") /\ ledger' = ledger \union {Reservation(r)}
  BY <1>1, <1>2, <1>4, EnterBudget DEF Throw
<1>5. CASE job[r].at \notin {"check", "reserve"}
  <2>1. UNCHANGED <<lock, ledger>>
    BY <1>5 DEF Throw, At
  <2>2. \A q \in InFlight' : job'[q].at \in LockSteps => q \in InFlight /\ job'[q] = job[q]
    BY <1>2 DEF Stay, InFlight
  <2>3. now' \in Nat /\ now <= now'
    BY <1>1 DEF BudgetInv, LedgerOK
  <2>. QED BY <1>1, <2>1, <2>2, <2>3, QueueUntouched
<1>. QED BY <1>3, <1>4, <1>5 DEF Throw

LEMMA BudgetStepBudget ==
  ASSUME JobInv, BudgetInv, NEW r \in Requests, BudgetStep(r)
  PROVE  BudgetInv'
<1>1. r \in InFlight /\ BudgetMoves(r)
  BY BudgetStepMoves
<1>2. TypeInv /\ job[r] \in Job
  BY <1>1, RunningIsJob DEF JobInv, InFlight
<1>3. CASE CheckUnlocked(r) \/ Route(r) \/ Refund(r)
  <2>1. /\ UNCHANGED <<policyOf, binds, lock, issued, now>> /\ ledger' \subseteq ledger
        /\ job[r].at \in {"unlocked", "route", "refund"}
    BY <1>3 DEF CheckUnlocked, Route, Refund, At
  <2>2. Stay(r) /\ (r \in InFlight' => job'[r].at \notin LockSteps)
    BY <1>1, <2>1, AllowedIs DEF BudgetMoves, Moved, Ended, InFlight, LockSteps, At
  <2>3. \A q \in InFlight' : job'[q].at \in LockSteps => q \in InFlight /\ job'[q] = job[q]
    BY <2>2 DEF Stay, InFlight
  <2>4. now' \in Nat /\ now <= now'
    BY <2>1 DEF BudgetInv, LedgerOK
  <2>. QED BY <2>1, <2>3, <2>4, QueueUntouched
<1>. QED
  BY <1>1, <1>3, ReadKeyBudget, WaitBudget, CheckBudget, ReserveBudget, ThrowBudget DEF BudgetStep

LEMMA BudgetNext ==
  ASSUME JobInv, BudgetInv, [Next]_vars
  PROVE  BudgetInv'
<1>1. now \in Nat
  BY DEF BudgetInv, LedgerOK
<1>2. ASSUME NEW r \in Requests, Request(r) PROVE BudgetInv'
  <2>1. New(r) /\ UNCHANGED <<lock, now>>
    BY <1>2, RequestIsNew DEF Request, Begin
  <2>2. \A q \in InFlight' : job'[q].at \in LockSteps => q \in InFlight /\ job'[q] = job[q]
    BY <2>1 DEF New, Stay, InFlight, LockSteps
  <2>. QED BY <1>1, <2>1, <2>2, QueueUntouched DEF New
<1>3. ASSUME NEW r \in Requests, Pull(r) \/ Deposit(r) \/ Recover(r) \/ Redeem(r) \/ Send(r)
      PROVE  BudgetInv'
  <2>1. r \in InFlight /\ Outcomes(r)
    BY <1>3, ChainStepOutcomes
  <2>2. OnlyJob
    BY <1>3 DEF Pull, PullTo, Deposit, Recover, Redeem, Send
  <2>3. Stay(r) /\ (r \in InFlight' => job'[r].at \notin LockSteps)
    BY <2>1 DEF Outcomes, Moved, Ended, InFlight, LockSteps
  <2>4. \A q \in InFlight' : job'[q].at \in LockSteps => q \in InFlight /\ job'[q] = job[q]
    BY <2>3 DEF Stay, InFlight
  <2>. QED BY <1>1, <2>2, <2>4, QueueUntouched DEF OnlyJob
<1>4. CASE (Elapse /\ UNCHANGED chainVars) \/ UNCHANGED vars
  <2>1. UNCHANGED <<lock, policyOf, binds, ledger, job>> /\ now' \in Nat /\ now <= now'
    BY <1>1, <1>4 DEF Elapse, vars, budgetVars
  <2>. QED BY <2>1, QueueUntouched DEF InFlight
<1>5. CASE Restart
  <2>1. /\ UNCHANGED <<policyOf, binds, ledger, now>> /\ InFlight' = {}
        /\ lock' \in [Policies -> Seq(Requests)]
    BY <1>5 DEF Restart, InFlight
  <2>2. LedgerOK' /\ (Steady' => WithinBudget')
    BY <2>1 DEF BudgetInv, LedgerOK, WithinBudget, Steady
  <2>. QED BY <2>1, <2>2 DEF BudgetInv, QueueInv
<1>6. ASSUME NEW p \in Policies \union {NoPolicy}, BindPolicy(p), UNCHANGED chainVars
      PROVE  BudgetInv'
  <2>1. UNCHANGED <<lock, ledger, job, issued, now>> /\ policyOf' = p /\ binds' = binds + 1
    BY <1>6 DEF BindPolicy
  <2>2. LedgerOK' /\ QueueInv' /\ WithinBudget' = WithinBudget /\ InFlight' = InFlight
        /\ \A x : Spent(x)' = Spent(x)
    BY <2>1 DEF BudgetInv, LedgerOK, QueueInv, Queued, InFlight, WithinBudget, Spent
  <2>3. Steady' => Steady /\ \A x, y \in Policies : x = y
    BY <2>1 DEF Steady, JobInv, TypeInv
  <2>4. ASSUME Steady', NEW q \in InFlight PROVE Room(q)'
    <3>1. Room(q) /\ Queued(q)
      BY <2>3, <2>4 DEF BudgetInv, QueueInv
    <3>2. job[q].at \in LockSteps => p \in {NoPolicy, job[q].policy}
      BY <2>3, <2>4, <3>1 DEF Queued
    <3>. QED BY <2>1, <2>2, <3>1, <3>2 DEF Room
  <2>. QED BY <2>2, <2>3, <2>4 DEF BudgetInv
<1>. QED BY <1>2, <1>3, <1>4, <1>5, <1>6, BudgetStepBudget DEF Next, Step

LEMMA BudgetInitially == Init => BudgetInv
<1>. SUFFICES ASSUME Init PROVE BudgetInv
  OBVIOUS
<1>1. ledger = {} /\ now = 0 /\ lock = [p \in Policies |-> <<>>] /\ InFlight = {}
  BY DEF Init, BudgetInit, InFlight
<1>2. LedgerOK /\ QueueInv
  BY <1>1, FS_EmptySet DEF LedgerOK, QueueInv
<1>3. WithinBudget
  <2>1. \A p, t : Between(p, t) = {}
    BY <1>1 DEF Between
  <2>2. Amount({}) = 0
    <3>1. IsFiniteSet({}) /\ \A e \in {} : e.amount \in Nat
      BY FS_EmptySet
    <3>2. Amount({}) = SumFunctionOnSet(AmountOf({}), {})
      BY <3>1, AmountIs
    <3>. QED BY <3>2, SumEmpty
  <2>. QED BY <2>1, <2>2, SpentIs, BudgetAssumption
<1>. QED BY <1>1, <1>2, <1>3 DEF BudgetInv

(* Wherever the rolling period is laid, what was reserved in it is within   *)
(* the limit, however many requests queue, fail and are cut off, while the  *)
(* key was never bound anew, or if there is but one policy it can lose and  *)
(* get again.  A key bound to another policy is checked against that one    *)
(* and recorded against the one whose lock it waited for (checkAndReserve). *)
THEOREM BudgetIsKept ==
  Spec => []((binds = 0 \/ \A p, q \in Policies : p = q) => WithinBudget)
<1>1. BudgetInv => ((binds = 0 \/ \A p, q \in Policies : p = q) => WithinBudget)
  BY DEF BudgetInv, Steady
<1>. QED BY <1>1, JobInit, JobStep, BudgetInitially, BudgetNext, PTL DEF Spec
=============================================================================
