------------------------- MODULE RwaDelivery_proofs -------------------------
(***************************************************************************)
(* Proofs about the credential delivery, for any finite set of callers,    *)
(* limits, versions and faults.  What has to be shown is that there is     *)
(* always a warrant in hand for every credential that may still be minted: *)
(* one for each call that carries one, and one more while the log does not *)
(* say delivered and the call in the map is not yet past its check.        *)
(***************************************************************************)
EXTENDS RwaDelivery, FiniteSetTheorems, TLAPS

Regular(c) == ~job[c].force /\ ~job[c].replaced

(* The map names a caller exactly while its regular delivery is going on. *)
MapIsOwn == \A c \in Callers : inFlight = c <=> Working(c) /\ Regular(c)

(* What a call carries at each step. *)
JobsInShape ==
  \A c \in Callers :
    /\ At(c, "wait") => Regular(c) /\ inFlight # NoCaller
    /\ job[c].step \notin {"read", "write"} => job[c].result = "none"
    /\ job[c].result = "threw" => Regular(c)
    /\ At(c, "reset") => c = Scheduler /\ Exhausted(job[c].snap)

(* A call that may mint, or has failed to, on a warrant of its own. *)
Carrier(c) ==
  \/ At(c, "mint")
  \/ At(c, "check") /\ ~Regular(c)
  \/ job[c].step \in {"read", "write"} /\ job[c].result \notin {"delivered", "threw"}

Carriers == {c \in Callers : Carrier(c)}

(* The call in the map, past its check. *)
Minting(c) ==
  Regular(c) /\ job[c].step \in {"mint", "read", "write"} /\ job[c].result # "threw"

(* A warrant for a delivery still to be begun. *)
Open == IF log.status # "delivered" /\ \A c \in Callers : ~Minting(c) THEN 1 ELSE 0

Need == Cardinality(Carriers) + Open

ReplacingHasVersion == replacing.step # "idle" => replacing.version # 0

DeliveryInv ==
  TypeOK /\ MapIsOwn /\ JobsInShape /\ ReplacingHasVersion /\ Need <= warrants

-----------------------------------------------------------------------------
(* Counting. *)

NeedOK ==
  /\ IsFiniteSet(Carriers) /\ Cardinality(Carriers) \in Nat /\ Open \in {0, 1}
  /\ Need \in Nat /\ Need <= MaxWarrants /\ MaxWarrants \in Nat

LEMMA NeedType == NeedOK
<1>1. IsFiniteSet(Callers) /\ Carriers \in SUBSET Callers
  BY DeliveryAssumption DEF Carriers
<1>2. IsFiniteSet(Carriers) /\ Cardinality(Carriers) <= Cardinality(Callers)
  BY <1>1, FS_Subset
<1>3. Cardinality(Carriers) \in Nat /\ Cardinality(Callers) \in Nat
  BY <1>1, <1>2, FS_CardinalityType
<1>4. MaxWarrants \in Nat /\ MaxWarrants > Cardinality(Callers)
  BY DeliveryAssumption
<1>. QED BY <1>2, <1>3, <1>4 DEF Open, Need, NeedOK

LEMMA NeedTypeNext == NeedOK'
BY NeedType, PTL

(* The cap on the warrants in hand loses none that is needed. *)
LEMMA Covers ==
  ASSUME TypeOK, Need <= warrants, NEW n \in Nat, Warrants(n), Need' <= Need + n
  PROVE  Need' <= warrants' /\ warrants' \in Int /\ warrants' <= MaxWarrants
<1>1. Need \in Nat /\ MaxWarrants \in Nat
  BY NeedType DEF NeedOK
<1>2. Need' \in Nat /\ Need' <= MaxWarrants
  BY NeedTypeNext DEF NeedOK
<1>. QED BY <1>1, <1>2 DEF Warrants, TypeOK

(* How the count changes when one call moves. *)
LEMMA CountOne ==
  ASSUME NEW c \in Callers, \A k \in Callers \ {c} : Carrier(k)' <=> Carrier(k)
  PROVE  /\ Carrier(c) /\ ~Carrier(c)' => Cardinality(Carriers)' = Cardinality(Carriers) - 1
         /\ ~Carrier(c) /\ Carrier(c)' => Cardinality(Carriers)' = Cardinality(Carriers) + 1
         /\ (Carrier(c) <=> Carrier(c)') => Cardinality(Carriers)' = Cardinality(Carriers)
<1>1. IsFiniteSet(Carriers)
  BY NeedType DEF NeedOK
<1>2. CASE Carrier(c) /\ ~Carrier(c)'
  <2>1. Carriers' = Carriers \ {c} /\ c \in Carriers
    BY <1>2 DEF Carriers
  <2>. QED BY <1>1, <1>2, <2>1, FS_RemoveElement
<1>3. CASE ~Carrier(c) /\ Carrier(c)'
  <2>1. Carriers' = Carriers \union {c} /\ c \notin Carriers
    BY <1>3 DEF Carriers
  <2>. QED BY <1>1, <1>3, <2>1, FS_AddElement
<1>4. CASE Carrier(c) <=> Carrier(c)'
  <2>1. Carriers' = Carriers
    BY <1>4 DEF Carriers
  <2>. QED BY <1>4, <2>1
<1>. QED BY <1>2, <1>3, <1>4

-----------------------------------------------------------------------------
(* What the ways to move a call do to the map and to the other calls. *)

Others(c) ==
  \A k \in Callers \ {c} : (Carrier(k)' <=> Carrier(k)) /\ (Minting(k)' <=> Minting(k))

InShape(x, c) ==
  /\ x.step = "wait" => ~x.force /\ ~x.replaced /\ inFlight # NoCaller
  /\ x.step \notin {"read", "write"} => x.result = "none"
  /\ x.result = "threw" => ~x.force /\ ~x.replaced
  /\ x.step = "reset" => c = Scheduler /\ Exhausted(x.snap)

InMap(x) ==
  /\ x.step \in {"check", "mint", "read", "write"} /\ x.result # "threw"
  /\ ~x.force /\ ~x.replaced

LEMMA IdleType == NoLog \in Log /\ Idle \in Job
BY DeliveryAssumption DEF NoLog, Log, Idle, Job, Result

LEMMA ThrewType ==
  /\ Threw \in Job /\ Threw.step = "read" /\ Threw.result = "threw"
  /\ Threw.force = FALSE /\ Threw.replaced = FALSE
BY IdleType DEF Threw, Idle, Job, Result

LEMMA JobIs ==
  ASSUME NEW j \in Job
  PROVE  /\ j = [step |-> j.step, force |-> j.force, replaced |-> j.replaced,
                 version |-> j.version, result |-> j.result, snap |-> j.snap]
         /\ j.force \in BOOLEAN /\ j.replaced \in BOOLEAN /\ j.version \in 0 .. Versions
         /\ j.result \in Result /\ j.snap \in Log
         /\ \E st, fo, re, ve, rs, sn :
              j = [step |-> st, force |-> fo, replaced |-> re, version |-> ve,
                   result |-> rs, snap |-> sn]
<1>1. j = [step |-> j.step, force |-> j.force, replaced |-> j.replaced,
           version |-> j.version, result |-> j.result, snap |-> j.snap]
  BY DEF Job
<1>2. \E st, fo, re, ve, rs, sn :
        j = [step |-> st, force |-> fo, replaced |-> re, version |-> ve,
             result |-> rs, snap |-> sn]
  BY <1>1
<1>. QED BY <1>1, <1>2 DEF Job

(* The call moves and the map stays. *)
LEMMA MoveKeeps ==
  ASSUME DeliveryInv, NEW c \in Callers, NEW x \in Job, job' = [job EXCEPT ![c] = x],
         inFlight' = inFlight, InMap(x) <=> InMap(job[c]), InShape(x, c)
  PROVE  /\ job' \in [Callers -> Job] /\ job'[c] = x
         /\ MapIsOwn' /\ JobsInShape' /\ Others(c)
<1>1. job \in [Callers -> Job] /\ MapIsOwn /\ JobsInShape
  BY DEF DeliveryInv, TypeOK
<1>2. job' \in [Callers -> Job] /\ job'[c] = x /\ \A k \in Callers \ {c} : job'[k] = job[k]
  BY <1>1
<1>3. MapIsOwn'
  BY <1>1, <1>2 DEF MapIsOwn, InMap, Working, Regular
<1>4. JobsInShape'
  BY <1>1, <1>2 DEF JobsInShape, InShape, At, Regular
<1>5. Others(c)
  BY <1>2 DEF Others, Carrier, Minting, At, Regular
<1>. QED BY <1>2, <1>3, <1>4, <1>5

(* A call enters: it waits, or delivers in the map or beside it. *)
LEMMA EnterKeeps ==
  ASSUME DeliveryInv, NEW c \in Callers, ~InMap(job[c]),
         NEW f \in BOOLEAN, NEW v \in 0 .. Versions, Enter(c, f, v)
  PROVE  /\ job' \in [Callers -> Job] /\ inFlight' \in Callers \union {NoCaller}
         /\ MapIsOwn' /\ JobsInShape' /\ Others(c)
         /\ ~Minting(c)' /\ (Carrier(c)' <=> f)
<1> DEFINE waits == inFlight # NoCaller /\ ~f
           x == [Idle EXCEPT !.step = IF waits THEN "wait" ELSE "check",
                             !.force = f, !.version = v]
<1>1. job \in [Callers -> Job] /\ MapIsOwn /\ JobsInShape
      /\ inFlight \in Callers \union {NoCaller}
  BY DEF DeliveryInv, TypeOK
<1>2. x \in Job
  BY IdleType DEF Job, Idle
<1>3. /\ x.step = IF waits THEN "wait" ELSE "check"
      /\ x.force = f /\ x.replaced = FALSE /\ x.result = "none"
  BY DEF Idle
<1>4. job' = [job EXCEPT ![c] = x] /\ inFlight' = IF waits \/ f THEN inFlight ELSE c
  BY DEF Enter
<1> HIDE DEF x
<1>5. job' \in [Callers -> Job] /\ job'[c] = x /\ \A k \in Callers \ {c} : job'[k] = job[k]
  BY <1>1, <1>2, <1>4
<1>6. MapIsOwn'
  BY <1>1, <1>3, <1>4, <1>5, DeliveryAssumption DEF MapIsOwn, InMap, Working, Regular
<1>7. JobsInShape'
  BY <1>1, <1>3, <1>4, <1>5, DeliveryAssumption DEF JobsInShape, At, Regular
<1>8. Others(c)
  BY <1>5 DEF Others, Carrier, Minting, At, Regular
<1>9. ~Minting(c)' /\ (Carrier(c)' <=> f)
  BY <1>3, <1>5 DEF Minting, Carrier, At, Regular
<1>. QED BY <1>1, <1>4, <1>5, <1>6, <1>7, <1>8, <1>9

(* A promise resolves: it leaves the map, if it is there, and those that   *)
(* wait for it return.                                                     *)
LEMMA ResolveKeeps ==
  ASSUME DeliveryInv, NEW c \in Callers, Resolve(c),
         job[c].step \in {"check", "mint", "read", "write"}
  PROVE  /\ job' \in [Callers -> Job] /\ inFlight' \in Callers \union {NoCaller}
         /\ MapIsOwn' /\ JobsInShape' /\ Others(c)
         /\ ~Minting(c)' /\ ~Carrier(c)'
<1> DEFINE done == {c} \union (IF inFlight = c THEN Waiting ELSE {})
<1>1. job \in [Callers -> Job] /\ MapIsOwn /\ JobsInShape
      /\ inFlight \in Callers \union {NoCaller}
  BY DEF DeliveryInv, TypeOK
<1>2. /\ \A k \in Callers : job'[k] = IF k \in done THEN Idle ELSE job[k]
      /\ inFlight' = IF inFlight = c THEN NoCaller ELSE inFlight
      /\ job' = [k \in Callers |-> IF k \in done THEN Idle ELSE job[k]]
  BY DEF Resolve
<1>3. job' \in [Callers -> Job]
  BY <1>1, <1>2, IdleType
<1>4. /\ Idle.step = "idle" /\ Idle.result = "none"
      /\ Idle.force = FALSE /\ Idle.replaced = FALSE
  BY DEF Idle
<1>5. \A k \in done : k = c \/ At(k, "wait")
  BY DEF Waiting
<1>6. MapIsOwn'
  BY <1>1, <1>2, <1>4, <1>5, DeliveryAssumption DEF MapIsOwn, Working, Regular, At, Waiting
<1>7. JobsInShape'
  BY <1>1, <1>2, <1>4, <1>5, DeliveryAssumption DEF JobsInShape, At, Regular, Waiting
<1>8. Others(c)
  BY <1>1, <1>2, <1>4, <1>5 DEF Others, Carrier, Minting, At, Regular, JobsInShape
<1>9. ~Minting(c)' /\ ~Carrier(c)'
  BY <1>2, <1>4 DEF Minting, Carrier, At, Regular
<1>. QED BY <1>1, <1>2, <1>3, <1>6, <1>7, <1>8, <1>9

-----------------------------------------------------------------------------
(* The count, again: steps of one call. *)

LEMMA OpenKeeps ==
  ASSUME NEW c \in Callers, Others(c), Minting(c) => Minting(c)',
         log'.status = "delivered" \/ log.status # "delivered"
  PROVE  Open' <= Open
<1>1. log'.status # "delivered" /\ (\A k \in Callers : ~Minting(k)') =>
        log.status # "delivered" /\ (\A k \in Callers : ~Minting(k))
  BY DEF Others
<1>. QED BY <1>1 DEF Open

(* The call in the map is the only one past its check. *)
LEMMA Alone ==
  ASSUME DeliveryInv, NEW c \in Callers, Working(c), Regular(c)
  PROVE  \A k \in Callers \ {c} : ~Minting(k)
<1>1. inFlight = c
  BY DEF DeliveryInv, MapIsOwn
<1>. QED BY <1>1 DEF DeliveryInv, MapIsOwn, Minting, Working

(* A step that calls for no more warrants than it brings. *)
LEMMA NeedKeeps ==
  ASSUME NEW c \in Callers, Others(c), Open' <= Open, Carrier(c)' => Carrier(c)
  PROVE  Need' <= Need
<1>1. Cardinality(Carriers)' <= Cardinality(Carriers)
  BY CountOne, NeedType DEF Others, NeedOK
<1>. QED BY <1>1, NeedType, NeedTypeNext DEF Need, NeedOK

LEMMA NeedGrows ==
  ASSUME NEW c \in Callers, Others(c), Open' <= Open
  PROVE  Need' <= Need + 1
<1>1. Cardinality(Carriers)' <= Cardinality(Carriers) + 1
  BY CountOne, NeedType DEF Others, NeedOK
<1>. QED BY <1>1, NeedType, NeedTypeNext DEF Need, NeedOK

(* It hands its own warrant back to the log, or drops it.  *)
LEMMA NeedMoves ==
  ASSUME NEW c \in Callers, Others(c), Carrier(c), ~Carrier(c)'
  PROVE  Need' <= Need
<1>1. Cardinality(Carriers)' = Cardinality(Carriers) - 1
  BY CountOne DEF Others
<1>2. Open' <= 1 /\ Open >= 0 /\ Open' \in Int /\ Open \in Int
  BY NeedType, NeedTypeNext DEF NeedOK
<1>. QED BY <1>1, <1>2, NeedType, NeedTypeNext DEF Need, NeedOK

(* The call in the map takes the warrant of a log that is not delivered.   *)
LEMMA NeedTaken ==
  ASSUME DeliveryInv, NEW c \in Callers, Others(c), Working(c), Regular(c),
         ~Minting(c), Minting(c)', log.status # "delivered"
  PROVE  Need' <= Need
<1>1. Open = 1
  BY Alone DEF Open
<1>2. Open' = 0
  BY DEF Open
<1>3. Cardinality(Carriers)' <= Cardinality(Carriers) + 1
  BY CountOne, NeedType DEF Others, NeedOK
<1>. QED BY <1>1, <1>2, <1>3, NeedType, NeedTypeNext DEF Need, NeedOK

-----------------------------------------------------------------------------
(* The operations. *)

LEMMA InitInv == Init => DeliveryInv
<1> SUFFICES ASSUME Init PROVE DeliveryInv
  OBVIOUS
<1>1. \A c \in Callers : job[c] = Idle
  BY DEF Init
<1>2. /\ Idle.step = "idle" /\ Idle.result = "none"
      /\ Idle.force = FALSE /\ Idle.replaced = FALSE
  BY DEF Idle
<1>3. TypeOK
  <2>1. NoReplacement \in Replacement
    BY DeliveryAssumption DEF NoReplacement, Replacement
  <2>2. MaxWarrants \in Nat /\ MaxWarrants >= 1
    BY DeliveryAssumption, FS_CardinalityType
  <2>. QED BY <2>1, <2>2, IdleType, DeliveryAssumption DEF Init, TypeOK
<1>4. MapIsOwn /\ JobsInShape
  BY <1>1, <1>2, DeliveryAssumption DEF Init, MapIsOwn, JobsInShape, Working, Regular, At
<1>5. Need <= warrants
  <2>1. Carriers = {}
    BY <1>1, <1>2 DEF Carriers, Carrier, At
  <2>2. Cardinality(Carriers) = 0
    BY <2>1, FS_EmptySet
  <2>. QED BY <2>2, NeedType DEF Need, NeedOK, Init
<1>. QED BY <1>3, <1>4, <1>5 DEF DeliveryInv, ReplacingHasVersion, Init, NoReplacement

LEMMA DeliverInv ==
  ASSUME DeliveryInv, NEW c \in Callers, NEW f \in BOOLEAN, NEW v \in 1 .. Versions,
         Deliver(c, f, v)
  PROVE  DeliveryInv'
<1>1. job[c] = Idle /\ Enter(c, f, v) /\ log' = log /\ UNCHANGED <<faults, payloadVars>>
      /\ (IF f THEN Warrants(1) ELSE warrants' = warrants)
      /\ (f => forced < MaxForced) /\ forced' = IF f THEN forced + 1 ELSE forced
  BY DEF Deliver, Warrant
<1>2. ~InMap(job[c]) /\ ~Minting(c) /\ ~Carrier(c)
  BY <1>1 DEF InMap, Minting, Carrier, At, Idle
<1>3. /\ job' \in [Callers -> Job] /\ inFlight' \in Callers \union {NoCaller}
      /\ MapIsOwn' /\ JobsInShape' /\ Others(c) /\ (Carrier(c)' <=> f)
  BY <1>1, <1>2, EnterKeeps
<1>4. Open' <= Open
  BY <1>1, <1>2, <1>3, OpenKeeps
<1>5. Need' <= warrants' /\ warrants' \in Int /\ warrants' <= MaxWarrants
  <2>1. CASE f
    BY <1>1, <1>3, <1>4, <2>1, NeedGrows, Covers DEF DeliveryInv
  <2>2. CASE ~f
    <3>1. Need' <= Need
      BY <1>3, <1>4, <2>2, NeedKeeps
    <3>. QED BY <1>1, <2>2, <3>1, NeedType, NeedTypeNext DEF DeliveryInv, TypeOK, NeedOK
  <2>. QED BY <2>1, <2>2
<1>6. TypeOK'
  BY <1>1, <1>3, <1>5, DeliveryAssumption DEF DeliveryInv, TypeOK, payloadVars
<1>. QED BY <1>1, <1>3, <1>5, <1>6 DEF DeliveryInv, ReplacingHasVersion, payloadVars

(* A result is in hand: the call goes on to record it. *)
LEMMA AnswerIs ==
  ASSUME DeliveryInv, NEW c \in Callers, NEW result \in Result, Answer(c, result)
  PROVE  \E x \in Job : /\ job' = [job EXCEPT ![c] = x]
                        /\ x.step = "read" /\ x.result = result
                        /\ x.force = job[c].force /\ x.replaced = job[c].replaced
<1> DEFINE v == IF result = "delivered" THEN job[c].version ELSE 0
<1>1. job \in [Callers -> Job] /\ job[c] \in Job
  BY DEF DeliveryInv, TypeOK
<1> DEFINE x == [step |-> "read", force |-> job[c].force, replaced |-> job[c].replaced,
                 version |-> v, result |-> result, snap |-> job[c].snap]
<1>2. v \in 0 .. Versions
  BY <1>1, JobIs, DeliveryAssumption
<1>3. job' = [job EXCEPT ![c].step = "read", ![c].result = result, ![c].version = v]
  BY DEF Answer
<1> HIDE DEF v
<1>4. x \in Job
  BY <1>1, <1>2, JobIs DEF Job
<1>5. job' \in [Callers -> {job'[k] : k \in Callers}] /\ \A k \in Callers \ {c} : job'[k] = job[k]
  BY <1>1, <1>3
<1>6. job'[c] = x
  <2>1. PICK st, fo, re, ve, rs, sn :
          job[c] = [step |-> st, force |-> fo, replaced |-> re, version |-> ve,
                    result |-> rs, snap |-> sn]
    BY <1>1, JobIs
  <2>. QED BY <1>1, <1>3, <2>1
<1>7. job' = [job EXCEPT ![c] = x]
  BY <1>1, <1>5, <1>6
<1>8. /\ x.step = "read" /\ x.result = result
      /\ x.force = job[c].force /\ x.replaced = job[c].replaced
  OBVIOUS
<1> HIDE DEF x
<1>. QED BY <1>4, <1>7, <1>8

(* From the check to the mint, or to the record of a payload not fetched.  *)
LEMMA CheckGoesOn ==
  ASSUME DeliveryInv, NEW c \in Callers, At(c, "check"), inFlight' = inFlight,
         \/ job' = [job EXCEPT ![c].step = "mint"]
         \/ \E result \in {"failed", "unreachable"} : Answer(c, result)
  PROVE  /\ job' \in [Callers -> Job] /\ MapIsOwn' /\ JobsInShape' /\ Others(c)
         /\ Carrier(c)' /\ ~Minting(c)
         /\ (Regular(c) <=> Minting(c)') /\ (Regular(c) <=> ~Carrier(c))
<1>1. job \in [Callers -> Job] /\ job[c] \in Job /\ job[c].step = "check" /\ job[c].result = "none"
  BY DEF DeliveryInv, TypeOK, JobsInShape, At
<1> DEFINE Goes(x) == /\ job' = [job EXCEPT ![c] = x]
                         /\ \/ x.step = "mint" /\ x.result = "none"
                            \/ x.step = "read" /\ x.result \in {"failed", "unreachable"}
                         /\ x.force = job[c].force /\ x.replaced = job[c].replaced
<1>2. \E x \in Job : Goes(x)
  <2>1. CASE job' = [job EXCEPT ![c].step = "mint"]
    <3> DEFINE x == [job[c] EXCEPT !.step = "mint"]
    <3>1. /\ x \in Job /\ x.step = "mint" /\ x.result = "none"
          /\ x.force = job[c].force /\ x.replaced = job[c].replaced
      BY <1>1 DEF Job
    <3>2. job' = [job EXCEPT ![c] = x]
      BY <1>1, <2>1
    <3> HIDE DEF x
    <3>. QED BY <3>1, <3>2
  <2>2. ASSUME NEW result \in {"failed", "unreachable"}, Answer(c, result)
        PROVE \E x \in Job : Goes(x)
    BY <2>2, AnswerIs DEF Result
  <2>. QED BY <2>1, <2>2
<1>3. PICK x \in Job : Goes(x)
  BY <1>2
<1>4. InMap(x) <=> InMap(job[c])
  BY <1>1, <1>3 DEF InMap
<1>5. InShape(x, c)
  BY <1>3 DEF InShape
<1>6. job' \in [Callers -> Job] /\ job'[c] = x /\ MapIsOwn' /\ JobsInShape' /\ Others(c)
  BY <1>3, <1>4, <1>5, MoveKeeps
<1>7. Carrier(c)' /\ ~Minting(c) /\ (Regular(c) <=> Minting(c)') /\ (Regular(c) <=> ~Carrier(c))
  BY <1>1, <1>3, <1>6 DEF Carrier, Minting, Regular, At
<1>. QED BY <1>6, <1>7

(* A rejected promise: those that waited for it deliver, all but the one   *)
(* now in the map on a warrant of their own.                               *)
LEMMA RejectKeeps ==
  ASSUME DeliveryInv, NEW c \in Callers, At(c, "check"), Reject(c), log' = log
  PROVE  /\ job' \in [Callers -> Job] /\ inFlight' \in Callers \union {NoCaller}
         /\ MapIsOwn' /\ JobsInShape' /\ Need' <= warrants'
         /\ warrants' \in Int /\ warrants' <= MaxWarrants
<1> DEFINE next == IF inFlight = c THEN Waiting ELSE {}
           n == IF next = {} THEN 0 ELSE Cardinality(next) - 1
<1>1. job \in [Callers -> Job] /\ MapIsOwn /\ JobsInShape
      /\ inFlight \in Callers \union {NoCaller}
  BY DEF DeliveryInv, TypeOK
<1>2. PICK after \in {Idle, Threw} :
        /\ job' = [k \in Callers |->
             IF k = c THEN after
             ELSE IF k \in next
             THEN [job[k] EXCEPT !.step = "check", !.replaced = (k # inFlight')] ELSE job[k]]
        /\ inFlight' \in IF inFlight # c THEN {inFlight}
               ELSE IF Waiting = {} THEN {NoCaller} ELSE Waiting
        /\ Warrants(n)
  BY DEF Reject
<1>3. /\ after \in Job /\ ~after.force /\ ~after.replaced
      /\ \/ after.step = "idle" /\ after.result = "none"
         \/ after.step = "read" /\ after.result = "threw"
  <2>1. CASE after = Idle
    BY <2>1, IdleType DEF Idle
  <2>2. CASE after = Threw
    BY <2>2, ThrewType
  <2>. QED BY <2>1, <2>2
<1>4. \A k \in next : /\ k \in Callers /\ k # c /\ job[k].step = "wait" /\ job[k].result = "none"
                      /\ ~job[k].force /\ ~job[k].replaced
  BY <1>1 DEF Waiting, JobsInShape, At, Regular
<1>5. \A k \in next : /\ job'[k] \in Job /\ job'[k].step = "check" /\ job'[k].result = "none"
                      /\ ~job'[k].force /\ (job'[k].replaced <=> k # inFlight')
  <2> SUFFICES ASSUME NEW k \in next
               PROVE  /\ job'[k] \in Job /\ job'[k].step = "check" /\ job'[k].result = "none"
                      /\ ~job'[k].force /\ (job'[k].replaced <=> k # inFlight')
    OBVIOUS
  <2> DEFINE r == (k # inFlight')
             x == [step |-> "check", force |-> job[k].force, replaced |-> r,
                   version |-> job[k].version, result |-> job[k].result, snap |-> job[k].snap]
  <2>1. job[k] \in Job
    BY <1>1, <1>4
  <2>0. r \in BOOLEAN
    OBVIOUS
  <2>2. job'[k] = [job[k] EXCEPT !.step = "check", !.replaced = r]
    BY <1>2, <1>4
  <2>3. x.step = "check" /\ x.result = "none" /\ x.force = FALSE /\ x.replaced = r
    BY <1>4, <2>1, JobIs
  <2> HIDE DEF r
  <2>4. job'[k] = x
    <3>1. PICK st, fo, re, ve, rs, sn :
            job[k] = [step |-> st, force |-> fo, replaced |-> re, version |-> ve,
                      result |-> rs, snap |-> sn]
      BY <2>1, JobIs
    <3>. QED BY <2>2, <3>1
  <2>5. x \in Job
    BY <2>0, <2>1, JobIs DEF Job
  <2> HIDE DEF x
  <2>. QED BY <2>3, <2>4, <2>5 DEF r
<1>6. /\ job'[c] = after
      /\ \A k \in Callers \ ({c} \union next) : job'[k] = job[k]
  BY <1>2
<1>7. job' \in [Callers -> Job]
  <2>1. \A k \in Callers : job'[k] \in Job
    BY <1>1, <1>3, <1>5, <1>6
  <2>. QED BY <1>2, <2>1
<1>8. inFlight' \in Callers \union {NoCaller} /\ (next # {} => inFlight' \in next)
      /\ (next = {} => inFlight' = IF inFlight = c THEN NoCaller ELSE inFlight)
  BY <1>1, <1>2 DEF Waiting
<1>9. (next = {} /\ inFlight = c => Waiting = {}) /\ (next # {} => inFlight = c)
  OBVIOUS
<1>10. Working(c)
  BY <1>1 DEF Working, At, JobsInShape
<1>11. \A k \in Callers : inFlight # c \/ k = c => k \notin next
  BY <1>4
<1> HIDE DEF next, n
<1>12. MapIsOwn'
  <2> SUFFICES ASSUME NEW k \in Callers
               PROVE  inFlight' = k <=> (Working(k) /\ Regular(k))'
    BY DEF MapIsOwn
  <2>1. CASE k = c
    BY <1>1, <1>3, <1>4, <1>6, <1>8, <1>10, <2>1, DeliveryAssumption
       DEF MapIsOwn, Working, Regular
  <2>2. CASE k \in next
    BY <1>5, <1>8, <2>2 DEF Working, Regular
  <2>3. CASE k \notin {c} \union next
    BY <1>1, <1>6, <1>8, <1>9, <2>3, DeliveryAssumption DEF MapIsOwn, Working, Regular
  <2>. QED BY <2>1, <2>2, <2>3
<1>13. JobsInShape'
  <2> SUFFICES ASSUME NEW k \in Callers
               PROVE  (/\ At(k, "wait") => Regular(k) /\ inFlight # NoCaller
                       /\ job[k].step \notin {"read", "write"} => job[k].result = "none"
                       /\ job[k].result = "threw" => Regular(k)
                       /\ At(k, "reset") => k = Scheduler /\ Exhausted(job[k].snap))'
    BY DEF JobsInShape
  <2>1. CASE k = c
    BY <1>3, <1>6, <2>1 DEF At, Regular
  <2>2. CASE k \in next
    BY <1>5, <2>2 DEF At, Regular
  <2>3. CASE k \notin {c} \union next
    BY <1>1, <1>6, <1>8, <1>9, <2>3, DeliveryAssumption DEF JobsInShape, At, Regular, Waiting, next
  <2>. QED BY <2>1, <2>2, <2>3
<1>14. /\ \A k \in Callers : Minting(k)' <=> Minting(k)
       /\ ~Carrier(c)'
       /\ \A k \in next : ~Carrier(k) /\ (Carrier(k)' <=> k # inFlight')
       /\ \A k \in Callers \ ({c} \union next) : Carrier(k)' <=> Carrier(k)
  BY <1>3, <1>4, <1>5, <1>6 DEF Minting, Carrier, Regular, At
<1>15. Open' = Open
  BY <1>14 DEF Open
<1>16. n \in Nat /\ Need' <= Need + n
  <2>1. CASE next = {}
    <3>1. n = 0 /\ Others(c)
      BY <1>14, <2>1 DEF n, Others
    <3>2. Need' <= Need
      BY <1>14, <1>15, <3>1, NeedKeeps, NeedType DEF NeedOK
    <3>. QED BY <3>1, <3>2, NeedType DEF NeedOK
  <2>2. CASE next # {}
    <3> DEFINE woken == next \ {inFlight'}
    <3>1. inFlight = c /\ ~Carrier(c) /\ inFlight' \in next
      BY <1>1, <1>8, <2>2 DEF next, MapIsOwn, Carrier, At
    <3>2. IsFiniteSet(next) /\ Cardinality(next) \in Nat
      <4>1. next \in SUBSET Callers
        BY <1>4
      <4>. QED BY <4>1, FS_Subset, FS_CardinalityType, DeliveryAssumption
    <3>3. IsFiniteSet(woken) /\ Cardinality(woken) = n /\ n \in Nat
      <4>1. IsFiniteSet(woken) /\ Cardinality(woken) = Cardinality(next) - 1
        BY <3>1, <3>2, FS_RemoveElement
      <4>2. Cardinality(woken) \in Nat
        BY <4>1, FS_CardinalityType
      <4>. QED BY <2>2, <4>1, <4>2 DEF n
    <3>4. Carriers' = Carriers \union woken /\ Carriers \intersect woken = {}
      BY <1>4, <1>14, <3>1 DEF Carriers
    <3>5. Cardinality(Carriers)' = Cardinality(Carriers) + n
      <4> HIDE DEF woken
      <4>1. Cardinality(Carriers \union woken) =
              Cardinality(Carriers) + Cardinality(woken) - Cardinality(Carriers \intersect woken)
        BY <3>3, FS_Union, NeedType DEF NeedOK
      <4>2. Cardinality(Carriers \intersect woken) = 0
        BY <3>4, FS_EmptySet
      <4>3. Cardinality(Carriers)' = Cardinality(Carriers \union woken)
        BY <3>4
      <4>. QED BY <4>1, <4>2, <4>3, <3>3, NeedType DEF NeedOK
    <3>. QED BY <1>15, <3>3, <3>5, NeedType DEF Need, NeedOK
  <2>. QED BY <2>1, <2>2
<1>17. Need' <= warrants' /\ warrants' \in Int /\ warrants' <= MaxWarrants
  BY <1>2, <1>16, Covers DEF DeliveryInv
<1>. QED BY <1>7, <1>8, <1>12, <1>13, <1>17

LEMMA CheckInv ==
  ASSUME DeliveryInv, NEW c \in Callers, Check(c)
  PROVE  DeliveryInv'
<1>1. /\ At(c, "check") /\ log' = log /\ forced' = forced /\ UNCHANGED payloadVars
      /\ faults' \in 0 .. MaxFaults
  BY DeliveryAssumption DEF Check, DeliveryInv, TypeOK, Fault
<1>2. /\ job' \in [Callers -> Job] /\ inFlight' \in Callers \union {NoCaller}
      /\ MapIsOwn' /\ JobsInShape' /\ Need' <= warrants'
      /\ warrants' \in Int /\ warrants' <= MaxWarrants
  <2>1. CASE Resolve(c) /\ UNCHANGED warrants
    <3>1. /\ job' \in [Callers -> Job] /\ inFlight' \in Callers \union {NoCaller}
          /\ MapIsOwn' /\ JobsInShape' /\ Others(c) /\ ~Minting(c)' /\ ~Carrier(c)'
      BY <1>1, <2>1, ResolveKeeps DEF At
    <3>2. ~Minting(c)
      BY <1>1 DEF Minting, At
    <3>3. Open' <= Open
      BY <1>1, <3>1, <3>2, OpenKeeps
    <3>4. Need' <= Need
      BY <3>1, <3>3, NeedKeeps
    <3>. QED BY <2>1, <3>1, <3>4, NeedType, NeedTypeNext DEF DeliveryInv, TypeOK, NeedOK
  <2>2. CASE /\ \/ (log.status # "delivered" \/ job[c].force) /\ UNCHANGED warrants
                \/ Warrant
             /\ \/ job' = [job EXCEPT ![c].step = "mint"]
                \/ \E result \in {"failed", "unreachable"} : Answer(c, result)
             /\ UNCHANGED inFlight
    <3>1. /\ job' \in [Callers -> Job] /\ MapIsOwn' /\ JobsInShape' /\ Others(c)
          /\ Carrier(c)' /\ ~Minting(c)
          /\ (Regular(c) <=> Minting(c)') /\ (Regular(c) <=> ~Carrier(c))
      BY <1>1, <2>2, CheckGoesOn
    <3>2. Open' <= Open
      BY <1>1, <3>1, OpenKeeps
    <3>3. Need' <= warrants' /\ warrants' \in Int /\ warrants' <= MaxWarrants
      <4>1. CASE Warrant
        <5>1. Need' <= Need + 1
          BY <3>1, <3>2, NeedGrows
        <5>. QED BY <4>1, <5>1, Covers DEF Warrant, DeliveryInv
      <4>2. CASE (log.status # "delivered" \/ job[c].force) /\ UNCHANGED warrants
        <5>1. CASE Regular(c)
          <6>1. Working(c) /\ log.status # "delivered"
            BY <1>1, <4>2, <5>1 DEF Working, Regular, At, DeliveryInv, JobsInShape
          <6>2. Need' <= Need
            BY <3>1, <5>1, <6>1, NeedTaken
          <6>. QED BY <4>2, <6>2, NeedType, NeedTypeNext DEF DeliveryInv, TypeOK, NeedOK
        <5>2. CASE ~Regular(c)
          <6>1. Need' <= Need
            BY <3>1, <3>2, <5>2, NeedKeeps
          <6>. QED BY <4>2, <6>1, NeedType, NeedTypeNext DEF DeliveryInv, TypeOK, NeedOK
        <5>. QED BY <5>1, <5>2
      <4>. QED BY <2>2, <4>1, <4>2
    <3>. QED BY <2>2, <3>1, <3>3 DEF DeliveryInv, TypeOK
  <2>3. CASE Reject(c)
    BY <1>1, <2>3, RejectKeeps
  <2>. QED BY <2>1, <2>2, <2>3 DEF Check
<1>3. TypeOK'
  BY <1>1, <1>2 DEF DeliveryInv, TypeOK, payloadVars
<1>. QED BY <1>1, <1>2, <1>3 DEF DeliveryInv, ReplacingHasVersion, payloadVars

LEMMA MintInv ==
  ASSUME DeliveryInv, NEW c \in Callers, Mint(c)
  PROVE  DeliveryInv'
<1>1. /\ At(c, "mint") /\ UNCHANGED <<log, inFlight, forced, payloadVars>>
      /\ faults' \in 0 .. MaxFaults
  BY DeliveryAssumption DEF Mint, DeliveryInv, TypeOK, Fault
<1>2. PICK result \in {"delivered", "failed", "unreachable", "capacity"} : Answer(c, result)
  BY DEF Mint
<1>3. PICK x \in Job : /\ job' = [job EXCEPT ![c] = x]
                      /\ x.step = "read" /\ x.result = result
                      /\ x.force = job[c].force /\ x.replaced = job[c].replaced
  BY <1>2, AnswerIs DEF Result
<1>4. job[c].step = "mint" /\ job[c].result = "none"
  BY <1>1 DEF At, DeliveryInv, JobsInShape
<1>5. (InMap(x) <=> InMap(job[c])) /\ InShape(x, c)
  BY <1>2, <1>3, <1>4 DEF InMap, InShape
<1>6. /\ job' \in [Callers -> Job] /\ job'[c] = x
      /\ MapIsOwn' /\ JobsInShape' /\ Others(c)
  BY <1>1, <1>3, <1>5, MoveKeeps
<1>7. /\ Carrier(c) /\ (Minting(c) <=> Minting(c)')
      /\ (Carrier(c)' <=> result # "delivered")
  BY <1>2, <1>3, <1>4, <1>6 DEF Carrier, Minting, Regular, At
<1>8. Open' <= Open
  BY <1>1, <1>6, <1>7, OpenKeeps
<1>9. Need' <= warrants' /\ warrants' \in Int /\ warrants' <= MaxWarrants
  <2>1. CASE result = "delivered" /\ warrants' = warrants - 1
    <3>1. Cardinality(Carriers)' = Cardinality(Carriers) - 1
      BY <1>6, <1>7, <2>1, CountOne DEF Others
    <3>2. Need' <= Need - 1
      BY <1>8, <3>1, NeedType, NeedTypeNext DEF Need, NeedOK
    <3>. QED BY <2>1, <3>2, NeedType, NeedTypeNext DEF DeliveryInv, TypeOK, NeedOK
  <2>2. CASE UNCHANGED warrants
    <3>1. Need' <= Need
      BY <1>6, <1>7, <1>8, NeedKeeps
    <3>. QED BY <2>2, <3>1, NeedType, NeedTypeNext DEF DeliveryInv, TypeOK, NeedOK
  <2>3. job'[c].result = result
    BY <1>3, <1>6
  <2>. QED BY <2>1, <2>2, <2>3 DEF Mint
<1>10. TypeOK'
  BY <1>1, <1>6, <1>9 DEF DeliveryInv, TypeOK, payloadVars
<1>. QED BY <1>1, <1>6, <1>9, <1>10 DEF DeliveryInv, ReplacingHasVersion, payloadVars

LEMMA RecordReadInv ==
  ASSUME DeliveryInv, NEW c \in Callers, RecordRead(c)
  PROVE  DeliveryInv'
<1> DEFINE snap == [NoLog EXCEPT !.attempts = log.attempts, !.txId = log.txId]
           x == [step |-> "write", force |-> job[c].force, replaced |-> job[c].replaced,
                 version |-> job[c].version, result |-> job[c].result, snap |-> snap]
<1>1. /\ job \in [Callers -> Job] /\ job[c] \in Job /\ job[c].step = "read"
      /\ UNCHANGED <<log, inFlight, warrants, faults, forced, payloadVars>>
      /\ job' = [job EXCEPT ![c].step = "write", ![c].snap = snap]
  BY DEF RecordRead, DeliveryInv, TypeOK, At
<1>2. snap \in Log
  <2>1. log.attempts \in 0 .. MaxAttempts /\ log.txId \in 0 .. Versions
    BY DEF DeliveryInv, TypeOK, Log
  <2>. QED BY <2>1 DEF Log, NoLog
<1> HIDE DEF snap
<1>3. x \in Job
  BY <1>1, <1>2, JobIs DEF Job
<1>4. job' \in [Callers -> {job'[k] : k \in Callers}] /\ \A k \in Callers \ {c} : job'[k] = job[k]
  BY <1>1
<1>5. job'[c] = x
  <2>1. PICK st, fo, re, ve, rs, sn :
          job[c] = [step |-> st, force |-> fo, replaced |-> re, version |-> ve,
                    result |-> rs, snap |-> sn]
    BY <1>1, JobIs
  <2>. QED BY <1>1, <2>1
<1>6. job' = [job EXCEPT ![c] = x]
  BY <1>1, <1>4, <1>5
<1>7. /\ x.step = "write" /\ x.result = job[c].result
      /\ x.force = job[c].force /\ x.replaced = job[c].replaced
  OBVIOUS
<1> HIDE DEF x
<1>8. (InMap(x) <=> InMap(job[c])) /\ InShape(x, c)
  BY <1>1, <1>7 DEF InMap, InShape, DeliveryInv, JobsInShape, Regular
<1>9. /\ job' \in [Callers -> Job] /\ job'[c] = x
      /\ MapIsOwn' /\ JobsInShape' /\ Others(c)
  BY <1>1, <1>3, <1>6, <1>8, MoveKeeps
<1>10. (Carrier(c)' <=> Carrier(c)) /\ (Minting(c)' <=> Minting(c))
  BY <1>1, <1>7, <1>9 DEF Carrier, Minting, Regular, At
<1>11. Need' <= Need
  BY <1>1, <1>9, <1>10, OpenKeeps, NeedKeeps
<1>12. Need' <= warrants'
  BY <1>1, <1>11, NeedType, NeedTypeNext DEF DeliveryInv, TypeOK, NeedOK
<1>13. TypeOK'
  BY <1>1, <1>9 DEF DeliveryInv, TypeOK, payloadVars
<1>. QED BY <1>1, <1>9, <1>12, <1>13 DEF DeliveryInv, ReplacingHasVersion, payloadVars

LEMMA RecordedType ==
  ASSUME NEW j \in Job
  PROVE  /\ Recorded(j) \in Log
         /\ Recorded(j).status = "delivered" <=> j.result = "delivered"
<1>1. j.snap.attempts \in 0 .. MaxAttempts /\ j.snap.txId \in 0 .. Versions
      /\ j.version \in 0 .. Versions
  BY DEF Job, Log
<1>. QED BY <1>1, DeliveryAssumption DEF Recorded, Log

LEMMA RecordWriteInv ==
  ASSUME DeliveryInv, NEW c \in Callers, RecordWrite(c)
  PROVE  DeliveryInv'
<1>1. /\ job[c] \in Job /\ job[c].step = "write" /\ Resolve(c)
      /\ forced' = forced /\ UNCHANGED payloadVars /\ faults' \in 0 .. MaxFaults
  BY DeliveryAssumption DEF RecordWrite, DeliveryInv, TypeOK, Fault, At
<1>2. \/ /\ log' = Recorded(job[c])
         /\ IF job[c].result = "threw" /\ log.status = "delivered"
            THEN Warrants(1) ELSE UNCHANGED warrants
      \/ Warrants(1) /\ log' = log
  BY DEF RecordWrite, Warrant
<1>3. log' \in Log
  BY <1>1, <1>2, RecordedType DEF DeliveryInv, TypeOK
<1>4. /\ job' \in [Callers -> Job] /\ inFlight' \in Callers \union {NoCaller}
      /\ MapIsOwn' /\ JobsInShape' /\ Others(c) /\ ~Minting(c)' /\ ~Carrier(c)'
  BY <1>1, ResolveKeeps
<1>5. Need' <= Need + 1
  <2>1. Cardinality(Carriers)' <= Cardinality(Carriers)
    BY <1>4, CountOne, NeedType DEF Others, NeedOK
  <2>. QED BY <2>1, NeedType, NeedTypeNext DEF Need, NeedOK
<1>6. Warrants(1) \/ (UNCHANGED warrants /\ Need' <= Need)
  <2> SUFFICES ASSUME log' = Recorded(job[c]), UNCHANGED warrants,
                      ~(job[c].result = "threw" /\ log.status = "delivered")
               PROVE  Need' <= Need
    BY <1>2
  <2>1. CASE job[c].result = "delivered"
    <3>1. Open' = 0
      BY <1>1, <2>1, RecordedType DEF Open
    <3>. QED BY <1>4, <3>1, NeedKeeps, NeedType DEF NeedOK
  <2>2. CASE job[c].result = "threw"
    <3>1. ~Minting(c) /\ log.status # "delivered"
      BY <2>2 DEF Minting
    <3>. QED BY <1>4, <3>1, OpenKeeps, NeedKeeps
  <2>3. CASE job[c].result \notin {"delivered", "threw"}
    <3>1. Carrier(c)
      BY <1>1, <2>3 DEF Carrier
    <3>. QED BY <1>4, <3>1, NeedMoves
  <2>. QED BY <2>1, <2>2, <2>3
<1>7. Need' <= warrants' /\ warrants' \in Int /\ warrants' <= MaxWarrants
  <2>1. CASE Warrants(1)
    BY <1>5, <2>1, Covers DEF DeliveryInv
  <2>2. CASE UNCHANGED warrants /\ Need' <= Need
    BY <2>2, NeedType, NeedTypeNext DEF DeliveryInv, TypeOK, NeedOK
  <2>. QED BY <1>6, <2>1, <2>2
<1>8. TypeOK'
  BY <1>1, <1>3, <1>4, <1>7 DEF DeliveryInv, TypeOK, payloadVars
<1>. QED BY <1>1, <1>4, <1>7, <1>8 DEF DeliveryInv, ReplacingHasVersion, payloadVars

(* A step of the scheduler that neither delivers nor brings a warrant.  *)
LEMMA TickInv ==
  ASSUME DeliveryInv, Tick
  PROVE  DeliveryInv'
<1> DEFINE x == [Idle EXCEPT !.snap = log, !.step = IF Exhausted(log) THEN "reset" ELSE "retry"]
<1>1. /\ job \in [Callers -> Job] /\ job[Scheduler] = Idle /\ log \in Log
      /\ job' = [job EXCEPT ![Scheduler] = x] /\ Scheduler \in Callers
      /\ UNCHANGED <<log, inFlight, warrants, faults, forced, payloadVars>>
  BY DeliveryAssumption DEF Tick, DeliveryInv, TypeOK
<1>2. x \in Job
  BY <1>1, IdleType DEF Job, Idle
<1>3. /\ x.step = IF Exhausted(log) THEN "reset" ELSE "retry"
      /\ x.snap = log /\ x.result = "none" /\ x.force = FALSE
  BY DEF Idle
<1> HIDE DEF x
<1>4. ~InMap(job[Scheduler]) /\ ~InMap(x) /\ InShape(x, Scheduler)
  BY <1>1, <1>3 DEF InMap, InShape, Idle
<1>5. /\ job' \in [Callers -> Job] /\ job'[Scheduler] = x
      /\ MapIsOwn' /\ JobsInShape' /\ Others(Scheduler)
  BY <1>1, <1>2, <1>4, MoveKeeps
<1>6. ~Carrier(Scheduler)' /\ ~Minting(Scheduler) 
  BY <1>1, <1>3, <1>5 DEF Carrier, Minting, At, Idle
<1>7. Need' <= Need
  BY <1>1, <1>5, <1>6, OpenKeeps, NeedKeeps
<1>8. Need' <= warrants'
  BY <1>1, <1>7, NeedType, NeedTypeNext DEF DeliveryInv, TypeOK, NeedOK
<1>9. TypeOK'
  BY <1>1, <1>5 DEF DeliveryInv, TypeOK, payloadVars
<1>. QED BY <1>1, <1>5, <1>8, <1>9 DEF DeliveryInv, ReplacingHasVersion, payloadVars

LEMMA ResetEntry ==
  ASSUME NEW entry \in Log
  PROVE  [entry EXCEPT !.status = "pending", !.attempts = 0] \in Log
<1>1. 0 \in 0 .. MaxAttempts
  BY DeliveryAssumption
<1>. QED BY <1>1 DEF Log

LEMMA ResetInv ==
  ASSUME DeliveryInv, Reset
  PROVE  DeliveryInv'
<1> DEFINE snap == job[Scheduler].snap
<1>1. /\ job \in [Callers -> Job] /\ job[Scheduler] \in Job /\ job[Scheduler].step = "reset"
      /\ job' = [job EXCEPT ![Scheduler] = Idle] /\ Scheduler \in Callers
      /\ UNCHANGED <<inFlight, forced, payloadVars>> /\ faults' \in 0 .. MaxFaults
  BY DeliveryAssumption DEF Reset, DeliveryInv, TypeOK, At, Fault
<1>2. Exhausted(snap) /\ snap \in Log
  BY <1>1, JobIs DEF DeliveryInv, JobsInShape, At
<1>3. \/ /\ log' = [snap EXCEPT !.status = "pending", !.attempts = 0]
         /\ IF log # snap THEN Warrants(1) ELSE UNCHANGED warrants
      \/ UNCHANGED <<log, warrants>>
  BY DEF Reset, Warrant
<1>4. log' \in Log
  <2>1. [snap EXCEPT !.status = "pending", !.attempts = 0] \in Log
    <3> HIDE DEF snap
    <3>. QED BY <1>2, ResetEntry, Zenon
  <2>. QED BY <1>3, <2>1 DEF DeliveryInv, TypeOK
<1> HIDE DEF snap
<1>5. ~InMap(job[Scheduler]) /\ ~InMap(Idle) /\ InShape(Idle, Scheduler)
  BY <1>1 DEF InMap, InShape, Idle
<1>6. /\ job' \in [Callers -> Job] /\ job'[Scheduler] = Idle
      /\ MapIsOwn' /\ JobsInShape' /\ Others(Scheduler)
  BY <1>1, <1>5, IdleType, MoveKeeps
<1>7. ~Carrier(Scheduler)' /\ ~Minting(Scheduler)
  BY <1>1, <1>6 DEF Carrier, Minting, At, Idle
<1>8. Need' <= Need + 1
  <2>1. Cardinality(Carriers)' <= Cardinality(Carriers)
    BY <1>1, <1>6, <1>7, CountOne, NeedType DEF Others, NeedOK
  <2>. QED BY <2>1, NeedType, NeedTypeNext DEF Need, NeedOK
<1>9. Warrants(1) \/ (UNCHANGED warrants /\ Need' <= Need)
  <2> SUFFICES ASSUME UNCHANGED warrants, log' = log \/ log = snap
               PROVE  Need' <= Need
    BY <1>3
  <2>1. log'.status = "delivered" \/ log.status # "delivered"
    BY <1>2 DEF Exhausted
  <2>. QED BY <1>1, <1>6, <1>7, <2>1, OpenKeeps, NeedKeeps
<1>10. Need' <= warrants' /\ warrants' \in Int /\ warrants' <= MaxWarrants
  <2>1. CASE Warrants(1)
    BY <1>8, <2>1, Covers DEF DeliveryInv
  <2>2. CASE UNCHANGED warrants /\ Need' <= Need
    BY <2>2, NeedType, NeedTypeNext DEF DeliveryInv, TypeOK, NeedOK
  <2>. QED BY <1>9, <2>1, <2>2
<1>11. TypeOK'
  BY <1>1, <1>4, <1>6, <1>10 DEF DeliveryInv, TypeOK, payloadVars
<1>. QED BY <1>1, <1>6, <1>10, <1>11 DEF DeliveryInv, ReplacingHasVersion, payloadVars

LEMMA RetryInv ==
  ASSUME DeliveryInv, Retry
  PROVE  DeliveryInv'
<1>1. /\ job \in [Callers -> Job] /\ job[Scheduler].step = "retry" /\ Scheduler \in Callers
      /\ binding \in 0 .. Versions /\ inFlight \in Callers \union {NoCaller}
      /\ UNCHANGED <<log, warrants, faults, forced, payloadVars>>
  BY DeliveryAssumption DEF Retry, DeliveryInv, TypeOK, At
<1>2. ~InMap(job[Scheduler]) /\ ~Minting(Scheduler)
  BY <1>1 DEF InMap, Minting
<1>3. /\ job' \in [Callers -> Job] /\ inFlight' \in Callers \union {NoCaller}
      /\ MapIsOwn' /\ JobsInShape' /\ Others(Scheduler) /\ ~Carrier(Scheduler)'
  <2>1. CASE Enter(Scheduler, FALSE, binding)
    BY <1>1, <1>2, <2>1, EnterKeeps
  <2>2. CASE job' = [job EXCEPT ![Scheduler] = Idle] /\ UNCHANGED inFlight
    <3>1. ~InMap(Idle) /\ InShape(Idle, Scheduler)
      BY DEF InMap, InShape, Idle
    <3>2. /\ job' \in [Callers -> Job] /\ job'[Scheduler] = Idle
          /\ MapIsOwn' /\ JobsInShape' /\ Others(Scheduler)
      BY <1>1, <1>2, <2>2, <3>1, IdleType, MoveKeeps
    <3>3. ~Carrier(Scheduler)'
      BY <3>2 DEF Carrier, At, Idle
    <3>. QED BY <1>1, <2>2, <3>2, <3>3
  <2>. QED BY <2>1, <2>2 DEF Retry
<1>4. Need' <= Need
  BY <1>1, <1>2, <1>3, OpenKeeps, NeedKeeps
<1>5. Need' <= warrants'
  BY <1>1, <1>4, NeedType, NeedTypeNext DEF DeliveryInv, TypeOK, NeedOK
<1>6. TypeOK'
  BY <1>1, <1>3 DEF DeliveryInv, TypeOK, payloadVars
<1>. QED BY <1>1, <1>3, <1>5, <1>6 DEF DeliveryInv, ReplacingHasVersion, payloadVars

LEMMA ReplaceInv ==
  ASSUME DeliveryInv, Replace
  PROVE  DeliveryInv'
<1>1. /\ inFlight' = inFlight /\ job' = job /\ forced' = forced /\ faults' \in 0 .. MaxFaults
      /\ \/ log' = log /\ warrants' = warrants
         \/ log' = [NoLog EXCEPT !.status = "superseded"] /\ Warrants(1)
  BY DeliveryAssumption
     DEF Replace, ReplacePath, Distribute, Upload, ReadLog, Supersede, Bind, jobVars,
         Fault, Warrant, DeliveryInv, TypeOK
<1>2. log' \in Log
  BY <1>1, IdleType, DeliveryAssumption DEF DeliveryInv, TypeOK, Log, NoLog
<1>3. MapIsOwn' /\ JobsInShape' /\ Carriers' = Carriers
      /\ \A c \in Callers : Minting(c)' <=> Minting(c)
  BY <1>1 DEF DeliveryInv, MapIsOwn, JobsInShape, Carriers, Carrier, Minting, Working,
              Regular, At
<1>4. Cardinality(Carriers)' = Cardinality(Carriers)
  BY <1>3
<1>5. Need' <= warrants' /\ warrants' \in Int /\ warrants' <= MaxWarrants
  <2>1. CASE log' = log /\ warrants' = warrants
    <3>1. Open' = Open
      BY <1>3, <2>1 DEF Open
    <3>. QED BY <1>4, <2>1, <3>1 DEF Need, DeliveryInv, TypeOK
  <2>2. CASE Warrants(1)
    <3>1. Need' <= Need + 1
      BY <1>4, NeedType, NeedTypeNext DEF Need, NeedOK
    <3>. QED BY <2>2, <3>1, Covers DEF DeliveryInv
  <2>. QED BY <1>1, <2>1, <2>2
<1>6. /\ registry' \in 1 .. Versions /\ binding' \in 1 .. Versions /\ active' \in BOOLEAN
      /\ replacing' \in Replacement /\ ReplacingHasVersion'
  <2>1. /\ registry \in 1 .. Versions /\ binding \in 1 .. Versions /\ active \in BOOLEAN
        /\ replacing \in Replacement
        /\ replacing.step # "idle" => replacing.version \in 1 .. Versions
        /\ Versions \in Nat
    BY DeliveryAssumption
       DEF DeliveryInv, TypeOK, Replacement, ReplacingHasVersion
  <2>2. NoReplacement \in Replacement /\ NoReplacement.step = "idle"
    BY DeliveryAssumption DEF NoReplacement, Replacement
  <2>3. CASE ReplacePath
    BY <2>1, <2>3 DEF ReplacePath, Replacement, ReplacingHasVersion
  <2>4. CASE Distribute
    <3> DEFINE step == IF active THEN "read" ELSE "upload"
    <3>1. /\ replacing' = [step |-> step, of |-> "binding", version |-> binding + 1]
          /\ binding < Versions /\ active' = FALSE /\ UNCHANGED <<registry, binding>>
      BY <2>4 DEF Distribute
    <3>2. step \in {"read", "upload"}
      OBVIOUS
    <3>3. binding + 1 \in 1 .. Versions
      BY <2>1, <3>1
    <3> HIDE DEF step
    <3>4. replacing' \in Replacement
      BY <3>1, <3>2, <3>3 DEF Replacement
    <3>5. ReplacingHasVersion'
      BY <3>1, <3>3 DEF ReplacingHasVersion
    <3>. QED BY <2>1, <3>1, <3>4, <3>5
  <2>5. ASSUME NEW step \in {"upload", "read", "write", "bind"}, replacing.step # "idle",
               replacing' = [replacing EXCEPT !.step = step]
        PROVE  replacing' \in Replacement /\ ReplacingHasVersion'
    BY <2>1, <2>5 DEF Replacement, ReplacingHasVersion
  <2>6. CASE Upload
    <3>1. CASE replacing' = NoReplacement /\ UNCHANGED registry
      BY <2>1, <2>2, <2>6, <3>1 DEF Upload, ReplacingHasVersion
    <3>2. CASE \E step \in {"read", "bind"} : replacing' = [replacing EXCEPT !.step = step]
      <4>1. registry' \in 1 .. Versions
        BY <2>1, <2>6 DEF Upload
      <4>. QED BY <2>1, <2>5, <2>6, <3>2, <4>1 DEF Upload
    <3>. QED BY <2>6, <3>1, <3>2 DEF Upload
  <2>7. CASE ReadLog
    BY <2>1, <2>5, <2>7 DEF ReadLog, AfterLog
  <2>8. CASE Supersede
    BY <2>1, <2>5, <2>8 DEF Supersede, AfterLog
  <2>9. CASE Bind
    BY <2>1, <2>2, <2>9 DEF Bind, ReplacingHasVersion
  <2>. QED BY <2>3, <2>4, <2>6, <2>7, <2>8, <2>9, <1>1 DEF Replace
<1>7. TypeOK'
  BY <1>1, <1>2, <1>5, <1>6 DEF DeliveryInv, TypeOK
<1>. QED BY <1>3, <1>5, <1>6, <1>7 DEF DeliveryInv

LEMMA RestartInv ==
  ASSUME DeliveryInv, Restart
  PROVE  DeliveryInv'
<1>1. /\ \A c \in Callers : job'[c] = Idle
      /\ job' \in [Callers -> Job] /\ inFlight' = NoCaller /\ replacing' = NoReplacement
      /\ Warrants(1) /\ faults' \in 0 .. MaxFaults
      /\ UNCHANGED <<log, forced, registry, binding, active>>
  BY IdleType, DeliveryAssumption DEF Restart, Warrant, Fault, DeliveryInv, TypeOK
<1>2. /\ Idle.step = "idle" /\ Idle.result = "none"
      /\ Idle.force = FALSE /\ Idle.replaced = FALSE
  BY DEF Idle
<1>3. MapIsOwn' /\ JobsInShape'
  BY <1>1, <1>2, DeliveryAssumption DEF MapIsOwn, JobsInShape, Working, Regular, At
<1>4. Need' <= Need + 1
  <2>1. Carriers' = {}
    BY <1>1, <1>2 DEF Carriers, Carrier, At
  <2>2. Cardinality(Carriers)' = 0
    BY <2>1, FS_EmptySet
  <2>. QED BY <2>2, NeedType, NeedTypeNext DEF Need, NeedOK
<1>5. Need' <= warrants' /\ warrants' \in Int /\ warrants' <= MaxWarrants
  BY <1>1, <1>4, Covers DEF DeliveryInv
<1>6. NoReplacement \in Replacement /\ NoReplacement.step = "idle"
  BY DeliveryAssumption DEF NoReplacement, Replacement
<1>7. TypeOK'
  BY <1>1, <1>5, <1>6 DEF DeliveryInv, TypeOK
<1>. QED BY <1>1, <1>3, <1>5, <1>6, <1>7 DEF DeliveryInv, ReplacingHasVersion

-----------------------------------------------------------------------------
(* The theorems. *)

LEMMA DeliveryInvariant == Spec => []DeliveryInv
<1>1. Init => DeliveryInv
  BY InitInv
<1>2. DeliveryInv /\ [Next]_vars => DeliveryInv'
  <2> SUFFICES ASSUME DeliveryInv, [Next]_vars PROVE DeliveryInv'
    OBVIOUS
  <2>1. CASE UNCHANGED vars
    BY <2>1
       DEF vars, jobVars, payloadVars, DeliveryInv, TypeOK, MapIsOwn, JobsInShape, Need, Open,
           Carriers, Carrier, Minting, Working, Waiting, Regular, At, ReplacingHasVersion
  <2>. QED BY <2>1, DeliverInv, CheckInv, MintInv, RecordReadInv, RecordWriteInv,
              TickInv, ResetInv, RetryInv, ReplaceInv, RestartInv
           DEF Next, DeliverStep, SchedulerStep
<1>. QED BY <1>1, <1>2, PTL DEF Spec

(* Every variable keeps its type, whatever calls overlap, fail or restart. *)
THEOREM DeliveryTypes == Spec => []TypeOK
<1>1. DeliveryInv => TypeOK
  BY DEF DeliveryInv
<1>. QED BY <1>1, DeliveryInvariant, PTL

(* The map of promises keeps regular deliveries apart, for any number of   *)
(* callers: only a forced call, or one replaced in the map after several   *)
(* waited for a rejected delivery, overlaps with another.                  *)
THEOREM OneDeliveryHolds == Spec => []OneDelivery
<1>1. DeliveryInv => OneDelivery
  BY DEF DeliveryInv, MapIsOwn, OneDelivery, Regular
<1>. QED BY <1>1, DeliveryInvariant, PTL

(* No credential is minted twice without a cause: there is always a        *)
(* warrant in hand for each mint that may still come.                      *)
THEOREM MintsAlwaysHaveCauses == Spec => []MintsHaveCauses
<1>1. DeliveryInv => MintsHaveCauses
  BY NeedType DEF DeliveryInv, TypeOK, MintsHaveCauses, NeedOK
<1>. QED BY <1>1, DeliveryInvariant, PTL
=============================================================================
