-------------------------------- MODULE Sums --------------------------------
(***************************************************************************)
(* Lemmas about the sums the books are compared with (Functions and        *)
(* FiniteSetsExt of the community modules): a sum over a finite set does   *)
(* not depend on the order in which its elements are taken.  They are      *)
(* proved from the least counterexample, if there were one.                *)
(***************************************************************************)
EXTENDS Integers, FiniteSets, Functions, FiniteSetsExt, FiniteSetTheorems,
        WellFoundedInduction, TLAPS

LEMMA LeastNatural ==
  ASSUME NEW T, T \subseteq Nat, T # {}
  PROVE  \E n \in T : \A m \in T : n <= m
<1>1. IsWellFoundedOn(OpToRel(<, Nat), Nat)
  BY NatLessThanWellFounded
<1>2. \E n \in T : \A m \in T : ~ (<<m, n>> \in OpToRel(<, Nat))
  BY <1>1, WFMin
<1>3. \A m, n \in Nat : ~ (<<m, n>> \in OpToRel(<, Nat)) => n <= m
  BY DEF OpToRel
<1>. QED BY <1>2, <1>3

(* Induction, for a set in place of a predicate.                           *)
LEMMA Stepwise ==
  ASSUME NEW T, 0 \in T, \A n \in Nat : n \in T => n + 1 \in T
  PROVE  \A n \in Nat : n \in T
<1>. DEFINE Bad == {n \in Nat : n \notin T}
<1>1. SUFFICES ASSUME Bad # {} PROVE FALSE
  OBVIOUS
<1>2. PICK n \in Bad : \A m \in Bad : n <= m
  BY <1>1, LeastNatural
<1>3. n \in Nat /\ n # 0
  BY <1>2
<1>4. n - 1 \in Nat /\ ~ (n <= n - 1) /\ (n - 1) + 1 = n
  BY <1>3
<1>5. n - 1 \in T
  BY <1>2, <1>4
<1>. QED BY <1>2, <1>4, <1>5

Any(s) == CHOOSE x \in s : TRUE

(* What a sum is computed by: g adds up f over every subset of S, one      *)
(* element after another.                                                  *)
Adds(g, f, S) ==
  g = [s \in SUBSET S |-> IF s = {} THEN 0 ELSE f[Any(s)] + g[s \ {Any(s)}]]

LEMMA SumUnfolds ==
  ASSUME NEW f, NEW S
  PROVE  SumFunctionOnSet(f, S) = (CHOOSE g : Adds(g, f, S))[S]
BY DEF SumFunctionOnSet, FoldFunctionOnSet, MapThenFoldSet, Adds, Any

LEMMA AddsAt ==
  ASSUME NEW f, NEW S, NEW g, Adds(g, f, S)
  PROVE  /\ g[{}] = 0
         /\ \A s \in SUBSET S : s # {} => g[s] = f[Any(s)] + g[s \ {Any(s)}]
BY DEF Adds

Smaller(S, n) == {s \in SUBSET S : Cardinality(s) <= n}

(* The recursion is well defined on finite sets.                           *)
LEMMA AddsExists ==
  ASSUME NEW S, IsFiniteSet(S), NEW f
  PROVE  \E g : Adds(g, f, S)
<1>. DEFINE Upto(g, n) ==
       g = [s \in Smaller(S, n) |-> IF s = {} THEN 0 ELSE f[Any(s)] + g[s \ {Any(s)}]]
<1>. DEFINE T == {n \in Nat : \E g : Upto(g, n)}
<1>1. \A s \in SUBSET S : IsFiniteSet(s) /\ Cardinality(s) \in Nat
  BY FS_Subset, FS_CardinalityType
<1>2. \A s \in SUBSET S : s # {} =>
        /\ Any(s) \in s /\ s \ {Any(s)} \in SUBSET S
        /\ Cardinality(s \ {Any(s)}) = Cardinality(s) - 1
  BY <1>1, FS_RemoveElement DEF Any
<1>3. 0 \in T
  <2>1. \A s \in Smaller(S, 0) : s = {}
    BY <1>1, FS_EmptySet DEF Smaller
  <2>2. Upto([s \in Smaller(S, 0) |-> 0], 0)
    BY <2>1
  <2>. QED BY <2>2
<1>4. ASSUME NEW n \in Nat, n \in T
      PROVE  n + 1 \in T
  <2>1. PICK g : Upto(g, n)
    BY <1>4
  <2>. DEFINE h == [s \in Smaller(S, n + 1) |->
                      IF s = {} THEN 0 ELSE f[Any(s)] + g[s \ {Any(s)}]]
  <2>2. \A s \in Smaller(S, n) : s \in Smaller(S, n + 1)
    BY <1>1 DEF Smaller
  <2>3. \A s \in Smaller(S, n) : h[s] = g[s]
    BY <2>1, <2>2
  <2>4. \A s \in Smaller(S, n + 1) : s # {} => s \ {Any(s)} \in Smaller(S, n)
    BY <1>1, <1>2 DEF Smaller
  <2>5. \A s \in Smaller(S, n + 1) :
          h[s] = IF s = {} THEN 0 ELSE f[Any(s)] + h[s \ {Any(s)}]
    BY <2>3, <2>4
  <2>6. DOMAIN h = Smaller(S, n + 1) /\ h = [s \in Smaller(S, n + 1) |-> h[s]]
    OBVIOUS
  <2>. HIDE DEF h
  <2>7. h = [s \in Smaller(S, n + 1) |-> IF s = {} THEN 0 ELSE f[Any(s)] + h[s \ {Any(s)}]]
    BY <2>5, <2>6
  <2>8. Upto(h, n + 1)
    BY <2>7
  <2>. HIDE DEF Upto
  <2>9. \E k : Upto(k, n + 1)
    BY <2>8
  <2>. QED BY <2>9
<1>. HIDE DEF T
<1>5. Cardinality(S) \in T
  BY <1>1, <1>3, <1>4, Stepwise
<1>6. PICK g : Upto(g, Cardinality(S))
  BY <1>5 DEF T
<1>7. Smaller(S, Cardinality(S)) = SUBSET S
  BY FS_Subset DEF Smaller
<1>. QED BY <1>6, <1>7 DEF Adds

LEMMA SumAdds ==
  ASSUME NEW S, IsFiniteSet(S), NEW f
  PROVE  \E g : Adds(g, f, S) /\ SumFunctionOnSet(f, S) = g[S]
BY AddsExists, SumUnfolds

(* Induction over the subsets of a finite set, by taking one element away. *)
LEMMA SubsetsStepwise ==
  ASSUME NEW S, IsFiniteSet(S), NEW T, {} \in T,
         \A s \in SUBSET S : s # {} /\ (\A x \in s : s \ {x} \in T) => s \in T
  PROVE  \A s \in SUBSET S : s \in T
<1>. DEFINE N == {n \in Nat : \A s \in SUBSET S : Cardinality(s) = n => s \in T}
<1>1. \A s \in SUBSET S : IsFiniteSet(s) /\ Cardinality(s) \in Nat
  BY FS_Subset, FS_CardinalityType
<1>2. 0 \in N
  BY <1>1, FS_EmptySet
<1>3. ASSUME NEW n \in Nat, n \in N
      PROVE  n + 1 \in N
  <2>1. SUFFICES ASSUME NEW s \in SUBSET S, Cardinality(s) = n + 1
                 PROVE  s \in T
    OBVIOUS
  <2>2. s # {}
    BY <1>3, <2>1, FS_EmptySet
  <2>3. ASSUME NEW x \in s PROVE s \ {x} \in T
    <3>1. IsFiniteSet(s) /\ s \ {x} \in SUBSET S
      BY <1>1
    <3>2. Cardinality(s \ {x}) = Cardinality(s) - 1
      BY <3>1, FS_RemoveElement
    <3>3. Cardinality(s \ {x}) = n
      BY <2>1, <3>2
    <3>. QED BY <1>3, <3>1, <3>3
  <2>. QED BY <2>2, <2>3
<1>. HIDE DEF N
<1>4. \A n \in Nat : n \in N
  BY <1>2, <1>3, Stepwise
<1>. QED BY <1>1, <1>4 DEF N

LEMMA AnyOf ==
  ASSUME NEW s, s # {}
  PROVE  Any(s) \in s
BY DEF Any

LEMMA AddsType ==
  ASSUME NEW S, IsFiniteSet(S), NEW f, \A x \in S : f[x] \in Int, NEW g, Adds(g, f, S)
  PROVE  \A s \in SUBSET S : g[s] \in Int
<1>. DEFINE T == {s \in SUBSET S : g[s] \in Int}
<1>. g[{}] = 0 /\ \A s \in SUBSET S : s # {} => g[s] = f[Any(s)] + g[s \ {Any(s)}]
  BY AddsAt
<1>1. {} \in T
  OBVIOUS
<1>2. ASSUME NEW s \in SUBSET S, s # {}, \A x \in s : s \ {x} \in T
      PROVE  s \in T
  <2>1. Any(s) \in s
    BY <1>2, AnyOf
  <2>2. f[Any(s)] \in Int /\ g[s \ {Any(s)}] \in Int
    BY <1>2, <2>1
  <2>3. g[s] = f[Any(s)] + g[s \ {Any(s)}]
    BY <1>2
  <2>. QED BY <2>2, <2>3
<1>. HIDE DEF T
<1>3. \A s \in SUBSET S : s \in T
  BY <1>1, <1>2, SubsetsStepwise
<1>. QED BY <1>3 DEF T

(* The order does not matter.                                              *)
LEMMA AddsAny ==
  ASSUME NEW S, IsFiniteSet(S), NEW f, \A x \in S : f[x] \in Int, NEW g, Adds(g, f, S)
  PROVE  \A s \in SUBSET S : \A x \in s : g[s] = f[x] + g[s \ {x}]
<1>. DEFINE T == {s \in SUBSET S : \A x \in s : g[s] = f[x] + g[s \ {x}]}
<1>. g[{}] = 0 /\ \A s \in SUBSET S : s # {} => g[s] = f[Any(s)] + g[s \ {Any(s)}]
  BY AddsAt
<1>1. {} \in T
  OBVIOUS
<1>2. ASSUME NEW s \in SUBSET S, s # {}, \A x \in s : s \ {x} \in T
      PROVE  s \in T
  <2>1. SUFFICES ASSUME NEW x \in s PROVE g[s] = f[x] + g[s \ {x}]
    OBVIOUS
  <2>. DEFINE c == Any(s)
  <2>2. c \in s
    BY AnyOf
  <2>. HIDE DEF c
  <2>3. g[s] = f[c] + g[s \ {c}]
    BY <1>2 DEF c
  <2>4. CASE x = c
    BY <2>3, <2>4
  <2>5. CASE x # c
    <3>1. x \in s \ {c} /\ c \in s \ {x}
      BY <2>2, <2>5
    <3>. DEFINE r == (s \ {c}) \ {x}
    <3>2. r \in SUBSET S /\ r = (s \ {x}) \ {c}
      OBVIOUS
    <3>. HIDE DEF r
    <3>3. g[s \ {c}] = f[x] + g[r]
      BY <1>2, <2>2, <3>1 DEF r
    <3>4. g[s \ {x}] = f[c] + g[r]
      BY <1>2, <3>1, <3>2
    <3>5. f[x] \in Int /\ f[c] \in Int
      BY <2>2
    <3>6. g[r] \in Int
      BY <3>2, AddsType
    <3>. QED BY <2>3, <3>3, <3>4, <3>5, <3>6
  <2>. QED BY <2>4, <2>5
<1>. HIDE DEF T
<1>3. \A s \in SUBSET S : s \in T
  BY <1>1, <1>2, SubsetsStepwise
<1>. QED BY <1>3 DEF T

(* It depends on nothing but the values summed.                            *)
LEMMA AddsAlike ==
  ASSUME NEW S, IsFiniteSet(S), NEW R \in SUBSET S,
         NEW f, NEW k, \A x \in R : f[x] = k[x],
         NEW g, Adds(g, f, S), NEW h, Adds(h, k, R)
  PROVE  \A s \in SUBSET R : g[s] = h[s]
<1>. h[{}] = 0 /\ \A s \in SUBSET R : s # {} => h[s] = k[Any(s)] + h[s \ {Any(s)}]
  <2>1. Adds(h, k, R)
    OBVIOUS
  <2>. QED BY ONLY <2>1, AddsAt
<1>. DEFINE T == {s \in SUBSET R : g[s] = h[s]}
<1>. g[{}] = 0 /\ \A s \in SUBSET S : s # {} => g[s] = f[Any(s)] + g[s \ {Any(s)}]
  BY AddsAt
<1>1. {} \in T
  OBVIOUS
<1>2. ASSUME NEW s \in SUBSET R, s # {}, \A x \in s : s \ {x} \in T
      PROVE  s \in T
  <2>1. Any(s) \in s
    BY <1>2, AnyOf
  <2>2. g[s] = f[Any(s)] + g[s \ {Any(s)}]
    BY <1>2
  <2>3. h[s] = k[Any(s)] + h[s \ {Any(s)}]
    BY <1>2
  <2>. QED BY <1>2, <2>1, <2>2, <2>3
<1>3. IsFiniteSet(R)
  BY FS_Subset
<1>. HIDE DEF T
<1>4. \A s \in SUBSET R : s \in T
  BY <1>1, <1>2, <1>3, SubsetsStepwise
<1>. QED BY <1>4 DEF T

-----------------------------------------------------------------------------
(* The sum of integers over a finite set.                                  *)

LEMMA SumEmpty ==
  ASSUME NEW f
  PROVE  SumFunctionOnSet(f, {}) = 0
<1>1. PICK g : Adds(g, f, {}) /\ SumFunctionOnSet(f, {}) = g[{}]
  BY FS_EmptySet, SumAdds
<1>. QED BY <1>1, AddsAt

LEMMA SumType ==
  ASSUME NEW S, IsFiniteSet(S), NEW f, \A x \in S : f[x] \in Int
  PROVE  SumFunctionOnSet(f, S) \in Int
<1>1. PICK g : Adds(g, f, S) /\ SumFunctionOnSet(f, S) = g[S]
  BY SumAdds
<1>. QED BY <1>1, AddsType

LEMMA SumAlike ==
  ASSUME NEW S, IsFiniteSet(S), NEW f, NEW k, \A x \in S : f[x] = k[x]
  PROVE  SumFunctionOnSet(f, S) = SumFunctionOnSet(k, S)
<1>1. PICK g : Adds(g, f, S) /\ SumFunctionOnSet(f, S) = g[S]
  BY SumAdds
<1>2. PICK h : Adds(h, k, S) /\ SumFunctionOnSet(k, S) = h[S]
  BY SumAdds
<1>3. S \in SUBSET S
  OBVIOUS
<1>4. \A s \in SUBSET S : g[s] = h[s]
  BY <1>1, <1>2, <1>3, AddsAlike
<1>. QED BY <1>1, <1>2, <1>3, <1>4

LEMMA SumOneMore ==
  ASSUME NEW S, IsFiniteSet(S), NEW f, \A y \in S : f[y] \in Int, NEW x \in S
  PROVE  SumFunctionOnSet(f, S) = f[x] + SumFunctionOnSet(f, S \ {x})
<1>. DEFINE R == S \ {x}
<1>1. R \in SUBSET S /\ IsFiniteSet(R)
  BY FS_Subset
<1>2. PICK g : Adds(g, f, S) /\ SumFunctionOnSet(f, S) = g[S]
  BY SumAdds
<1>3. PICK h : Adds(h, f, R) /\ SumFunctionOnSet(f, R) = h[R]
  BY <1>1, SumAdds
<1>4. g[S] = f[x] + g[R]
  BY <1>2, AddsAny
<1>5. R \in SUBSET R
  OBVIOUS
<1>. HIDE DEF R
<1>6. g[R] = h[R]
  BY <1>1, <1>2, <1>3, <1>5, AddsAlike
<1>7. SumFunctionOnSet(f, S) = f[x] + SumFunctionOnSet(f, R)
  BY <1>2, <1>3, <1>4, <1>6
<1>. QED BY <1>7 DEF R

LEMMA SumUpdate ==
  ASSUME NEW S, IsFiniteSet(S), NEW f, \A y \in S : f[y] \in Int,
         NEW k, \A y \in S : k[y] \in Int,
         NEW x \in S, \A y \in S : y # x => k[y] = f[y]
  PROVE  SumFunctionOnSet(k, S) = SumFunctionOnSet(f, S) + k[x] - f[x]
<1>. DEFINE R == S \ {x}
<1>1. IsFiniteSet(R)
  BY FS_Subset
<1>2. SumFunctionOnSet(f, S) = f[x] + SumFunctionOnSet(f, R)
  BY SumOneMore
<1>3. SumFunctionOnSet(k, S) = k[x] + SumFunctionOnSet(k, R)
  BY SumOneMore
<1>4. \A y \in R : f[y] = k[y] /\ f[y] \in Int
  OBVIOUS
<1>. HIDE DEF R
<1>5. SumFunctionOnSet(f, R) = SumFunctionOnSet(k, R)
  BY <1>1, <1>4, SumAlike
<1>6. SumFunctionOnSet(f, R) \in Int
  BY <1>1, <1>4, SumType
<1>7. f[x] \in Int /\ k[x] \in Int
  OBVIOUS
<1>. QED BY <1>2, <1>3, <1>5, <1>6, <1>7

LEMMA SumTogether ==
  ASSUME NEW S, IsFiniteSet(S), NEW f, NEW k, NEW h,
         \A x \in S : f[x] \in Int /\ k[x] \in Int /\ h[x] = f[x] + k[x]
  PROVE  SumFunctionOnSet(h, S) = SumFunctionOnSet(f, S) + SumFunctionOnSet(k, S)
<1>. DEFINE T == {s \in SUBSET S :
       SumFunctionOnSet(h, s) = SumFunctionOnSet(f, s) + SumFunctionOnSet(k, s)}
<1>1. {} \in T
  BY SumEmpty
<1>2. ASSUME NEW s \in SUBSET S, s # {}, \A x \in s : s \ {x} \in T
      PROVE  s \in T
  <2>1. PICK x \in s : TRUE
    BY <1>2
  <2>. DEFINE r == s \ {x}
  <2>2. IsFiniteSet(s) /\ IsFiniteSet(r)
    BY FS_Subset
  <2>3. \A y \in s : f[y] \in Int /\ k[y] \in Int /\ h[y] = f[y] + k[y] /\ h[y] \in Int
    OBVIOUS
  <2>4. \A y \in r : f[y] \in Int /\ k[y] \in Int
    OBVIOUS
  <2>5. SumFunctionOnSet(f, s) = f[x] + SumFunctionOnSet(f, r)
    BY <2>2, <2>3, SumOneMore
  <2>6. SumFunctionOnSet(k, s) = k[x] + SumFunctionOnSet(k, r)
    BY <2>2, <2>3, SumOneMore
  <2>7. SumFunctionOnSet(h, s) = h[x] + SumFunctionOnSet(h, r)
    BY <2>2, <2>3, SumOneMore
  <2>8. SumFunctionOnSet(h, r) = SumFunctionOnSet(f, r) + SumFunctionOnSet(k, r)
    BY <1>2
  <2>. HIDE DEF r
  <2>9. SumFunctionOnSet(f, r) \in Int /\ SumFunctionOnSet(k, r) \in Int
    BY <2>2, <2>4, SumType
  <2>10. SumFunctionOnSet(h, s) = SumFunctionOnSet(f, s) + SumFunctionOnSet(k, s)
    BY <2>3, <2>5, <2>6, <2>7, <2>8, <2>9
  <2>. QED BY <2>10
<1>. HIDE DEF T
<1>3. \A s \in SUBSET S : s \in T
  BY <1>1, <1>2, SubsetsStepwise
<1>. QED BY <1>3 DEF T

LEMMA SumNatural ==
  ASSUME NEW S, IsFiniteSet(S), NEW f, \A x \in S : f[x] \in Nat
  PROVE  SumFunctionOnSet(f, S) \in Nat
<1>. DEFINE T == {s \in SUBSET S : SumFunctionOnSet(f, s) \in Nat}
<1>1. {} \in T
  BY SumEmpty
<1>2. ASSUME NEW s \in SUBSET S, s # {}, \A x \in s : s \ {x} \in T
      PROVE  s \in T
  <2>1. PICK x \in s : TRUE
    BY <1>2
  <2>2. IsFiniteSet(s)
    BY FS_Subset
  <2>3. SumFunctionOnSet(f, s) = f[x] + SumFunctionOnSet(f, s \ {x})
    BY <2>2, SumOneMore
  <2>4. SumFunctionOnSet(f, s \ {x}) \in Nat /\ f[x] \in Nat
    BY <1>2
  <2>. QED BY <2>3, <2>4
<1>. HIDE DEF T
<1>3. \A s \in SUBSET S : s \in T
  BY <1>1, <1>2, SubsetsStepwise
<1>. QED BY <1>3 DEF T

LEMMA SumMonotone ==
  ASSUME NEW S, IsFiniteSet(S), NEW f, NEW k,
         \A x \in S : f[x] \in Int /\ k[x] \in Int /\ f[x] <= k[x]
  PROVE  SumFunctionOnSet(f, S) <= SumFunctionOnSet(k, S)
<1>. DEFINE d == [x \in S |-> k[x] - f[x]]
<1>1. \A x \in S : d[x] \in Nat /\ d[x] \in Int /\ k[x] = f[x] + d[x]
  OBVIOUS
<1>. HIDE DEF d
<1>2. SumFunctionOnSet(k, S) = SumFunctionOnSet(f, S) + SumFunctionOnSet(d, S)
  BY <1>1, SumTogether
<1>3. SumFunctionOnSet(d, S) \in Nat
  BY <1>1, SumNatural
<1>4. SumFunctionOnSet(f, S) \in Int
  BY SumType
<1>. QED BY <1>2, <1>3, <1>4

LEMMA SumZero ==
  ASSUME NEW S, IsFiniteSet(S), NEW f, \A x \in S : f[x] = 0
  PROVE  SumFunctionOnSet(f, S) = 0
<1>1. SumFunctionOnSet(f, S) = SumFunctionOnSet(f, S) + SumFunctionOnSet(f, S)
  BY SumTogether
<1>2. SumFunctionOnSet(f, S) \in Int
  BY SumType
<1>3. \A n \in Int : n = n + n => n = 0
  OBVIOUS
<1>. QED BY <1>1, <1>2, <1>3

(* One of several natural numbers is not above their sum.                  *)
LEMMA SumAbove ==
  ASSUME NEW S, IsFiniteSet(S), NEW f, \A x \in S : f[x] \in Nat, NEW x \in S
  PROVE  f[x] <= SumFunctionOnSet(f, S)
<1>1. SumFunctionOnSet(f, S) = f[x] + SumFunctionOnSet(f, S \ {x})
  BY SumOneMore
<1>2. IsFiniteSet(S \ {x}) /\ \A y \in S \ {x} : f[y] \in Nat
  BY FS_Subset
<1>3. SumFunctionOnSet(f, S \ {x}) \in Nat
  BY <1>2, SumNatural
<1>. QED BY <1>1, <1>3

(* Fewer natural numbers add up to no more.                                *)
LEMMA SumSubset ==
  ASSUME NEW S, IsFiniteSet(S), NEW f, \A x \in S : f[x] \in Nat, NEW R \in SUBSET S
  PROVE  SumFunctionOnSet(f, R) <= SumFunctionOnSet(f, S)
<1>. DEFINE T == {s \in SUBSET S : \A q \in SUBSET s : SumFunctionOnSet(f, q) <= SumFunctionOnSet(f, s)}
<1>1. {} \in T
  BY SumEmpty
<1>2. ASSUME NEW s \in SUBSET S, s # {}, \A x \in s : s \ {x} \in T
      PROVE  s \in T
  <2>1. SUFFICES ASSUME NEW q \in SUBSET s
                 PROVE  SumFunctionOnSet(f, q) <= SumFunctionOnSet(f, s)
    OBVIOUS
  <2>2. IsFiniteSet(s) /\ IsFiniteSet(q) /\ \A y \in s : f[y] \in Nat
    BY FS_Subset
  <2>3. SumFunctionOnSet(f, s) \in Nat /\ SumFunctionOnSet(f, q) \in Nat
    BY <2>2, SumNatural
  <2>4. CASE q = s
    BY <2>3, <2>4
  <2>5. CASE q # s
    <3>1. PICK x \in s : x \notin q
      BY <2>5
    <3>2. SumFunctionOnSet(f, q) <= SumFunctionOnSet(f, s \ {x})
      BY <1>2, <3>1
    <3>3. SumFunctionOnSet(f, s) = f[x] + SumFunctionOnSet(f, s \ {x})
      BY <2>2, SumOneMore
    <3>4. IsFiniteSet(s \ {x}) /\ \A y \in s \ {x} : f[y] \in Nat
      BY <2>2, FS_Subset
    <3>5. SumFunctionOnSet(f, s \ {x}) \in Nat
      BY <3>4, SumNatural
    <3>6. f[x] \in Nat
      OBVIOUS
    <3>. QED BY <2>3, <3>2, <3>3, <3>5, <3>6
  <2>. QED BY <2>4, <2>5
<1>. HIDE DEF T
<1>3. \A s \in SUBSET S : s \in T
  BY <1>1, <1>2, SubsetsStepwise
<1>. QED BY <1>3 DEF T

-----------------------------------------------------------------------------
(* The largest element of a finite set of numbers.                         *)
LEMMA MaxOfFinite ==
  ASSUME NEW S, IsFiniteSet(S), S \subseteq Int, S # {}
  PROVE  Max(S) \in S /\ \A x \in S : x <= Max(S)
<1>. DEFINE T == {s \in SUBSET S : s # {} => \E x \in s : \A y \in s : y <= x}
<1>1. {} \in T
  OBVIOUS
<1>2. ASSUME NEW s \in SUBSET S, s # {}, \A x \in s : s \ {x} \in T
      PROVE  s \in T
  <2>1. PICK x \in s : TRUE
    BY <1>2
  <2>2. CASE s = {x}
    <3>1. \A y \in s : y <= x
      BY <2>2
    <3>. QED BY <2>1, <3>1
  <2>3. CASE s # {x}
    <3>1. s \ {x} # {} /\ s \ {x} \in T
      BY <1>2, <2>3
    <3>2. PICK z \in s \ {x} : \A y \in s \ {x} : y <= z
      BY <3>1
    <3>3. x \in Int /\ z \in Int /\ \A y \in s : y \in Int
      OBVIOUS
    <3>4. CASE x <= z
      BY <3>2, <3>3, <3>4
    <3>5. CASE ~(x <= z)
      <4>1. \A y \in s : y <= x
        BY <3>2, <3>3, <3>5
      <4>. QED BY <4>1
    <3>. QED BY <3>4, <3>5
  <2>. QED BY <2>2, <2>3
<1>. HIDE DEF T
<1>3. \A s \in SUBSET S : s \in T
  BY <1>1, <1>2, SubsetsStepwise
<1>4. \E x \in S : \A y \in S : y <= x
  BY <1>3 DEF T
<1>5. \E x \in S : \A y \in S : x >= y
  BY <1>4
<1>6. Max(S) \in S /\ \A y \in S : Max(S) >= y
  BY <1>5 DEF Max
<1>. QED BY <1>6
=============================================================================
