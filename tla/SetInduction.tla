--------------------------- MODULE SetInduction ---------------------------
(***************************************************************************)
(* Induction and recursion over the natural numbers, stated for sets and   *)
(* functions, so that they can be cited for what a loop of the code has    *)
(* done after i turns.                                                     *)
(***************************************************************************)
EXTENDS Integers, FiniteSets, FiniteSetTheorems, WellFoundedInduction, TLAPS

(* A set of indexes up to n is finite.                                     *)
LEMMA IndexesFinite ==
  ASSUME NEW n \in Nat, NEW ks \in SUBSET (1 .. n) PROVE IsFiniteSet(ks)
<1>1. IsFiniteSet(1 .. n)
  BY FS_Interval
<1> QED
  BY <1>1, FS_Subset

(* A nonempty set of indexes has a least one.                              *)
LEMMA LeastIndex ==
  ASSUME NEW n \in Nat, NEW ks \in SUBSET (1 .. n), ks # {}
  PROVE  \E k \in ks : \A l \in ks : k <= l
<1> DEFINE below(x) == {y \in ks : y < x}
           family == {below(x) : x \in ks}
<1>0. ks \subseteq Int
  OBVIOUS
<1>1. IsFiniteSet(ks)
  BY IndexesFinite
<1>2. family \subseteq FiniteSubsetsOf(ks) /\ family # {}
  <2>1. \A k \in ks : below(k) \in SUBSET ks
    OBVIOUS
  <2>2. \A x \in SUBSET ks : x \in FiniteSubsetsOf(ks)
    BY <1>1, FS_Subset DEF FiniteSubsetsOf
  <2> HIDE DEF below
  <2> QED
    BY <2>1, <2>2
<1>3. IsWellFoundedOn(StrictSubsetOrdering(ks), FiniteSubsetsOf(ks))
  BY FS_StrictSubsetOrderingWellFounded
<1>4. PICK k \in ks : \A l \in ks : <<below(l), below(k)>> \notin StrictSubsetOrdering(ks)
  <2> HIDE DEF below
  <2>1. \E x \in family : \A y \in family : <<y, x>> \notin StrictSubsetOrdering(ks)
    <3> HIDE DEF family
    <3> QED
      BY <1>2, <1>3, WFMin
  <2> QED
    BY <2>1
<1>5. ASSUME NEW l \in ks, l < k PROVE FALSE
  <2>0. k \in ks /\ l \in ks /\ k \in Int /\ l \in Int /\ l < k /\ \A x \in ks : x \in Int
    BY <1>0, <1>4, <1>5
  <2>1. below(l) \subseteq below(k) /\ l \in below(k) /\ l \notin below(l)
    <3>1. l \in below(k) /\ l \notin below(l)
      BY <2>0
    <3>2. ASSUME NEW x \in below(l) PROVE x \in below(k)
      <4>1. x \in ks /\ x \in Int /\ x < l
        BY <2>0
      <4> QED
        BY <2>0, <4>1
    <3> QED
      BY <3>1, <3>2
  <2>2. below(l) \in SUBSET ks /\ below(k) \in SUBSET ks
    OBVIOUS
  <2> HIDE DEF below
  <2> QED
    BY <1>4, <2>1, <2>2 DEF StrictSubsetOrdering
<1> QED
  BY <1>5

(* A set of numbers that holds 0 and with each number below n the next one *)
(* holds all numbers up to n.                                              *)
LEMMA InductionUpTo ==
  ASSUME NEW n \in Nat, NEW P, 0 \in P, \A k \in 0 .. n - 1 : k \in P => k + 1 \in P
  PROVE  \A k \in 0 .. n : k \in P
<1> SUFFICES ASSUME NEW m \in 0 .. n, m \notin P PROVE FALSE
  OBVIOUS
<1> DEFINE ks == {k \in 1 .. n : k \notin P}
<1>1. m \in ks
  OBVIOUS
<1>2. PICK k \in ks : \A l \in ks : k <= l
  BY <1>1, LeastIndex
<1>3. k - 1 \in 0 .. n - 1 /\ k - 1 \notin ks
  BY <1>2
<1>4. k - 1 \in P
  BY <1>3
<1>5. k - 1 + 1 \in P
  BY <1>3, <1>4
<1> QED BY <1>2, <1>5

(* g starts with b, and F gives each of the next n values from the one     *)
(* before it.                                                              *)
Follows(g, n, b, F) == g[0] = b /\ \A i \in 1 .. n : g[i] = F[<<i, g[i - 1]>>]

(* Recursion: a first value and a step make a function on 0 .. n.          *)
LEMMA RecursionUpTo ==
  ASSUME NEW n \in Nat, NEW V, NEW b \in V, NEW F \in [(1 .. n) \X V -> V]
  PROVE  \E g \in [0 .. n -> V] : Follows(g, n, b, F)
<1> DEFINE P == {k \in 0 .. n : \E g \in [0 .. k -> V] : Follows(g, k, b, F)}
<1>1. 0 \in P
  <2> DEFINE g == [i \in 0 .. 0 |-> b]
  <2>1. g \in [0 .. 0 -> V] /\ Follows(g, 0, b, F)
    BY DEF Follows
  <2> HIDE DEF g
  <2> QED BY <2>1
<1>2. ASSUME NEW k \in 0 .. n - 1, k \in P PROVE k + 1 \in P
  <2>1. PICK g \in [0 .. k -> V] : Follows(g, k, b, F)
    BY <1>2
  <2> DEFINE h == [i \in 0 .. k + 1 |-> IF i = k + 1 THEN F[<<k + 1, g[k]>>] ELSE g[i]]
  <2>2. F[<<k + 1, g[k]>>] \in V
    <3>1. g[k] \in V /\ k + 1 \in 1 .. n
      OBVIOUS
    <3> QED BY <3>1
  <2>3. h \in [0 .. k + 1 -> V]
    BY <2>2
  <2>4. h[0] = b
    BY <2>1 DEF Follows
  <2>5. ASSUME NEW i \in 1 .. k + 1 PROVE h[i] = F[<<i, h[i - 1]>>]
    <3>1. h[i - 1] = g[i - 1]
      OBVIOUS
    <3>2. CASE i = k + 1
      <4>1. i - 1 = k /\ h[i] = F[<<i, g[k]>>]
        BY <3>2
      <4> QED BY <3>1, <4>1
    <3>3. CASE i # k + 1
      <4>1. i \in 1 .. k /\ h[i] = g[i]
        BY <3>3
      <4> QED BY <2>1, <3>1, <4>1 DEF Follows
    <3> QED BY <3>2, <3>3
  <2>6. Follows(h, k + 1, b, F)
    BY <2>4, <2>5 DEF Follows
  <2>7. k + 1 \in 0 .. n
    OBVIOUS
  <2> HIDE DEF h
  <2> QED BY <2>3, <2>6, <2>7
<1>3. n \in P
  <2> HIDE DEF P
  <2>1. \A k \in 0 .. n : k \in P
    BY <1>1, <1>2, InductionUpTo
  <2> QED BY <2>1
<1> QED BY <1>3
===========================================================================
