----------------------------- MODULE Induction ------------------------------
(***************************************************************************)
(* Induction over the natural numbers, said of sets of numbers: what the   *)
(* proofs about the loops of the kernel rest on.  A loop of the code is a  *)
(* recursive function of the model, and what holds of it after every       *)
(* number of turns is the set of these numbers.                            *)
(***************************************************************************)
EXTENDS Naturals, FiniteSets, FiniteSetTheorems, WellFoundedInduction, TLAPS

(* A set of numbers has a least one.                                       *)
LEMMA LeastElement ==
    ASSUME NEW T \in SUBSET Nat, T # {}
    PROVE  \E n \in T : \A m \in T : n <= m
<1> DEFINE R == OpToRel(<, Nat)
<1>1. IsWellFoundedOn(R, Nat)
  BY NatLessThanWellFounded
<1>2. PICK n \in T : \A m \in T : <<m, n>> \notin R
  <2> HIDE DEF R
  <2> QED  BY <1>1, WFMin
<1>3. \A m \in T : ~(m < n)
  <2> SUFFICES ASSUME NEW m \in T  PROVE  ~(m < n)
    OBVIOUS
  <2>1. <<m, n>> \in Nat \X Nat
    OBVIOUS
  <2> QED  BY <1>2, <2>1 DEF OpToRel
<1> QED  BY <1>3

(* A set of pairs of numbers has a first one.                              *)
LEMMA LeastPair ==
    ASSUME NEW slots \in SUBSET (Nat \X Nat), slots # {}
    PROVE  \E a \in slots : \A b \in slots : a[1] < b[1] \/ (a[1] = b[1] /\ a[2] <= b[2])
<1>1. \A a \in slots : a[1] \in Nat /\ a[2] \in Nat /\ a = <<a[1], a[2]>>
  OBVIOUS
<1> DEFINE rows(i) == {a[2] : a \in {b \in slots : b[1] = i}}
           firsts  == {a[1] : a \in slots}
<1>2. PICK i \in firsts : \A j \in firsts : i <= j
  <2>1. firsts \in SUBSET Nat /\ firsts # {}
    BY <1>1
  <2> HIDE DEF firsts
  <2> QED  BY <2>1, LeastElement
<1>3. PICK k \in rows(i) : \A l \in rows(i) : k <= l
  <2>1. rows(i) \in SUBSET Nat /\ rows(i) # {}
    BY <1>1, <1>2
  <2> HIDE DEF rows
  <2> QED  BY <2>1, LeastElement
<1>4. PICK a \in slots : a[1] = i /\ a[2] = k
  BY <1>3
<1>5. ASSUME NEW b \in slots  PROVE a[1] < b[1] \/ (a[1] = b[1] /\ a[2] <= b[2])
  <2>1. i <= b[1] /\ (b[1] = i => k <= b[2])
    BY <1>2, <1>3
  <2>2. i \in Nat /\ b[1] \in Nat
    BY <1>1, <1>4
  <2> QED  BY <1>4, <2>1, <2>2
<1> QED  BY <1>5

(* Induction up to a bound.                                                *)
LEMMA Induction ==
    ASSUME NEW size \in Nat, NEW S, 0 \in S,
           \A n \in 1..size : n - 1 \in S => n \in S
    PROVE  0..size \subseteq S
<1> DEFINE T == (0..size) \ S
<1>1. ASSUME T # {}  PROVE FALSE
  <2>1. PICK n \in T : \A m \in T : n <= m
    <3>1. T \in SUBSET Nat
      OBVIOUS
    <3> HIDE DEF T
    <3> QED  BY <1>1, <3>1, LeastElement
  <2>2. n \in 1..size /\ n - 1 \in 0..size /\ n - 1 \notin T
    BY <2>1
  <2> QED  BY <2>1, <2>2
<1> QED  BY <1>1

(* What a loop that starts with first and makes the steps next[1], next[2] *)
(* and so on is at after each of size turns.                               *)
Turns(g, size, first, next) ==
    g[0] = first /\ \A n \in 1..size : g[n] = next[n][g[n - 1]]

(* A loop of size turns has a result after each of them: a recursive       *)
(* function on 0..size whose steps stay in a set exists.                   *)
LEMMA Iteration ==
    ASSUME NEW size \in Nat, NEW V, NEW first \in V, NEW next \in [1..size -> [V -> V]]
    PROVE  \E g \in [0..size -> V] : Turns(g, size, first, next)
<1> DEFINE Solves(k, g) == g \in [0..k -> V] /\ Turns(g, k, first, next)
           S == {k \in 0..size : \E g : Solves(k, g)}
<1>1. 0 \in S
  <2> DEFINE g == [n \in 0..0 |-> first]
  <2>1. Solves(0, g)
    BY DEF Turns
  <2> QED  BY <2>1
<1>2. ASSUME NEW k \in 1..size, k - 1 \in S  PROVE k \in S
  <2>1. PICK g : Solves(k - 1, g)
    BY <1>2
  <2> DEFINE h == [n \in 0..k |-> IF n = k THEN next[k][g[k - 1]] ELSE g[n]]
  <2>2. h \in [0..k -> V] /\ h[0] = first
    BY <2>1 DEF Turns
  <2>3. ASSUME NEW n \in 1..k  PROVE h[n] = next[n][h[n - 1]]
    <3>1. h[n - 1] = g[n - 1]
      OBVIOUS
    <3>2. n # k => h[n] = g[n] /\ g[n] = next[n][g[n - 1]]
      BY <2>1 DEF Turns
    <3> QED  BY <3>1, <3>2
  <2>4. Solves(k, h)
    <3> HIDE DEF h
    <3> QED  BY <2>2, <2>3 DEF Turns
  <2> HIDE DEF h, Solves
  <2> QED  BY <2>4
<1>3. size \in S
  <2>1. size \in 0..size
    OBVIOUS
  <2>2. 0..size \subseteq S
    <3> HIDE DEF S
    <3> QED  BY <1>1, <1>2, Induction
  <2> QED  BY <2>1, <2>2
<1> QED  BY <1>3

(* A set of numbers with a bound has a greatest one.                       *)
LEMMA GreatestElement ==
    ASSUME NEW size \in Nat, NEW T \in SUBSET (0..size), T # {}
    PROVE  \E n \in T : \A m \in T : m <= n
<1> DEFINE D == {size - n : n \in T}
<1>1. D \in SUBSET Nat /\ D # {}
  <2>1. \A n \in T : size - n \in Nat
    OBVIOUS
  <2>2. PICK n \in T : TRUE
    OBVIOUS
  <2>3. size - n \in D
    OBVIOUS
  <2> QED  BY <2>1, <2>3
<1>2. PICK d \in D : \A m \in D : d <= m
  <2> HIDE DEF D
  <2> QED  BY <1>1, LeastElement
<1>3. PICK n \in T : d = size - n
  BY <1>2
<1>4. ASSUME NEW m \in T  PROVE m <= n
  <2>1. size - m \in D
    OBVIOUS
  <2> QED  BY <1>2, <1>3, <2>1
<1> QED  BY <1>4

(* More places than values: two of them have the same value.               *)
LEMMA Pigeonhole ==
    ASSUME NEW size \in Nat, NEW f \in [0..size -> 0..size - 1]
    PROVE  \E i, j \in 0..size : i < j /\ f[i] = f[j]
<1>1. IsFiniteSet(0..size - 1) /\ Cardinality(0..size - 1) = size
  <2>1. 0 \in Int /\ size - 1 \in Int
    OBVIOUS
  <2>2. CASE size = 0
    BY <2>1, <2>2, FS_Interval
  <2>3. CASE size # 0
    BY <2>1, <2>3, FS_Interval
  <2> QED  BY <2>2, <2>3
<1>2. Cardinality(0..size) = size + 1
  BY FS_Interval
<1>3. PICK i \in 0..size, j \in 0..size : i # j /\ f[i] = f[j]
  <2>1. IsFiniteSet(0..size)
    BY FS_Interval
  <2>2. Cardinality(0..size - 1) < Cardinality(0..size)
    BY <1>1, <1>2
  <2> QED  BY <1>1, <2>1, <2>2, FS_PigeonHole
<1> QED  BY <1>3
=============================================================================
