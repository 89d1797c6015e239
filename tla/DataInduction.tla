---------------------------- MODULE DataInduction ----------------------------
(* Induction over the naturals with a set in place of a predicate, and the *)
(* existence of the functions that a recursion over them defines, in the   *)
(* form that the proofs about modules Commands and Framing need.           *)
EXTENDS Integers, WellFoundedInduction, TLAPS

LEMMA LeastNatural ==
    ASSUME NEW T, T \subseteq Nat, T # {}
    PROVE  \E x \in T : \A y \in T : x <= y
<1> DEFINE R == OpToRel(<, Nat)
<1>1. IsWellFoundedOn(R, Nat)
  BY NatLessThanWellFounded
<1>2. \A x, y \in Nat : <<y, x>> \in R <=> y < x
  BY DEF OpToRel
<1> HIDE DEF R
<1>3. PICK x \in T : \A y \in T : ~ (<<y, x>> \in R)
  BY <1>1, WFMin
<1>4. ASSUME NEW y \in T
      PROVE  x <= y
  <2>1. ~ (y < x) /\ x \in Nat /\ y \in Nat
    BY <1>2, <1>3
  <2> QED
    BY <2>1
<1> QED
  BY <1>3, <1>4

LEMMA SetInduction ==
    ASSUME NEW T, 0 \in T, \A n \in Nat : n \in T => n + 1 \in T
    PROVE  Nat \subseteq T
<1> SUFFICES ASSUME Nat \ T # {} PROVE FALSE
  OBVIOUS
<1>1. PICK x \in Nat \ T : \A y \in Nat \ T : x <= y
  BY LeastNatural
<1>2. x # 0 /\ x - 1 \in Nat /\ x - 1 \in T
  BY <1>1
<1>3. (x - 1) + 1 = x
  BY <1>1
<1> QED
  BY <1>2, <1>3

(* A function by its first value and by the step from each to the next.    *)
Recurs(f, n, first, step) ==
    f[0] = first /\ \A i \in 1 .. n : f[i] = step[i][f[i - 1]]

LEMMA RecursUpTo ==
    ASSUME NEW V, NEW first \in V, NEW step \in [Nat \ {0} -> [V -> V]], NEW n \in Nat
    PROVE  \E f \in [0 .. n -> V] : Recurs(f, n, first, step)
<1> DEFINE T == {m \in Nat : \E f \in [0 .. m -> V] : Recurs(f, m, first, step)}
<1>1. 0 \in T
  <2>1. [i \in 0 .. 0 |-> first] \in [0 .. 0 -> V]
    OBVIOUS
  <2>2. Recurs([i \in 0 .. 0 |-> first], 0, first, step)
    BY DEF Recurs
  <2> QED
    BY <2>1, <2>2
<1>2. ASSUME NEW m \in Nat, m \in T
      PROVE  m + 1 \in T
  <2>1. PICK f \in [0 .. m -> V] : Recurs(f, m, first, step)
    BY <1>2
  <2> DEFINE g == [i \in 0 .. m + 1 |-> IF i <= m THEN f[i] ELSE step[m + 1][f[m]]]
  <2>2. g \in [0 .. m + 1 -> V]
    OBVIOUS
  <2>3. ASSUME NEW i \in 1 .. m + 1
        PROVE  g[i] = step[i][g[i - 1]]
    <3>1. CASE i <= m
      BY <2>1, <3>1 DEF Recurs
    <3>2. CASE i = m + 1
      BY <3>2
    <3> QED
      BY <3>1, <3>2
  <2>4. g[0] = first
    BY <2>1 DEF Recurs
  <2>5. Recurs(g, m + 1, first, step)
    BY <2>3, <2>4 DEF Recurs
  <2> QED
    BY <2>2, <2>5
<1> HIDE DEF T
<1>3. n \in T
  BY <1>1, <1>2, SetInduction
<1> QED
  BY <1>3 DEF T

LEMMA RecursOnce ==
    ASSUME NEW n \in Nat, NEW m \in Nat, NEW first, NEW step, NEW f, NEW g,
           Recurs(f, n, first, step), Recurs(g, m, first, step)
    PROVE  \A i \in Nat : i <= n /\ i <= m => f[i] = g[i]
<1> DEFINE T == {i \in Nat : i <= n /\ i <= m => f[i] = g[i]}
<1>1. 0 \in T
  BY DEF Recurs
<1>2. ASSUME NEW i \in Nat, i \in T
      PROVE  i + 1 \in T
  <2>1. CASE i + 1 <= n /\ i + 1 <= m
    <3>1. i + 1 \in 1 .. n /\ i + 1 \in 1 .. m /\ (i + 1) - 1 = i
      BY <2>1
    <3> QED
      BY <1>2, <2>1, <3>1 DEF Recurs
  <2> QED
    BY <2>1
<1> HIDE DEF T
<1>3. Nat \subseteq T
  BY <1>1, <1>2, SetInduction
<1> QED
  BY <1>3 DEF T

(* Recursion over all the naturals. *)
LEMMA RecursForEver ==
    ASSUME NEW V, NEW first \in V, NEW step \in [Nat \ {0} -> [V -> V]]
    PROVE  \E f \in [Nat -> V] : \A n \in Nat : Recurs(f, n, first, step)
<1> DEFINE upTo(n) == CHOOSE f \in [0 .. n -> V] : Recurs(f, n, first, step)
           f == [n \in Nat |-> upTo(n)[n]]
<1>1. ASSUME NEW n \in Nat
      PROVE  upTo(n) \in [0 .. n -> V] /\ Recurs(upTo(n), n, first, step)
  BY RecursUpTo, Zenon
<1> HIDE DEF upTo
<1>2. f \in [Nat -> V]
  BY <1>1
<1>3. f[0] = first
  BY <1>1 DEF Recurs
<1>4. ASSUME NEW i \in Nat \ {0}
      PROVE  f[i] = step[i][f[i - 1]]
  <2>1. i - 1 \in Nat /\ i - 1 <= i /\ i \in 1 .. i
    OBVIOUS
  <2>2. upTo(i)[i - 1] = upTo(i - 1)[i - 1]
    BY <1>1, <2>1, RecursOnce
  <2>3. upTo(i)[i] = step[i][upTo(i)[i - 1]]
    BY <1>1, <2>1 DEF Recurs
  <2> QED
    BY <2>1, <2>2, <2>3
<1> HIDE DEF f
<1>5. ASSUME NEW n \in Nat
      PROVE  Recurs(f, n, first, step)
  BY <1>3, <1>4 DEF Recurs
<1> QED
  BY <1>2, <1>5
=============================================================================
