--------------------------- MODULE InductionFacts ---------------------------
(***************************************************************************)
(* Induction and recursion over the naturals in first-order form, for the    *)
(* proofs about sequences that a model computes element by element.          *)
(***************************************************************************)
EXTENDS Integers, WellFoundedInduction, TLAPS

\* A set that holds 0, and with every number its successor, holds all of Nat.
LEMMA NatSetInduction ==
    ASSUME NEW T, 0 \in T, \A n \in Nat : n \in T => n + 1 \in T
    PROVE  Nat \subseteq T
<1> DEFINE R == {ss \in Nat \X Nat : ss[1] < ss[2]}
<1> SUFFICES ASSUME Nat \ T # {} PROVE FALSE
  OBVIOUS
<1>1. IsWellFoundedOn(R, Nat)
  BY NatLessThanWellFounded DEF OpToRel
<1> HIDE DEF R
<1>2. PICK x \in Nat \ T : \A y \in Nat \ T : <<y, x>> \notin R
  BY <1>1, WFMin, Zenon
<1>3. x # 0 /\ x - 1 \in Nat /\ x \in Nat
  BY <1>2
<1>4. <<x - 1, x>> \in R
  BY <1>3 DEF R
<1>5. x - 1 \in T
  BY <1>2, <1>3, <1>4
<1>. QED
  BY <1>2, <1>3, <1>5

\* g takes the value q at 0 and goes on by F, up to n.
IsRecursion(g, n, q, F) == g = [k \in 0..n |-> IF k = 0 THEN q ELSE F[k][g[k - 1]]]

\* Such a g exists, within any set A that F does not leave.
LEMMA RecursionExists ==
    ASSUME NEW n \in Nat, NEW A, NEW q \in A, NEW F \in [1..n -> [A -> A]]
    PROVE  \E g \in [0..n -> A] : IsRecursion(g, n, q, F)
<1> DEFINE Exists(k) == \E g \in [0..k -> A] : IsRecursion(g, k, q, F)
           T == {k \in Nat : k <= n => Exists(k)}
<1>1. Exists(0)
  <2> DEFINE g == [k \in 0..0 |-> q]
  <2>1. g \in [0..0 -> A] /\ IsRecursion(g, 0, q, F)
    BY DEF IsRecursion
  <2>. QED
    BY <2>1
<1>2. ASSUME NEW k \in Nat, k + 1 <= n, Exists(k) PROVE Exists(k + 1)
  <2>1. PICK g \in [0..k -> A] : IsRecursion(g, k, q, F)
    BY <1>2
  <2> DEFINE h == [i \in 0..(k + 1) |-> IF i = k + 1 THEN F[k + 1][g[k]] ELSE g[i]]
  <2>2. k + 1 \in 1..n /\ k \in 0..k
    BY <1>2
  <2>3. h \in [0..(k + 1) -> A]
    BY <2>2
  <2>4. \A i \in 0..k : h[i] = g[i]
    OBVIOUS
  <2>5. h[k + 1] = F[k + 1][g[k]]
    OBVIOUS
  <2>6. \A i \in 0..k : g[i] = IF i = 0 THEN q ELSE F[i][g[i - 1]]
    BY <2>1 DEF IsRecursion
  <2> HIDE DEF h
  <2>7. ASSUME NEW i \in 0..(k + 1) PROVE h[i] = IF i = 0 THEN q ELSE F[i][h[i - 1]]
    <3>1. CASE i = k + 1
      <4>1. h[k] = g[k] /\ i - 1 = k /\ i # 0
        BY <2>2, <2>4, <3>1
      <4>. QED
        BY <2>5, <3>1, <4>1
    <3>2. CASE i \in 0..k
      <4>1. i # 0 => i - 1 \in 0..k
        BY <3>2
      <4>. QED
        BY <2>4, <2>6, <3>2, <4>1
    <3>. QED
      BY <3>1, <3>2
  <2>8. IsRecursion(h, k + 1, q, F)
    BY <2>3, <2>7 DEF IsRecursion
  <2>. QED
    BY <2>3, <2>8
<1> HIDE DEF Exists
<1>3. 0 \in T /\ \A k \in Nat : k \in T => k + 1 \in T
  BY <1>1, <1>2
<1> HIDE DEF T
<1>4. n \in T
  BY <1>3, NatSetInduction
<1>. QED
  BY <1>4 DEF T, Exists

\* A function that goes on by F stays in A.
LEMMA RecursionStays ==
    ASSUME NEW n \in Nat, NEW A, NEW F \in [1..n -> [A -> A]], NEW h, h[0] \in A,
           \A k \in 1..n : h[k - 1] \in A => h[k] = F[k][h[k - 1]]
    PROVE  \A k \in 0..n : h[k] \in A
<1> DEFINE T == {k \in Nat : k <= n => h[k] \in A}
<1>1. 0 \in T
  OBVIOUS
<1>2. ASSUME NEW k \in Nat, k \in T PROVE k + 1 \in T
  <2> SUFFICES ASSUME k + 1 <= n PROVE h[k + 1] \in A
    OBVIOUS
  <2>1. k + 1 \in 1..n /\ (k + 1) - 1 = k /\ h[k] \in A
    BY <1>2
  <2>2. h[k + 1] = F[k + 1][h[k]]
    BY <2>1
  <2>. QED
    BY <2>1, <2>2
<1> HIDE DEF T
<1>3. Nat \subseteq T
  BY <1>1, <1>2, NatSetInduction
<1>. QED
  BY <1>3 DEF T
=============================================================================
