-------------------------- MODULE EngineLoop_proofs --------------------------
(***************************************************************************)
(* What paces the engine and what a tick does.  TickLoop: the queues of a    *)
(* tick, for every number of ticks, edits and passes.  Scheduler:            *)
(* CatchUpIsExact for every number of nodes, rates and edits, and every      *)
(* limit of the catch-up.                                                    *)
(***************************************************************************)
EXTENDS TickLoop, Scheduler, InductionFacts, FiniteSetTheorems, SequenceTheorems

-----------------------------------------------------------------------------
(* TickLoop.                                                               *)

(* The queue operators, computed element by element.                        *)

Elems(s) == {s[i] : i \in 1..Len(s)}

\* o consists of the elements of q[1..k] whose kind is in K, at the places m.
PicksKind(m, o, q, k, K) ==
    /\ m \in [1..Len(o) -> 1..k]
    /\ \A i, j \in 1..Len(o) : i < j => m[i] < m[j]
    /\ \A j \in 1..Len(o) : o[j] = q[m[j]] /\ q[m[j]].kind \in K
    /\ \A i \in 1..k : q[i].kind \in K => \E j \in 1..Len(o) : m[j] = i

\* h holds what OfKind has kept after each element of q.
KeepsOfKind(h, q, K) ==
    /\ h[0] = <<>>
    /\ \A k \in 1..Len(q) : h[k] = IF q[k].kind \in K THEN Append(h[k - 1], q[k]) ELSE h[k - 1]
    /\ OfKind(q, K) = h[Len(q)]

LEMMA OfKindSteps ==
    ASSUME NEW A, NEW q \in Seq(A), NEW K
    PROVE  \E h \in [0..Len(q) -> Seq(A)] : KeepsOfKind(h, q, K)
<1> DEFINE n == Len(q)
           Step(k, a) == IF q[k].kind \in K THEN Append(a, q[k]) ELSE a
           Steps(h) == h = [k \in 0..n |-> IF k = 0 THEN <<>> ELSE Step(k, h[k - 1])]
           h == CHOOSE h : Steps(h)
           F == [k \in 1..n |-> [a \in Seq(A) |-> Step(k, a)]]
<1>1. n \in Nat
  OBVIOUS
<1>2. \A k \in 1..n, a \in Seq(A) : Step(k, a) \in Seq(A)
  OBVIOUS
<1>3. F \in [1..n -> [Seq(A) -> Seq(A)]]
  BY <1>2
<1>4. \A k \in 1..n, a \in Seq(A) : F[k][a] = Step(k, a)
  OBVIOUS
<1>5. OfKind(q, K) = h[n]
  BY DEF OfKind
<1>6. <<>> \in Seq(A)
  OBVIOUS
<1> HIDE DEF n, F, Step, h
<1>7. PICK g \in [0..n -> Seq(A)] : IsRecursion(g, n, <<>>, F)
  BY <1>1, <1>3, <1>6, RecursionExists
<1>8. ASSUME NEW k \in 0..n PROVE g[k] = IF k = 0 THEN <<>> ELSE Step(k, g[k - 1])
  <2>1. k # 0 => k \in 1..n /\ k - 1 \in 0..n
    BY <1>1
  <2>2. g[k] = IF k = 0 THEN <<>> ELSE F[k][g[k - 1]]
    BY <1>7 DEF IsRecursion
  <2>. QED
    BY <1>4, <1>7, <2>1, <2>2
<1>9. Steps(g)
  BY <1>7, <1>8
<1>10. Steps(h)
  BY <1>9 DEF h
<1> DEFINE T == {k \in Nat : k <= n => h[k] \in Seq(A)}
<1>11. 0 \in T
  BY <1>1, <1>6, <1>10
<1>12. ASSUME NEW k \in Nat, k \in T PROVE k + 1 \in T
  <2> SUFFICES ASSUME k + 1 <= n PROVE h[k + 1] \in Seq(A)
    OBVIOUS
  <2>1. k + 1 \in 1..n /\ k + 1 \in 0..n /\ h[k] \in Seq(A) /\ (k + 1) - 1 = k
    BY <1>1, <1>12
  <2>2. h[k + 1] = Step(k + 1, h[(k + 1) - 1])
    BY SMTT(20), <1>1, <1>10, <2>1
  <2>. QED
    BY <1>2, <2>1, <2>2
<1> HIDE DEF T
<1>13. Nat \subseteq T
  BY <1>11, <1>12, NatSetInduction
<1>14. h \in [0..n -> Seq(A)]
  <2>1. \A k \in 0..n : h[k] \in Seq(A)
    BY <1>1, <1>13 DEF T
  <2>. QED
    BY <1>10, <2>1
<1>15. h[0] = <<>> /\ \A k \in 1..n : h[k] = Step(k, h[k - 1])
  BY <1>1, <1>10
<1>. QED
  BY <1>5, <1>14, <1>15 DEF n, Step, KeepsOfKind

\* OfKind keeps exactly the elements of these kinds, in their order.
LEMMA OfKindPicks ==
    ASSUME NEW A, NEW q \in Seq(A), NEW K
    PROVE  /\ OfKind(q, K) \in Seq(A)
           /\ \E m : PicksKind(m, OfKind(q, K), q, Len(q), K)
<1>1. PICK h \in [0..Len(q) -> Seq(A)] : KeepsOfKind(h, q, K)
  BY OfKindSteps
<1> DEFINE Done(k) == \E m : PicksKind(m, h[k], q, k, K)
           T == {k \in Nat : k <= Len(q) => Done(k)}
<1>2. Done(0)
  <2>1. PicksKind(<<>>, h[0], q, 0, K)
    BY <1>1 DEF PicksKind, KeepsOfKind
  <2>. QED
    BY <2>1
<1>3. ASSUME NEW k \in Nat, k + 1 <= Len(q), Done(k) PROVE Done(k + 1)
  <2>1. PICK m : PicksKind(m, h[k], q, k, K)
    BY <1>3
  <2>2. k + 1 \in 1..Len(q) /\ k \in 0..Len(q) /\ h[k] \in Seq(A) /\ q[k + 1] \in A
    BY <1>3
  <2>3. h[k + 1] = IF q[k + 1].kind \in K THEN Append(h[k], q[k + 1]) ELSE h[k]
    <3>1. (k + 1) - 1 = k
      OBVIOUS
    <3>. QED
      BY <1>1, <2>2, <3>1 DEF KeepsOfKind
  <2> DEFINE l == Len(h[k])
  <2>4. l \in Nat /\ l + 1 \in 1..(l + 1) /\ \A j \in 1..(l + 1) : j = l + 1 \/ j \in 1..l
    BY <2>2
  <2>5. CASE q[k + 1].kind \in K
    <3> DEFINE o == Append(h[k], q[k + 1])
               w == [j \in 1..(l + 1) |-> IF j = l + 1 THEN k + 1 ELSE m[j]]
    <3>1. Len(o) = l + 1 /\ o[l + 1] = q[k + 1] /\ \A j \in 1..l : o[j] = h[k][j]
      BY <2>2
    <3>2. w[l + 1] = k + 1 /\ \A j \in 1..l : w[j] = m[j]
      BY <2>4
    <3>3. w \in [1..(l + 1) -> 1..(k + 1)]
      BY <2>1, <2>4 DEF PicksKind
    <3>p. /\ m \in [1..l -> 1..k]
          /\ \A i, j \in 1..l : i < j => m[i] < m[j]
          /\ \A j \in 1..l : h[k][j] = q[m[j]] /\ q[m[j]].kind \in K
      BY <2>1 DEF PicksKind
    <3> HIDE DEF w, o, l
    <3>4. ASSUME NEW i \in 1..(l + 1), NEW j \in 1..(l + 1), i < j PROVE w[i] < w[j]
      <4>1. i \in 1..l /\ w[i] = m[i] /\ m[i] \in 1..k
        BY <2>4, <3>2, <3>4, <3>p
      <4>2. CASE j = l + 1
        BY <3>2, <4>1, <4>2
      <4>3. CASE j \in 1..l
        BY <3>2, <3>4, <3>p, <4>1, <4>3
      <4>. QED
        BY <2>4, <4>2, <4>3
    <3>5. \A j \in 1..(l + 1) : o[j] = q[w[j]] /\ q[w[j]].kind \in K
      BY <2>4, <2>5, <3>1, <3>2, <3>p
    <3>6. ASSUME NEW i \in 1..(k + 1), q[i].kind \in K PROVE \E j \in 1..(l + 1) : w[j] = i
      <4>1. CASE i = k + 1
        BY <2>4, <3>2, <4>1
      <4>2. CASE i \in 1..k
        <5>1. PICK j \in 1..l : m[j] = i
          BY <2>1, <3>6, <4>2 DEF PicksKind, l
        <5>. QED
          BY <2>4, <3>2, <5>1
      <4>. QED
        BY <4>1, <4>2
    <3>7. PicksKind(w, o, q, k + 1, K)
      BY <3>1, <3>3, <3>4, <3>5, <3>6 DEF PicksKind
    <3>. QED
      BY <2>3, <2>5, <3>7 DEF o, l
  <2>6. CASE q[k + 1].kind \notin K
    <3>1. m \in [1..l -> 1..(k + 1)] /\ \A i \in 1..(k + 1) : q[i].kind \in K => i \in 1..k
      BY <2>1, <2>4, <2>6 DEF PicksKind
    <3>2. PicksKind(m, h[k], q, k + 1, K)
      BY <2>1, <3>1 DEF PicksKind
    <3>. QED
      BY <2>3, <2>6, <3>2
  <2>. QED
    BY <2>5, <2>6
<1> HIDE DEF Done
<1>4. 0 \in T /\ \A k \in Nat : k \in T => k + 1 \in T
  BY <1>2, <1>3
<1> HIDE DEF T
<1>5. Len(q) \in T
  BY <1>4, NatSetInduction
<1>6. Done(Len(q))
  BY <1>5 DEF T
<1>. QED
  BY <1>1, <1>6 DEF Done, KeepsOfKind

\* Two edits of a thread stand in the order they were sent, and no edit
\* stands twice.
Precedes(x, y) == x.id # y.id /\ (x.from = "thread" /\ y.from = "thread" => x.id < y.id)
Before(s, t) == \A x \in Elems(s), y \in Elems(t) : Precedes(x, y)
Tidy(s) == \A i, j \in 1..Len(s) : i < j => Precedes(s[i], s[j])

LEMMA PushEditType ==
    ASSUME NEW A, NEW q \in Seq(A), NEW e \in A
    PROVE  PushEdit(q, e) \in Seq(A)
<1>1. OfKind(q, EditKinds \ {"set"}) \in Seq(A)
  BY OfKindPicks
<1>. QED
  BY <1>1 DEF PushEdit

LEMMA TidyAppend ==
    ASSUME NEW A, NEW s \in Seq(A), NEW e \in A,
           Tidy(s), \A i \in 1..Len(s) : Precedes(s[i], e)
    PROVE  Tidy(Append(s, e))
<1> DEFINE t == Append(s, e)
<1>1. Len(t) = Len(s) + 1 /\ t[Len(s) + 1] = e /\ \A i \in 1..Len(s) : t[i] = s[i]
  OBVIOUS
<1>2. Len(s) \in Nat
  OBVIOUS
<1> HIDE DEF t
<1>3. ASSUME NEW i \in 1..Len(t), NEW j \in 1..Len(t), i < j PROVE Precedes(t[i], t[j])
  <2>1. i \in 1..Len(s) /\ (j = Len(s) + 1 \/ j \in 1..Len(s))
    BY <1>1, <1>2, <1>3
  <2>. QED
    BY <1>1, <1>3, <2>1 DEF Tidy
<1>. QED
  BY <1>3 DEF Tidy, t

LEMMA TidyOfKind ==
    ASSUME NEW A, NEW q \in Seq(A), NEW K, Tidy(q)
    PROVE  Tidy(OfKind(q, K))
<1> DEFINE o == OfKind(q, K)
<1>1. PICK m : PicksKind(m, o, q, Len(q), K)
  BY OfKindPicks
<1> HIDE DEF o
<1>2. ASSUME NEW i \in 1..Len(o), NEW j \in 1..Len(o), i < j PROVE Precedes(o[i], o[j])
  <2>1. m[i] \in 1..Len(q) /\ m[j] \in 1..Len(q) /\ m[i] < m[j]
    BY <1>1, <1>2 DEF PicksKind
  <2>2. o[i] = q[m[i]] /\ o[j] = q[m[j]]
    BY <1>1, <1>2 DEF PicksKind
  <2>. QED
    BY <2>1, <2>2 DEF Tidy
<1>. QED
  BY <1>2 DEF Tidy, o

LEMMA ElemsOfKind ==
    ASSUME NEW A, NEW q \in Seq(A), NEW K
    PROVE  Elems(OfKind(q, K)) = {x \in Elems(q) : x.kind \in K}
<1> DEFINE o == OfKind(q, K)
<1>1. PICK m : PicksKind(m, o, q, Len(q), K)
  BY OfKindPicks
<1> HIDE DEF o
<1>2. \A j \in 1..Len(o) : m[j] \in 1..Len(q) /\ o[j] = q[m[j]] /\ q[m[j]].kind \in K
  BY <1>1 DEF PicksKind
<1>3. \A i \in 1..Len(q) : q[i].kind \in K => \E j \in 1..Len(o) : o[j] = q[i]
  BY <1>1 DEF PicksKind
<1>4. Elems(o) \subseteq {x \in Elems(q) : x.kind \in K}
  BY <1>2 DEF Elems
<1>5. {x \in Elems(q) : x.kind \in K} \subseteq Elems(o)
  BY <1>3 DEF Elems
<1>. QED
  BY <1>4, <1>5 DEF o

LEMMA ElemsAppend ==
    ASSUME NEW A, NEW s \in Seq(A), NEW e \in A
    PROVE  Elems(Append(s, e)) = Elems(s) \cup {e}
<1> DEFINE t == Append(s, e)
<1>1. Len(t) = Len(s) + 1 /\ t[Len(s) + 1] = e /\ \A i \in 1..Len(s) : t[i] = s[i]
  OBVIOUS
<1>2. Len(s) \in Nat
  OBVIOUS
<1> HIDE DEF t
<1>3. \A i \in 1..Len(t) : i = Len(s) + 1 \/ i \in 1..Len(s)
  BY <1>1, <1>2
<1>4. \A i \in 1..Len(s) : i \in 1..Len(t)
  BY <1>1, <1>2
<1>5. Len(s) + 1 \in 1..Len(t)
  BY <1>1, <1>2
<1>6. Elems(t) \subseteq Elems(s) \cup {e}
  BY <1>1, <1>3 DEF Elems
<1>7. Elems(s) \cup {e} \subseteq Elems(t)
  BY <1>1, <1>4, <1>5 DEF Elems
<1>. QED
  BY <1>6, <1>7 DEF t

\* Pushing keeps what stands in a queue in order, and brings in one edit.
LEMMA PushEditTidy ==
    ASSUME NEW A, NEW q \in Seq(A), NEW e \in A,
           Tidy(q), \A x \in Elems(q) : Precedes(x, e)
    PROVE  /\ Tidy(PushEdit(q, e))
           /\ Elems(PushEdit(q, e)) \subseteq Elems(q) \cup {e}
           /\ e \in Elems(PushEdit(q, e))
<1> DEFINE s == IF e.kind = "set" THEN OfKind(q, EditKinds \ {"set"}) ELSE q
<1>1. s \in Seq(A) /\ Tidy(s)
  BY OfKindPicks, TidyOfKind
<1>2. Elems(s) \subseteq Elems(q)
  BY ElemsOfKind
<1> HIDE DEF s
<1>3. \A i \in 1..Len(s) : Precedes(s[i], e)
  BY <1>2 DEF Elems
<1>4. Tidy(Append(s, e)) /\ Elems(Append(s, e)) = Elems(s) \cup {e}
  BY <1>1, <1>3, TidyAppend, ElemsAppend
<1>. QED
  BY <1>2, <1>4 DEF PushEdit, s

\* h holds the queue after each edit QueuedAll has pushed.
KeepsQueue(h, q, es) ==
    /\ h[0] = q
    /\ \A k \in 1..Len(es) : h[k] = PushEdit(h[k - 1], es[k])
    /\ QueuedAll(q, es) = h[Len(es)]

LEMMA QueuedAllSteps ==
    ASSUME NEW A, NEW q \in Seq(A), NEW es \in Seq(A)
    PROVE  \E h \in [0..Len(es) -> Seq(A)] : KeepsQueue(h, q, es)
<1> DEFINE n == Len(es)
           Steps(h) == h = [k \in 0..n |-> IF k = 0 THEN q ELSE PushEdit(h[k - 1], es[k])]
           h == CHOOSE h : Steps(h)
           F == [k \in 1..n |-> [a \in Seq(A) |-> PushEdit(a, es[k])]]
<1>1. n \in Nat
  OBVIOUS
<1>2. \A k \in 1..n, a \in Seq(A) : PushEdit(a, es[k]) \in Seq(A)
  BY PushEditType
<1>3. F \in [1..n -> [Seq(A) -> Seq(A)]]
  BY <1>2
<1>4. \A k \in 1..n, a \in Seq(A) : F[k][a] = PushEdit(a, es[k])
  OBVIOUS
<1>5. QueuedAll(q, es) = h[n]
  BY DEF QueuedAll
<1> HIDE DEF n, F, h
<1>6. PICK g \in [0..n -> Seq(A)] : IsRecursion(g, n, q, F)
  BY <1>1, <1>3, RecursionExists
<1>7. ASSUME NEW k \in 0..n PROVE g[k] = IF k = 0 THEN q ELSE PushEdit(g[k - 1], es[k])
  <2>1. k # 0 => k \in 1..n /\ k - 1 \in 0..n
    BY <1>1
  <2>2. g[k] = IF k = 0 THEN q ELSE F[k][g[k - 1]]
    BY <1>6 DEF IsRecursion
  <2>. QED
    BY <1>4, <1>6, <2>1, <2>2
<1>8. Steps(g)
  BY <1>6, <1>7
<1>9. Steps(h)
  BY <1>8 DEF h
<1> DEFINE T == {k \in Nat : k <= n => h[k] \in Seq(A)}
<1>10. 0 \in T
  BY <1>1, <1>9
<1>11. ASSUME NEW k \in Nat, k \in T PROVE k + 1 \in T
  <2> SUFFICES ASSUME k + 1 <= n PROVE h[k + 1] \in Seq(A)
    OBVIOUS
  <2>1. k + 1 \in 1..n /\ k + 1 \in 0..n /\ h[k] \in Seq(A) /\ (k + 1) - 1 = k
    BY <1>1, <1>11
  <2>2. h[k + 1] = PushEdit(h[(k + 1) - 1], es[k + 1])
    BY SMTT(20), <1>1, <1>9, <2>1
  <2>. QED
    BY <1>2, <2>1, <2>2
<1> HIDE DEF T
<1>12. Nat \subseteq T
  BY <1>10, <1>11, NatSetInduction
<1>13. h \in [0..n -> Seq(A)]
  <2>1. \A k \in 0..n : h[k] \in Seq(A)
    BY <1>1, <1>12 DEF T
  <2>. QED
    BY <1>9, <2>1
<1>14. h[0] = q /\ \A k \in 1..n : h[k] = PushEdit(h[k - 1], es[k])
  BY <1>1, <1>9
<1>. QED
  BY <1>5, <1>13, <1>14 DEF n, KeepsQueue

\* Pushing several edits keeps the order of both, and brings in nothing else.
LEMMA QueuedAllTidy ==
    ASSUME NEW A, NEW q \in Seq(A), NEW es \in Seq(A), Tidy(q), Tidy(es), Before(q, es)
    PROVE  /\ QueuedAll(q, es) \in Seq(A)
           /\ Tidy(QueuedAll(q, es))
           /\ Elems(QueuedAll(q, es)) \subseteq Elems(q) \cup Elems(es)
<1>1. PICK h \in [0..Len(es) -> Seq(A)] : KeepsQueue(h, q, es)
  BY QueuedAllSteps
<1> DEFINE Seen(k) == {es[i] : i \in 1..k}
           Done(k) == Tidy(h[k]) /\ Elems(h[k]) \subseteq Elems(q) \cup Seen(k)
           T == {k \in Nat : k <= Len(es) => Done(k)}
<1>2. Done(0)
  BY <1>1 DEF KeepsQueue
<1>3. ASSUME NEW k \in Nat, k + 1 <= Len(es), Done(k) PROVE Done(k + 1)
  <2>1. k + 1 \in 1..Len(es) /\ k \in 0..Len(es) /\ (k + 1) - 1 = k /\ Len(es) \in Nat
    BY <1>3
  <2>2. h[k] \in Seq(A) /\ es[k + 1] \in A
    BY <2>1
  <2>3. h[k + 1] = PushEdit(h[k], es[k + 1])
    BY <1>1, <2>1 DEF KeepsQueue
  <2>4. ASSUME NEW x \in Elems(h[k]) PROVE Precedes(x, es[k + 1])
    <3>1. CASE x \in Elems(q)
      BY <2>1, <3>1 DEF Before, Elems
    <3>2. CASE x \in Seen(k)
      <4>1. PICK i \in 1..k : x = es[i]
        BY <3>2
      <4>2. i \in 1..Len(es) /\ i < k + 1
        BY <1>3, <2>1, <4>1
      <4>. QED
        BY <2>1, <4>1, <4>2 DEF Tidy
    <3>. QED
      BY <1>3, <2>4, <3>1, <3>2
  <2>5. Tidy(h[k + 1]) /\ Elems(h[k + 1]) \subseteq Elems(h[k]) \cup {es[k + 1]}
    BY <1>3, <2>2, <2>3, <2>4, PushEditTidy
  <2>6. es[k + 1] \in Seen(k + 1) /\ Seen(k) \subseteq Seen(k + 1)
    BY <2>1
  <2>. QED
    BY <1>3, <2>5, <2>6
<1>4. Seen(Len(es)) = Elems(es)
  BY DEF Elems
<1> HIDE DEF Done
<1>5. 0 \in T /\ \A k \in Nat : k \in T => k + 1 \in T
  BY <1>2, <1>3
<1> HIDE DEF T
<1>6. Len(es) \in T /\ Len(es) \in Nat
  BY <1>5, NatSetInduction
<1>7. Done(Len(es))
  BY <1>6 DEF T
<1>. QED
  BY <1>1, <1>4, <1>6, <1>7 DEF Done, KeepsQueue

-----------------------------------------------------------------------------
(* Engine time.                                                             *)

\* The phases of a tick before its rounds, those of a round, and what lies
\* between ticks.
Early == {"absorb", "preprocess", "preprocessed", "control", "controlled", "update"}
Rounds == {"round", "settled", "test", "dispatch", "defer", "deferred"}
Between == {"idle", "intent"}
Continuations == {"idle", "preprocess", "control", "update", "test", "round"}

\* While a batch is applied, what counts is the phase it leads to.
Phase == IF pc = "apply" THEN then ELSE pc

TimeType ==
    /\ pc \in Early \cup Rounds \cup Between \cup {"apply"}
    /\ then \in Continuations
    /\ time \in [tick : Nat, micro : Nat, seq : Nat]
    /\ pass \in Nat

\* A micro step is never ahead of the pass that is to begin the next one.
Clock ==
    /\ TimeType
    /\ Phase \in Between \cup Early => pass = 0
    /\ Phase \notin Between =>
        time.tick > 0 /\ time.micro <= pass + (IF pc \in {"dispatch", "defer"} THEN 1 ELSE 0)

LEMMA ClockInit == TickInit => Clock
BY DEF TickInit, Clock, TimeType, Phase, Early, Rounds, Between, Continuations

\* An event moves the time on within its micro step.
LEMMA EmitMoves ==
    ASSUME TimeType, EmitEvent
    PROVE  /\ time' \in [tick : Nat, micro : Nat, seq : Nat]
           /\ time'.tick = time.tick /\ time'.micro = time.micro /\ time'.seq = time.seq + 1
<1> USE DEF TimeType
<1>1. /\ time.tick \in Nat /\ time.micro \in Nat /\ time.seq \in Nat
      /\ time' = [tick |-> time.tick, micro |-> time.micro, seq |-> time.seq + 1]
  BY DEF EmitEvent
<1>. QED
  BY <1>1

LEMMA NextMicroMoves ==
    ASSUME TimeType
    PROVE  /\ NextMicro \in [tick : Nat, micro : Nat, seq : Nat]
           /\ NextMicro.tick = time.tick /\ NextMicro.micro = pass + 1 /\ NextMicro.seq = 0
<1> USE DEF TimeType
<1>1. /\ time.tick \in Nat /\ pass + 1 \in Nat
      /\ NextMicro = [tick |-> time.tick, micro |-> pass + 1, seq |-> 0]
  BY DEF NextMicro
<1>. QED
  BY <1>1

LEMMA ClockStep == Clock /\ [TickNext]_tickVars => Clock'
<1> SUFFICES ASSUME Clock, [TickNext]_tickVars PROVE Clock'
  OBVIOUS
<1> USE DEF Clock, TimeType, Phase, Early, Rounds, Between, Continuations
<1>1. CASE Send
  BY <1>1 DEF Send
<1>2. CASE ApplyPending
  BY <1>2 DEF ApplyPending, AfterApply, BeginApply, AbsorbFails, Fail
<1>3. CASE ApplyEdit
  BY <1>3, EmitMoves DEF ApplyEdit
<1>4. CASE EditFails
  BY <1>4 DEF EditFails, Fail
<1>5. CASE ApplyDone
  BY <1>5 DEF ApplyDone, Fail
<1>6. CASE Intent
  BY <1>6 DEF Intent
<1>7. CASE IntentDispatch
  BY <1>7 DEF IntentDispatch
<1>8. CASE BeginTick
  BY <1>8 DEF BeginTick
<1>9. CASE Preprocess
  BY <1>9 DEF Preprocess, RunCallbacks
<1>10. CASE ControlPass
  BY <1>10, EmitMoves DEF ControlPass
<1>11. CASE Update
  BY <1>11 DEF Update, RunCallbacks
<1>12. CASE Round
  BY <1>12, EmitMoves DEF Round, AbsorbFails, Fail
<1>13. CASE Test
  BY <1>13, NextMicroMoves DEF Test, Fail
<1>14. CASE DispatchInbox
  BY <1>14 DEF DispatchInbox, Fail
<1>15. CASE Defer
  BY <1>15 DEF Defer
<1>16. CASE UNCHANGED tickVars
  BY <1>16 DEF tickVars, queues, ghosts
<1>. QED
  BY <1>1, <1>2, <1>3, <1>4, <1>5, <1>6, <1>7, <1>8, <1>9, <1>10, <1>11, <1>12, <1>13, <1>14,
     <1>15, <1>16 DEF TickNext

\* Each step that changes the time moves it on.
LEMMA TimeStep == Clock /\ [TickNext]_tickVars => [Less(time, time')]_time
<1> SUFFICES ASSUME Clock, [TickNext]_tickVars, time' # time PROVE Less(time, time')
  OBVIOUS
<1> USE DEF Less
<1>1. CASE ApplyEdit
  BY <1>1, EmitMoves DEF ApplyEdit, Clock, TimeType
<1>2. CASE BeginTick
  BY <1>2 DEF BeginTick, Clock, TimeType
<1>3. CASE ControlPass
  BY <1>3, EmitMoves DEF ControlPass, Clock, TimeType
<1>4. CASE Round
  BY <1>4, EmitMoves DEF Round, Clock, TimeType
<1>5. CASE Test
  BY <1>5, NextMicroMoves DEF Test, Clock, TimeType, Phase, Between
<1>6. CASE \/ Send \/ ApplyPending \/ EditFails \/ ApplyDone \/ Intent \/ IntentDispatch
           \/ Preprocess \/ Update \/ DispatchInbox \/ Defer
  BY <1>6 DEF Send, ApplyPending, EditFails, ApplyDone, Intent, IntentDispatch, Preprocess, Update,
              DispatchInbox, Defer
<1>7. CASE UNCHANGED tickVars
  BY <1>7 DEF tickVars
<1>. QED
  BY <1>1, <1>2, <1>3, <1>4, <1>5, <1>6, <1>7 DEF TickNext

THEOREM ClockCorrect == TickSpec => []Clock
<1>. QED
  BY ClockInit, ClockStep, PTL DEF TickSpec

\* Every stamp an event gets is later than those before it, whatever fails
\* and however ticks, rounds and intents take turns.
THEOREM TimeIncreases == TickSpec => StampsIncrease
<1>. QED
  BY ClockCorrect, TimeStep, PTL DEF TickSpec, StampsIncrease

-----------------------------------------------------------------------------
(* Where every edit is.                                                     *)

EditRecord == [id : Nat, kind : EditKinds, from : {"thread", "engine"}, bornIn : Nat]

Ids(S) == {x.id : x \in S}

QueueType ==
    /\ external \in Seq(EditRecord) /\ pending \in Seq(EditRecord) /\ deferred \in Seq(EditRecord)
    /\ taken \in Seq(EditRecord) /\ applied \in Seq(EditRecord)
    /\ issued \in Nat

TidyQueues ==
    Tidy(external) /\ Tidy(pending) /\ Tidy(deferred) /\ Tidy(taken) /\ Tidy(applied)

\* What was taken was sent before what still waits, and that before what is
\* still in the channel.
QueuesInOrder ==
    /\ Before(applied, taken) /\ Before(applied, pending)
    /\ Before(applied, deferred) /\ Before(applied, external)
    /\ Before(taken, pending) /\ Before(taken, deferred) /\ Before(taken, external)
    /\ Before(pending, deferred) /\ Before(pending, external)
    /\ Before(deferred, external)

NoThread(S) == \A x \in S : x.from # "thread"

\* Where a tick sets edits aside, or queues some while a batch is applied, no
\* edit of a thread waits in the queue.
EngineOnly ==
    /\ NoThread(Elems(deferred))
    /\ pc \notin {"idle", "intent", "absorb", "settled"} => NoThread(Elems(pending))

Queued == Elems(external) \cup Elems(pending) \cup Elems(deferred) \cup Elems(taken)

Kept ==
    Ids(Elems(external)) \cup Ids(Elems(pending)) \cup Ids(Elems(deferred)) \cup Ids(Elems(taken))
      \cup Ids(Elems(applied))

NothingLost ==
    /\ Kept \cup replaced \cup failed = 1..issued
    /\ Kept \cap (replaced \cup failed) = {}
    /\ replaced \cap failed = {}

\* A batch is worked off before the engine goes on.
BatchDone == pc # "apply" => taken = <<>>

Account == QueueType /\ TidyQueues /\ QueuesInOrder /\ EngineOnly /\ NothingLost /\ BatchDone

LEMMA EmptyTidy ==
    ASSUME NEW t
    PROVE  Tidy(<<>>) /\ Elems(<<>>) = {} /\ Before(<<>>, t) /\ Before(t, <<>>)
BY DEF Tidy, Elems, Before

LEMMA AccountInit == TickInit => Account
<1> SUFFICES ASSUME TickInit PROVE Account
  OBVIOUS
<1> USE EmptyTidy DEF TickInit
<1>1. QueueType /\ TidyQueues /\ QueuesInOrder
  BY DEF QueueType, TidyQueues, QueuesInOrder
<1>2. Elems(<<>>) = {}
  OBVIOUS
<1>3. EngineOnly /\ NothingLost /\ BatchDone
  BY <1>2 DEF EngineOnly, NothingLost, NoThread, Kept, Ids, BatchDone
<1>. QED
  BY <1>1, <1>3 DEF Account

\* The edits of a tidy queue have ids of their own.
LEMMA TidyIds ==
    ASSUME NEW s \in Seq(EditRecord), Tidy(s)
    PROVE  \A x, y \in Elems(s) : x = y \/ x.id # y.id
<1> SUFFICES ASSUME NEW i \in 1..Len(s), NEW j \in 1..Len(s), i # j PROVE s[i].id # s[j].id
  BY DEF Elems
<1>1. i < j \/ j < i
  OBVIOUS
<1>. QED
  BY <1>1 DEF Tidy, Precedes

LEMMA TidyTail ==
    ASSUME NEW A, NEW s \in Seq(A), s # <<>>, Tidy(s)
    PROVE  /\ Tail(s) \in Seq(A) /\ Head(s) \in A
           /\ Tidy(Tail(s))
           /\ Elems(s) = Elems(Tail(s)) \cup {Head(s)}
           /\ \A x \in Elems(Tail(s)) : Precedes(Head(s), x)
<1> DEFINE t == Tail(s)
<1>1. /\ t \in Seq(A) /\ Len(s) \in Nat /\ Len(s) > 0 /\ Len(t) = Len(s) - 1
      /\ Head(s) = s[1] /\ \A i \in 1..Len(t) : t[i] = s[i + 1]
  OBVIOUS
<1>2. \A i \in 1..Len(s) : i = 1 \/ (i - 1 \in 1..Len(t) /\ t[i - 1] = s[i])
  BY <1>1
<1>3. 1 \in 1..Len(s) /\ \A i \in 1..Len(t) : i + 1 \in 1..Len(s) /\ 1 < i + 1
  BY <1>1
<1> HIDE DEF t
<1>4. Tidy(t)
  BY <1>1, <1>3 DEF Tidy
<1>5. Elems(s) \subseteq Elems(t) \cup {Head(s)}
  BY SMTT(20), <1>1, <1>2 DEF Elems
<1>6. Elems(t) \cup {Head(s)} \subseteq Elems(s)
  BY <1>1, <1>3 DEF Elems
<1>7. \A x \in Elems(t) : Precedes(Head(s), x)
  BY <1>1, <1>3 DEF Elems, Tidy
<1>8. Head(s) \in A
  BY <1>1, <1>3
<1>. QED
  BY <1>1, <1>4, <1>5, <1>6, <1>7, <1>8 DEF t

LEMMA ElemsConcat ==
    ASSUME NEW A, NEW s \in Seq(A), NEW t \in Seq(A)
    PROVE  Elems(s \o t) \subseteq Elems(s) \cup Elems(t)
<1> DEFINE u == s \o t
<1>1. /\ Len(s) \in Nat /\ Len(t) \in Nat /\ Len(u) = Len(s) + Len(t)
      /\ \A i \in 1..Len(u) : u[i] = IF i <= Len(s) THEN s[i] ELSE t[i - Len(s)]
  OBVIOUS
<1> HIDE DEF u
<1>2. \A i \in 1..Len(u) :
         \/ i \in 1..Len(s) /\ u[i] = s[i]
         \/ i - Len(s) \in 1..Len(t) /\ u[i] = t[i - Len(s)]
  BY <1>1
<1>. QED
  BY <1>2 DEF Elems, u

LEMMA TidyConcat ==
    ASSUME NEW A, NEW s \in Seq(A), NEW t \in Seq(A), Tidy(s), Tidy(t), Before(s, t)
    PROVE  s \o t \in Seq(A) /\ Tidy(s \o t) /\ Elems(s \o t) = Elems(s) \cup Elems(t)
<1> DEFINE u == s \o t
<1>1. /\ u \in Seq(A) /\ Len(s) \in Nat /\ Len(t) \in Nat /\ Len(u) = Len(s) + Len(t)
      /\ \A i \in 1..Len(u) : u[i] = IF i <= Len(s) THEN s[i] ELSE t[i - Len(s)]
  OBVIOUS
<1> HIDE DEF u
<1>2. \A i \in 1..Len(u) :
         \/ i \in 1..Len(s) /\ u[i] = s[i]
         \/ i > Len(s) /\ i - Len(s) \in 1..Len(t) /\ u[i] = t[i - Len(s)]
  BY <1>1
<1>3. /\ \A i \in 1..Len(s) : i \in 1..Len(u) /\ u[i] = s[i]
      /\ \A j \in 1..Len(t) : j + Len(s) \in 1..Len(u) /\ u[j + Len(s)] = t[j]
  <2>1. ASSUME NEW i \in 1..Len(s) PROVE i \in 1..Len(u) /\ u[i] = s[i]
    BY <1>1
  <2>2. ASSUME NEW j \in 1..Len(t) PROVE j + Len(s) \in 1..Len(u) /\ u[j + Len(s)] = t[j]
    <3>1. /\ j + Len(s) \in 1..Len(u) /\ ~(j + Len(s) <= Len(s))
          /\ (j + Len(s)) - Len(s) = j
      BY <1>1
    <3>. QED
      BY <1>1, <3>1
  <2>. QED
    BY <2>1, <2>2
<1>4. Elems(u) \subseteq Elems(s) \cup Elems(t)
  BY <1>2 DEF Elems
<1>5. Elems(s) \cup Elems(t) \subseteq Elems(u)
  BY <1>3 DEF Elems
<1>6. ASSUME NEW i \in 1..Len(u), NEW j \in 1..Len(u), i < j PROVE Precedes(u[i], u[j])
  <2>1. CASE j \in 1..Len(s)
    <3>1. i \in 1..Len(s)
      BY <1>1, <1>6, <2>1
    <3>. QED
      BY <1>3, <1>6, <2>1, <3>1 DEF Tidy
  <2>2. CASE i \in 1..Len(s) /\ j > Len(s)
    <3>1. u[i] = s[i] /\ j - Len(s) \in 1..Len(t) /\ u[j] = t[j - Len(s)]
      BY <1>1, <1>2, <2>2
    <3>2. u[i] \in Elems(s) /\ u[j] \in Elems(t)
      BY <2>2, <3>1 DEF Elems
    <3>. QED
      BY <3>2 DEF Before
  <2>3. CASE i > Len(s) /\ j > Len(s)
    <3>1. /\ i - Len(s) \in 1..Len(t) /\ j - Len(s) \in 1..Len(t) /\ i - Len(s) < j - Len(s)
          /\ u[i] = t[i - Len(s)] /\ u[j] = t[j - Len(s)]
      BY <1>1, <1>6, <2>3
    <3>. QED
      BY <3>1 DEF Tidy
  <2>. QED
    BY <1>1, <1>6, <2>1, <2>2, <2>3
<1>7. Tidy(u)
  BY <1>6 DEF Tidy
<1>. QED
  BY <1>1, <1>4, <1>5, <1>7 DEF u

\* A new edit of the engine.
NewEdit(e, tick, kinds) ==
    /\ e \in EditRecord /\ e.id = issued + 1 /\ e.from = "engine" /\ e.bornIn = tick
    /\ e.kind \in kinds

\* What callbacks leave in the queue: N is what they have issued.
Leaves(es, N) ==
    /\ pending' \in Seq(EditRecord) /\ Tidy(pending')
    /\ Elems(pending') \subseteq Elems(pending) \cup Elems(es) \cup N
    /\ replaced' = replaced \cup (Ids(Elems(pending) \cup Elems(es) \cup N) \ Ids(Elems(pending')))

LEMMA QueueLeaves ==
    ASSUME pending \in Seq(EditRecord), NEW es \in Seq(EditRecord), Tidy(pending), Tidy(es),
           Before(pending, es), Queue(es)
    PROVE  Leaves(es, {})
<1>1. /\ QueuedAll(pending, es) \in Seq(EditRecord)
      /\ Tidy(QueuedAll(pending, es))
      /\ Elems(QueuedAll(pending, es)) \subseteq Elems(pending) \cup Elems(es)
  BY QueuedAllTidy
<1>2. /\ pending' = QueuedAll(pending, es)
      /\ replaced' = replaced \cup Dropped(es)
  BY DEF Queue
<1>3. \A s : EditIds(s) = Ids(Elems(s))
  BY DEF EditIds, Ids, Elems
<1>4. Dropped(es) = Ids(Elems(pending) \cup Elems(es)) \ Ids(Elems(QueuedAll(pending, es)))
  BY <1>3 DEF Dropped, Ids
<1>. QED
  BY <1>1, <1>2, <1>4 DEF Leaves

LEMMA CallbacksLeave ==
    ASSUME pending \in Seq(EditRecord), NEW es \in Seq(EditRecord), Tidy(pending), Tidy(es),
           Before(pending, es), issued \in Nat, NEW tick \in Nat, NEW kinds \in SUBSET EditKinds,
           \A x \in Elems(pending) \cup Elems(es) : x.id <= issued,
           Callbacks(es, tick, kinds)
    PROVE  \E N : /\ Leaves(es, N)
                  /\ \/ N = {} /\ issued' = issued
                     \/ /\ issued' = issued + 1
                        /\ \E e : N = {e} /\ NewEdit(e, tick, kinds)
<1>1. CASE Queue(es) /\ UNCHANGED issued
  BY <1>1, QueueLeaves
<1>2. CASE /\ issued' = issued + 1
           /\ \E k \in kinds : Queue(Append(es, Edit(k, "engine", tick)))
  <2>1. PICK k \in kinds : Queue(Append(es, Edit(k, "engine", tick)))
    BY <1>2
  <2> DEFINE e == Edit(k, "engine", tick)
             fs == Append(es, e)
  <2>2. NewEdit(e, tick, kinds)
    BY DEF Edit, NewEdit, EditRecord
  <2> HIDE DEF e
  <2>3. \A x \in Elems(pending) \cup Elems(es) : Precedes(x, e)
    BY <2>2 DEF Precedes, NewEdit
  <2>4. fs \in Seq(EditRecord) /\ Elems(fs) = Elems(es) \cup {e} /\ Tidy(fs)
    <3>1. \A i \in 1..Len(es) : Precedes(es[i], e)
      BY <2>3 DEF Elems
    <3>2. e \in EditRecord
      BY <2>2 DEF NewEdit
    <3>. QED
      BY <3>1, <3>2, ElemsAppend, TidyAppend
  <2>5. Before(pending, fs)
    BY <2>3, <2>4 DEF Before
  <2>6. Queue(fs)
    BY <2>1 DEF e
  <2> HIDE DEF fs
  <2>7. Leaves(fs, {})
    BY <2>4, <2>5, <2>6, QueueLeaves
  <2>8. Leaves(es, {e})
    BY <2>4, <2>7 DEF Leaves
  <2>. QED
    BY <1>2, <2>2, <2>8
<1>. QED
  BY <1>1, <1>2 DEF Callbacks

LEMMA IdsAlgebra ==
    /\ Ids({}) = {} /\ \A e : Ids({e}) = {e.id}
    /\ \A S, T : Ids(S \cup T) = Ids(S) \cup Ids(T)
    /\ \A S, T : S \subseteq T => Ids(S) \subseteq Ids(T)
BY DEF Ids

LEMMA BeforeDisjoint ==
    ASSUME NEW s, NEW t, Before(s, t)
    PROVE  Ids(Elems(s)) \cap Ids(Elems(t)) = {}
BY DEF Before, Precedes, Ids

LEMMA AccountBounds ==
    ASSUME Account
    PROVE  \A x \in Queued \cup Elems(applied) :
               x \in EditRecord /\ x.id \in 1..issued
<1>1. \A s \in Seq(EditRecord) : Elems(s) \subseteq EditRecord
  BY DEF Elems
<1>2. \A x \in Queued \cup Elems(applied) : x.id \in Kept
  BY DEF Queued, Kept, Ids
<1>3. Queued \cup Elems(applied) \subseteq EditRecord
  BY <1>1 DEF Queued, Account, QueueType
<1>. QED
  BY <1>2, <1>3 DEF Account, NothingLost

\* Callbacks queue edits behind es, which is nothing, what was in the channel
\* or what was set aside, and a batch may go on meanwhile.
LEMMA QueueStep ==
    ASSUME Account, NEW es, NEW N, Leaves(es, N), NEW tick, NEW kinds,
           \/ N = {} /\ issued' = issued
           \/ issued' = issued + 1 /\ \E e : N = {e} /\ NewEdit(e, tick, kinds),
           \/ es = <<>> /\ external' = external /\ deferred' = deferred
           \/ es = external /\ external' = <<>> /\ deferred' = deferred
           \/ es = deferred /\ deferred' = <<>> /\ external' = external,
           applied' \in Seq(EditRecord), taken' \in Seq(EditRecord),
           Tidy(applied'), Tidy(taken'), Before(applied', taken'),
           Elems(applied') \cup Elems(taken') = Elems(applied) \cup Elems(taken),
           Elems(taken') \subseteq Elems(taken),
           failed' = failed
    PROVE  QueueType' /\ TidyQueues' /\ QueuesInOrder' /\ NothingLost'
<1> DEFINE A == Elems(applied)  B == Elems(taken)  P == Elems(pending)
           D == Elems(deferred)  X == Elems(external)
           A1 == Elems(applied')  B1 == Elems(taken')  P1 == Elems(pending')
           D1 == Elems(deferred')  X1 == Elems(external')  E == Elems(es)
<1>1. /\ QueueType /\ TidyQueues /\ QueuesInOrder /\ NothingLost
      /\ \A x \in A \cup B \cup P \cup D \cup X : x \in EditRecord /\ x.id \in 1..issued
  BY AccountBounds DEF Account, Queued
<1>2. Elems(<<>>) = {}
  BY EmptyTidy
<1>3. \/ E = {} /\ X1 = X /\ D1 = D
      \/ E = X /\ X1 = {} /\ D1 = D
      \/ E = D /\ D1 = {} /\ X1 = X
  BY <1>2
<1>4. QueueType' /\ TidyQueues'
  <2>e. <<>> \in Seq(EditRecord)
    OBVIOUS
  <2>1. /\ external' \in Seq(EditRecord) /\ deferred' \in Seq(EditRecord)
        /\ Tidy(external') /\ Tidy(deferred')
    BY <1>1, <2>e, EmptyTidy DEF QueueType, TidyQueues
  <2>2. issued' \in Nat
    BY <1>1 DEF QueueType
  <2>. QED
    BY <2>1, <2>2 DEF QueueType, TidyQueues, Leaves
<1>5. P1 \subseteq P \cup E \cup N
  BY DEF Leaves
<1>6. A1 \subseteq A \cup B /\ B1 \subseteq B /\ X1 \subseteq X /\ D1 \subseteq D /\ A1 \cup B1 = A \cup B
  BY <1>3
<1>7. \A n \in N : n.id = issued + 1 /\ n.from = "engine"
  BY DEF NewEdit
<1>8. \A x \in A \cup B \cup P \cup D \cup X, n \in N : Precedes(x, n) /\ Precedes(n, x)
  BY <1>1, <1>7 DEF Precedes, QueueType
<1>9. QueuesInOrder'
  <2>o. /\ \A x \in A, y \in B \cup P \cup D \cup X : Precedes(x, y)
        /\ \A x \in B, y \in P \cup D \cup X : Precedes(x, y)
        /\ \A x \in P, y \in D \cup X : Precedes(x, y)
        /\ \A x \in D, y \in X : Precedes(x, y)
    BY <1>1 DEF QueuesInOrder, Before
  <2>1. \A x \in A1 \cup B1, y \in P1 \cup D1 \cup X1 : Precedes(x, y)
    BY <1>3, <1>5, <1>6, <1>8, <2>o
  <2>2. \A x \in P1, y \in D1 \cup X1 : Precedes(x, y)
    <3> TAKE x \in P1, y \in D1 \cup X1
    <3>1. CASE x \in N
      BY <1>6, <1>8, <3>1
    <3>2. CASE x \in P
      BY <1>6, <2>o, <3>2
    <3>3. CASE x \in E
      <4>1. CASE E = X /\ X1 = {} /\ D1 = D
        <5>1. EngineOnly /\ x.id # y.id
          BY <2>o, <3>3, <4>1 DEF Account, Precedes
        <5>. QED
          BY <4>1, <5>1 DEF EngineOnly, NoThread, Precedes
      <4>2. CASE E = D /\ D1 = {} /\ X1 = X
        BY <2>o, <3>3, <4>2
      <4>. QED
        BY <1>3, <3>3, <4>1, <4>2
    <3>. QED
      BY <1>5, <3>1, <3>2, <3>3
  <2>3. \A x \in D1, y \in X1 : Precedes(x, y)
    BY <1>6, <2>o
  <2>. QED
    BY <2>1, <2>2, <2>3 DEF QueuesInOrder, Before
<1>10. NothingLost'
  <2> DEFINE gone == Ids(P \cup E \cup N) \ Ids(P1)
             all == X \cup P \cup D \cup B \cup A
             all1 == X1 \cup P1 \cup D1 \cup B1 \cup A1
  <2>1. /\ Kept = Ids(all) /\ Kept' = Ids(all1)
        /\ replaced' = replaced \cup gone /\ failed' = failed
    <3>1. Kept = Ids(all)
      BY DEF Ids, Kept
    <3>2. Kept' = Ids(all1)
      BY DEF Ids, Kept
    <3>. QED
      BY <3>1, <3>2 DEF Leaves
  <2>2. /\ Ids(all) \cup replaced \cup failed = 1..issued
        /\ Ids(all) \cap (replaced \cup failed) = {} /\ replaced \cap failed = {}
    BY <1>1, <2>1 DEF NothingLost
  <2>3. 1..issued' = (1..issued) \cup Ids(N) /\ Ids(N) \cap (1..issued) = {}
    <3>1. CASE N = {} /\ issued' = issued
      BY <3>1, IdsAlgebra
    <3>2. CASE issued' = issued + 1 /\ \E e : N = {e} /\ NewEdit(e, tick, kinds)
      <4>1. Ids(N) = {issued + 1}
        BY <3>2, IdsAlgebra DEF NewEdit
      <4>2. issued \in Nat
        BY <1>1 DEF QueueType
      <4>3. 1..(issued + 1) = (1..issued) \cup {issued + 1} /\ issued + 1 \notin 1..issued
        BY <4>2
      <4>. QED
        BY <3>2, <4>1, <4>3
    <3>. QED
      BY <3>1, <3>2
  <2>4. Ids(all1) \cup gone = Ids(all) \cup Ids(N)
    <3>1. all1 \cup P \cup E \cup N = all \cup N
      BY <1>3, <1>5, <1>6
    <3>2. Ids(all1) \cup Ids(P \cup E \cup N) = Ids(all) \cup Ids(N)
      <4> DEFINE some == P \cup E \cup N
      <4>3. all1 \cup some = all \cup N
        BY <3>1
      <4> HIDE DEF all, all1, some
      <4>1. Ids(all1 \cup some) = Ids(all1) \cup Ids(some)
        BY IdsAlgebra
      <4>2. Ids(all \cup N) = Ids(all) \cup Ids(N)
        BY IdsAlgebra
      <4>. QED
        BY <4>1, <4>2, <4>3 DEF some
    <3>3. Ids(P1) \subseteq Ids(all1)
      BY IdsAlgebra
    <3>. QED
      BY <3>2, <3>3
  <2>5. gone \cap Ids(all1) = {}
    <3> SUFFICES ASSUME NEW y \in all1, y \notin P1, NEW x \in P \cup E \cup N PROVE x.id # y.id
      BY DEF Ids
    <3>1. y \in all
      BY <1>5, <1>6
    <3>2. CASE x \in N
      BY <1>8, <3>1, <3>2 DEF Precedes
    <3>3. CASE x \in P \cup E
      <4>1. y \in A \cup B \cup D1 \cup X1
        BY <1>6
      <4>2. Precedes(x, y) \/ Precedes(y, x)
        BY <1>1, <1>3, <3>3, <4>1 DEF QueuesInOrder, Before
      <4>. QED
        BY <4>2 DEF Precedes
    <3>. QED
      BY <3>2, <3>3
  <2>6. Ids(N) \cap (replaced \cup failed) = {}
    BY <2>2, <2>3
  <2>7. /\ Ids(all1) \cup (replaced \cup gone) \cup failed = 1..issued'
        /\ Ids(all1) \cap ((replaced \cup gone) \cup failed) = {}
        /\ (replaced \cup gone) \cap failed = {}
    <3> HIDE DEF all, all1, gone
    <3>. QED
      BY <2>2, <2>3, <2>4, <2>5, <2>6
  <2>. QED
    BY <2>1, <2>7 DEF NothingLost
<1>. QED
  BY <1>4, <1>9, <1>10

LEMMA SendStep ==
    ASSUME Account, Send
    PROVE  Account'
<1>1. PICK k \in EditKinds : external' = Append(external, Edit(k, "thread", 0))
  BY DEF Send
<1> DEFINE e == Edit(k, "thread", 0)
<1>2. e \in EditRecord /\ e.id = issued + 1 /\ e.from = "thread"
  BY DEF Edit, EditRecord, Account, QueueType
<1> HIDE DEF e
<1>3. UNCHANGED <<pending, deferred, taken, applied, replaced, failed, pc>> /\ issued' = issued + 1
  BY DEF Send, ghosts
<1>4. QueueType /\ TidyQueues /\ QueuesInOrder /\ NothingLost /\ EngineOnly /\ BatchDone
  BY DEF Account
<1>5. \A x \in Queued \cup Elems(applied) : Precedes(x, e)
  BY <1>2, <1>4, AccountBounds DEF Precedes, EditRecord, QueueType
<1>6. external' \in Seq(EditRecord) /\ Tidy(external') /\ Elems(external') = Elems(external) \cup {e}
  <2>1. external \in Seq(EditRecord) /\ Tidy(external) /\ external' = Append(external, e)
    BY <1>1, <1>4 DEF QueueType, TidyQueues, e
  <2>2. \A i \in 1..Len(external) : Precedes(external[i], e)
    BY <1>5 DEF Queued, Elems
  <2>. QED
    BY <1>2, <2>1, <2>2, TidyAppend, ElemsAppend
<1>7. QueueType' /\ TidyQueues' /\ EngineOnly' /\ BatchDone'
  BY <1>3, <1>4, <1>6 DEF QueueType, TidyQueues, EngineOnly, BatchDone
<1>8. QueuesInOrder'
  BY <1>3, <1>4, <1>5, <1>6 DEF QueuesInOrder, Before, Queued
<1>9. NothingLost'
  <2>1. Ids(Elems(external) \cup {e}) = Ids(Elems(external)) \cup {issued + 1}
    BY <1>2 DEF Ids
  <2>2. Kept' = Kept \cup {issued + 1}
    BY <1>3, <1>6, <2>1 DEF Kept
  <2>3. issued \in Nat
    BY <1>4 DEF QueueType
  <2>4. 1..(issued + 1) = (1..issued) \cup {issued + 1} /\ issued + 1 \notin 1..issued
    BY <2>3
  <2>. QED
    BY <1>3, <1>4, <2>2, <2>4 DEF NothingLost
<1>. QED
  BY <1>7, <1>8, <1>9 DEF Account

\* An error drops the batch, or what was in the channel.
LEMMA FailStep ==
    ASSUME Account,
           \/ taken' = <<>> /\ external' = external /\ failed' = failed \cup EditIds(taken)
           \/ taken' = taken /\ external' = <<>> /\ failed' = failed \cup EditIds(external),
           pc' = "idle", taken' = <<>>, UNCHANGED <<pending, deferred, applied, issued, replaced>>
    PROVE  Account'
<1>1. QueueType /\ TidyQueues /\ QueuesInOrder /\ NothingLost /\ EngineOnly
  BY DEF Account
<1>2. QueueType' /\ TidyQueues' /\ QueuesInOrder' /\ EngineOnly' /\ BatchDone'
  <2>e. <<>> \in Seq(EditRecord)
    OBVIOUS
  <2>1. QueueType' /\ TidyQueues'
    BY <1>1, <2>e, EmptyTidy DEF QueueType, TidyQueues
  <2>2. QueuesInOrder'
    BY <1>1, EmptyTidy DEF QueuesInOrder
  <2>. QED
    BY <1>1, <2>1, <2>2 DEF EngineOnly, BatchDone
<1>3. NothingLost'
  <2>1. \A s : EditIds(s) = Ids(Elems(s))
    BY DEF EditIds, Ids, Elems
  <2> DEFINE A == Ids(Elems(applied))  B == Ids(Elems(taken))  P == Ids(Elems(pending))
             D == Ids(Elems(deferred))  X == Ids(Elems(external))
  <2>2. (A \cup P \cup D) \cap (B \cup X) = {} /\ B \cap X = {}
    <3>1. /\ A \cap B = {} /\ B \cap P = {} /\ B \cap D = {} /\ B \cap X = {}
          /\ A \cap X = {} /\ P \cap X = {} /\ D \cap X = {}
      BY <1>1, BeforeDisjoint DEF QueuesInOrder
    <3>. QED
      BY <3>1
  <2>3. /\ Kept = X \cup P \cup D \cup B \cup A
        /\ Kept' = Ids(Elems(external')) \cup P \cup D \cup Ids(Elems(taken')) \cup A
    BY DEF Kept
  <2>4. Ids(Elems(<<>>)) = {}
    BY EmptyTidy, IdsAlgebra
  <2> HIDE DEF A, B, P, D, X
  <2>5. /\ X \cup P \cup D \cup B \cup A \cup replaced \cup failed = 1..issued
        /\ (X \cup P \cup D \cup B \cup A) \cap (replaced \cup failed) = {}
        /\ replaced \cap failed = {}
    BY <1>1, <2>3 DEF NothingLost
  <2>6. CASE taken' = <<>> /\ external' = external /\ failed' = failed \cup EditIds(taken)
    <3>1. Kept' = X \cup P \cup D \cup A /\ failed' = failed \cup B
      BY <2>1, <2>3, <2>4, <2>6 DEF X, B
    <3>. QED
      BY <2>2, <2>5, <3>1 DEF NothingLost
  <2>7. CASE taken' = taken /\ external' = <<>> /\ failed' = failed \cup EditIds(external)
    <3>1. Kept' = P \cup D \cup B \cup A /\ failed' = failed \cup X
      BY <2>1, <2>3, <2>4, <2>7 DEF X, B
    <3>. QED
      BY <2>2, <2>5, <3>1 DEF NothingLost
  <2>. QED
    BY <2>6, <2>7
<1>. QED
  BY <1>2, <1>3 DEF Account

\* An apply takes the queue and what is in the channel.
LEMMA TakeStep ==
    ASSUME Account, taken = <<>>, external' = <<>>, pending' = <<>>,
           taken' = QueuedAll(pending, external),
           replaced' = replaced \cup Dropped(external),
           UNCHANGED <<deferred, applied, issued, failed>>, pc' = "apply"
    PROVE  Account'
<1>1. QueueType /\ TidyQueues /\ QueuesInOrder /\ NothingLost /\ EngineOnly
  BY DEF Account
<1>2. /\ QueuedAll(pending, external) \in Seq(EditRecord)
      /\ Tidy(QueuedAll(pending, external))
      /\ Elems(QueuedAll(pending, external)) \subseteq Elems(pending) \cup Elems(external)
  BY <1>1, QueuedAllTidy DEF QueueType, TidyQueues, QueuesInOrder
<1>3. <<>> \in Seq(EditRecord) /\ Tidy(<<>>) /\ Elems(<<>>) = {}
  BY EmptyTidy
<1>4. QueueType' /\ TidyQueues' /\ BatchDone'
  BY <1>1, <1>2, <1>3 DEF QueueType, TidyQueues, BatchDone
<1>5. EngineOnly'
  BY <1>1, <1>3 DEF EngineOnly, NoThread
<1>6. QueuesInOrder'
  <2>1. \A x \in Elems(external), y \in Elems(deferred) : Precedes(x, y)
    BY <1>1 DEF QueuesInOrder, Before, Precedes, EngineOnly, NoThread
  <2>2. Before(applied', taken') /\ Before(taken', deferred')
    BY <1>1, <1>2, <2>1 DEF QueuesInOrder, Before
  <2>. QED
    BY <1>1, <2>2, EmptyTidy DEF QueuesInOrder
<1>7. NothingLost'
  <2> DEFINE A == Ids(Elems(applied))  B == Ids(Elems(taken'))  P == Ids(Elems(pending))
             D == Ids(Elems(deferred))  X == Ids(Elems(external))
  <2>1. /\ Ids(Elems(<<>>)) = {} /\ Ids(Elems(taken)) = {}
    BY EmptyTidy, IdsAlgebra
  <2>2. Kept = X \cup P \cup D \cup A /\ Kept' = D \cup B \cup A
    BY <2>1 DEF Kept
  <2>3. B \subseteq P \cup X
    BY <1>2 DEF Ids
  <2>4. replaced' = replaced \cup ((P \cup X) \ B)
    <3>1. \A s : EditIds(s) = Ids(Elems(s))
      BY DEF EditIds, Ids, Elems
    <3>. QED
      BY <3>1 DEF Dropped
  <2>5. (P \cup X) \cap (D \cup A) = {}
    <3>1. P \cap D = {} /\ P \cap A = {} /\ X \cap D = {} /\ X \cap A = {}
      BY <1>1, BeforeDisjoint DEF QueuesInOrder
    <3>. QED
      BY <3>1
  <2> HIDE DEF A, B, P, D, X
  <2>. QED
    BY <1>1, <2>2, <2>3, <2>4, <2>5 DEF NothingLost
<1>. QED
  BY <1>4, <1>5, <1>6, <1>7 DEF Account

\* A round sets the structural edits aside.
LEMMA DeferStep ==
    ASSUME Account, Defer
    PROVE  Account'
<1>1. QueueType /\ TidyQueues /\ QueuesInOrder /\ NothingLost /\ EngineOnly /\ BatchDone
  BY DEF Account
<1> DEFINE S == OfKind(pending, SetAside)  R == OfKind(pending, EditKinds \ SetAside)
<1>2. /\ deferred' = deferred \o S /\ pending' = R /\ pc = "defer" /\ pc' = "deferred"
      /\ UNCHANGED <<external, taken, issued, applied, replaced, failed>>
  BY DEF Defer, Deferred, ghosts
<1>3. /\ S \in Seq(EditRecord) /\ R \in Seq(EditRecord) /\ Tidy(S) /\ Tidy(R)
      /\ Elems(S) = {x \in Elems(pending) : x.kind \in SetAside}
      /\ Elems(R) = {x \in Elems(pending) : x.kind \in EditKinds \ SetAside}
  BY <1>1, OfKindPicks, TidyOfKind, ElemsOfKind DEF QueueType, TidyQueues
<1> HIDE DEF S, R
<1>4. NoThread(Elems(pending)) /\ NoThread(Elems(deferred))
  BY <1>1, <1>2 DEF EngineOnly
<1>5. Before(deferred, S) /\ Before(R, S)
  <2>1. \A x \in Elems(R), y \in Elems(S) : x.id # y.id
    BY <1>1, <1>3, TidyIds DEF QueueType, TidyQueues
  <2>2. \A x \in Elems(deferred), y \in Elems(S) : x.id # y.id
    BY <1>1, <1>3 DEF QueuesInOrder, Before, Precedes
  <2>. QED
    BY <1>3, <1>4, <2>1, <2>2 DEF Before, Precedes, NoThread
<1>6. /\ deferred' \in Seq(EditRecord) /\ Tidy(deferred')
      /\ Elems(deferred') = Elems(deferred) \cup Elems(S)
  BY <1>1, <1>2, <1>3, <1>5, TidyConcat DEF QueueType, TidyQueues
<1>7. Elems(pending) = Elems(R) \cup Elems(S)
  <2>1. \A x \in Elems(pending) : x.kind \in EditKinds
    BY AccountBounds DEF Queued, EditRecord
  <2>. QED
    BY <1>3, <2>1
<1>8. QueueType' /\ TidyQueues' /\ BatchDone'
  BY <1>1, <1>2, <1>3, <1>6 DEF QueueType, TidyQueues, BatchDone
<1>9. QueuesInOrder'
  BY <1>1, <1>2, <1>5, <1>6, <1>7 DEF QueuesInOrder, Before
<1>10. EngineOnly'
  BY <1>2, <1>4, <1>6, <1>7 DEF EngineOnly, NoThread
<1>11. NothingLost'
  <2>1. Ids(Elems(pending)) = Ids(Elems(R)) \cup Ids(Elems(S))
    BY <1>7 DEF Ids
  <2>2. Ids(Elems(deferred')) = Ids(Elems(deferred)) \cup Ids(Elems(S))
    BY <1>6 DEF Ids
  <2>3. Kept' = Kept
    BY <1>2, <2>1, <2>2 DEF Kept
  <2>. QED
    BY <1>1, <1>2, <2>3 DEF NothingLost
<1>. QED
  BY <1>8, <1>9, <1>10, <1>11 DEF Account

LEMMA BeginApplyStep ==
    ASSUME Account, pc # "apply", NEW next, BeginApply(next),
           UNCHANGED <<issued, applied>>
    PROVE  Account'
<1>1. taken = <<>>
  BY DEF Account, BatchDone
<1>2. CASE AbsorbFails
  BY <1>1, <1>2, FailStep DEF AbsorbFails, Fail
<1>3. CASE ~AbsorbFails
  BY <1>1, <1>3, TakeStep DEF BeginApply
<1>. QED
  BY <1>2, <1>3

\* What callbacks queue comes from them or is what they were given.
LEMMA CallbacksBring ==
    ASSUME Account, NEW es \in {<<>>, external, deferred},
           NEW tick \in Nat, NEW kinds \in SUBSET EditKinds,
           Callbacks(es, tick, kinds) \/ (Queue(es) /\ issued' = issued)
    PROVE  \E N : /\ Leaves(es, N)
                  /\ \/ N = {} /\ issued' = issued
                     \/ issued' = issued + 1 /\ \E e : N = {e} /\ NewEdit(e, tick, kinds)
<1>1. QueueType /\ TidyQueues /\ QueuesInOrder
  BY DEF Account
<1>2. /\ es \in Seq(EditRecord) /\ Tidy(es) /\ Before(pending, es)
      /\ pending \in Seq(EditRecord) /\ Tidy(pending) /\ issued \in Nat
      /\ Elems(es) \subseteq Queued
  <2>1. /\ <<>> \in Seq(EditRecord) /\ Tidy(<<>>) /\ Before(pending, <<>>) /\ Elems(<<>>) = {}
    BY EmptyTidy
  <2>2. Elems(external) \subseteq Queued /\ Elems(deferred) \subseteq Queued
    BY DEF Queued
  <2>. QED
    BY <1>1, <2>1, <2>2 DEF QueueType, TidyQueues, QueuesInOrder
<1>3. \A x \in Elems(pending) \cup Elems(es) : x.id <= issued
  BY <1>2, AccountBounds DEF Queued
<1>4. CASE Callbacks(es, tick, kinds)
  BY <1>2, <1>3, <1>4, CallbacksLeave
<1>5. CASE Queue(es) /\ issued' = issued
  BY <1>2, <1>5, QueueLeaves
<1>. QED
  BY <1>4, <1>5

\* Callbacks that run outside a batch; afterwards the queue holds no edit of
\* a thread but what was there, or in the channel, before.
LEMMA CallbackStep ==
    ASSUME Account, NEW es, NEW tick \in Nat, NEW kinds \in SUBSET EditKinds,
           Callbacks(es, tick, kinds) \/ (Queue(es) /\ issued' = issued),
           \/ es = <<>> /\ external' = external /\ deferred' = deferred
           \/ es = external /\ external' = <<>> /\ deferred' = deferred
           \/ es = deferred /\ deferred' = <<>> /\ external' = external,
           pc # "apply", pc' # "apply", UNCHANGED <<taken, applied, failed>>,
           \/ pc' \in {"idle", "intent", "absorb", "settled"}
           \/ es = <<>> /\ pc \notin {"idle", "intent", "absorb", "settled"}
    PROVE  Account'
<1>1. QueueType /\ TidyQueues /\ QueuesInOrder /\ EngineOnly /\ BatchDone
  BY DEF Account
<1>2. PICK N : /\ Leaves(es, N)
               /\ \/ N = {} /\ issued' = issued
                  \/ issued' = issued + 1 /\ \E e : N = {e} /\ NewEdit(e, tick, kinds)
  <2>1. es \in {<<>>, external, deferred}
    OBVIOUS
  <2>. QED
    BY <2>1, CallbacksBring
<1>5. /\ applied' \in Seq(EditRecord) /\ taken' \in Seq(EditRecord)
      /\ Tidy(applied') /\ Tidy(taken') /\ Before(applied', taken')
      /\ Elems(applied') \cup Elems(taken') = Elems(applied) \cup Elems(taken)
      /\ Elems(taken') \subseteq Elems(taken)
  BY <1>1 DEF QueueType, TidyQueues, QueuesInOrder
<1>6. QueueType' /\ TidyQueues' /\ QueuesInOrder' /\ NothingLost'
  BY <1>2, <1>5, QueueStep
<1>7. BatchDone'
  BY <1>1 DEF BatchDone
<1>8. EngineOnly'
  <2>1. NoThread(Elems(deferred'))
    BY <1>1, EmptyTidy DEF EngineOnly, NoThread
  <2>2. CASE es = <<>> /\ pc \notin {"idle", "intent", "absorb", "settled"}
    <3>1. Elems(pending') \subseteq Elems(pending) \cup N /\ NoThread(Elems(pending))
      BY <1>1, <1>2, <2>2, EmptyTidy DEF EngineOnly, Leaves
    <3>2. NoThread(N)
      BY <1>2 DEF NewEdit, NoThread
    <3>. QED
      BY <2>1, <3>1, <3>2 DEF EngineOnly, NoThread
  <2>. QED
    BY <2>1, <2>2 DEF EngineOnly
<1>. QED
  BY <1>6, <1>7, <1>8 DEF Account

\* One edit of the batch is applied, and its callbacks queue behind it.
LEMMA ApplyEditStep ==
    ASSUME Account, ApplyEdit
    PROVE  Account'
<1>1. QueueType /\ TidyQueues /\ QueuesInOrder /\ EngineOnly
  BY DEF Account
<1>2. /\ pc = "apply" /\ pc' = "apply" /\ taken # <<>> /\ taken' = Tail(taken)
      /\ applied' = Append(applied, Head(taken))
      /\ Callbacks(<<>>, 0, EditKinds)
      /\ UNCHANGED <<external, deferred, failed>>
  BY DEF ApplyEdit
<1>3. /\ taken' \in Seq(EditRecord) /\ Head(taken) \in EditRecord /\ Tidy(taken')
      /\ Elems(taken) = Elems(taken') \cup {Head(taken)}
      /\ \A x \in Elems(taken') : Precedes(Head(taken), x)
  BY <1>1, <1>2, TidyTail DEF QueueType, TidyQueues
<1>4. /\ applied' \in Seq(EditRecord) /\ Tidy(applied')
      /\ Elems(applied') = Elems(applied) \cup {Head(taken)}
  <2>1. \A x \in Elems(applied) : Precedes(x, Head(taken))
    BY <1>1, <1>3 DEF QueuesInOrder, Before
  <2>2. \A i \in 1..Len(applied) : Precedes(applied[i], Head(taken))
    BY <2>1 DEF Elems
  <2>3. applied \in Seq(EditRecord) /\ Tidy(applied)
    BY <1>1 DEF QueueType, TidyQueues
  <2>. QED
    BY <1>2, <1>3, <2>2, <2>3, TidyAppend, ElemsAppend
<1>5. Before(applied', taken')
  BY <1>1, <1>3, <1>4 DEF QueuesInOrder, Before
<1>6. PICK N : /\ Leaves(<<>>, N)
               /\ \/ N = {} /\ issued' = issued
                  \/ issued' = issued + 1 /\ \E e : N = {e} /\ NewEdit(e, 0, EditKinds)
  BY <1>2, CallbacksBring
<1>7. QueueType' /\ TidyQueues' /\ QueuesInOrder' /\ NothingLost'
  BY <1>2, <1>3, <1>4, <1>5, <1>6, QueueStep
<1>8. EngineOnly'
  <2>1. NoThread(N) /\ Elems(pending') \subseteq Elems(pending) \cup N
    BY <1>6, EmptyTidy DEF NewEdit, NoThread, Leaves
  <2>. QED
    BY <1>1, <1>2, <2>1 DEF EngineOnly, NoThread
<1>9. BatchDone'
  BY <1>2 DEF BatchDone
<1>. QED
  BY <1>7, <1>8, <1>9 DEF Account

LEMMA AccountStep == Account /\ Clock /\ [TickNext]_tickVars => Account'
<1> SUFFICES ASSUME Account, Clock, [TickNext]_tickVars PROVE Account'
  OBVIOUS
<1>k. {"set", "other"} \in SUBSET EditKinds /\ EditKinds \in SUBSET EditKinds /\ 0 \in Nat
  BY DEF EditKinds
<1>1. CASE Send
  BY <1>1, SendStep
<1>2. CASE ApplyPending
  <2>1. pc # "apply" /\ UNCHANGED <<issued, applied>>
    BY <1>2 DEF ApplyPending, AfterApply
  <2>2. CASE BeginApply(AfterApply[pc])
    BY <2>1, <2>2, BeginApplyStep
  <2>3. CASE pending = <<>> /\ pc' = AfterApply[pc] /\ UNCHANGED <<queues, then, ghosts, pass>>
    <3>1. pc' # "apply"
      BY <1>2, <2>3 DEF ApplyPending, AfterApply
    <3>2. NoThread(Elems(pending))
      BY <2>3, EmptyTidy DEF NoThread
    <3>3. UNCHANGED <<external, pending, deferred, taken, issued, applied, replaced, failed>>
      BY <2>1, <2>3 DEF queues, ghosts
    <3>. QED
      BY <2>1, <3>1, <3>2, <3>3 DEF Account, QueueType, TidyQueues, QueuesInOrder, EngineOnly,
         NothingLost, Kept, BatchDone
  <2>. QED
    BY <1>2, <2>2, <2>3 DEF ApplyPending
<1>3. CASE ApplyEdit
  BY <1>3, ApplyEditStep
<1>4. CASE EditFails
  BY <1>4, FailStep DEF EditFails, Fail
<1>5. CASE ApplyDone
  <2>1. /\ UNCHANGED <<external, pending, deferred, taken, issued, applied, replaced, failed>>
        /\ pc = "apply" /\ taken = <<>>
    BY <1>5 DEF ApplyDone, queues, ghosts
  <2>. QED
    BY <2>1 DEF Account, QueueType, TidyQueues, QueuesInOrder, EngineOnly, NothingLost, Kept, BatchDone
<1>6. CASE Intent
  BY <1>6, <1>k, CallbackStep DEF Intent
<1>7. CASE IntentDispatch
  BY <1>7, <1>k, CallbackStep DEF IntentDispatch
<1>8. CASE BeginTick
  BY <1>8, <1>k, CallbackStep DEF BeginTick
<1>9. CASE Preprocess
  <2>1. CASE RunCallbacks(0, "preprocessed")
    BY <1>9, <1>k, <2>1, CallbackStep DEF Preprocess, RunCallbacks
  <2>2. CASE pc' = "control" /\ UNCHANGED <<pending, replaced, issued>>
    BY <1>9, <2>2 DEF Preprocess, Account, QueueType, TidyQueues, QueuesInOrder, EngineOnly,
       NothingLost, Kept, BatchDone
  <2>. QED
    BY <1>9, <2>1, <2>2 DEF Preprocess
<1>10. CASE ControlPass
  BY <1>10, <1>k, CallbackStep DEF ControlPass, Control
<1>11. CASE Update
  BY <1>11, <1>k, CallbackStep DEF Update, RunCallbacks
<1>12. CASE Round
  <2>1. CASE AbsorbFails /\ issued' = issued
    <3>1. taken = <<>>
      BY <1>12 DEF Round, Account, BatchDone
    <3>. QED
      BY <1>12, <2>1, <3>1, FailStep DEF Round, AbsorbFails, Fail
  <2>2. CASE Control(external) /\ external' = <<>> /\ pc' = "settled"
             /\ UNCHANGED <<deferred, taken, then, pass, failed>>
    BY <1>12, <1>k, <2>2, CallbackStep DEF Round, Control
  <2>. QED
    BY <1>12, <2>1, <2>2 DEF Round
<1>13. CASE Test
  <2>1. /\ UNCHANGED <<external, pending, deferred, taken, issued, applied, replaced, failed>>
        /\ pc = "test" /\ pc' # "apply"
    BY <1>13 DEF Test, queues, ghosts, Fail
  <2>. QED
    BY <2>1 DEF Account, QueueType, TidyQueues, QueuesInOrder, EngineOnly, NothingLost, Kept, BatchDone
<1>14. CASE DispatchInbox
  <2>1. CASE Callbacks(<<>>, time.tick, EditKinds)
    <3>1. time.tick \in Nat
      BY DEF Clock, TimeType
    <3>2. pc # "apply" /\ pc' # "apply" /\ pc \notin {"idle", "intent", "absorb", "settled"}
      BY <1>14 DEF DispatchInbox, Fail
    <3>. QED
      BY <1>14, <1>k, <2>1, <3>1, <3>2, CallbackStep DEF DispatchInbox
  <2>2. CASE pc' = "defer" /\ UNCHANGED <<pending, replaced, issued, inbox, pass>>
    BY <1>14, <2>2 DEF DispatchInbox, Account, QueueType, TidyQueues, QueuesInOrder, EngineOnly,
       NothingLost, Kept, BatchDone
  <2>. QED
    BY <1>14, <2>1, <2>2 DEF DispatchInbox
<1>15. CASE Defer
  BY <1>15, DeferStep
<1>16. CASE UNCHANGED tickVars
  BY <1>16 DEF tickVars, queues, ghosts, Account, QueueType, TidyQueues, QueuesInOrder, EngineOnly,
     NothingLost, Kept, BatchDone
<1>. QED
  BY <1>1, <1>2, <1>3, <1>4, <1>5, <1>6, <1>7, <1>8, <1>9, <1>10, <1>11, <1>12, <1>13, <1>14,
     <1>15, <1>16 DEF TickNext

\* A tidy queue holds as many ids as edits.
LEMMA TidyCount ==
    ASSUME NEW s \in Seq(EditRecord), Tidy(s)
    PROVE  IsFiniteSet(Ids(Elems(s))) /\ Cardinality(Ids(Elems(s))) = Len(s)
<1> DEFINE f == [i \in 1..Len(s) |-> s[i].id]
           I == Ids(Elems(s))
<1>1. f \in [1..Len(s) -> I]
  BY DEF Ids, Elems
<1>2. \A i, j \in 1..Len(s) : f[i] = f[j] => i = j
  <2> SUFFICES ASSUME NEW i \in 1..Len(s), NEW j \in 1..Len(s), i # j PROVE f[i] # f[j]
    OBVIOUS
  <2>1. Precedes(s[i], s[j]) \/ Precedes(s[j], s[i])
    BY DEF Tidy
  <2>. QED
    BY <2>1 DEF Precedes
<1>3. \A x \in I : \E i \in 1..Len(s) : f[i] = x
  BY DEF Ids, Elems
<1> HIDE DEF f, I
<1>4. f \in Bijection(1..Len(s), I)
  BY <1>1, <1>2, <1>3 DEF Bijection, Injection, Surjection, IsInjective
<1>5. ExistsBijection(1..Len(s), I)
  BY <1>4 DEF ExistsBijection
<1>6. Len(s) \in Nat /\ IsFiniteSet(1..Len(s)) /\ Cardinality(1..Len(s)) = Len(s)
  <2>1. Len(s) \in Nat
    OBVIOUS
  <2>. QED
    BY SMTT(20), <2>1, FS_Interval
<1>. QED
  BY <1>5, <1>6, FS_Bijection DEF I

LEMMA DisjointCount ==
    ASSUME NEW S, NEW T, IsFiniteSet(S), IsFiniteSet(T), S \cap T = {}
    PROVE  /\ IsFiniteSet(S \cup T)
           /\ Cardinality(S \cup T) = Cardinality(S) + Cardinality(T)
           /\ Cardinality(S) \in Nat /\ Cardinality(T) \in Nat
<1>1. Cardinality({}) = 0 /\ Cardinality(S) \in Nat /\ Cardinality(T) \in Nat
  BY FS_EmptySet, FS_CardinalityType
<1>2. /\ IsFiniteSet(S \cup T)
      /\ Cardinality(S \cup T) = Cardinality(S) + Cardinality(T) - Cardinality(S \cap T)
  BY FS_Union
<1>3. Cardinality(S \cap T) = 0
  BY <1>1
<1>. QED
  BY <1>1, <1>2, <1>3

LEMMA AccountImplies == Account => EachEditOnce
<1> SUFFICES ASSUME Account PROVE EachEditOnce
  OBVIOUS
<1>1. QueueType /\ TidyQueues /\ QueuesInOrder /\ NothingLost
  BY DEF Account
<1>2. SentInOrder(applied)
  BY <1>1 DEF SentInOrder, TidyQueues, Tidy, Precedes
<1> DEFINE A == Ids(Elems(applied))  B == Ids(Elems(taken))  P == Ids(Elems(pending))
           D == Ids(Elems(deferred))  X == Ids(Elems(external))
<1>3. \A s : EditIds(s) = Ids(Elems(s))
  BY DEF EditIds, Ids, Elems
<1>4. /\ X \cup P \cup D \cup B \cup A \cup replaced \cup failed = 1..issued
      /\ (X \cup P \cup D \cup B \cup A) \cap (replaced \cup failed) = {} /\ replaced \cap failed = {}
  BY <1>1 DEF NothingLost, Kept
<1>5. UNION {EditIds(external), EditIds(pending), EditIds(deferred), EditIds(taken),
             EditIds(applied), replaced, failed} = 1..issued
  BY <1>3, <1>4
<1>6. /\ X \cap P = {} /\ (X \cup P) \cap D = {} /\ (X \cup P \cup D) \cap B = {}
      /\ (X \cup P \cup D \cup B) \cap A = {}
  <2>1. /\ A \cap B = {} /\ A \cap P = {} /\ A \cap D = {} /\ A \cap X = {} /\ B \cap P = {}
        /\ B \cap D = {} /\ B \cap X = {} /\ P \cap D = {} /\ P \cap X = {} /\ D \cap X = {}
    BY <1>1, BeforeDisjoint DEF QueuesInOrder
  <2> HIDE DEF A, B, P, D, X
  <2>. QED
    BY <2>1
<1>7. /\ IsFiniteSet(X) /\ Cardinality(X) = Len(external)
      /\ IsFiniteSet(P) /\ Cardinality(P) = Len(pending)
      /\ IsFiniteSet(D) /\ Cardinality(D) = Len(deferred)
      /\ IsFiniteSet(B) /\ Cardinality(B) = Len(taken)
      /\ IsFiniteSet(A) /\ Cardinality(A) = Len(applied)
  BY <1>1, TidyCount DEF QueueType, TidyQueues
<1> HIDE DEF A, B, P, D, X
<1>8. /\ IsFiniteSet(1..issued) /\ Cardinality(1..issued) = issued
      /\ issued \in Nat
  <2>1. issued \in Nat
    BY <1>1 DEF QueueType
  <2>. QED
    BY <2>1, FS_Interval
<1>9. IsFiniteSet(replaced) /\ IsFiniteSet(failed)
  BY <1>4, <1>8, FS_Subset
<1>10. IsFiniteSet(X \cup P) /\ Cardinality(X \cup P) = Cardinality(X) + Cardinality(P)
  BY <1>6, <1>7, DisjointCount
<1>11. /\ IsFiniteSet(X \cup P \cup D)
       /\ Cardinality(X \cup P \cup D) = Cardinality(X) + Cardinality(P) + Cardinality(D)
  BY ZenonT(40), <1>6, <1>7, <1>10, DisjointCount
<1>12. /\ IsFiniteSet(X \cup P \cup D \cup B)
       /\ Cardinality(X \cup P \cup D \cup B) =
            Cardinality(X) + Cardinality(P) + Cardinality(D) + Cardinality(B)
  BY ZenonT(40), <1>6, <1>7, <1>11, DisjointCount
<1>13. /\ IsFiniteSet(X \cup P \cup D \cup B \cup A)
       /\ Cardinality(X \cup P \cup D \cup B \cup A) =
            Cardinality(X) + Cardinality(P) + Cardinality(D) + Cardinality(B) + Cardinality(A)
  BY ZenonT(40), <1>6, <1>7, <1>12, DisjointCount
<1>14. /\ IsFiniteSet(replaced \cup failed)
       /\ Cardinality(replaced \cup failed) = Cardinality(replaced) + Cardinality(failed)
       /\ Cardinality(replaced) \in Nat /\ Cardinality(failed) \in Nat
  BY <1>4, <1>9, DisjointCount
<1>15. Cardinality((X \cup P \cup D \cup B \cup A) \cup (replaced \cup failed)) =
         Cardinality(X \cup P \cup D \cup B \cup A) + Cardinality(replaced \cup failed)
  BY <1>4, <1>13, <1>14, DisjointCount
<1>16. (X \cup P \cup D \cup B \cup A) \cup (replaced \cup failed) = 1..issued
  BY <1>4
<1>17. /\ Len(external) \in Nat /\ Len(pending) \in Nat /\ Len(deferred) \in Nat
       /\ Len(taken) \in Nat /\ Len(applied) \in Nat
  BY <1>1 DEF QueueType
<1>18. issued = Cardinality(X \cup P \cup D \cup B \cup A) + Cardinality(replaced \cup failed)
  BY <1>8, <1>15, <1>16
<1>19. /\ Cardinality(X \cup P \cup D \cup B \cup A) =
            Len(external) + Len(pending) + Len(deferred) + Len(taken) + Len(applied)
       /\ Cardinality(replaced \cup failed) = Cardinality(replaced) + Cardinality(failed)
  BY <1>7, <1>13, <1>14
<1>20. Len(external) + Len(pending) + Len(deferred) + Len(taken) + Len(applied)
         + Cardinality(replaced) + Cardinality(failed) = issued
  BY <1>8, <1>14, <1>17, <1>18, <1>19
<1>. QED
  BY <1>2, <1>5, <1>20 DEF EachEditOnce

\* The inductive invariant: where each edit is, in what order, and what the
\* engine's phase says of it.
THEOREM AccountCorrect == TickSpec => []Account
<1>1. Account /\ Clock /\ [TickNext]_tickVars => Account' /\ Clock'
  BY AccountStep, ClockStep
<1>. QED
  BY <1>1, AccountInit, ClockInit, PTL DEF TickSpec

\* However ticks, rounds, intents and threads take turns, and whatever fails,
\* each edit that was issued is in exactly one place, and what threads send
\* is applied in the order it was sent.
THEOREM EachEditOnceCorrect == TickSpec => []EachEditOnce
<1>. QED
  BY AccountCorrect, AccountImplies, PTL

-----------------------------------------------------------------------------
(* Structural edits of a round wait for the next tick.                      *)

Fits(S) == \A x \in S : ~(IsStructural(x) /\ x.bornIn = time.tick)

\* No edit is from a tick to come, and within a tick only the edits a dispatch
\* has just left are this tick's structural edits.
Waits ==
    /\ \A x \in Queued : x.bornIn <= time.tick
    /\ \A x \in Elems(external) : x.bornIn = 0
    /\ Phase \notin Between /\ pc # "defer" => Fits(Elems(pending) \cup Elems(taken))

LEMMA WaitsInit == TickInit => Waits
BY EmptyTidy DEF TickInit, Waits, Queued, Phase, Between

\* Callbacks that run while no tick is at the point of setting edits aside.
LEMMA WaitsCallbacks ==
    ASSUME Account, Clock, Waits, Clock', NEW es, NEW tick \in Nat, NEW kinds \in SUBSET EditKinds,
           Callbacks(es, tick, kinds) \/ (Queue(es) /\ issued' = issued),
           \/ es = <<>> /\ external' = external /\ deferred' = deferred
           \/ es = external /\ external' = <<>> /\ deferred' = deferred
           \/ es = deferred /\ deferred' = <<>> /\ external' = external /\ Phase' \in Between
           \/ es = deferred /\ deferred' = <<>> /\ external' = external /\ time'.tick > time.tick,
           \/ tick = 0
           \/ tick = time.tick /\ (Phase' \in Between \/ pc' = "defer"),
           \/ Phase' \in Between \/ pc' = "defer"
           \/ Phase \notin Between /\ pc # "defer" /\ time'.tick = time.tick
           \/ time'.tick > time.tick,
           time'.tick >= time.tick,
           Elems(taken') \subseteq Elems(taken)
    PROVE  Waits'
<1>1. PICK N : /\ Leaves(es, N)
               /\ \/ N = {} /\ issued' = issued
                  \/ issued' = issued + 1 /\ \E e : N = {e} /\ NewEdit(e, tick, kinds)
  <2>1. es \in {<<>>, external, deferred}
    OBVIOUS
  <2>. QED
    BY <2>1, CallbacksBring
<1>2. /\ \A n \in N : n.bornIn = tick
      /\ Elems(pending') \subseteq Elems(pending) \cup Elems(es) \cup N
  BY <1>1 DEF NewEdit, Leaves
<1>3. Elems(<<>>) = {}
  BY EmptyTidy
<1>4. time.tick \in Nat /\ time'.tick \in Nat
  BY DEF Clock, TimeType
<1>5. \A x \in Queued : x.bornIn \in Nat /\ x.bornIn <= time.tick
  BY AccountBounds DEF Waits, EditRecord
<1>6. Elems(es) \subseteq Queued /\ Elems(external') \subseteq Elems(external) /\ Elems(deferred') \subseteq Elems(deferred)
  BY <1>3 DEF Queued
<1>7. \A x \in Queued' : x \in Queued \/ x \in N
  BY <1>2, <1>6 DEF Queued
<1>8. \A x \in Queued' : x.bornIn <= time'.tick
  <2>1. tick <= time.tick
    BY <1>4
  <2>. QED
    BY <1>2, <1>4, <1>5, <1>7, <2>1
<1>9. \A x \in Elems(external') : x.bornIn = 0
  BY <1>6 DEF Waits
<1>10. Phase' \notin Between /\ pc' # "defer" => Fits(Elems(pending) \cup Elems(taken))'
  <2> SUFFICES ASSUME Phase' \notin Between, pc' # "defer",
                      NEW x \in Elems(pending') \cup Elems(taken'), IsStructural(x)
               PROVE  x.bornIn # time'.tick
    BY DEF Fits
  <2>1. time'.tick > 0
    BY DEF Clock
  <2>2. CASE x \in N
    BY <1>2, <2>1, <2>2
  <2>3. CASE time'.tick > time.tick /\ x \notin N
    <3>1. x \in Queued
      BY <1>2, <1>6, <2>3 DEF Queued
    <3>. QED
      BY <1>4, <1>5, <2>3, <3>1
  <2>4. CASE time'.tick = time.tick /\ x \notin N
    <3>1. Phase \notin Between /\ pc # "defer" /\ es \in {<<>>, external}
      BY <1>4, <2>4
    <3>2. x \in Elems(pending) \cup Elems(taken) \/ x \in Elems(external)
      BY <1>2, <1>3, <2>4, <3>1
    <3>. QED
      BY <2>1, <2>4, <3>1, <3>2 DEF Waits, Fits
  <2>. QED
    BY <1>4, <2>2, <2>3, <2>4
<1>. QED
  BY <1>8, <1>9, <1>10 DEF Waits

\* A step that queues nothing.
LEMMA WaitsStutter ==
    ASSUME Waits, time'.tick = time.tick, Queued' \subseteq Queued,
           Elems(external') \subseteq Elems(external),
           \/ Phase' \in Between \/ pc' = "defer"
           \/ /\ Phase \notin Between /\ pc # "defer"
              /\ Elems(pending') \cup Elems(taken') \subseteq Elems(pending) \cup Elems(taken)
    PROVE  Waits'
<1>1. /\ \A x \in Queued' : x.bornIn <= time'.tick
      /\ \A x \in Elems(external') : x.bornIn = 0
  BY DEF Waits
<1>2. Phase' \notin Between /\ pc' # "defer" => Fits(Elems(pending) \cup Elems(taken))'
  BY DEF Waits, Fits
<1>. QED
  BY <1>1, <1>2 DEF Waits

LEMMA WaitsSend ==
    ASSUME Account, Clock, Waits, Send
    PROVE  Waits'
<1>1. PICK k \in EditKinds : external' = Append(external, Edit(k, "thread", 0))
  BY DEF Send
<1> DEFINE e == Edit(k, "thread", 0)
<1>2. e \in EditRecord /\ e.bornIn = 0
  BY DEF Edit, EditRecord, Account, QueueType
<1> HIDE DEF e
<1>3. UNCHANGED <<pending, deferred, taken, time, pc, then>>
  BY DEF Send
<1>4. Elems(external') = Elems(external) \cup {e}
  BY <1>1, <1>2, ElemsAppend DEF Account, QueueType, e
<1>5. Queued' = Queued \cup {e}
  BY <1>3, <1>4 DEF Queued
<1>6. time.tick \in Nat
  BY DEF Clock, TimeType
<1>. QED
  BY <1>2, <1>3, <1>4, <1>5, <1>6 DEF Waits, Fits, Phase

\* Within a tick, what was sent from outside and what a tick has queued may
\* be taken together.
LEMMA WaitsTake ==
    ASSUME Account, Clock, Waits, NEW next, BeginApply(next), pc # "apply", pc # "defer",
           Phase \in Between => next \in Between, time' = time
    PROVE  Waits'
<1>1. taken = <<>> /\ Elems(<<>>) = {}
  BY EmptyTidy DEF Account, BatchDone
<1>2. CASE AbsorbFails
  <2>1. /\ external' = <<>> /\ pc' = "idle" /\ UNCHANGED <<pending, deferred, taken, then>>
    BY <1>2 DEF AbsorbFails, Fail
  <2>. QED
    BY <1>1, <2>1, WaitsStutter DEF Queued, Phase, Between
<1>3. CASE ~AbsorbFails
  <2>1. /\ external' = <<>> /\ pending' = <<>> /\ taken' = QueuedAll(pending, external)
        /\ then' = next /\ pc' = "apply" /\ deferred' = deferred
    BY <1>3 DEF BeginApply
  <2>2. Elems(taken') \subseteq Elems(pending) \cup Elems(external)
    BY <2>1, QueuedAllTidy DEF Account, QueueType, TidyQueues, QueuesInOrder
  <2>3. Queued' \subseteq Queued /\ Elems(external') = {} /\ Elems(pending') = {}
    BY <1>1, <2>1, <2>2 DEF Queued
  <2>4. Phase' \notin Between => Phase \notin Between /\ time.tick > 0 /\ time.tick \in Nat
    BY <2>1 DEF Phase, Clock, TimeType
  <2>. QED
    BY <2>2, <2>3, <2>4 DEF Waits, Fits
<1>. QED
  BY <1>2, <1>3

LEMMA WaitsDefer ==
    ASSUME Account, Waits, Defer
    PROVE  Waits'
<1>1. /\ deferred' = deferred \o OfKind(pending, SetAside)
      /\ pending' = OfKind(pending, EditKinds \ SetAside)
      /\ UNCHANGED <<external, taken, time, then>> /\ pc = "defer" /\ pc' = "deferred"
  BY DEF Defer, Deferred
<1>2. /\ pending \in Seq(EditRecord) /\ deferred \in Seq(EditRecord)
      /\ Tidy(pending) /\ Tidy(deferred) /\ Before(pending, deferred)
  BY DEF Account, QueueType, TidyQueues, QueuesInOrder
<1>3. /\ OfKind(pending, SetAside) \in Seq(EditRecord)
      /\ Elems(OfKind(pending, SetAside)) \subseteq Elems(pending)
      /\ Elems(pending') = {x \in Elems(pending) : x.kind \in EditKinds \ SetAside}
  BY <1>1, <1>2, OfKindPicks, ElemsOfKind
<1>4. Elems(deferred') \subseteq Elems(deferred) \cup Elems(pending)
  BY <1>1, <1>2, <1>3, ElemsConcat
<1>5. Queued' \subseteq Queued
  BY <1>1, <1>3, <1>4 DEF Queued
<1>6. taken' = <<>> /\ Elems(<<>>) = {}
  BY <1>1, EmptyTidy DEF Account, BatchDone
<1>7. Fits(Elems(pending) \cup Elems(taken))'
  BY <1>3, <1>6 DEF Fits, IsStructural, SetAside
<1>. QED
  BY <1>1, <1>5, <1>7 DEF Waits

LEMMA WaitsStep == Account /\ Clock /\ Waits /\ [TickNext]_tickVars => Waits'
<1> SUFFICES ASSUME Account, Clock, Waits, [TickNext]_tickVars PROVE Waits'
  OBVIOUS
<1>a. Account' /\ Clock'
  BY AccountStep, ClockStep
<1>k. /\ {"set", "other"} \in SUBSET EditKinds /\ EditKinds \in SUBSET EditKinds /\ 0 \in Nat
      /\ time.tick \in Nat /\ time.tick >= time.tick /\ Elems(<<>>) = {}
  BY EmptyTidy DEF EditKinds, Clock, TimeType
<1>t. EmitEvent => time'.tick = time.tick
  BY EmitMoves DEF Clock
<1> USE DEF Phase, Between
<1>1. CASE Send
  BY <1>1, WaitsSend
<1>2. CASE ApplyPending
  <2>1. pc \in DOMAIN AfterApply /\ pc # "apply" /\ pc # "defer" /\ time' = time
    BY <1>2 DEF ApplyPending, AfterApply
  <2>2. AfterApply[pc] # "apply" /\ (pc = "intent" => AfterApply[pc] = "idle") /\ pc # "idle"
    BY <2>1 DEF AfterApply
  <2>3. CASE BeginApply(AfterApply[pc])
    BY <2>1, <2>2, <2>3, WaitsTake
  <2>4. CASE pc' = AfterApply[pc] /\ UNCHANGED queues
    <3>1. Queued' = Queued /\ UNCHANGED <<external, pending, taken>>
      BY <2>4 DEF Queued, queues
    <3>. QED
      BY <2>1, <2>2, <2>4, <3>1, WaitsStutter
  <2>. QED
    BY <1>2, <2>3, <2>4 DEF ApplyPending
<1>3. CASE ApplyEdit
  <2>1. Elems(taken') \subseteq Elems(taken)
    BY <1>3, TidyTail DEF ApplyEdit, Account, QueueType, TidyQueues
  <2>2. time'.tick = time.tick /\ Callbacks(<<>>, 0, EditKinds) /\ Phase' = Phase /\ pc = "apply"
    BY <1>3, <1>t DEF ApplyEdit
  <2>. QED
    BY <1>3, <1>a, <1>k, <2>1, <2>2, WaitsCallbacks DEF ApplyEdit
<1>4. CASE EditFails
  <2>1. Queued' \subseteq Queued /\ UNCHANGED <<external, time>> /\ pc' = "idle"
    BY <1>4, <1>k DEF EditFails, Fail, Queued
  <2>. QED
    BY <2>1, WaitsStutter
<1>5. CASE ApplyDone
  <2>1. Queued' = Queued /\ UNCHANGED <<external, pending, taken, time>>
    BY <1>5 DEF ApplyDone, Queued, queues
  <2>2. Phase' \in Between \/ (Phase' = Phase /\ pc # "defer")
    BY <1>5 DEF ApplyDone, Fail, Clock, TimeType, Continuations
  <2>. QED
    BY <2>1, <2>2, WaitsStutter
<1>6. CASE Intent
  BY <1>6, <1>a, <1>k, WaitsCallbacks DEF Intent
<1>7. CASE IntentDispatch
  BY <1>7, <1>a, <1>k, WaitsCallbacks DEF IntentDispatch
<1>8. CASE BeginTick
  <2>1. \/ time'.tick > time.tick
        \/ time'.tick = time.tick /\ pc' = "idle"
    BY <1>8, <1>k DEF BeginTick
  <2>2. time'.tick >= time.tick
    BY <1>k, <2>1, <1>a DEF Clock, TimeType
  <2>3. Queue(deferred) /\ issued' = issued /\ deferred' = <<>> /\ UNCHANGED <<external, taken>>
    BY <1>8 DEF BeginTick
  <2>. QED
    BY <1>a, <1>k, <2>1, <2>2, <2>3, WaitsCallbacks
<1>9. CASE Preprocess
  <2>1. CASE RunCallbacks(0, "preprocessed")
    BY <1>9, <1>a, <1>k, <2>1, WaitsCallbacks DEF Preprocess, RunCallbacks
  <2>2. CASE pc' = "control" /\ UNCHANGED <<pending, replaced, issued>>
    <3>1. Queued' = Queued /\ UNCHANGED <<external, pending, taken, time>>
      BY <1>9, <2>2 DEF Preprocess, Queued
    <3>. QED
      BY <1>9, <2>2, <3>1, WaitsStutter DEF Preprocess
  <2>. QED
    BY <1>9, <2>1, <2>2 DEF Preprocess
<1>10. CASE ControlPass
  <2>1. time'.tick = time.tick
    BY <1>10, <1>t DEF ControlPass
  <2>. QED
    BY <1>10, <1>a, <1>k, <2>1, WaitsCallbacks DEF ControlPass, Control
<1>11. CASE Update
  BY <1>11, <1>a, <1>k, WaitsCallbacks DEF Update, RunCallbacks
<1>12. CASE Round
  <2>1. CASE AbsorbFails /\ UNCHANGED <<inbox, time, issued>>
    <3>1. Queued' \subseteq Queued /\ Elems(external') \subseteq Elems(external) /\ pc' = "idle"
      BY <1>k, <2>1 DEF AbsorbFails, Fail, Queued
    <3>. QED
      BY <2>1, <3>1, WaitsStutter
  <2>2. CASE Control(external) /\ external' = <<>> /\ pc' = "settled"
             /\ (EmitEvent \/ UNCHANGED <<inbox, time>>)
             /\ UNCHANGED <<deferred, taken, then, pass, failed>>
    <3>1. time'.tick = time.tick
      BY <1>t, <2>2
    <3>. QED
      BY <1>12, <1>a, <1>k, <2>2, <3>1, WaitsCallbacks DEF Round, Control
  <2>. QED
    BY <1>12, <2>1, <2>2 DEF Round
<1>13. CASE Test
  <2>1. Queued' = Queued /\ UNCHANGED <<external, pending, taken>>
    BY <1>13 DEF Test, Queued, queues
  <2>2. time'.tick = time.tick
    BY <1>13, NextMicroMoves DEF Test, Clock
  <2>3. pc = "test" /\ pc' \in {"idle", "dispatch"}
    BY <1>13 DEF Test, Fail
  <2>. QED
    BY <2>1, <2>2, <2>3, WaitsStutter
<1>14. CASE DispatchInbox
  <2>1. CASE Callbacks(<<>>, time.tick, EditKinds)
    <3>1. pc' \in {"idle", "defer"} /\ UNCHANGED <<external, deferred, taken, time>>
      BY <1>14, <2>1 DEF DispatchInbox, Fail
    <3>. QED
      BY <1>a, <1>k, <2>1, <3>1, WaitsCallbacks
  <2>2. CASE pc' = "defer" /\ UNCHANGED <<pending, replaced, issued, inbox, pass>>
    <3>1. Queued' = Queued /\ UNCHANGED <<external, time>>
      BY <1>14, <2>2 DEF DispatchInbox, Queued
    <3>. QED
      BY <2>2, <3>1, WaitsStutter
  <2>. QED
    BY <1>14, <2>1, <2>2 DEF DispatchInbox
<1>15. CASE Defer
  BY <1>15, WaitsDefer
<1>16. CASE UNCHANGED tickVars
  BY <1>16 DEF tickVars, queues, Waits, Queued, Fits
<1>. QED
  BY <1>1, <1>2, <1>3, <1>4, <1>5, <1>6, <1>7, <1>8, <1>9, <1>10, <1>11, <1>12, <1>13, <1>14,
     <1>15, <1>16 DEF TickNext

LEMMA WaitsImplies == Waits /\ Clock => DispatchedStructureWaits
BY DEF Waits, DispatchedStructureWaits, Fits, Phase, Between, Elems, Clock, TimeType, Continuations

\* No tick applies a structural edit that one of its own rounds queued.
THEOREM DispatchedStructureWaitsCorrect == TickSpec => []DispatchedStructureWaits
<1>1. Account /\ Clock /\ Waits /\ [TickNext]_tickVars => Account' /\ Clock' /\ Waits'
  BY AccountStep, ClockStep, WaitsStep
<1>. QED
  BY <1>1, AccountInit, ClockInit, WaitsInit, WaitsImplies, PTL DEF TickSpec

-----------------------------------------------------------------------------
(* Scheduler.                                                              *)

(* The nodes of a bucket, picked from the sorted nodes.                    *)

\* o consists of the elements of q[1..k] that are in K, at the places m.
Picks(m, o, q, k, K) ==
    /\ m \in [1..Len(o) -> 1..k]
    /\ \A i, j \in 1..Len(o) : i < j => m[i] < m[j]
    /\ \A j \in 1..Len(o) : o[j] = q[m[j]] /\ q[m[j]] \in K
    /\ \A i \in 1..k : q[i] \in K => \E j \in 1..Len(o) : m[j] = i

\* h holds what Picked has kept after each element of q.
KeepsPicked(h, q, K) ==
    /\ h[0] = <<>>
    /\ \A k \in 1..Len(q) : h[k] = IF q[k] \in K THEN Append(h[k - 1], q[k]) ELSE h[k - 1]
    /\ Picked(q, K) = h[Len(q)]

LEMMA PickedSteps ==
    ASSUME NEW A, NEW q \in Seq(A), NEW K
    PROVE  \E h \in [0..Len(q) -> Seq(A)] : KeepsPicked(h, q, K)
<1> DEFINE n == Len(q)
           Step(k, a) == IF q[k] \in K THEN Append(a, q[k]) ELSE a
           Steps(h) == h = [k \in 0..n |-> IF k = 0 THEN <<>> ELSE Step(k, h[k - 1])]
           h == CHOOSE h : Steps(h)
           F == [k \in 1..n |-> [a \in Seq(A) |-> Step(k, a)]]
<1>1. n \in Nat
  OBVIOUS
<1>2. \A k \in 1..n, a \in Seq(A) : Step(k, a) \in Seq(A)
  OBVIOUS
<1>3. F \in [1..n -> [Seq(A) -> Seq(A)]]
  BY <1>2
<1>4. \A k \in 1..n, a \in Seq(A) : F[k][a] = Step(k, a)
  OBVIOUS
<1>5. Picked(q, K) = h[n]
  BY DEF Picked
<1>6. <<>> \in Seq(A)
  OBVIOUS
<1> HIDE DEF n, F, Step, h
<1>7. PICK g \in [0..n -> Seq(A)] : IsRecursion(g, n, <<>>, F)
  BY <1>1, <1>3, <1>6, RecursionExists
<1>8. ASSUME NEW k \in 0..n PROVE g[k] = IF k = 0 THEN <<>> ELSE Step(k, g[k - 1])
  <2>1. k # 0 => k \in 1..n /\ k - 1 \in 0..n
    BY <1>1
  <2>2. g[k] = IF k = 0 THEN <<>> ELSE F[k][g[k - 1]]
    BY <1>7 DEF IsRecursion
  <2>. QED
    BY <1>4, <1>7, <2>1, <2>2
<1>9. Steps(g)
  BY <1>7, <1>8
<1>10. Steps(h)
  BY <1>9 DEF h
<1> DEFINE T == {k \in Nat : k <= n => h[k] \in Seq(A)}
<1>11. 0 \in T
  BY <1>1, <1>6, <1>10
<1>12. ASSUME NEW k \in Nat, k \in T PROVE k + 1 \in T
  <2> SUFFICES ASSUME k + 1 <= n PROVE h[k + 1] \in Seq(A)
    OBVIOUS
  <2>1. k + 1 \in 1..n /\ k + 1 \in 0..n /\ h[k] \in Seq(A) /\ (k + 1) - 1 = k
    BY <1>1, <1>12
  <2>2. h[k + 1] = Step(k + 1, h[(k + 1) - 1])
    BY SMTT(20), <1>1, <1>10, <2>1
  <2>. QED
    BY <1>2, <2>1, <2>2
<1> HIDE DEF T
<1>13. Nat \subseteq T
  BY <1>11, <1>12, NatSetInduction
<1>14. h \in [0..n -> Seq(A)]
  <2>1. \A k \in 0..n : h[k] \in Seq(A)
    BY <1>1, <1>13 DEF T
  <2>. QED
    BY <1>10, <2>1
<1>15. h[0] = <<>> /\ \A k \in 1..n : h[k] = Step(k, h[k - 1])
  BY <1>1, <1>10
<1>. QED
  BY <1>5, <1>14, <1>15 DEF n, Step, KeepsPicked

\* Picked keeps exactly the elements in K, in their order.
LEMMA PickedPicks ==
    ASSUME NEW A, NEW q \in Seq(A), NEW K
    PROVE  /\ Picked(q, K) \in Seq(A)
           /\ \E m : Picks(m, Picked(q, K), q, Len(q), K)
<1>1. PICK h \in [0..Len(q) -> Seq(A)] : KeepsPicked(h, q, K)
  BY PickedSteps
<1> DEFINE Done(k) == \E m : Picks(m, h[k], q, k, K)
           T == {k \in Nat : k <= Len(q) => Done(k)}
<1>2. Done(0)
  <2>1. Picks(<<>>, h[0], q, 0, K)
    BY <1>1 DEF Picks, KeepsPicked
  <2>. QED
    BY <2>1
<1>3. ASSUME NEW k \in Nat, k + 1 <= Len(q), Done(k) PROVE Done(k + 1)
  <2>1. PICK m : Picks(m, h[k], q, k, K)
    BY <1>3
  <2>2. k + 1 \in 1..Len(q) /\ k \in 0..Len(q) /\ h[k] \in Seq(A) /\ q[k + 1] \in A
    BY <1>3
  <2>3. h[k + 1] = IF q[k + 1] \in K THEN Append(h[k], q[k + 1]) ELSE h[k]
    <3>1. (k + 1) - 1 = k
      OBVIOUS
    <3>. QED
      BY <1>1, <2>2, <3>1 DEF KeepsPicked
  <2> DEFINE l == Len(h[k])
  <2>4. l \in Nat /\ l + 1 \in 1..(l + 1) /\ \A j \in 1..(l + 1) : j = l + 1 \/ j \in 1..l
    BY <2>2
  <2>5. CASE q[k + 1] \in K
    <3> DEFINE o == Append(h[k], q[k + 1])
               w == [j \in 1..(l + 1) |-> IF j = l + 1 THEN k + 1 ELSE m[j]]
    <3>1. Len(o) = l + 1 /\ o[l + 1] = q[k + 1] /\ \A j \in 1..l : o[j] = h[k][j]
      BY <2>2
    <3>2. w[l + 1] = k + 1 /\ \A j \in 1..l : w[j] = m[j]
      BY <2>4
    <3>3. w \in [1..(l + 1) -> 1..(k + 1)]
      BY <2>1, <2>4 DEF Picks
    <3>p. /\ m \in [1..l -> 1..k]
          /\ \A i, j \in 1..l : i < j => m[i] < m[j]
          /\ \A j \in 1..l : h[k][j] = q[m[j]] /\ q[m[j]] \in K
      BY <2>1 DEF Picks
    <3> HIDE DEF w, o, l
    <3>4. ASSUME NEW i \in 1..(l + 1), NEW j \in 1..(l + 1), i < j PROVE w[i] < w[j]
      <4>1. i \in 1..l /\ w[i] = m[i] /\ m[i] \in 1..k
        BY <2>4, <3>2, <3>4, <3>p
      <4>2. CASE j = l + 1
        BY <3>2, <4>1, <4>2
      <4>3. CASE j \in 1..l
        BY <3>2, <3>4, <3>p, <4>1, <4>3
      <4>. QED
        BY <2>4, <4>2, <4>3
    <3>5. \A j \in 1..(l + 1) : o[j] = q[w[j]] /\ q[w[j]] \in K
      BY <2>4, <2>5, <3>1, <3>2, <3>p
    <3>6. ASSUME NEW i \in 1..(k + 1), q[i] \in K PROVE \E j \in 1..(l + 1) : w[j] = i
      <4>1. CASE i = k + 1
        BY <2>4, <3>2, <4>1
      <4>2. CASE i \in 1..k
        <5>1. PICK j \in 1..l : m[j] = i
          BY <2>1, <3>6, <4>2 DEF Picks, l
        <5>. QED
          BY <2>4, <3>2, <5>1
      <4>. QED
        BY <4>1, <4>2
    <3>7. Picks(w, o, q, k + 1, K)
      BY <3>1, <3>3, <3>4, <3>5, <3>6 DEF Picks
    <3>. QED
      BY <2>3, <2>5, <3>7 DEF o, l
  <2>6. CASE q[k + 1] \notin K
    <3>1. m \in [1..l -> 1..(k + 1)] /\ \A i \in 1..(k + 1) : q[i] \in K => i \in 1..k
      BY <2>1, <2>4, <2>6 DEF Picks
    <3>2. Picks(m, h[k], q, k + 1, K)
      BY <2>1, <3>1 DEF Picks
    <3>. QED
      BY <2>3, <2>6, <3>2
  <2>. QED
    BY <2>5, <2>6
<1> HIDE DEF Done
<1>4. 0 \in T /\ \A k \in Nat : k \in T => k + 1 \in T
  BY <1>2, <1>3
<1> HIDE DEF T
<1>5. Len(q) \in T
  BY <1>4, NatSetInduction
<1>6. Done(Len(q))
  BY <1>5 DEF T
<1>. QED
  BY <1>1, <1>6 DEF Done, KeepsPicked

-----------------------------------------------------------------------------
(* A round.                                                                *)

Distinct(s) == \A a, b \in 1..Len(s) : s[a] = s[b] => a = b

ScheduleTyped == order \in Seq(Updating) /\ bucket \in [Intervals -> Seq(Updating)]

\* The nodes of a bucket stand in the topological order, and no node is in two.
ScheduleSorted ==
    /\ Distinct(order)
    /\ \A i \in Intervals : \A k \in 1..Len(bucket[i]) : bucket[i][k] \in ToSet(order)
    /\ \A i \in Intervals : \A k, l \in 1..Len(bucket[i]) :
          k < l => TopoIndex(bucket[i][k]) < TopoIndex(bucket[i][l])
    /\ \A i, j \in Intervals : \A k \in 1..Len(bucket[i]), l \in 1..Len(bucket[j]) :
          bucket[i][k] = bucket[j][l] => i = j

LEMMA TopoIndexIs ==
    ASSUME Distinct(order), order \in Seq(Updating)
    PROVE  /\ \A n \in ToSet(order) : TopoIndex(n) \in 1..Len(order) /\ order[TopoIndex(n)] = n
           /\ \A a \in 1..Len(order) : order[a] \in ToSet(order) /\ TopoIndex(order[a]) = a
<1>1. ASSUME NEW n \in ToSet(order) PROVE TopoIndex(n) \in 1..Len(order) /\ order[TopoIndex(n)] = n
  <2>1. \E k \in 1..Len(order) : order[k] = n
    BY <1>1 DEF ToSet
  <2>. QED
    BY <2>1 DEF TopoIndex
<1>2. ASSUME NEW a \in 1..Len(order) PROVE order[a] \in ToSet(order) /\ TopoIndex(order[a]) = a
  <2>1. order[a] \in ToSet(order)
    BY DEF ToSet
  <2>2. TopoIndex(order[a]) \in 1..Len(order) /\ order[TopoIndex(order[a])] = order[a]
    BY <1>1, <2>1
  <2>. QED
    BY <2>1, <2>2 DEF Distinct
<1>. QED
  BY <1>1, <1>2

LEMMA LeastOf ==
    ASSUME NEW S \in SUBSET Nat, S # {}
    PROVE  \E x \in S : \A y \in S : x <= y
<1> DEFINE R == {ss \in Nat \X Nat : ss[1] < ss[2]}
<1>1. IsWellFoundedOn(R, Nat)
  BY NatLessThanWellFounded DEF OpToRel
<1> HIDE DEF R
<1>2. S \subseteq Nat /\ S # {}
  OBVIOUS
<1>3. PICK x \in S : \A y \in S : <<y, x>> \notin R
  <2>1. \E x \in S : \A y \in S : ~(<<y, x>> \in R)
    BY <1>1, <1>2, WFMin, Zenon
  <2>. QED
    BY <2>1
<1>4. ASSUME NEW y \in S PROVE x <= y
  <2>1. x \in Nat /\ y \in Nat
    OBVIOUS
  <2>2. <<y, x>> \notin R
    BY <1>3
  <2>. QED
    BY <2>1, <2>2 DEF R
<1>. QED
  BY <1>4

\* A part of a round: the first nodes of every bucket, in topological order.
Partial(firing, m) ==
    /\ m \in [taken : [firing -> Nat], out : Seq(Updating)]
    /\ \A i \in firing : m.taken[i] <= Len(bucket[i])
    /\ \A a \in 1..Len(m.out) : m.out[a] \in ToSet(order) /\ a <= TopoIndex(m.out[a])
    /\ \A a, b \in 1..Len(m.out) : a < b => TopoIndex(m.out[a]) < TopoIndex(m.out[b])
    /\ \A a \in 1..Len(m.out) : \E i \in firing : \E k \in 1..m.taken[i] : m.out[a] = bucket[i][k]
    /\ \A i \in firing : \A k \in 1..m.taken[i] : \E a \in 1..Len(m.out) : m.out[a] = bucket[i][k]
    /\ \A a \in 1..Len(m.out) : \A i \in firing : \A k \in (m.taken[i] + 1)..Len(bucket[i]) :
          TopoIndex(m.out[a]) < TopoIndex(bucket[i][k])

Remaining(firing, m) == {i \in firing : m.taken[i] < Len(bucket[i])}
Head1(m, i) == bucket[i][m.taken[i] + 1]

LEMMA TakeFirstIs ==
    ASSUME ScheduleTyped, ScheduleSorted, NEW firing \in SUBSET Intervals, NEW m, Partial(firing, m),
           Remaining(firing, m) # {}
    PROVE  \E first \in Remaining(firing, m) :
             /\ \A j \in Remaining(firing, m) : TopoIndex(Head1(m, first)) <= TopoIndex(Head1(m, j))
             /\ TakeFirst(firing, m) = [taken |-> [m.taken EXCEPT ![first] = @ + 1],
                                        out |-> Append(m.out, Head1(m, first))]
<1> DEFINE left == Remaining(firing, m)
           Least(j) == \A k \in left : TopoIndex(Head1(m, j)) <= TopoIndex(Head1(m, k))
           first == CHOOSE j \in left : Least(j)
           S == {TopoIndex(Head1(m, j)) : j \in left}
<1>1. S \in SUBSET Nat
  <2>1. ASSUME NEW j \in left PROVE TopoIndex(Head1(m, j)) \in Nat
    <3>1. j \in Intervals /\ bucket[j] \in Seq(Updating) /\ m.taken[j] \in Nat /\ m.taken[j] < Len(bucket[j])
      BY <2>1 DEF Partial, Remaining, ScheduleTyped
    <3>2. m.taken[j] + 1 \in 1..Len(bucket[j])
      BY <3>1
    <3>3. Head1(m, j) \in ToSet(order)
      BY <3>1, <3>2 DEF Head1, ScheduleSorted
    <3>4. order \in Seq(Updating) /\ Distinct(order)
      BY DEF ScheduleTyped, ScheduleSorted
    <3>. QED
      BY <3>3, <3>4, TopoIndexIs
  <2>. QED
    BY <2>1
<1>s. S # {}
  OBVIOUS
<1> HIDE DEF S
<1>2. PICK x \in S : \A y \in S : x <= y
  BY <1>1, <1>s, LeastOf
<1> USE DEF S
<1>3. \E j \in left : Least(j)
  BY <1>2
<1>4. first \in left /\ Least(first)
  BY <1>3
<1>5. TakeFirst(firing, m) = [taken |-> [m.taken EXCEPT ![first] = @ + 1], out |-> Append(m.out, Head1(m, first))]
  BY DEF TakeFirst, Remaining, Head1
<1>. QED
  BY <1>4, <1>5

LEMMA TakeFirstStays ==
    ASSUME NEW firing, NEW m, Remaining(firing, m) = {}
    PROVE  TakeFirst(firing, m) = m
BY DEF TakeFirst, Remaining

\* What is left in a bucket lies behind its next node.
LEMMA HeadIs ==
    ASSUME ScheduleTyped, ScheduleSorted, NEW firing \in SUBSET Intervals, NEW m, Partial(firing, m),
           NEW i \in Remaining(firing, m)
    PROVE  /\ m.taken[i] + 1 \in 1..Len(bucket[i]) /\ Head1(m, i) \in Updating
           /\ Head1(m, i) \in ToSet(order) /\ TopoIndex(Head1(m, i)) \in 1..Len(order)
           /\ \A k \in (m.taken[i] + 2)..Len(bucket[i]) : TopoIndex(Head1(m, i)) < TopoIndex(bucket[i][k])
           /\ \A a \in 1..Len(m.out) : TopoIndex(m.out[a]) < TopoIndex(Head1(m, i))
<1>1. /\ i \in Intervals /\ i \in firing /\ bucket[i] \in Seq(Updating) /\ Len(bucket[i]) \in Nat
      /\ m.taken[i] \in Nat /\ m.taken[i] < Len(bucket[i])
  <2>1. i \in firing /\ i \in Intervals /\ m.taken[i] < Len(bucket[i])
    BY DEF Remaining
  <2>2. m.taken \in [firing -> Nat]
    BY DEF Partial
  <2>3. bucket[i] \in Seq(Updating)
    BY <2>1 DEF ScheduleTyped
  <2>. QED
    BY <2>1, <2>2, <2>3
<1>2. m.taken[i] + 1 \in 1..Len(bucket[i]) /\ m.taken[i] + 1 \in (m.taken[i] + 1)..Len(bucket[i])
  BY <1>1
<1>3. Head1(m, i) \in Updating /\ Head1(m, i) \in ToSet(order)
  <2>1. \A k \in 1..Len(bucket[i]) : bucket[i][k] \in ToSet(order)
    BY <1>1 DEF ScheduleSorted
  <2>2. \A k \in 1..Len(bucket[i]) : bucket[i][k] \in Updating
    BY <1>1
  <2>. QED
    BY <1>2, <2>1, <2>2 DEF Head1
<1>4. TopoIndex(Head1(m, i)) \in 1..Len(order)
  BY <1>3, TopoIndexIs DEF ScheduleTyped, ScheduleSorted
<1>5. ASSUME NEW k \in (m.taken[i] + 2)..Len(bucket[i]) PROVE TopoIndex(Head1(m, i)) < TopoIndex(bucket[i][k])
  <2>1. k \in 1..Len(bucket[i]) /\ m.taken[i] + 1 < k
    BY <1>1
  <2>. QED
    BY <1>1, <1>2, <2>1 DEF Head1, ScheduleSorted
<1>6. \A a \in 1..Len(m.out) : TopoIndex(m.out[a]) < TopoIndex(Head1(m, i))
  BY <1>1, <1>2 DEF Partial, Head1
<1>. QED
  BY <1>2, <1>3, <1>4, <1>5, <1>6

LEMMA TakeFirstRight ==
    ASSUME ScheduleTyped, ScheduleSorted, NEW firing \in SUBSET Intervals, NEW m, Partial(firing, m),
           Remaining(firing, m) # {}
    PROVE  Partial(firing, TakeFirst(firing, m)) /\ Len(TakeFirst(firing, m).out) = Len(m.out) + 1
<1>1. PICK first \in Remaining(firing, m) :
             /\ \A j \in Remaining(firing, m) : TopoIndex(Head1(m, first)) <= TopoIndex(Head1(m, j))
             /\ TakeFirst(firing, m) = [taken |-> [m.taken EXCEPT ![first] = @ + 1],
                                        out |-> Append(m.out, Head1(m, first))]
  BY TakeFirstIs
<1> DEFINE n == Head1(m, first)
           l == Len(m.out)
           used == [m.taken EXCEPT ![first] = @ + 1]
           out == Append(m.out, n)
<1>2. /\ first \in firing /\ first \in Intervals
      /\ m.taken \in [firing -> Nat] /\ m.out \in Seq(Updating) /\ l \in Nat
  BY DEF Partial, Remaining
<1>3. /\ m.taken[first] + 1 \in 1..Len(bucket[first]) /\ n \in Updating
      /\ n \in ToSet(order) /\ TopoIndex(n) \in 1..Len(order)
      /\ \A k \in (m.taken[first] + 2)..Len(bucket[first]) : TopoIndex(n) < TopoIndex(bucket[first][k])
      /\ \A a \in 1..l : TopoIndex(m.out[a]) < TopoIndex(n)
  BY HeadIs
<1>4. /\ used \in [firing -> Nat] /\ used[first] = m.taken[first] + 1
      /\ \A i \in firing : i # first => used[i] = m.taken[i]
  BY <1>2
<1>5. /\ out \in Seq(Updating) /\ Len(out) = l + 1 /\ out[l + 1] = n
      /\ \A a \in 1..l : out[a] = m.out[a]
  BY <1>2, <1>3
<1>o. \A a \in 1..(l + 1) : a = l + 1 \/ a \in 1..l
  BY <1>2
<1>6. TakeFirst(firing, m).taken = used /\ TakeFirst(firing, m).out = out
  BY <1>1
<1>7. TakeFirst(firing, m) \in [taken : [firing -> Nat], out : Seq(Updating)]
  BY <1>1, <1>4, <1>5
<1>n. n = bucket[first][m.taken[first] + 1]
  BY DEF Head1
<1>i. ASSUME NEW i \in firing PROVE i \in Intervals /\ m.taken[i] \in Nat /\ Len(bucket[i]) \in Nat
  <2>1. i \in Intervals /\ m.taken[i] \in Nat
    BY <1>2
  <2>2. bucket[i] \in Seq(Updating)
    BY <2>1 DEF ScheduleTyped
  <2>. QED
    BY <2>1, <2>2
<1>p. /\ \A i \in firing : m.taken[i] <= Len(bucket[i])
      /\ \A a \in 1..l : m.out[a] \in ToSet(order) /\ a <= TopoIndex(m.out[a])
      /\ \A a, b \in 1..l : a < b => TopoIndex(m.out[a]) < TopoIndex(m.out[b])
      /\ \A a \in 1..l : \E i \in firing : \E k \in 1..m.taken[i] : m.out[a] = bucket[i][k]
      /\ \A i \in firing : \A k \in 1..m.taken[i] : \E a \in 1..l : m.out[a] = bucket[i][k]
      /\ \A a \in 1..l : \A i \in firing : \A k \in (m.taken[i] + 1)..Len(bucket[i]) :
            TopoIndex(m.out[a]) < TopoIndex(bucket[i][k])
  BY DEF Partial
<1> HIDE DEF n, used, out, l
<1>8. ASSUME NEW i \in firing PROVE used[i] <= Len(bucket[i])
  <2>1. CASE i = first
    BY <1>3, <1>4, <2>1
  <2>2. CASE i # first
    BY <1>4, <1>p, <2>2
  <2>. QED
    BY <2>1, <2>2
<1>t. \A a \in 1..l : TopoIndex(m.out[a]) \in Nat
  BY <1>p, TopoIndexIs DEF ScheduleTyped, ScheduleSorted
<1>9. ASSUME NEW a \in 1..Len(out) PROVE out[a] \in ToSet(order) /\ a <= TopoIndex(out[a])
  <2>1. CASE a \in 1..l
    BY <1>5, <1>p, <2>1
  <2>2. CASE a = l + 1 /\ l = 0
    BY <1>3, <1>5, <2>2
  <2>3. CASE a = l + 1 /\ l # 0
    <3>1. l \in 1..l
      BY <1>2, <2>3
    <3>2. l <= TopoIndex(m.out[l]) /\ TopoIndex(m.out[l]) < TopoIndex(n) /\ TopoIndex(m.out[l]) \in Nat
      BY <1>3, <1>p, <1>t, <3>1
    <3>. QED
      BY <1>2, <1>3, <1>5, <2>3, <3>2
  <2>. QED
    BY <1>5, <1>o, <2>1, <2>2, <2>3
<1>10. ASSUME NEW a \in 1..Len(out), NEW b \in 1..Len(out), a < b PROVE TopoIndex(out[a]) < TopoIndex(out[b])
  <2>1. a \in 1..l
    BY <1>2, <1>5, <1>10
  <2>2. CASE b \in 1..l
    BY <1>5, <1>p, <1>10, <2>1, <2>2
  <2>3. CASE b = l + 1
    BY <1>3, <1>5, <2>1, <2>3
  <2>. QED
    BY <1>5, <1>o, <2>2, <2>3
<1>11. ASSUME NEW a \in 1..Len(out) PROVE \E i \in firing : \E k \in 1..used[i] : out[a] = bucket[i][k]
  <2>1. CASE a \in 1..l
    <3>1. PICK i \in firing : \E k \in 1..m.taken[i] : m.out[a] = bucket[i][k]
      BY <1>p, <2>1
    <3>2. PICK k \in 1..m.taken[i] : m.out[a] = bucket[i][k]
      BY <3>1
    <3>3. k \in 1..used[i]
      BY <1>4, <1>i
    <3>. QED
      BY <1>5, <2>1, <3>2, <3>3
  <2>2. CASE a = l + 1
    <3>1. used[first] \in 1..used[first] /\ out[a] = bucket[first][used[first]]
      BY <1>2, <1>i, <1>4, <1>5, <1>n, <2>2
    <3>. QED
      BY <1>2, <3>1
  <2>. QED
    BY <1>5, <1>o, <2>1, <2>2
<1>12. ASSUME NEW i \in firing, NEW k \in 1..used[i] PROVE \E a \in 1..Len(out) : out[a] = bucket[i][k]
  <2>1. CASE k \in 1..m.taken[i]
    <3>1. PICK a \in 1..l : m.out[a] = bucket[i][k]
      BY <1>p, <2>1
    <3>2. a \in 1..Len(out)
      BY <1>2, <1>5
    <3>. QED
      BY <1>5, <3>1, <3>2
  <2>2. CASE k \notin 1..m.taken[i]
    <3>1. i = first /\ k = m.taken[first] + 1
      BY <1>4, <1>i, <2>2
    <3>2. l + 1 \in 1..Len(out) /\ out[l + 1] = bucket[i][k]
      BY <1>2, <1>5, <1>n, <3>1
    <3>. QED
      BY <3>2
  <2>. QED
    BY <2>1, <2>2
<1>13. ASSUME NEW i \in firing, NEW k \in (used[i] + 1)..Len(bucket[i]) PROVE TopoIndex(n) < TopoIndex(bucket[i][k])
  <2>1. CASE i = first
    <3>1. k \in (m.taken[first] + 2)..Len(bucket[first])
      BY <1>4, <1>i, <2>1
    <3>. QED
      BY <1>3, <2>1, <3>1
  <2>2. CASE i # first
    <3>1. m.taken[i] < Len(bucket[i]) /\ k \in (m.taken[i] + 1)..Len(bucket[i])
      BY <1>4, <1>i, <2>2
    <3>2. i \in Remaining(firing, m)
      BY <3>1 DEF Remaining
    <3>3. /\ TopoIndex(n) <= TopoIndex(Head1(m, i))
          /\ m.taken[i] + 1 \in 1..Len(bucket[i]) /\ Head1(m, i) \in ToSet(order)
          /\ TopoIndex(Head1(m, i)) \in 1..Len(order)
          /\ \A q \in (m.taken[i] + 2)..Len(bucket[i]) : TopoIndex(Head1(m, i)) < TopoIndex(bucket[i][q])
      BY <1>1, <3>2, HeadIs DEF n
    <3>4. Head1(m, i) # n
      BY <1>2, <1>3, <1>i, <1>n, <2>2, <3>3 DEF Head1, ScheduleSorted
    <3>5. TopoIndex(n) < TopoIndex(Head1(m, i))
      <4>1. TopoIndex(n) # TopoIndex(Head1(m, i))
        BY <1>3, <3>3, <3>4, TopoIndexIs DEF ScheduleTyped, ScheduleSorted
      <4>. QED
        BY <1>3, <3>3, <4>1
    <3>6. CASE k = m.taken[i] + 1
      BY <3>5, <3>6 DEF Head1
    <3>7. CASE k # m.taken[i] + 1
      <4>1. k \in (m.taken[i] + 2)..Len(bucket[i]) /\ k \in 1..Len(bucket[i])
        BY <1>i, <3>1, <3>7
      <4>2. bucket[i][k] \in ToSet(order)
        BY <1>i, <4>1 DEF ScheduleSorted
      <4>3. TopoIndex(bucket[i][k]) \in Nat
        BY <4>2, TopoIndexIs DEF ScheduleTyped, ScheduleSorted
      <4>. QED
        BY <1>3, <3>3, <3>5, <4>1, <4>3
    <3>. QED
      BY <3>6, <3>7
  <2>. QED
    BY <2>1, <2>2
<1>14. ASSUME NEW a \in 1..Len(out), NEW i \in firing, NEW k \in (used[i] + 1)..Len(bucket[i])
       PROVE  TopoIndex(out[a]) < TopoIndex(bucket[i][k])
  <2>1. CASE a \in 1..l
    <3>1. k \in (m.taken[i] + 1)..Len(bucket[i])
      BY <1>4, <1>i
    <3>. QED
      BY <1>5, <1>p, <2>1, <3>1
  <2>2. CASE a = l + 1
    BY <1>5, <1>13, <2>2
  <2>. QED
    BY <1>5, <1>o, <2>1, <2>2
<1>15. Partial(firing, TakeFirst(firing, m))
  BY <1>6, <1>7, <1>8, <1>9, <1>10, <1>11, <1>12, <1>14 DEF Partial
<1>. QED
  BY <1>5, <1>6, <1>15 DEF l

\* What one round holds: the nodes of the firing buckets, in topological order.
LEMMA MergedIs ==
    ASSUME ScheduleTyped, ScheduleSorted, NEW firing \in SUBSET Intervals
    PROVE  /\ Merged(firing) \in Seq(Updating)
           /\ \A a, b \in 1..Len(Merged(firing)) :
                 a < b => TopoIndex(Merged(firing)[a]) < TopoIndex(Merged(firing)[b])
           /\ \A a \in 1..Len(Merged(firing)) : \E i \in firing : Merged(firing)[a] \in ToSet(bucket[i])
           /\ \A i \in firing : \A n \in ToSet(bucket[i]) : \E a \in 1..Len(Merged(firing)) : Merged(firing)[a] = n
<1> DEFINE n == Len(order)
           q == [taken |-> [i \in firing |-> 0], out |-> <<>>]
           A == {m \in [taken : [firing -> Nat], out : Seq(Updating)] : Partial(firing, m)}
           Step(m) == TakeFirst(firing, m)
           Steps(h) == h = [k \in 0..n |-> IF k = 0 THEN q ELSE Step(h[k - 1])]
           h == CHOOSE h : Steps(h)
           F == [k \in 1..n |-> [m \in A |-> Step(m)]]
<1>1. n \in Nat
  BY DEF ScheduleTyped
<1>2. q \in A
  <2>1. q \in [taken : [firing -> Nat], out : Seq(Updating)]
    OBVIOUS
  <2>2. /\ \A i \in firing : q.taken[i] = 0 /\ 0 <= Len(bucket[i])
        /\ Len(q.out) = 0
    BY DEF ScheduleTyped
  <2>3. Partial(firing, q)
    <3> HIDE DEF q
    <3>1. 1..0 = {}
      OBVIOUS
    <3>. QED
      BY <2>1, <2>2, <3>1 DEF Partial
  <2>. QED
    BY <2>1, <2>3
<1>3. ASSUME NEW m \in A
      PROVE  /\ Step(m) \in A
             /\ Remaining(firing, m) = {} => Step(m) = m
             /\ Remaining(firing, m) # {} => Len(Step(m).out) = Len(m.out) + 1
  <2>1. CASE Remaining(firing, m) = {}
    BY <2>1, TakeFirstStays
  <2>2. CASE Remaining(firing, m) # {}
    <3>1. Partial(firing, m)
      OBVIOUS
    <3>2. Partial(firing, Step(m)) /\ Len(Step(m).out) = Len(m.out) + 1
      BY <2>2, <3>1, TakeFirstRight
    <3>3. Step(m) \in [taken : [firing -> Nat], out : Seq(Updating)]
      BY <3>2 DEF Partial
    <3>. QED
      BY <2>2, <3>2, <3>3
  <2>. QED
    BY <2>1, <2>2
<1>4. F \in [1..n -> [A -> A]] /\ \A k \in 1..n, m \in A : F[k][m] = Step(m)
  BY <1>3
<1>5. Merged(firing) = h[n].out
  BY DEF Merged
<1>p. \A m \in A : Partial(firing, m)
  OBVIOUS
<1> HIDE DEF n, F, Step, h, A, q
<1>6. Steps(h)
  <2>1. PICK g \in [0..n -> A] : IsRecursion(g, n, q, F)
    BY <1>1, <1>2, <1>4, RecursionExists
  <2>2. ASSUME NEW k \in 0..n PROVE g[k] = IF k = 0 THEN q ELSE Step(g[k - 1])
    <3>1. k # 0 => k \in 1..n /\ k - 1 \in 0..n
      BY <1>1
    <3>2. g[k] = IF k = 0 THEN q ELSE F[k][g[k - 1]]
      BY <2>1 DEF IsRecursion
    <3>. QED
      BY <1>4, <2>1, <3>1, <3>2
  <2>3. Steps(g)
    BY <2>1, <2>2
  <2>. QED
    BY <2>3 DEF h
<1>7. h[0] = q /\ \A k \in 1..n : h[k] = Step(h[k - 1])
  BY <1>1, <1>6
<1>8. \A k \in 0..n : h[k] \in A
  <2>1. \A k \in 1..n : h[k - 1] \in A => h[k] = F[k][h[k - 1]]
    BY <1>4, <1>7
  <2>2. h[0] \in A
    BY <1>2, <1>7
  <2>3. F \in [1..n -> [A -> A]]
    BY <1>4
  <2>. QED
    BY <1>1, <2>1, <2>2, <2>3, RecursionStays, Zenon
<1> DEFINE Goes(k) == Remaining(firing, h[k]) = {} \/ Len(h[k].out) = k
           T == {k \in Nat : k <= n => Goes(k)}
<1>9. 0 \in T
  BY <1>7 DEF q
<1>10. ASSUME NEW k \in Nat, k \in T PROVE k + 1 \in T
  <2> SUFFICES ASSUME k + 1 <= n PROVE Goes(k + 1)
    OBVIOUS
  <2>1. k + 1 \in 1..n /\ k \in 0..n /\ (k + 1) - 1 = k /\ Goes(k)
    BY <1>1, <1>10
  <2>2. h[k + 1] = Step(h[k]) /\ h[k] \in A
    BY <1>7, <1>8, <2>1
  <2>. QED
    BY <1>3, <2>1, <2>2
<1> HIDE DEF T, Goes
<1>11. n \in T
  BY <1>1, <1>9, <1>10, NatSetInduction
<1> DEFINE m == h[n]
<1>12. Partial(firing, m) /\ Goes(n)
  BY <1>1, <1>p, <1>8, <1>11 DEF T
<1>13. Remaining(firing, m) = {} \/ Len(m.out) = n
  BY <1>12 DEF Goes
<1> HIDE DEF m
<1>14. Remaining(firing, m) = {}
  <2> SUFFICES ASSUME NEW i \in Remaining(firing, m) PROVE FALSE
    OBVIOUS
  <2>1. Len(m.out) = n
    BY <1>13
  <2>2. /\ TopoIndex(Head1(m, i)) \in 1..n
        /\ \A a \in 1..n : TopoIndex(m.out[a]) < TopoIndex(Head1(m, i))
    BY <1>12, <2>1, HeadIs DEF n
  <2>3. \A a \in 1..n : m.out[a] \in ToSet(order) /\ a <= TopoIndex(m.out[a])
    BY <1>12, <2>1 DEF Partial
  <2>4. n \in 1..n
    BY <1>1, <2>2
  <2>5. TopoIndex(m.out[n]) \in Nat
    BY <2>3, <2>4, TopoIndexIs DEF ScheduleTyped, ScheduleSorted
  <2>. QED
    BY <2>2, <2>3, <2>4, <2>5
<1>15. Merged(firing) = m.out /\ m.out \in Seq(Updating)
  BY <1>5, <1>12 DEF m, Partial
<1>16. ASSUME NEW i \in firing PROVE m.taken[i] = Len(bucket[i]) /\ bucket[i] \in Seq(Updating)
  <2>1. i \in Intervals /\ bucket[i] \in Seq(Updating) /\ m.taken[i] \in Nat /\ m.taken[i] <= Len(bucket[i])
    BY <1>12 DEF ScheduleTyped, Partial
  <2>2. ~(m.taken[i] < Len(bucket[i]))
    BY <1>14 DEF Remaining
  <2>. QED
    BY <2>1, <2>2
<1>17. \A a, b \in 1..Len(m.out) : a < b => TopoIndex(m.out[a]) < TopoIndex(m.out[b])
  BY <1>12 DEF Partial
<1>18. ASSUME NEW a \in 1..Len(m.out) PROVE \E i \in firing : m.out[a] \in ToSet(bucket[i])
  <2>1. PICK i \in firing : \E k \in 1..m.taken[i] : m.out[a] = bucket[i][k]
    BY <1>12 DEF Partial
  <2>. QED
    BY <1>16, <2>1 DEF ToSet
<1>19. ASSUME NEW i \in firing, NEW x \in ToSet(bucket[i]) PROVE \E a \in 1..Len(m.out) : m.out[a] = x
  <2>1. PICK k \in 1..m.taken[i] : bucket[i][k] = x
    BY <1>16 DEF ToSet
  <2>. QED
    BY <1>12, <2>1 DEF Partial
<1>. QED
  BY <1>15, <1>17, <1>18, <1>19

-----------------------------------------------------------------------------
(* Turns.                                                                  *)

LEMMA TurnsTyped ==
    ASSUME NEW A, NEW s \in Seq(A), NEW n
    PROVE  /\ IsFiniteSet({k \in 1..Len(s) : s[k] = n})
           /\ Turns(s, n) \in Nat
           /\ n \notin ToSet(s) => Turns(s, n) = 0
<1>1. 0 \in Int /\ 1 \in Int /\ Len(s) \in Int
  OBVIOUS
<1>2. IsFiniteSet(1..Len(s))
  BY <1>1, FS_Interval
<1>3. {k \in 1..Len(s) : s[k] = n} \subseteq 1..Len(s)
  OBVIOUS
<1>4. IsFiniteSet({k \in 1..Len(s) : s[k] = n})
  BY <1>2, <1>3, FS_Subset
<1>5. Turns(s, n) \in Nat
  BY <1>4, FS_CardinalityType DEF Turns
<1>6. ASSUME n \notin ToSet(s) PROVE Turns(s, n) = 0
  <2>1. {k \in 1..Len(s) : s[k] = n} = {}
    BY <1>6 DEF ToSet
  <2>. QED
    BY <2>1, FS_EmptySet DEF Turns
<1>. QED
  BY <1>4, <1>5, <1>6

\* One more occurrence.
LEMMA OneMoreOf ==
    ASSUME NEW S, IsFiniteSet(S), NEW x, x \notin S, NEW T, T = S \cup {x}
    PROVE  Cardinality(T) = Cardinality(S) + 1
BY FS_AddElement

LEMMA ConcatIs ==
    ASSUME NEW A, NEW s \in Seq(A), NEW t \in Seq(A)
    PROVE  /\ s \o t \in Seq(A) /\ Len(s \o t) = Len(s) + Len(t) /\ Len(s) \in Nat /\ Len(t) \in Nat
           /\ \A k \in 1..Len(s) : (s \o t)[k] = s[k] /\ k \in 1..Len(s \o t)
           /\ \A k \in 1..Len(t) : (s \o t)[Len(s) + k] = t[k] /\ Len(s) + k \in 1..Len(s \o t)
           /\ \A p \in 1..Len(s \o t) : p \in 1..Len(s) \/ \E a \in 1..Len(t) : p = Len(s) + a
<1>1. /\ s \o t \in Seq(A) /\ Len(s \o t) = Len(s) + Len(t) /\ Len(s) \in Nat /\ Len(t) \in Nat
  OBVIOUS
<1>2. /\ \A k \in 1..Len(s) : (s \o t)[k] = s[k]
      /\ \A k \in 1..Len(t) : (s \o t)[Len(s) + k] = t[k]
  OBVIOUS
<1>3. ASSUME NEW p \in 1..(Len(s) + Len(t)), p \notin 1..Len(s) PROVE \E a \in 1..Len(t) : p = Len(s) + a
  <2>1. p - Len(s) \in 1..Len(t) /\ p = Len(s) + (p - Len(s))
    BY <1>1, <1>3
  <2>. QED
    BY <2>1
<1>4. /\ \A k \in 1..Len(s) : k \in 1..(Len(s) + Len(t))
      /\ \A k \in 1..Len(t) : Len(s) + k \in 1..(Len(s) + Len(t))
  BY <1>1
<1>. QED
  BY <1>1, <1>2, <1>3, <1>4

\* A round adds one turn of each of its nodes.
LEMMA TurnsConcat ==
    ASSUME NEW A, NEW s \in Seq(A), NEW t \in Seq(A), Distinct(t), NEW n
    PROVE  Turns(s \o t, n) = IF n \in ToSet(t) THEN Turns(s, n) + 1 ELSE Turns(s, n)
<1> DEFINE q == s \o t
           O == {k \in 1..Len(s) : s[k] = n}
           P == {k \in 1..Len(q) : q[k] = n}
<1>1. /\ q \in Seq(A) /\ Len(q) = Len(s) + Len(t) /\ Len(s) \in Nat /\ Len(t) \in Nat
      /\ \A k \in 1..Len(s) : q[k] = s[k] /\ k \in 1..Len(q)
      /\ \A k \in 1..Len(t) : q[Len(s) + k] = t[k] /\ Len(s) + k \in 1..Len(q)
      /\ \A p \in 1..Len(q) : p \in 1..Len(s) \/ \E a \in 1..Len(t) : p = Len(s) + a
  BY ConcatIs
<1>2. Turns(s, n) = Cardinality(O) /\ Turns(q, n) = Cardinality(P) /\ IsFiniteSet(O)
  BY TurnsTyped DEF Turns
<1> HIDE DEF q
<1>3. CASE n \in ToSet(t)
  <2>1. PICK a \in 1..Len(t) : t[a] = n
    BY <1>3 DEF ToSet
  <2>2. \A b \in 1..Len(t) : t[b] = n => b = a
    BY <2>1 DEF Distinct
  <2>3. Len(s) + a \notin O
    BY <1>1
  <2>4. P = O \cup {Len(s) + a}
    <3>1. ASSUME NEW k \in P PROVE k \in O \cup {Len(s) + a}
      <4>1. CASE k \in 1..Len(s)
        BY <1>1, <4>1
      <4>2. CASE \E b \in 1..Len(t) : k = Len(s) + b
        <5>1. PICK b \in 1..Len(t) : k = Len(s) + b
          BY <4>2
        <5>2. t[b] = n
          BY <1>1, <5>1
        <5>3. b = a
          BY <2>2, <5>2
        <5>. QED
          BY <5>1, <5>3
      <4>. QED
        BY <1>1, <4>1, <4>2
    <3>2. ASSUME NEW k \in O PROVE k \in P
      BY <1>1
    <3>3. Len(s) + a \in P
      BY <1>1, <2>1
    <3>. QED
      BY <3>1, <3>2, <3>3
  <2> HIDE DEF O, P
  <2>5. Cardinality(P) = Cardinality(O) + 1
    BY <1>2, <2>3, <2>4, OneMoreOf
  <2>. QED
    BY <1>2, <1>3, <2>5 DEF q
<1>4. CASE n \notin ToSet(t)
  <2>1. \A b \in 1..Len(t) : t[b] # n
    BY <1>4 DEF ToSet
  <2>2. P = O
    <3>1. ASSUME NEW k \in P PROVE k \in O
      <4>1. CASE k \in 1..Len(s)
        BY <1>1, <4>1
      <4>2. CASE \E b \in 1..Len(t) : k = Len(s) + b
        BY <1>1, <2>1, <4>2
      <4>. QED
        BY <1>1, <4>1, <4>2
    <3>2. ASSUME NEW k \in O PROVE k \in P
      BY <1>1
    <3>. QED
      BY <3>1, <3>2
  <2>. QED
    BY <1>2, <1>4, <2>2 DEF q
<1>. QED
  BY <1>3, <1>4

\* Which turn of its node an entry is.
TurnAt(q, p) == Turns(SubSeq(q, 1, p), q[p])

LEMMA TurnAtIs ==
    ASSUME NEW A, NEW q \in Seq(A), NEW p \in 1..Len(q)
    PROVE  TurnAt(q, p) = Cardinality({k \in 1..p : q[k] = q[p]})
<1> DEFINE s == SubSeq(q, 1, p)
<1>1. Len(s) = p /\ \A k \in 1..p : s[k] = q[k]
  OBVIOUS
<1> HIDE DEF s
<1>2. {k \in 1..Len(s) : s[k] = q[p]} = {k \in 1..p : q[k] = q[p]}
  BY <1>1
<1>. QED
  BY <1>2 DEF TurnAt, Turns, s

LEMMA TurnAtConcat ==
    ASSUME NEW A, NEW s \in Seq(A), NEW t \in Seq(A), Distinct(t)
    PROVE  /\ \A p \in 1..Len(s) : TurnAt(s \o t, p) = TurnAt(s, p)
           /\ \A a \in 1..Len(t) : TurnAt(s \o t, Len(s) + a) = Turns(s, t[a]) + 1
<1> DEFINE q == s \o t
<1>1. /\ q \in Seq(A) /\ Len(q) = Len(s) + Len(t) /\ Len(s) \in Nat /\ Len(t) \in Nat
      /\ \A k \in 1..Len(s) : q[k] = s[k] /\ k \in 1..Len(q)
      /\ \A k \in 1..Len(t) : q[Len(s) + k] = t[k] /\ Len(s) + k \in 1..Len(q)
      /\ \A p \in 1..Len(q) : p \in 1..Len(s) \/ \E a \in 1..Len(t) : p = Len(s) + a
  BY ConcatIs
<1> HIDE DEF q
<1>2. ASSUME NEW p \in 1..Len(s) PROVE TurnAt(q, p) = TurnAt(s, p)
  <2>1. \A k \in 1..p : k \in 1..Len(s)
    BY <1>1
  <2>2. {k \in 1..p : q[k] = q[p]} = {k \in 1..p : s[k] = s[p]}
    BY <1>1, <2>1
  <2>3. p \in 1..Len(q)
    BY <1>1
  <2>. QED
    BY <1>1, <2>2, <2>3, TurnAtIs
<1>3. ASSUME NEW a \in 1..Len(t) PROVE TurnAt(q, Len(s) + a) = Turns(s, t[a]) + 1
  <2> DEFINE O == {k \in 1..Len(s) : s[k] = t[a]}
             P == {k \in 1..(Len(s) + a) : q[k] = q[Len(s) + a]}
  <2>1. q[Len(s) + a] = t[a] /\ Len(s) + a \in 1..Len(q)
    BY <1>1
  <2>2. Turns(s, t[a]) = Cardinality(O) /\ IsFiniteSet(O)
    BY TurnsTyped DEF Turns
  <2>3. Len(s) + a \notin O
    BY <1>1
  <2>4. P = O \cup {Len(s) + a}
    <3>1. ASSUME NEW k \in P PROVE k \in O \cup {Len(s) + a}
      <4>1. k \in 1..Len(q) /\ q[k] = t[a] /\ k <= Len(s) + a
        BY <1>1, <2>1
      <4>2. CASE k \in 1..Len(s)
        BY <1>1, <4>1, <4>2
      <4>3. CASE \E b \in 1..Len(t) : k = Len(s) + b
        <5>1. PICK b \in 1..Len(t) : k = Len(s) + b
          BY <4>3
        <5>2. t[b] = t[a]
          BY <1>1, <4>1, <5>1
        <5>3. b = a
          BY <5>2 DEF Distinct
        <5>. QED
          BY <5>1, <5>3
      <4>. QED
        BY <1>1, <4>1, <4>2, <4>3
    <3>2. ASSUME NEW k \in O PROVE k \in P
      BY <1>1, <2>1
    <3>3. Len(s) + a \in P
      BY <1>1
    <3>. QED
      BY <3>1, <3>2, <3>3
  <2>5. TurnAt(q, Len(s) + a) = Cardinality(P)
    BY <1>1, <2>1, TurnAtIs
  <2> HIDE DEF O, P
  <2>. QED
    BY <2>2, <2>3, <2>4, <2>5, OneMoreOf
<1>. QED
  BY <1>2, <1>3 DEF q

-----------------------------------------------------------------------------
(* All rounds of a tick.                                                   *)

\* What the rounds up to the k-th hold.
RoundsRight(fires, q, k) ==
    /\ q \in Seq(Updating)
    /\ \A p \in 1..Len(q) : q[p] \in ToSet(order) /\ \E i \in Intervals : q[p] \in ToSet(bucket[i])
    /\ \A i \in Intervals : \A n \in ToSet(bucket[i]) :
          Turns(q, n) = IF fires[i] < k THEN fires[i] ELSE k
    /\ \A p \in 1..Len(q) : TurnAt(q, p) \in 1..k
    /\ \A p, r \in 1..Len(q) :
          TurnAt(q, p) = TurnAt(q, r) /\ TopoIndex(q[p]) < TopoIndex(q[r]) => p < r

LEMMA RoundMore ==
    ASSUME ScheduleTyped, ScheduleSorted, NEW fires \in [Intervals -> Nat], NEW k \in Nat,
           NEW q, RoundsRight(fires, q, k)
    PROVE  RoundsRight(fires, q \o Merged({i \in Intervals : fires[i] >= k + 1}), k + 1)
<1> DEFINE firing == {i \in Intervals : fires[i] >= k + 1}
           t == Merged(firing)
           x == q \o t
<1>1. /\ t \in Seq(Updating)
      /\ \A a, b \in 1..Len(t) : a < b => TopoIndex(t[a]) < TopoIndex(t[b])
      /\ \A a \in 1..Len(t) : \E i \in firing : t[a] \in ToSet(bucket[i])
      /\ \A i \in firing : \A n \in ToSet(bucket[i]) : \E a \in 1..Len(t) : t[a] = n
  <2> DEFINE F == firing
  <2>1. F \in SUBSET Intervals
    OBVIOUS
  <2> HIDE DEF F
  <2>2. /\ Merged(F) \in Seq(Updating)
        /\ \A a, b \in 1..Len(Merged(F)) : a < b => TopoIndex(Merged(F)[a]) < TopoIndex(Merged(F)[b])
        /\ \A a \in 1..Len(Merged(F)) : \E i \in F : Merged(F)[a] \in ToSet(bucket[i])
        /\ \A i \in F : \A n \in ToSet(bucket[i]) : \E a \in 1..Len(Merged(F)) : Merged(F)[a] = n
    BY <2>1, MergedIs
  <2>. QED
    BY <2>2 DEF F
<1>f. \A i \in Intervals : i \in firing <=> fires[i] >= k + 1
  OBVIOUS
<1>F. firing \in SUBSET Intervals
  OBVIOUS
<1>q. /\ q \in Seq(Updating) /\ Len(q) \in Nat
      /\ \A p \in 1..Len(q) : q[p] \in ToSet(order) /\ \E i \in Intervals : q[p] \in ToSet(bucket[i])
      /\ \A i \in Intervals : \A n \in ToSet(bucket[i]) :
            Turns(q, n) = IF fires[i] < k THEN fires[i] ELSE k
      /\ \A p \in 1..Len(q) : TurnAt(q, p) \in 1..k
      /\ \A p, r \in 1..Len(q) :
            TurnAt(q, p) = TurnAt(q, r) /\ TopoIndex(q[p]) < TopoIndex(q[r]) => p < r
  BY DEF RoundsRight
<1> HIDE DEF firing, t
<1>2. Len(t) \in Nat
  BY <1>1
<1>b. ASSUME NEW i \in Intervals, NEW n \in ToSet(bucket[i]) PROVE n \in ToSet(order) /\ TopoIndex(n) \in Nat
  <2>1. PICK j \in 1..Len(bucket[i]) : bucket[i][j] = n
    BY DEF ScheduleTyped, ToSet
  <2>2. n \in ToSet(order)
    BY <2>1 DEF ScheduleSorted
  <2>. QED
    BY <2>2, TopoIndexIs DEF ScheduleTyped, ScheduleSorted
<1>3. \A a \in 1..Len(t) : TopoIndex(t[a]) \in Nat
  BY <1>1, <1>F, <1>b
<1>4. Distinct(t)
  <2> SUFFICES ASSUME NEW a \in 1..Len(t), NEW b \in 1..Len(t), t[a] = t[b], a # b PROVE FALSE
    BY DEF Distinct
  <2>1. a < b \/ b < a
    BY <1>2
  <2>. QED
    BY <1>1, <1>3, <2>1
<1>5. /\ x \in Seq(Updating) /\ Len(x) = Len(q) + Len(t)
      /\ \A p \in 1..Len(q) : x[p] = q[p] /\ p \in 1..Len(x)
      /\ \A a \in 1..Len(t) : x[Len(q) + a] = t[a] /\ Len(q) + a \in 1..Len(x)
      /\ \A p \in 1..Len(x) : p \in 1..Len(q) \/ \E a \in 1..Len(t) : p = Len(q) + a
  BY <1>1, <1>q, ConcatIs
<1>6. /\ \A p \in 1..Len(q) : TurnAt(x, p) = TurnAt(q, p)
      /\ \A a \in 1..Len(t) : TurnAt(x, Len(q) + a) = Turns(q, t[a]) + 1
  BY <1>1, <1>4, <1>q, TurnAtConcat
<1>7. \A n : Turns(x, n) = IF n \in ToSet(t) THEN Turns(q, n) + 1 ELSE Turns(q, n)
  BY <1>1, <1>4, <1>q, TurnsConcat
<1> HIDE DEF x
<1>8. ASSUME NEW a \in 1..Len(t) PROVE TurnAt(x, Len(q) + a) = k + 1
  <2>1. PICK i \in firing : t[a] \in ToSet(bucket[i])
    BY <1>1
  <2>2. i \in Intervals /\ fires[i] \in Nat /\ fires[i] >= k + 1
    BY <1>f, <1>F
  <2>3. Turns(q, t[a]) = k
    BY <1>q, <2>1, <2>2
  <2>. QED
    BY <1>6, <2>3
<1>9. ASSUME NEW p \in 1..Len(x)
      PROVE  /\ x[p] \in ToSet(order) /\ \E i \in Intervals : x[p] \in ToSet(bucket[i])
             /\ TurnAt(x, p) \in 1..(k + 1)
  <2>1. CASE p \in 1..Len(q)
    <3>1. x[p] = q[p] /\ TurnAt(x, p) = TurnAt(q, p) /\ TurnAt(q, p) \in 1..k
      BY <1>5, <1>6, <1>q, <2>1
    <3>2. TurnAt(q, p) \in 1..(k + 1)
      BY <3>1
    <3>. QED
      BY <1>q, <2>1, <3>1, <3>2
  <2>2. CASE \E a \in 1..Len(t) : p = Len(q) + a
    <3>1. PICK a \in 1..Len(t) : p = Len(q) + a
      BY <2>2
    <3>2. x[p] = t[a] /\ TurnAt(x, p) = k + 1
      BY <1>5, <1>8, <3>1
    <3>3. \E i \in Intervals : t[a] \in ToSet(bucket[i])
      BY <1>1, <1>F
    <3>. QED
      BY <1>b, <3>2, <3>3
  <2>. QED
    BY <1>5, <2>1, <2>2
<1>10. ASSUME NEW i \in Intervals, NEW n \in ToSet(bucket[i])
       PROVE  Turns(x, n) = IF fires[i] < k + 1 THEN fires[i] ELSE k + 1
  <2>0. fires[i] \in Nat /\ Turns(q, n) = IF fires[i] < k THEN fires[i] ELSE k
    BY <1>q
  <2>1. CASE fires[i] >= k + 1
    <3>0. i \in firing
      BY <1>f, <2>1
    <3>1. n \in ToSet(t)
      <4>1. PICK a \in 1..Len(t) : t[a] = n
        BY <1>1, <3>0
      <4>. QED
        BY <1>1, <4>1 DEF ToSet
    <3>. QED
      BY <1>7, <2>0, <2>1, <3>1
  <2>2. CASE ~(fires[i] >= k + 1)
    <3>1. n \notin ToSet(t)
      <4> SUFFICES ASSUME NEW a \in 1..Len(t), t[a] = n PROVE FALSE
        BY <1>1 DEF ToSet
      <4>1. PICK j \in firing : n \in ToSet(bucket[j])
        BY <1>1
      <4>2. i # j /\ j \in Intervals
        BY <1>f, <1>F, <2>2
      <4>3. PICK c \in 1..Len(bucket[i]) : bucket[i][c] = n
        BY DEF ScheduleTyped, ToSet
      <4>4. PICK d \in 1..Len(bucket[j]) : bucket[j][d] = n
        BY <4>1, <4>2 DEF ScheduleTyped, ToSet
      <4>. QED
        BY <4>2, <4>3, <4>4 DEF ScheduleSorted
    <3>. QED
      BY <1>7, <2>0, <2>2, <3>1
  <2>. QED
    BY <2>1, <2>2
<1>11. ASSUME NEW p \in 1..Len(x), NEW r \in 1..Len(x), TurnAt(x, p) = TurnAt(x, r),
              TopoIndex(x[p]) < TopoIndex(x[r])
       PROVE  p < r
  <2>1. CASE p \in 1..Len(q) /\ r \in 1..Len(q)
    BY <1>5, <1>6, <1>q, <1>11, <2>1
  <2>2. CASE p \in 1..Len(q) /\ \E b \in 1..Len(t) : r = Len(q) + b
    BY <1>q, <2>2
  <2>3. CASE r \in 1..Len(q) /\ \E a \in 1..Len(t) : p = Len(q) + a
    <3>1. TurnAt(x, p) = k + 1 /\ TurnAt(x, r) \in 1..k
      BY <1>6, <1>8, <1>q, <2>3
    <3>. QED
      BY <1>11, <3>1
  <2>4. CASE (\E a \in 1..Len(t) : p = Len(q) + a) /\ (\E b \in 1..Len(t) : r = Len(q) + b)
    <3>1. PICK a \in 1..Len(t) : p = Len(q) + a
      BY <2>4
    <3>2. PICK b \in 1..Len(t) : r = Len(q) + b
      BY <2>4
    <3>3. TopoIndex(t[a]) < TopoIndex(t[b])
      BY <1>5, <1>11, <3>1, <3>2
    <3>4. ~(b < a) /\ a # b
      BY <1>1, <1>3, <3>3
    <3>. QED
      BY <1>q, <3>1, <3>2, <3>4
  <2>. QED
    BY <1>5, <2>1, <2>2, <2>3, <2>4
<1>. QED
  BY <1>5, <1>9, <1>10, <1>11 DEF RoundsRight, x, t, firing

LEMMA DueNodesRight ==
    ASSUME ScheduleTyped, ScheduleSorted, NEW fires \in [Intervals -> Nat],
           \A i \in Intervals : fires[i] <= MaxCatchUp
    PROVE  /\ RoundsRight(fires, DueNodes(fires), MaxCatchUp)
           /\ \A i \in Intervals : \A n \in ToSet(bucket[i]) : Turns(DueNodes(fires), n) = fires[i]
<1> DEFINE n == MaxCatchUp
           Fired(k) == Merged({i \in Intervals : fires[i] >= k})
           Steps(h) == h = [k \in 0..n |-> IF k = 0 THEN <<>> ELSE h[k - 1] \o Fired(k)]
           h == CHOOSE h : Steps(h)
           A == Seq(Updating)
           F == [k \in 1..n |-> [q \in A |-> q \o Fired(k)]]
<1>1. n \in Nat
  BY SchedulerAssumption
<1>2. \A k \in 1..n : Fired(k) \in A
  BY MergedIs
<1>3. DueNodes(fires) = h[n]
  BY DEF DueNodes
<1> HIDE DEF n, Fired, h
<1>4. F \in [1..n -> [A -> A]] /\ \A k \in 1..n, q \in A : F[k][q] = q \o Fired(k)
  BY <1>2
<1>5. <<>> \in A
  OBVIOUS
<1> HIDE DEF F, A
<1>6. Steps(h)
  <2>1. PICK g \in [0..n -> A] : IsRecursion(g, n, <<>>, F)
    BY <1>1, <1>4, <1>5, RecursionExists
  <2>2. ASSUME NEW k \in 0..n PROVE g[k] = IF k = 0 THEN <<>> ELSE g[k - 1] \o Fired(k)
    <3>1. k # 0 => k \in 1..n /\ k - 1 \in 0..n
      BY <1>1
    <3>2. g[k] = IF k = 0 THEN <<>> ELSE F[k][g[k - 1]]
      BY <2>1 DEF IsRecursion
    <3>. QED
      BY <1>4, <2>1, <3>1, <3>2
  <2>3. Steps(g)
    BY <2>1, <2>2
  <2>. QED
    BY <2>3 DEF h
<1>7. h[0] = <<>> /\ \A k \in 1..n : h[k] = h[k - 1] \o Fired(k)
  <2> DEFINE Step(k, q) == q \o Fired(k)
             empty == <<>>
  <2>1. h = [k \in 0..n |-> IF k = 0 THEN empty ELSE Step(k, h[k - 1])]
    BY <1>6
  <2> HIDE DEF Step, empty, Steps
  <2>2. h[0] = empty
    BY <1>1, <2>1
  <2>3. ASSUME NEW k \in 1..n PROVE h[k] = Step(k, h[k - 1])
    <3>1. k \in 0..n /\ k # 0
      BY <1>1
    <3>. QED
      BY <2>1, <3>1
  <2>. QED
    BY <2>2, <2>3 DEF Step, empty
<1> DEFINE T == {k \in Nat : k <= n => RoundsRight(fires, h[k], k)}
<1>8. 0 \in T
  <2>1. <<>> \in Seq(Updating) /\ Len(<<>>) = 0 /\ 1..0 = {}
    OBVIOUS
  <2>2. \A i \in Intervals : \A x \in ToSet(bucket[i]) :
          Turns(<<>>, x) = IF fires[i] < 0 THEN fires[i] ELSE 0
    <3>1. \A x : x \notin ToSet(<<>>)
      BY <2>1 DEF ToSet
    <3>2. \A x : Turns(<<>>, x) = 0
      BY <2>1, <3>1, TurnsTyped
    <3>. QED
      BY <3>2
  <2>3. RoundsRight(fires, <<>>, 0)
    BY <2>1, <2>2 DEF RoundsRight
  <2>. QED
    BY <1>7, <2>3
<1>9. ASSUME NEW k \in Nat, k \in T PROVE k + 1 \in T
  <2> SUFFICES ASSUME k + 1 <= n PROVE RoundsRight(fires, h[k + 1], k + 1)
    OBVIOUS
  <2>1. k + 1 \in 1..n /\ (k + 1) - 1 = k /\ RoundsRight(fires, h[k], k)
    BY <1>1, <1>9
  <2>2. h[k + 1] = h[k] \o Fired(k + 1)
    BY <1>7, <2>1
  <2>3. RoundsRight(fires, h[k] \o Merged({i \in Intervals : fires[i] >= k + 1}), k + 1)
    BY <2>1, RoundMore
  <2>. QED
    BY <2>2, <2>3 DEF Fired
<1> HIDE DEF T
<1>10. n \in T
  BY <1>1, <1>8, <1>9, NatSetInduction
<1>11. RoundsRight(fires, DueNodes(fires), MaxCatchUp)
  BY <1>1, <1>3, <1>10 DEF T, n
<1>12. ASSUME NEW i \in Intervals, NEW x \in ToSet(bucket[i]) PROVE Turns(DueNodes(fires), x) = fires[i]
  <2>1. Turns(DueNodes(fires), x) = IF fires[i] < MaxCatchUp THEN fires[i] ELSE MaxCatchUp
    BY <1>11 DEF RoundsRight
  <2>2. fires[i] \in Nat /\ fires[i] <= MaxCatchUp /\ MaxCatchUp \in Nat
    BY SchedulerAssumption
  <2>. QED
    BY <2>1, <2>2
<1>. QED
  BY <1>11, <1>12


-----------------------------------------------------------------------------
(* The invariant.                                                          *)

SchedulerTyped ==
    /\ rule \in [Updating -> Rules \cup {Disabled, Absent}] /\ dirty \in BOOLEAN /\ ruleEdits \in Nat
    /\ acc \in [Intervals -> Nat] /\ turns \in [Updating -> Nat] /\ credit \in Nat
    /\ elapsed \in Nat /\ last \in [Updating -> Nat] /\ owed \in [Updating -> Nat]
    /\ phase \in {"idle", "edits", "updates"} /\ step \in Nat
    /\ due \in Seq(Updating) /\ at \in 1..(Len(due) + 1) /\ skipped \subseteq Updating

\* Nodes stand behind what they depend on.
Follows(o) ==
    \A a, b \in 1..Len(o) : HasRule(o[b]) /\ o[a] \in rule[o[b]].deps => a < b

\* What a node is owed in this tick is the time since its last update, until
\* it was passed over; after its last turn it is owed nothing.
OwedIsKnown ==
    /\ \A n \in Updating : last[n] <= elapsed
    /\ phase = "updates" =>
        /\ \A n \in Updating : owed[n] + last[n] <= elapsed
        /\ \A n \in Updating \ skipped : owed[n] + last[n] = elapsed
        /\ \A n \in ToSet(due) \ ToSet(TurnsToCome) : owed[n] = 0

SchedulerInv ==
    /\ SchedulerTyped
    /\ ScheduleTyped /\ ScheduleSorted
    /\ ~dirty => Follows(order)
    /\ phase = "updates" => ~dirty
    /\ phase # "updates" => due = <<>>
    /\ DueInOrder
    /\ OwedIsKnown
    /\ EveryTurnPaid

-----------------------------------------------------------------------------
(* A rebuilt schedule.                                                     *)

Place(o, n) == CHOOSE k \in 1..Len(o) : o[k] = n

LEMMA PlaceIs ==
    ASSUME NEW A, NEW o \in Seq(A), Distinct(o), NEW a \in 1..Len(o)
    PROVE  Place(o, o[a]) = a
<1>1. Place(o, o[a]) \in 1..Len(o) /\ o[Place(o, o[a])] = o[a]
  BY DEF Place
<1>. QED
  BY <1>1 DEF Distinct

LEMMA SortedIs ==
    ASSUME NEW s \in Sorted
    PROVE  /\ s \in Seq(Updating) /\ Distinct(s) /\ \A k \in 1..Len(s) : s[k] \in Live
           /\ \A a, b \in 1..Len(s) : HasRule(s[b]) /\ s[a] \in rule[s[b]].deps => a < b
<1> DEFINE n == Cardinality(Live)
<1>1. Live \subseteq Updating
  BY DEF Live
<1>2. IsFiniteSet(Live)
  BY SchedulerAssumption, <1>1, FS_Subset
<1>3. n \in Nat
  BY <1>2, FS_CardinalityType
<1>4. s \in [1..n -> Live] /\ \A i, j \in 1..n : i # j => s[i] # s[j]
  BY DEF Sorted, SetToSeqs
<1> HIDE DEF n
<1>5. s \in Seq(Updating) /\ Len(s) = n
  BY <1>1, <1>3, <1>4
<1>6. \A a, b \in 1..Len(s) : HasRule(s[b]) /\ s[a] \in rule[s[b]].deps => a < b
  BY DEF Sorted
<1>. QED
  BY <1>4, <1>5, <1>6 DEF Distinct

\* Of two picked elements the one that stood first stands first.
LEMMA PickedKeepsOrder ==
    ASSUME NEW A, NEW q \in Seq(A), NEW o \in Seq(A), NEW K, NEW m, Picks(m, o, q, Len(q), K),
           NEW a \in 1..Len(o), NEW b \in 1..Len(o)
    PROVE  (a < b <=> m[a] < m[b]) /\ m[a] \in 1..Len(q) /\ o[a] = q[m[a]] /\ o[a] \in K
<1>1. /\ m[a] \in 1..Len(q) /\ m[b] \in 1..Len(q) /\ a \in Nat /\ b \in Nat
      /\ \A i, j \in 1..Len(o) : i < j => m[i] < m[j]
      /\ o[a] = q[m[a]] /\ o[a] \in K
  <2>1. m \in [1..Len(o) -> 1..Len(q)] /\ \A i, j \in 1..Len(o) : i < j => m[i] < m[j]
    BY DEF Picks
  <2>2. o[a] = q[m[a]] /\ q[m[a]] \in K
    BY DEF Picks
  <2>. QED
    BY <2>1, <2>2
<1>2. a < b => m[a] < m[b]
  BY <1>1
<1>3. b < a => m[b] < m[a]
  BY <1>1
<1>4. a < b \/ b < a \/ a = b
  BY <1>1
<1>. QED
  BY <1>1, <1>2, <1>3, <1>4

\* What ScheduleSorted says, of an order and buckets.
SortedBy(o, b) ==
    /\ Distinct(o)
    /\ \A i \in Intervals : \A k \in 1..Len(b[i]) : b[i][k] \in ToSet(o)
    /\ \A i \in Intervals : \A k, l \in 1..Len(b[i]) : k < l => Place(o, b[i][k]) < Place(o, b[i][l])
    /\ \A i, j \in Intervals : \A k \in 1..Len(b[i]), l \in 1..Len(b[j]) : b[i][k] = b[j][l] => i = j

LEMMA InToSet ==
    ASSUME NEW A, NEW o \in Seq(A), NEW a \in 1..Len(o)
    PROVE  o[a] \in ToSet(o)
BY DEF ToSet

\* The order o and the buckets b are picked from s: the order's entries are
\* those in U, at the places w of s, the i-th bucket's those in K[i].
PickedFrom(s, o, b, U, K, w) ==
    /\ s \in Seq(Updating) /\ Distinct(s)
    /\ o \in Seq(Updating) /\ Picks(w, o, s, Len(s), U)
    /\ b \in [Intervals -> Seq(Updating)]
    /\ \A i \in Intervals : \E m : Picks(m, b[i], s, Len(s), K[i])
    /\ \A i \in Intervals : ToSet(b[i]) \subseteq U
    /\ \A i, j \in Intervals : \A n : n \in K[i] /\ n \in K[j] => i = j

LEMMA PickedSorted ==
    ASSUME NEW s, NEW o, NEW b, NEW U, NEW K, NEW w, PickedFrom(s, o, b, U, K, w)
    PROVE  SortedBy(o, b)
<1>p. /\ s \in Seq(Updating) /\ Distinct(s)
      /\ o \in Seq(Updating) /\ Picks(w, o, s, Len(s), U)
      /\ b \in [Intervals -> Seq(Updating)]
  BY DEF PickedFrom
<1>k. /\ \A i \in Intervals : ToSet(b[i]) \subseteq U
      /\ \A i, j \in Intervals : \A n : n \in K[i] /\ n \in K[j] => i = j
  BY DEF PickedFrom
<1>5. \A i \in Intervals : b[i] \in Seq(Updating) /\ \E m : Picks(m, b[i], s, Len(s), K[i])
  BY DEF PickedFrom
<1>9. ASSUME NEW a \in 1..Len(o), NEW c \in 1..Len(o)
      PROVE  (a < c <=> w[a] < w[c]) /\ w[a] \in 1..Len(s) /\ o[a] = s[w[a]] /\ o[a] \in U
  BY <1>p, PickedKeepsOrder
<1>10. Distinct(o)
  <2> SUFFICES ASSUME NEW a \in 1..Len(o), NEW c \in 1..Len(o), o[a] = o[c] PROVE a = c
    BY DEF Distinct
  <2>1. w[a] \in 1..Len(s) /\ w[c] \in 1..Len(s) /\ s[w[a]] = s[w[c]]
    BY <1>9
  <2>2. w[a] = w[c]
    BY <1>p, <2>1 DEF Distinct
  <2>3. ~(w[a] < w[c]) /\ ~(w[c] < w[a])
    BY <2>1, <2>2
  <2>4. ~(a < c) /\ ~(c < a)
    BY <1>9, <2>3
  <2>. QED
    BY <1>p, <2>4
\* Where an entry of a bucket stands in the order.
<1>12. ASSUME NEW i \in Intervals, NEW m, Picks(m, b[i], s, Len(s), K[i]), NEW k \in 1..Len(b[i])
       PROVE  b[i][k] \in ToSet(o) /\ Place(o, b[i][k]) \in 1..Len(o) /\ w[Place(o, b[i][k])] = m[k]
  <2>1. m[k] \in 1..Len(s) /\ b[i][k] = s[m[k]]
    BY <1>p, <1>5, <1>12, PickedKeepsOrder
  <2>2. s[m[k]] \in U
    <3>1. b[i][k] \in ToSet(b[i])
      BY <1>p, InToSet
    <3>. QED
      BY <1>k, <2>1, <3>1
  <2>3. PICK a \in 1..Len(o) : w[a] = m[k]
    BY <1>p, <2>1, <2>2 DEF Picks
  <2>4. o[a] = b[i][k]
    BY <1>9, <2>1, <2>3
  <2>5. Place(o, o[a]) = a
    BY <1>p, <1>10, PlaceIs
  <2>6. b[i][k] \in ToSet(o)
    BY <1>p, <2>4, InToSet
  <2>. QED
    BY <2>3, <2>4, <2>5, <2>6
<1>13. ASSUME NEW i \in Intervals, NEW k \in 1..Len(b[i]) PROVE b[i][k] \in ToSet(o)
  BY <1>5, <1>12
<1>14. ASSUME NEW i \in Intervals, NEW k \in 1..Len(b[i]), NEW l \in 1..Len(b[i]), k < l
       PROVE  Place(o, b[i][k]) < Place(o, b[i][l])
  <2>1. PICK m : Picks(m, b[i], s, Len(s), K[i])
    BY <1>5
  <2>2. m[k] < m[l]
    BY <1>p, <1>5, <1>14, <2>1, PickedKeepsOrder
  <2>3. Place(o, b[i][k]) \in 1..Len(o) /\ w[Place(o, b[i][k])] = m[k]
    BY <1>12, <2>1
  <2>4. Place(o, b[i][l]) \in 1..Len(o) /\ w[Place(o, b[i][l])] = m[l]
    BY <1>12, <2>1
  <2>. QED
    BY <1>9, <2>2, <2>3, <2>4
<1>15. ASSUME NEW i \in Intervals, NEW j \in Intervals, NEW k \in 1..Len(b[i]), NEW l \in 1..Len(b[j]),
              b[i][k] = b[j][l]
       PROVE  i = j
  <2>1. b[i][k] \in K[i] /\ b[j][l] \in K[j]
    <3>1. PICK m : Picks(m, b[i], s, Len(s), K[i])
      BY <1>5
    <3>2. PICK x : Picks(x, b[j], s, Len(s), K[j])
      BY <1>5
    <3>3. b[i][k] \in K[i]
      BY <1>p, <1>5, <3>1, PickedKeepsOrder
    <3>4. b[j][l] \in K[j]
      BY <1>p, <1>5, <3>2, PickedKeepsOrder
    <3>. QED
      BY <3>3, <3>4
  <2>. QED
    BY <1>15, <1>k, <2>1
<1>16. SortedBy(o, b)
  BY <1>10, <1>13, <1>14, <1>15 DEF SortedBy
<1>. QED
  BY <1>16

LEMMA RebuiltRight ==
    ASSUME NEW s \in Sorted, NEW b, b = BucketsOf(s),
           NEW o, o = Picked(s, UNION {ToSet(b[i]) : i \in Intervals})
    PROVE  /\ b \in [Intervals -> Seq(Updating)] /\ o \in Seq(Updating)
           /\ SortedBy(o, b) /\ Follows(o)
<1> DEFINE K == [i \in Intervals |-> {n \in Live : HasRule(n) /\ rule[n].every = i}]
           U == UNION {ToSet(b[i]) : i \in Intervals}
<1>1. /\ s \in Seq(Updating) /\ Distinct(s)
      /\ \A k, l \in 1..Len(s) : HasRule(s[l]) /\ s[k] \in rule[s[l]].deps => k < l
  BY SortedIs
<1>2. \A i \in Intervals : b[i] = Picked(s, K[i])
  BY DEF BucketsOf
<1>3. \A i, j \in Intervals : \A n : n \in K[i] /\ n \in K[j] => i = j
  OBVIOUS
<1>u. \A i \in Intervals : ToSet(b[i]) \subseteq U
  OBVIOUS
<1>4. o = Picked(s, U)
  OBVIOUS
<1> HIDE DEF K, U
<1>5. ASSUME NEW i \in Intervals PROVE b[i] \in Seq(Updating) /\ \E m : Picks(m, b[i], s, Len(s), K[i])
  BY <1>1, <1>2, PickedPicks
<1>6. b \in [Intervals -> Seq(Updating)]
  BY <1>5 DEF BucketsOf
<1>7. o \in Seq(Updating)
  BY <1>1, <1>4, PickedPicks
<1>8. PICK w : Picks(w, o, s, Len(s), U)
  BY <1>1, <1>4, PickedPicks
<1>9. SortedBy(o, b)
  <2>1. \A i \in Intervals : \E m : Picks(m, b[i], s, Len(s), K[i])
    BY <1>5
  <2>2. PickedFrom(s, o, b, U, K, w)
    BY <1>1, <1>3, <1>6, <1>7, <1>8, <1>u, <2>1 DEF PickedFrom
  <2>. QED
    BY <2>2, PickedSorted
<1>10. ASSUME NEW a \in 1..Len(o), NEW c \in 1..Len(o), HasRule(o[c]), o[a] \in rule[o[c]].deps
       PROVE  a < c
  <2>1. w[a] \in 1..Len(s) /\ o[a] = s[w[a]] /\ (a < c <=> w[a] < w[c])
    BY <1>1, <1>7, <1>8, PickedKeepsOrder
  <2>2. w[c] \in 1..Len(s) /\ o[c] = s[w[c]]
    BY <1>1, <1>7, <1>8, PickedKeepsOrder
  <2>3. w[a] < w[c]
    BY <1>1, <1>10, <2>1, <2>2
  <2>. QED
    BY <2>1, <2>3
<1>. QED
  BY <1>6, <1>7, <1>9, <1>10 DEF Follows

-----------------------------------------------------------------------------
(* The invariant holds.                                                    *)

LEMMA NatSum ==
    ASSUME NEW a \in Nat, NEW b \in Nat
    PROVE  a + b \in Nat /\ a <= a + b
OBVIOUS

LEMMA SortedKept ==
    ASSUME ScheduleTyped, ScheduleSorted, UNCHANGED <<order, bucket>>
    PROVE  ScheduleTyped' /\ ScheduleSorted'
<1>1. ScheduleTyped'
  BY DEF ScheduleTyped
<1>2. ScheduleSorted'
  <2> DEFINE o == order
             b == bucket
  <2>1. order' = o /\ bucket' = b
    OBVIOUS
  <2>2. SortedBy(o, b)
    BY DEF ScheduleSorted, SortedBy, TopoIndex, Place
  <2> HIDE DEF o, b
  <2>. QED
    BY <2>1, <2>2 DEF ScheduleSorted, SortedBy, TopoIndex, Place
<1>. QED
  BY <1>1, <1>2

\* What most actions leave alone.
LEMMA ScheduleKept ==
    ASSUME ScheduleTyped, ScheduleSorted, EveryTurnPaid, UNCHANGED schedule
    PROVE  ScheduleTyped' /\ ScheduleSorted' /\ EveryTurnPaid'
<1>1. UNCHANGED <<order, bucket, acc, turns, credit>>
  BY DEF schedule
<1>2. ScheduleTyped' /\ ScheduleSorted'
  BY <1>1, SortedKept
<1>3. EveryTurnPaid'
  BY <1>1 DEF EveryTurnPaid
<1>. QED
  BY <1>2, <1>3

\* Between two ticks nothing is due.
LEMMA NothingDue ==
    ASSUME due' = <<>>
    PROVE  DueInOrder' /\ due' \in Seq(Updating) /\ Len(due') = 0
BY DEF DueInOrder

LEMMA InitTracked ==
    ASSUME SchedulerInit
    PROVE  SchedulerInv
<1> USE DEF SchedulerInit
<1>1. order = <<>> /\ Len(order) = 0 /\ order \in Seq(Updating) /\ Len(due) = 0 /\ due \in Seq(Updating)
  OBVIOUS
<1>2. \A i \in Intervals : bucket[i] = <<>> /\ Len(bucket[i]) = 0 /\ bucket[i] \in Seq(Updating)
  BY DEF NoBuckets
<1>3. ScheduleTyped
  BY <1>1, <1>2 DEF ScheduleTyped, NoBuckets
<1>4. ScheduleSorted
  BY <1>1, <1>2 DEF ScheduleSorted, Distinct
<1>5. SchedulerTyped
  BY <1>1 DEF SchedulerTyped, NoTurns
<1>6. DueInOrder
  BY <1>1 DEF DueInOrder
<1>7. OwedIsKnown
  BY DEF OwedIsKnown, NoTurns
<1>8. EveryTurnPaid
  <2>1. \A i \in Intervals : ToSet(bucket[i]) = {}
    BY <1>2 DEF ToSet
  <2>. QED
    BY <2>1 DEF EveryTurnPaid
<1>. QED
  BY <1>3, <1>4, <1>5, <1>6, <1>7, <1>8 DEF SchedulerInv

LEMMA EditTracked ==
    ASSUME SchedulerInv, EditGraph
    PROVE  SchedulerInv'
<1>1. /\ UNCHANGED schedule /\ UNCHANGED <<elapsed, phase, step, due, at, owed, skipped>>
      /\ phase # "updates" /\ dirty' = TRUE /\ due = <<>>
  BY DEF EditGraph, turnVars, SchedulerInv
<1>2. PICK n \in Updating, r \in Rules \cup {Disabled, Absent} :
        /\ rule' = [rule EXCEPT ![n] = r]
        /\ last' = IF r = Absent THEN [last EXCEPT ![n] = 0]
                   ELSE IF rule[n] = Absent THEN [last EXCEPT ![n] = elapsed]
                   ELSE last
  BY DEF EditGraph
<1>3. /\ rule \in [Updating -> Rules \cup {Disabled, Absent}] /\ last \in [Updating -> Nat] /\ elapsed \in Nat
      /\ \A x \in Updating : last[x] <= elapsed
  BY DEF SchedulerInv, SchedulerTyped, OwedIsKnown
<1>4. rule' \in [Updating -> Rules \cup {Disabled, Absent}]
  BY <1>2, <1>3
<1>5. last' \in [Updating -> Nat] /\ \A x \in Updating : last'[x] <= elapsed
  <2>1. CASE r = Absent
    BY <1>2, <1>3, <2>1
  <2>2. CASE r # Absent /\ rule[n] = Absent
    BY <1>2, <1>3, <2>2
  <2>3. CASE r # Absent /\ rule[n] # Absent
    BY <1>2, <1>3, <2>3
  <2>. QED
    BY <2>1, <2>2, <2>3
<1>6. ruleEdits' \in Nat
  BY DEF EditGraph, SchedulerInv, SchedulerTyped
<1>7. SchedulerTyped'
  BY <1>1, <1>4, <1>5, <1>6 DEF SchedulerInv, SchedulerTyped, schedule
<1>8. ScheduleTyped' /\ ScheduleSorted' /\ EveryTurnPaid'
  BY <1>1, ScheduleKept DEF SchedulerInv
<1>9. OwedIsKnown'
  BY <1>1, <1>5 DEF OwedIsKnown
<1>10. DueInOrder'
  BY <1>1, NothingDue
<1>. QED
  BY <1>1, <1>7, <1>8, <1>9, <1>10 DEF SchedulerInv

LEMMA ResolveTracked ==
    ASSUME SchedulerInv, Resolve
    PROVE  SchedulerInv'
<1>1. /\ UNCHANGED <<rule, ruleEdits, elapsed, phase, step, due, at, owed, skipped>>
      /\ phase # "updates" /\ dirty' = FALSE /\ due = <<>>
      /\ acc' = [i \in Intervals |-> 0] /\ credit' = 0 /\ turns' = NoTurns
  BY DEF Resolve, turnVars, SchedulerInv
<1>2. PICK s \in Sorted : bucket' = BucketsOf(s) /\ order' = Picked(s, Scheduled')
  BY DEF Resolve
<1>3. order' = Picked(s, UNION {ToSet(bucket'[i]) : i \in Intervals})
  BY <1>2 DEF Scheduled
<1> DEFINE b == bucket'
           o == order'
<1>4. /\ b \in [Intervals -> Seq(Updating)] /\ o \in Seq(Updating)
      /\ SortedBy(o, b) /\ Follows(o)
  <2> HIDE DEF b, o
  <2>1. b = BucketsOf(s) /\ o = Picked(s, UNION {ToSet(b[i]) : i \in Intervals})
    BY <1>2, <1>3 DEF b, o
  <2>. QED
    BY <2>1, RebuiltRight
<1>5. ScheduleTyped'
  BY <1>4 DEF ScheduleTyped
<1>6. ScheduleSorted'
  BY <1>4 DEF ScheduleSorted, SortedBy, TopoIndex, Place
<1>7. Follows(order)'
  BY <1>1, <1>4 DEF Follows, HasRule
<1>8. \A n \in Updating : last'[n] = elapsed \/ last'[n] = last[n]
  BY DEF Resolve
<1>9. last' \in [Updating -> Nat] /\ \A n \in Updating : last'[n] <= elapsed
  <2>1. last \in [Updating -> Nat] /\ elapsed \in Nat /\ \A n \in Updating : last[n] <= elapsed
    BY DEF SchedulerInv, SchedulerTyped, OwedIsKnown
  <2>2. \A n \in Updating : last'[n] \in Nat /\ last'[n] <= elapsed
    BY <1>8, <2>1
  <2>3. last' = [n \in Updating |-> last'[n]]
    BY DEF Resolve
  <2>. QED
    BY <2>2, <2>3
<1>10. SchedulerTyped'
  BY <1>1, <1>9 DEF SchedulerInv, SchedulerTyped, NoTurns
<1>11. OwedIsKnown'
  BY <1>1, <1>9 DEF OwedIsKnown
<1>12. DueInOrder'
  BY <1>1, NothingDue
<1>13. EveryTurnPaid'
  <2> SUFFICES ASSUME NEW i \in Intervals, NEW n \in ToSet(bucket'[i])
               PROVE  acc'[i] + i * turns'[n] = credit'
    BY DEF EveryTurnPaid
  <2>1. n \in Updating
    BY <1>4 DEF ToSet
  <2>2. acc'[i] = 0 /\ turns'[n] = 0 /\ i \in Nat
    BY SchedulerAssumption, <1>1, <2>1 DEF NoTurns
  <2>. QED
    BY <1>1, <2>2
<1>. QED
  BY <1>1, <1>5, <1>6, <1>7, <1>10, <1>11, <1>12, <1>13 DEF SchedulerInv

LEMMA ResolveFailsTracked ==
    ASSUME SchedulerInv, ResolveFails
    PROVE  SchedulerInv'
<1>1. /\ UNCHANGED <<rule, dirty, ruleEdits, order, turns, credit, elapsed, last, due, at, owed, skipped>>
      /\ phase # "updates" /\ phase' = "idle" /\ step' = 0 /\ dirty /\ due = <<>>
  BY DEF ResolveFails, SchedulerInv
<1>2. UNCHANGED <<bucket, acc>> \/ (bucket' = NoBuckets /\ acc' = [i \in Intervals |-> 0])
  BY DEF ResolveFails
<1>3. SchedulerTyped'
  BY <1>1, <1>2 DEF SchedulerInv, SchedulerTyped
<1>4. OwedIsKnown'
  BY <1>1 DEF OwedIsKnown, SchedulerInv
<1>5. DueInOrder'
  BY <1>1, NothingDue
<1>6. ScheduleTyped' /\ ScheduleSorted' /\ EveryTurnPaid'
  <2>1. CASE UNCHANGED <<bucket, acc>>
    BY <1>1, <2>1, ScheduleKept DEF SchedulerInv, schedule
  <2>2. CASE bucket' = NoBuckets
    <3>1. \A i \in Intervals : bucket'[i] = <<>> /\ Len(bucket'[i]) = 0 /\ bucket'[i] \in Seq(Updating)
      BY <2>2 DEF NoBuckets
    <3>2. ScheduleTyped'
      BY <1>1, <2>2, <3>1 DEF ScheduleTyped, NoBuckets, SchedulerInv
    <3>3. ScheduleSorted'
      BY <1>1, <3>1 DEF ScheduleSorted, SchedulerInv
    <3>4. \A i \in Intervals : ToSet(bucket'[i]) = {}
      BY <3>1 DEF ToSet
    <3>5. EveryTurnPaid'
      BY <3>4 DEF EveryTurnPaid
    <3>. QED
      BY <3>2, <3>3, <3>5
  <2>. QED
    BY <1>2, <2>1, <2>2
<1>. QED
  BY <1>1, <1>3, <1>4, <1>5, <1>6 DEF SchedulerInv

LEMMA StartTickTracked ==
    ASSUME SchedulerInv, StartTick
    PROVE  SchedulerInv'
<1>1. /\ UNCHANGED <<rule, dirty, ruleEdits, last, due, at, owed, skipped>> /\ UNCHANGED schedule
      /\ phase' = "edits"
  BY DEF StartTick
<1>e. step' \in Nat /\ elapsed' = elapsed + step'
  BY SchedulerAssumption DEF StartTick
<1>p. phase # "updates" /\ due = <<>>
  BY DEF StartTick, SchedulerInv
<1>2. SchedulerTyped'
  <2>1. SchedulerTyped /\ UNCHANGED <<acc, turns, credit>>
    BY <1>1 DEF SchedulerInv, schedule
  <2>e. elapsed \in Nat
    BY <2>1 DEF SchedulerTyped
  <2>s. step' \in Nat
    BY <1>e
  <2>d. elapsed' = elapsed + step'
    BY <1>e
  <2>2. elapsed' \in Nat
    BY <2>d, <2>e, <2>s, NatSum
  <2>3. /\ rule' \in [Updating -> Rules \cup {Disabled, Absent}] /\ dirty' \in BOOLEAN /\ ruleEdits' \in Nat
        /\ acc' \in [Intervals -> Nat] /\ turns' \in [Updating -> Nat] /\ credit' \in Nat
    BY <1>1, <2>1 DEF SchedulerTyped
  <2>4. /\ last' \in [Updating -> Nat] /\ owed' \in [Updating -> Nat]
        /\ due' \in Seq(Updating) /\ at' \in 1..(Len(due') + 1) /\ skipped' \subseteq Updating
    BY <1>1, <2>1 DEF SchedulerTyped
  <2>5. phase' \in {"idle", "edits", "updates"}
    BY <1>1
  <2>. QED
    BY <2>s, <2>2, <2>3, <2>4, <2>5 DEF SchedulerTyped
<1>3. OwedIsKnown'
  <2>1. last \in [Updating -> Nat] /\ elapsed \in Nat /\ \A n \in Updating : last[n] <= elapsed
    BY DEF SchedulerInv, SchedulerTyped, OwedIsKnown
  <2>2. \A n \in Updating : last'[n] <= elapsed'
    BY <1>1, <1>e, <2>1
  <2>. QED
    BY <1>1, <2>2 DEF OwedIsKnown
<1>4. DueInOrder'
  BY <1>1, <1>p, NothingDue
<1>5. ScheduleTyped' /\ ScheduleSorted' /\ EveryTurnPaid'
  BY <1>1, ScheduleKept DEF SchedulerInv
<1>6. ~dirty' => Follows(order)'
  BY <1>1 DEF SchedulerInv, Follows, HasRule, schedule
<1>. QED
  BY <1>1, <1>p, <1>2, <1>3, <1>4, <1>5, <1>6 DEF SchedulerInv

LEMMA TickFailsTracked ==
    ASSUME SchedulerInv, TickFails
    PROVE  SchedulerInv'
<1>1. /\ UNCHANGED <<rule, dirty, ruleEdits, elapsed, last, due, at, owed, skipped>> /\ UNCHANGED schedule
      /\ phase # "updates" /\ phase' = "idle" /\ due = <<>> /\ step' = 0
  BY DEF TickFails, SchedulerInv
<1>2. SchedulerTyped'
  BY <1>1 DEF SchedulerInv, SchedulerTyped, schedule
<1>3. OwedIsKnown'
  BY <1>1 DEF OwedIsKnown, SchedulerInv
<1>4. DueInOrder'
  BY <1>1, NothingDue
<1>5. ScheduleTyped' /\ ScheduleSorted' /\ EveryTurnPaid'
  BY <1>1, ScheduleKept DEF SchedulerInv
<1>6. ~dirty' => Follows(order)'
  BY <1>1 DEF SchedulerInv, Follows, HasRule, schedule
<1>. QED
  BY <1>1, <1>2, <1>3, <1>4, <1>5, <1>6 DEF SchedulerInv

LEMMA LeaveTracked ==
    ASSUME SchedulerInv, LeaveUpdates
    PROVE  SchedulerInv'
<1>1. /\ UNCHANGED <<rule, dirty, ruleEdits, elapsed, last>> /\ UNCHANGED schedule
      /\ phase' = "idle" /\ due' = <<>> /\ at' = 1 /\ owed' = NoTurns /\ skipped' = {} /\ step' = 0
  BY DEF LeaveUpdates
<1>2. DueInOrder' /\ due' \in Seq(Updating) /\ Len(due') = 0
  BY <1>1, NothingDue
<1>3. SchedulerTyped'
  BY <1>1, <1>2 DEF SchedulerInv, SchedulerTyped, schedule, NoTurns
<1>4. OwedIsKnown'
  BY <1>1 DEF OwedIsKnown, SchedulerInv
<1>5. ScheduleTyped' /\ ScheduleSorted' /\ EveryTurnPaid'
  BY <1>1, ScheduleKept DEF SchedulerInv
<1>6. ~dirty' => Follows(order)'
  BY <1>1 DEF SchedulerInv, Follows, HasRule, schedule
<1>. QED
  BY <1>1, <1>2, <1>3, <1>4, <1>5, <1>6 DEF SchedulerInv

LEMMA FiresIs ==
    ASSUME NEW a \in Nat, NEW i \in Nat \ {0}, NEW m \in Nat \ {0}, NEW f,
           f = IF a \div i < m THEN a \div i ELSE m
    PROVE  f \in Nat /\ f <= m /\ i * f <= a
<1> DEFINE d == a \div i
<1>1. d \in Nat /\ i * d <= a
  OBVIOUS
<1> HIDE DEF d
<1>2. f \in Nat /\ f <= m /\ f <= d
  BY <1>1 DEF d
<1>3. i * f <= i * d
  BY <1>1, <1>2
<1>4. i * f \in Nat /\ i * d \in Nat
  BY <1>1, <1>2
<1>. QED
  BY <1>1, <1>2, <1>3, <1>4

\* What a bucket fired is what its nodes had turns.
LEMMA PaidMore ==
    ASSUME NEW a \in Nat, NEW i \in Nat, NEW t \in Nat, NEW c \in Nat, NEW d \in Nat, NEW f \in Nat,
           a + i * t = c
    PROVE  (a + d - i * f) + i * (t + f) = c + d
<1>1. i * (t + f) = i * t + i * f /\ i * t \in Nat /\ i * f \in Nat
  OBVIOUS
<1>. QED
  BY <1>1

LEMMA PlaceOf ==
    ASSUME NEW A, NEW o \in Seq(A), NEW x \in ToSet(o)
    PROVE  \E a \in 1..Len(o) : o[a] = x
BY DEF ToSet

LEMMA CollectTracked ==
    ASSUME SchedulerInv, CollectDue
    PROVE  SchedulerInv'
<1> DEFINE filled == [i \in Intervals |-> IF bucket[i] = <<>> THEN 0 ELSE acc[i] + step]
           fires == [i \in Intervals |-> Fires(i, filled[i])]
<1>1. /\ UNCHANGED <<rule, dirty, ruleEdits, order, bucket, elapsed, last, step>>
      /\ phase' = "updates" /\ ~dirty /\ at' = 1 /\ skipped' = {}
      /\ owed' = [n \in Updating |-> elapsed - last[n]]
      /\ turns' = [n \in Updating |-> turns[n] + Turns(due', n)]
      /\ credit' = credit + step
  BY DEF CollectDue
<1>2. acc' = [i \in Intervals |-> filled[i] - i * fires[i]] /\ due' = DueNodes(fires)
  BY DEF CollectDue, Left
<1>t. /\ acc \in [Intervals -> Nat] /\ step \in Nat /\ credit \in Nat /\ elapsed \in Nat
      /\ last \in [Updating -> Nat] /\ turns \in [Updating -> Nat]
      /\ \A n \in Updating : last[n] <= elapsed
      /\ ScheduleTyped /\ ScheduleSorted
  BY DEF SchedulerInv, SchedulerTyped, OwedIsKnown
<1>3. ASSUME NEW i \in Intervals
      PROVE  filled[i] \in Nat /\ fires[i] \in Nat /\ fires[i] <= MaxCatchUp /\ i * fires[i] <= filled[i]
  <2>1. i \in Nat \ {0} /\ MaxCatchUp \in Nat \ {0}
    BY SchedulerAssumption
  <2>2. filled[i] \in Nat
    BY <1>t
  <2>3. CASE bucket[i] = <<>>
    <3>1. filled[i] = 0 /\ fires[i] = 0
      BY <2>3 DEF Fires
    <3>. QED
      BY <2>1, <3>1
  <2>4. CASE bucket[i] # <<>>
    <3>1. fires[i] = IF filled[i] \div i < MaxCatchUp THEN filled[i] \div i ELSE MaxCatchUp
      BY <2>4 DEF Fires
    <3> HIDE DEF filled, fires
    <3>. QED
      BY <2>1, <2>2, <3>1, FiresIs
  <2>. QED
    BY <2>3, <2>4
<1>4. /\ \A i \in Intervals : bucket[i] # <<>> => filled[i] = acc[i] + step
      /\ fires \in [Intervals -> Nat]
  BY <1>3
<1> HIDE DEF filled, fires
<1>5. /\ RoundsRight(fires, due', MaxCatchUp)
      /\ \A i \in Intervals : \A n \in ToSet(bucket[i]) : Turns(due', n) = fires[i]
  BY <1>2, <1>3, <1>4, <1>t, DueNodesRight
<1>6. /\ due' \in Seq(Updating)
      /\ \A p \in 1..Len(due') : due'[p] \in ToSet(order)
      /\ \A p, r \in 1..Len(due') :
          TurnAt(due', p) = TurnAt(due', r) /\ TopoIndex(due'[p]) < TopoIndex(due'[r]) => p < r
  BY <1>5 DEF RoundsRight
<1>o. order \in Seq(Updating)
  BY <1>t DEF ScheduleTyped
<1>7. \A n : Turns(due', n) \in Nat
  BY <1>6, TurnsTyped
<1>8. acc' \in [Intervals -> Nat]
  <2>1. \A i \in Intervals : filled[i] - i * fires[i] \in Nat
    <3> TAKE i \in Intervals
    <3>1. filled[i] \in Nat /\ fires[i] \in Nat /\ i \in Nat /\ i * fires[i] <= filled[i]
      BY SchedulerAssumption, <1>3
    <3>2. i * fires[i] \in Nat
      BY <3>1
    <3>. QED
      BY <3>1, <3>2
  <2>. QED
    BY <1>2, <2>1
<1>9. /\ turns' \in [Updating -> Nat] /\ owed' \in [Updating -> Nat]
      /\ \A n \in Updating : owed'[n] + last[n] = elapsed
  BY <1>1, <1>7, <1>t
<1>10. SchedulerTyped'
  <2>1. due' \in Seq(Updating) /\ at' \in 1..(Len(due') + 1)
    BY <1>1, <1>6
  <2>2. acc' \in [Intervals -> Nat] /\ turns' \in [Updating -> Nat] /\ owed' \in [Updating -> Nat]
    BY <1>8, <1>9
  <2>3. /\ rule' \in [Updating -> Rules \cup {Disabled, Absent}] /\ dirty' \in BOOLEAN /\ ruleEdits' \in Nat
    BY <1>1 DEF SchedulerInv, SchedulerTyped
  <2>4. elapsed' \in Nat /\ last' \in [Updating -> Nat] /\ step' \in Nat /\ credit' \in Nat
    BY <1>1, <1>t
  <2>5. phase' \in {"idle", "edits", "updates"} /\ skipped' \subseteq Updating
    BY <1>1
  <2>. QED
    BY <2>1, <2>2, <2>3, <2>4, <2>5 DEF SchedulerTyped
<1>11. ScheduleTyped' /\ ScheduleSorted'
  <2>1. order' = order /\ bucket' = bucket /\ ScheduleTyped /\ ScheduleSorted
    BY <1>1, <1>t
  <2>. QED
    BY <2>1, SortedKept
<1>12. Follows(order)'
  BY <1>1 DEF SchedulerInv, Follows, HasRule
<1>13. OwedIsKnown'
  <2>1. TurnsToCome' = due'
    <3>1. SubSeq(due', 1, Len(due')) = due'
      BY <1>6
    <3>. QED
      BY <1>1, <3>1 DEF TurnsToCome
  <2>. QED
    BY <1>1, <1>9, <1>t, <2>1 DEF OwedIsKnown
<1>14. DueInOrder'
  <2> SUFFICES ASSUME NEW i \in 1..Len(due'), NEW j \in 1..Len(due'), HasRule(due[j])',
                      due'[i] \in rule'[due'[j]].deps,
                      Turns(SubSeq(due', 1, i), due'[i]) = Turns(SubSeq(due', 1, j), due'[j])
               PROVE  i < j
    BY DEF DueInOrder
  <2>1. PICK a \in 1..Len(order) : order[a] = due'[i]
    BY <1>o, <1>6, PlaceOf
  <2>2. PICK b \in 1..Len(order) : order[b] = due'[j]
    BY <1>o, <1>6, PlaceOf
  <2>3. HasRule(order[b]) /\ order[a] \in rule[order[b]].deps
    BY <1>1, <2>1, <2>2 DEF HasRule
  <2>4. a < b
    BY <1>1, <2>3 DEF SchedulerInv, Follows
  <2>5. TopoIndex(due'[i]) = a /\ TopoIndex(due'[j]) = b
    BY <1>t, <2>1, <2>2, TopoIndexIs DEF ScheduleTyped, ScheduleSorted
  <2>6. TurnAt(due', i) = TurnAt(due', j)
    BY DEF TurnAt
  <2>. QED
    BY <1>6, <2>4, <2>5, <2>6
<1>15. EveryTurnPaid'
  <2> SUFFICES ASSUME NEW i \in Intervals, NEW n \in ToSet(bucket[i])
               PROVE  acc'[i] + i * turns'[n] = credit'
    BY <1>1 DEF EveryTurnPaid
  <2>1. PICK k \in 1..Len(bucket[i]) : bucket[i][k] = n
    BY <1>t DEF ToSet, ScheduleTyped
  <2>2. n \in Updating /\ bucket[i] # <<>>
    BY <1>t, <2>1 DEF ScheduleTyped
  <2> DEFINE x == acc[i]
             t == turns[n]
             f == fires[i]
  <2>3. x + i * t = credit
    BY DEF SchedulerInv, EveryTurnPaid
  <2>4. turns'[n] = t + f /\ acc'[i] = (x + step) - i * f
    BY <1>1, <1>2, <1>4, <1>5, <2>2
  <2>5. x \in Nat /\ i \in Nat /\ t \in Nat /\ f \in Nat
    BY SchedulerAssumption, <1>3, <1>t, <2>2
  <2>6. step \in Nat /\ credit \in Nat /\ credit' = credit + step
    BY <1>1, <1>t
  <2> HIDE DEF x, t, f
  <2>7. (x + step - i * f) + i * (t + f) = credit + step
    BY <2>3, <2>5, <2>6, PaidMore
  <2>. QED
    BY <2>4, <2>5, <2>6, <2>7
<1>. QED
  BY <1>1, <1>10, <1>11, <1>12, <1>13, <1>14, <1>15 DEF SchedulerInv

\* The turns to come, and those that come after the next one.
LEMMA TurnsToComeIs ==
    ASSUME NEW A, NEW q \in Seq(A), NEW a \in 1..Len(q)
    PROVE  /\ Turns(SubSeq(q, a, Len(q)), q[a]) \in Nat \ {0}
           /\ q[a] \notin ToSet(SubSeq(q, a + 1, Len(q))) => Turns(SubSeq(q, a, Len(q)), q[a]) = 1
           /\ ToSet(SubSeq(q, a, Len(q))) \subseteq {q[a]} \cup ToSet(SubSeq(q, a + 1, Len(q)))
<1> DEFINE s == SubSeq(q, a, Len(q))
           r == SubSeq(q, a + 1, Len(q))
           O == {k \in 1..Len(s) : s[k] = q[a]}
<1>1. /\ s \in Seq(A) /\ Len(s) = (Len(q) - a) + 1 /\ \A k \in 1..Len(s) : s[k] = q[(a + k) - 1]
      /\ a \in Nat /\ Len(q) \in Nat
  BY SubSeqProperties
<1>2. r \in Seq(A) /\ Len(r) = Len(q) - a /\ \A k \in 1..Len(r) : r[k] = q[(a + 1 + k) - 1]
  BY SubSeqProperties
<1> HIDE DEF s, r
<1>3. 1 \in 1..Len(s) /\ s[1] = q[a]
  BY <1>1
<1>4. ASSUME NEW k \in 1..Len(s), k # 1 PROVE s[k] \in ToSet(r)
  <2>1. k - 1 \in 1..Len(r) /\ (a + 1 + (k - 1)) - 1 = (a + k) - 1
    BY <1>1, <1>2, <1>4
  <2>2. r[k - 1] = s[k]
    BY <1>1, <1>2, <2>1
  <2>. QED
    BY <1>2, <2>1, <2>2, InToSet
<1>5. ToSet(s) \subseteq {q[a]} \cup ToSet(r)
  <2> SUFFICES ASSUME NEW x \in ToSet(s), x # q[a] PROVE x \in ToSet(r)
    OBVIOUS
  <2>1. PICK k \in 1..Len(s) : s[k] = x
    BY <1>1, PlaceOf
  <2>. QED
    BY <1>3, <1>4, <2>1
<1>6. Turns(s, q[a]) = Cardinality(O) /\ IsFiniteSet(O) /\ Turns(s, q[a]) \in Nat
  BY <1>1, TurnsTyped DEF Turns
<1>7. Turns(s, q[a]) # 0
  <2>1. O # {}
    BY <1>3
  <2>. QED
    BY <1>6, <2>1, FS_EmptySet
<1>8. ASSUME q[a] \notin ToSet(r) PROVE Turns(s, q[a]) = 1
  <2>1. O = {1}
    BY <1>3, <1>4, <1>8
  <2>. QED
    BY <1>6, <2>1, FS_Singleton
<1>. QED
  BY <1>5, <1>6, <1>7, <1>8 DEF s, r

\* A share is no more than what is shared.
LEMMA ShareIs ==
    ASSUME NEW o \in Nat, NEW l \in Nat \ {0}, NEW d, d = IF l = 1 THEN o ELSE o \div l
    PROVE  d \in Nat /\ d <= o
<1>1. o \div l \in Nat /\ o \div l <= o
  OBVIOUS
<1>. QED
  BY <1>1

LEMMA TurnTracked ==
    ASSUME SchedulerInv, Turn
    PROVE  SchedulerInv'
<1> DEFINE n == due[at]
           left == Turns(TurnsToCome, n)
           dt == DeltaTime(n, left)
<1>1. /\ phase = "updates" /\ at <= Len(due)
      /\ owed' = [owed EXCEPT ![n] = @ - dt]
      /\ at' = at + 1
      /\ UNCHANGED <<rule, dirty, ruleEdits, elapsed, phase, step, due>> /\ UNCHANGED schedule
  BY DEF Turn, Due
<1>2. \/ last' = [last EXCEPT ![n] = @ + dt] /\ skipped' = skipped
      \/ skipped' = skipped \cup {n} /\ last' = last
  BY DEF Turn
<1>3. /\ due \in Seq(Updating) /\ at \in 1..(Len(due) + 1) /\ Len(due) \in Nat
      /\ owed \in [Updating -> Nat] /\ last \in [Updating -> Nat] /\ elapsed \in Nat
      /\ skipped \subseteq Updating
  BY DEF SchedulerInv, SchedulerTyped
<1>4. /\ \A x \in Updating : last[x] <= elapsed /\ owed[x] + last[x] <= elapsed
      /\ \A x \in Updating \ skipped : owed[x] + last[x] = elapsed
      /\ \A x \in ToSet(due) \ ToSet(TurnsToCome) : owed[x] = 0
  BY <1>1 DEF SchedulerInv, OwedIsKnown
<1>5. at \in 1..Len(due) /\ at' \in 1..(Len(due) + 1)
  BY <1>1, <1>3
<1>6. n \in Updating /\ n \in ToSet(due)
  BY <1>3, <1>5, InToSet
<1>7. /\ left \in Nat \ {0}
      /\ n \notin ToSet(TurnsToCome') => left = 1
      /\ ToSet(TurnsToCome) \subseteq {n} \cup ToSet(TurnsToCome')
  BY <1>1, <1>3, <1>5, TurnsToComeIs DEF TurnsToCome
<1>8. dt = IF left = 1 THEN owed[n] ELSE owed[n] \div left
  BY DEF DeltaTime
<1> HIDE DEF dt, left, n
<1>o. owed[n] \in Nat /\ last[n] \in Nat
  BY <1>3, <1>6
<1>9. dt \in Nat /\ dt <= owed[n]
  BY <1>7, <1>8, <1>o, ShareIs
<1>10. /\ owed[n] - dt \in Nat /\ last[n] + dt \in Nat
       /\ (owed[n] - dt) + last[n] <= elapsed
       /\ (owed[n] - dt) + (last[n] + dt) <= elapsed /\ last[n] + dt <= elapsed
       /\ owed[n] + last[n] = elapsed => (owed[n] - dt) + (last[n] + dt) = elapsed
  <2>1. owed[n] + last[n] <= elapsed
    BY <1>4, <1>6
  <2> DEFINE o == owed[n]
             l == last[n]
  <2>2. o \in Nat /\ l \in Nat /\ dt \in Nat /\ dt <= o /\ elapsed \in Nat /\ o + l <= elapsed
    BY <1>3, <1>9, <1>o, <2>1
  <2> HIDE DEF o, l
  <2>3. /\ o - dt \in Nat /\ l + dt \in Nat
        /\ (o - dt) + l <= elapsed
        /\ (o - dt) + (l + dt) <= elapsed /\ l + dt <= elapsed
        /\ o + l = elapsed => (o - dt) + (l + dt) = elapsed
    BY <2>2
  <2>. QED
    BY <2>3 DEF o, l
<1>11. /\ owed' \in [Updating -> Nat] /\ owed'[n] = owed[n] - dt
       /\ \A x \in Updating : x # n => owed'[x] = owed[x]
  BY <1>1, <1>3, <1>6, <1>10
<1>12. /\ last' \in [Updating -> Nat] /\ \A x \in Updating : x # n => last'[x] = last[x]
       /\ skipped \subseteq skipped' /\ skipped' \subseteq Updating
       /\ \/ last'[n] = last[n] + dt /\ skipped' = skipped
          \/ last'[n] = last[n] /\ n \in skipped'
  <2>1. CASE last' = [last EXCEPT ![n] = @ + dt] /\ skipped' = skipped
    BY <1>3, <1>6, <1>10, <2>1
  <2>2. CASE skipped' = skipped \cup {n} /\ last' = last
    BY <1>3, <1>6, <2>2
  <2>. QED
    BY <1>2, <2>1, <2>2
<1>13. ASSUME NEW x \in Updating
       PROVE  /\ last'[x] <= elapsed /\ owed'[x] + last'[x] <= elapsed
              /\ x \notin skipped' => owed'[x] + last'[x] = elapsed
  <2>1. CASE x # n
    BY <1>4, <1>11, <1>12, <2>1
  <2>2. CASE x = n
    <3>1. CASE last'[n] = last[n] + dt /\ skipped' = skipped
      <4>1. n \notin skipped' => owed[n] + last[n] = elapsed
        BY <1>4, <1>6, <3>1
      <4>. QED
        BY <1>10, <1>11, <2>2, <3>1, <4>1
    <3>2. CASE last'[n] = last[n] /\ n \in skipped'
      <4>1. last[n] <= elapsed
        BY <1>4, <1>6
      <4>. QED
        BY <1>10, <1>11, <2>2, <3>2, <4>1
    <3>. QED
      BY <1>12, <3>1, <3>2
  <2>. QED
    BY <2>1, <2>2
<1>14. ASSUME NEW x \in ToSet(due), x \notin ToSet(TurnsToCome') PROVE owed'[x] = 0
  <2>0. x \in Updating
    <3>1. PICK k \in 1..Len(due) : due[k] = x
      BY <1>3, PlaceOf
    <3>. QED
      BY <1>3, <3>1
  <2>1. CASE x = n
    <3>1. dt = owed[n]
      BY <1>7, <1>8, <1>14, <2>1
    <3>. QED
      BY <1>o, <1>11, <2>1, <3>1
  <2>2. CASE x # n
    <3>1. x \notin ToSet(TurnsToCome)
      BY <1>7, <1>14, <2>2
    <3>. QED
      BY <1>4, <1>11, <2>0, <2>2, <3>1
  <2>. QED
    BY <2>1, <2>2
<1>15. OwedIsKnown'
  BY <1>1, <1>13, <1>14 DEF OwedIsKnown
<1>16. SchedulerTyped'
  <2>1. SchedulerTyped /\ UNCHANGED <<acc, turns, credit>>
    BY <1>1 DEF SchedulerInv, schedule
  <2>2. /\ rule' \in [Updating -> Rules \cup {Disabled, Absent}] /\ dirty' \in BOOLEAN /\ ruleEdits' \in Nat
        /\ acc' \in [Intervals -> Nat] /\ turns' \in [Updating -> Nat] /\ credit' \in Nat
    BY <1>1, <2>1 DEF SchedulerTyped
  <2>3. elapsed' \in Nat /\ step' \in Nat /\ phase' \in {"idle", "edits", "updates"}
    BY <1>1, <2>1 DEF SchedulerTyped
  <2>4. due' \in Seq(Updating) /\ at' \in 1..(Len(due') + 1)
    BY <1>1, <1>3, <1>5
  <2>. QED
    BY <1>11, <1>12, <2>2, <2>3, <2>4 DEF SchedulerTyped
<1>17. DueInOrder'
  <2>1. DueInOrder /\ due' = due /\ rule' = rule
    BY <1>1 DEF SchedulerInv
  <2>. QED
    BY <2>1 DEF DueInOrder, HasRule
<1>18. ScheduleTyped' /\ ScheduleSorted' /\ EveryTurnPaid'
  BY <1>1, ScheduleKept DEF SchedulerInv
<1>19. ~dirty' => Follows(order)'
  BY <1>1 DEF SchedulerInv, Follows, HasRule, schedule
<1>20. phase' = "updates" /\ ~dirty'
  BY <1>1 DEF SchedulerInv
<1>. QED
  BY <1>15, <1>16, <1>17, <1>18, <1>19, <1>20 DEF SchedulerInv

LEMMA StutterTracked ==
    ASSUME SchedulerInv, UNCHANGED schedulerVars
    PROVE  SchedulerInv'
<1>1. /\ UNCHANGED <<rule, dirty, ruleEdits, elapsed, last, phase, step, due, at, owed, skipped>>
      /\ UNCHANGED schedule
  BY DEF schedulerVars, turnVars
<1>2. SchedulerTyped'
  BY <1>1 DEF SchedulerInv, SchedulerTyped, schedule
<1>3. ScheduleTyped' /\ ScheduleSorted' /\ EveryTurnPaid'
  BY <1>1, ScheduleKept DEF SchedulerInv
<1>4. OwedIsKnown'
  <2>1. OwedIsKnown /\ UNCHANGED <<elapsed, last, phase, due, at, owed, skipped>>
    BY <1>1 DEF SchedulerInv
  <2>. QED
    BY <2>1 DEF OwedIsKnown, TurnsToCome
<1>5. DueInOrder'
  <2>1. DueInOrder /\ due' = due /\ rule' = rule
    BY <1>1 DEF SchedulerInv
  <2>. QED
    BY <2>1 DEF DueInOrder, HasRule
<1>6. ~dirty' => Follows(order)'
  BY <1>1 DEF SchedulerInv, Follows, HasRule, schedule
<1>. QED
  BY <1>1, <1>2, <1>3, <1>4, <1>5, <1>6 DEF SchedulerInv

\* The schedule and its accounts stay right: the buckets are the scheduled
\* nodes in topological order, and what a node is owed and a bucket has kept
\* is known at every point of a tick.
THEOREM ScheduleTracked == SchedulerSpec => []SchedulerInv
<1>1. SchedulerInit => SchedulerInv
  BY InitTracked
<1>2. SchedulerInv /\ [SchedulerNext]_schedulerVars => SchedulerInv'
  <2> SUFFICES ASSUME SchedulerInv, [SchedulerNext]_schedulerVars PROVE SchedulerInv'
    OBVIOUS
  <2>1. CASE EditGraph
    BY <2>1, EditTracked
  <2>2. CASE Resolve
    BY <2>2, ResolveTracked
  <2>3. CASE ResolveFails
    BY <2>3, ResolveFailsTracked
  <2>4. CASE StartTick
    BY <2>4, StartTickTracked
  <2>5. CASE TickFails
    BY <2>5, TickFailsTracked
  <2>6. CASE CollectDue
    BY <2>6, CollectTracked
  <2>7. CASE Turn
    BY <2>7, TurnTracked
  <2>8. CASE TurnFails
    BY <2>8, LeaveTracked DEF TurnFails
  <2>9. CASE EndUpdates
    BY <2>9, LeaveTracked DEF EndUpdates
  <2>10. CASE UNCHANGED schedulerVars
    BY <2>10, StutterTracked
  <2>. QED
    BY <2>1, <2>2, <2>3, <2>4, <2>5, <2>6, <2>7, <2>8, <2>9, <2>10 DEF SchedulerNext
<1>. QED
  BY <1>1, <1>2, PTL DEF SchedulerSpec

\* Turns come in dependency order within each round of the catch-up, an
\* updated node gets exactly the time since its last update, and every
\* interval credited to a bucket is a turn or still in its accumulator.
THEOREM CatchUpIsExactCorrect == SchedulerSpec => []CatchUpIsExact
<1>1. SchedulerInv => CatchUpIsExact
  <2> SUFFICES ASSUME SchedulerInv PROVE CatchUpIsExact
    OBVIOUS
  <2>1. ASSUME phase = "updates", NEW n \in (ToSet(due) \ ToSet(TurnsToCome)) \ skipped
        PROVE  last[n] = elapsed
    <3>1. due \in Seq(Updating) /\ last \in [Updating -> Nat] /\ owed \in [Updating -> Nat]
      BY DEF SchedulerInv, SchedulerTyped
    <3>2. n \in Updating
      <4>1. PICK k \in 1..Len(due) : due[k] = n
        BY <3>1, PlaceOf
      <4>. QED
        BY <3>1, <4>1
    <3>3. owed[n] + last[n] = elapsed /\ owed[n] = 0
      BY <2>1, <3>2 DEF SchedulerInv, OwedIsKnown
    <3>4. last[n] \in Nat
      BY <3>1, <3>2
    <3>. QED
      BY <3>3, <3>4
  <2>2. \A n \in Updating : last[n] <= elapsed
    BY DEF SchedulerInv, OwedIsKnown
  <2>3. AllTimeGiven
    BY <2>1, <2>2 DEF AllTimeGiven
  <2>. QED
    BY <2>3 DEF SchedulerInv, CatchUpIsExact
<1>. QED
  BY <1>1, ScheduleTracked, PTL

=============================================================================
