-------------------------- MODULE EditHistory_proofs --------------------------
(***************************************************************************)
(* The edit history implements a line of contents, and a content-state id    *)
(* names the content the graph holds, proved for any keys, values, clients,  *)
(* behaviours and number of edits.                                           *)
(***************************************************************************)
EXTENDS EditHistory, InductionFacts, SequenceTheorems

---------------------------------------------------------------------------
(* Types.                                                                  *)

Steps == [key : Keys, old : KeyValues, new : KeyValues, behaviour : {"Append", "Coalesce"}, tick : Nat]
Entries == [steps : Seq(Steps), before : Nat, after : Nat]
EditSessions == [owner : Clients \cup {"none"}, steps : Seq(Steps), before : Nat, after : Nat]

---------------------------------------------------------------------------
(* What replaying steps computes: a chain of contents, one per step.       *)

\* c are the contents after 0, 1, ... steps, each telling how two neighbours differ.
Chain(c, steps) ==
    /\ c \in [0..Len(steps) -> Contents]
    /\ \A i \in 1..Len(steps) :
          /\ c[i - 1][steps[i].key] = steps[i].old
          /\ c[i] = [c[i - 1] EXCEPT ![steps[i].key] = steps[i].new]

\* The steps lead from content x to content y.
Leads(x, steps, y) == \E c \in [0..Len(steps) -> Contents] :
                         Chain(c, steps) /\ c[0] = x /\ c[Len(steps)] = y

LEMMA RevertedIs ==
    ASSUME NEW v \in Contents, NEW steps \in Seq(Steps)
    PROVE  \E g \in [0..Len(steps) -> Contents] :
              /\ g[0] = v /\ Reverted(v, steps) = g[Len(steps)]
              /\ \A i \in 1..Len(steps) :
                    g[i] = [g[i - 1] EXCEPT ![steps[Len(steps) + 1 - i].key] = steps[Len(steps) + 1 - i].old]
<1> DEFINE n == Len(steps)
           Undo1(a, i) == [a EXCEPT ![steps[n + 1 - i].key] = steps[n + 1 - i].old]
           F == [i \in 1..n |-> [a \in Contents |-> Undo1(a, i)]]
           Sol(g) == g = [i \in 0..n |-> IF i = 0 THEN v ELSE [g[i - 1] EXCEPT ![steps[n + 1 - i].key] = steps[n + 1 - i].old]]
           h == CHOOSE g : Sol(g)
<1>1. n \in Nat
  OBVIOUS
<1>2. ASSUME NEW i \in 1..n, NEW a \in Contents PROVE Undo1(a, i) \in Contents
  <2>1. n + 1 - i \in 1..n
    BY <1>1
  <2>2. steps[n + 1 - i] \in Steps
    BY <2>1
  <2>. QED
    BY <2>2 DEF Steps, Contents
<1>3. F \in [1..n -> [Contents -> Contents]]
  BY <1>2
<1>4. \A i \in 1..n, a \in Contents : F[i][a] = Undo1(a, i)
  OBVIOUS
<1>5. Reverted(v, steps) = h[n]
  BY DEF Reverted
<1> HIDE DEF n, F, h
<1>6. PICK g \in [0..n -> Contents] : IsRecursion(g, n, v, F)
  BY <1>1, <1>3, RecursionExists
<1>7. ASSUME NEW i \in 0..n PROVE g[i] = IF i = 0 THEN v ELSE Undo1(g[i - 1], i)
  <2>1. i # 0 => i \in 1..n /\ i - 1 \in 0..n
    BY <1>1
  <2>2. g[i] = IF i = 0 THEN v ELSE F[i][g[i - 1]]
    BY <1>6 DEF IsRecursion
  <2>. QED
    BY <1>4, <1>6, <2>1, <2>2
<1>8. Sol(g)
  BY <1>6, <1>7
<1>9. Sol(h)
  BY <1>8 DEF h
<1> HIDE DEF Undo1
<1>10. ASSUME NEW i \in 0..n PROVE h[i] = IF i = 0 THEN v ELSE Undo1(h[i - 1], i)
  BY <1>9 DEF Undo1
<1> DEFINE T == {k \in Nat : k <= n => g[k] = h[k]}
<1>11. 0 \in T
  BY <1>1, <1>7, <1>10
<1>12. ASSUME NEW k \in Nat, k \in T PROVE k + 1 \in T
  <2> SUFFICES ASSUME k + 1 <= n PROVE g[k + 1] = h[k + 1]
    OBVIOUS
  <2>1. k + 1 \in 0..n /\ k + 1 # 0 /\ (k + 1) - 1 = k /\ g[k] = h[k]
    BY <1>1, <1>12
  <2>. QED
    BY <1>7, <1>10, <2>1
<1> HIDE DEF T
<1>13. n \in T
  BY <1>1, <1>11, <1>12, NatSetInduction
<1>14. g[0] = v /\ Reverted(v, steps) = g[n]
  BY <1>1, <1>5, <1>7, <1>13 DEF T
<1>15. \A i \in 1..n : g[i] = Undo1(g[i - 1], i)
  BY <1>1, <1>7
<1>. QED
  BY <1>14, <1>15 DEF n, Undo1

LEMMA ReplayedIs ==
    ASSUME NEW v \in Contents, NEW steps \in Seq(Steps)
    PROVE  \E g \in [0..Len(steps) -> Contents] :
              /\ g[0] = v /\ Replayed(v, steps) = g[Len(steps)]
              /\ \A i \in 1..Len(steps) :
                    g[i] = [g[i - 1] EXCEPT ![steps[i].key] = steps[i].new]
<1> DEFINE n == Len(steps)
           Redo1(a, i) == [a EXCEPT ![steps[i].key] = steps[i].new]
           F == [i \in 1..n |-> [a \in Contents |-> Redo1(a, i)]]
           Sol(g) == g = [i \in 0..n |-> IF i = 0 THEN v ELSE [g[i - 1] EXCEPT ![steps[i].key] = steps[i].new]]
           h == CHOOSE g : Sol(g)
<1>1. n \in Nat
  OBVIOUS
<1>2. ASSUME NEW i \in 1..n, NEW a \in Contents PROVE Redo1(a, i) \in Contents
  <2>2. steps[i] \in Steps
    BY DEF n
  <2>. QED
    BY <2>2 DEF Steps, Contents
<1>3. F \in [1..n -> [Contents -> Contents]]
  BY <1>2
<1>4. \A i \in 1..n, a \in Contents : F[i][a] = Redo1(a, i)
  OBVIOUS
<1>5. Replayed(v, steps) = h[n]
  BY DEF Replayed
<1> HIDE DEF n, F, h
<1>6. PICK g \in [0..n -> Contents] : IsRecursion(g, n, v, F)
  BY <1>1, <1>3, RecursionExists
<1>7. ASSUME NEW i \in 0..n PROVE g[i] = IF i = 0 THEN v ELSE Redo1(g[i - 1], i)
  <2>1. i # 0 => i \in 1..n /\ i - 1 \in 0..n
    BY <1>1
  <2>2. g[i] = IF i = 0 THEN v ELSE F[i][g[i - 1]]
    BY <1>6 DEF IsRecursion
  <2>. QED
    BY <1>4, <1>6, <2>1, <2>2
<1>8. Sol(g)
  BY <1>6, <1>7
<1>9. Sol(h)
  BY <1>8 DEF h
<1> HIDE DEF Redo1
<1>10. ASSUME NEW i \in 0..n PROVE h[i] = IF i = 0 THEN v ELSE Redo1(h[i - 1], i)
  BY <1>9 DEF Redo1
<1> DEFINE T == {k \in Nat : k <= n => g[k] = h[k]}
<1>11. 0 \in T
  BY <1>1, <1>7, <1>10
<1>12. ASSUME NEW k \in Nat, k \in T PROVE k + 1 \in T
  <2> SUFFICES ASSUME k + 1 <= n PROVE g[k + 1] = h[k + 1]
    OBVIOUS
  <2>1. k + 1 \in 0..n /\ k + 1 # 0 /\ (k + 1) - 1 = k /\ g[k] = h[k]
    BY <1>1, <1>12
  <2>. QED
    BY <1>7, <1>10, <2>1
<1> HIDE DEF T
<1>13. n \in T
  BY <1>1, <1>11, <1>12, NatSetInduction
<1>14. g[0] = v /\ Replayed(v, steps) = g[n]
  BY <1>1, <1>5, <1>7, <1>13 DEF T
<1>15. \A i \in 1..n : g[i] = Redo1(g[i - 1], i)
  BY <1>1, <1>7
<1>. QED
  BY <1>14, <1>15 DEF n, Redo1

LEMMA ReplayTyped ==
    ASSUME NEW v \in Contents, NEW steps \in Seq(Steps)
    PROVE  Reverted(v, steps) \in Contents /\ Replayed(v, steps) \in Contents
BY RevertedIs, ReplayedIs

\* Along a chain, undoing gives back where it began and redoing where it ended.
LEMMA LeadsBack ==
    ASSUME NEW x, NEW y, NEW steps \in Seq(Steps), Leads(x, steps, y)
    PROVE  x \in Contents /\ y \in Contents /\ Reverted(y, steps) = x
<1> DEFINE n == Len(steps)
<1>1. PICK c \in [0..n -> Contents] : Chain(c, steps) /\ c[0] = x /\ c[n] = y
  BY DEF Leads
<1>2. n \in Nat /\ 0 \in 0..n /\ n \in 0..n /\ \A i \in 1..n : steps[i] \in Steps
  OBVIOUS
<1>3. x \in Contents /\ y \in Contents
  BY <1>1, <1>2
<1>4. PICK g \in [0..n -> Contents] :
         /\ g[0] = y /\ Reverted(y, steps) = g[n]
         /\ \A i \in 1..n : g[i] = [g[i - 1] EXCEPT ![steps[n + 1 - i].key] = steps[n + 1 - i].old]
  BY <1>3, RevertedIs
<1>5. \A i \in 1..n : /\ c[i - 1][steps[i].key] = steps[i].old
                      /\ c[i] = [c[i - 1] EXCEPT ![steps[i].key] = steps[i].new]
  BY <1>1 DEF Chain
<1> HIDE DEF n
<1> DEFINE T == {k \in Nat : k <= n => g[k] = c[n - k]}
<1>6. 0 \in T
  BY <1>1, <1>2, <1>4
<1>7. ASSUME NEW k \in Nat, k \in T PROVE k + 1 \in T
  <2> SUFFICES ASSUME k + 1 <= n PROVE g[k + 1] = c[n - (k + 1)]
    OBVIOUS
  <2> DEFINE i == n - k
  <2>1. /\ k + 1 \in 1..n /\ (k + 1) - 1 = k /\ i \in 1..n /\ i - 1 \in 0..n /\ i - 1 = n - (k + 1)
        /\ n + 1 - (k + 1) = i
    BY <1>2
  <2>g. g[k] = c[i]
    <3>1. k <= n
      BY <1>2
    <3>. QED
      BY <1>7, <3>1
  <2>2. g[k + 1] = [c[i] EXCEPT ![steps[i].key] = steps[i].old]
    <3> HIDE DEF i
    <3>1. g[k + 1] = [g[(k + 1) - 1] EXCEPT ![steps[n + 1 - (k + 1)].key] = steps[n + 1 - (k + 1)].old]
      BY <1>4, <2>1
    <3>. QED
      BY <2>1, <2>g, <3>1
  <2>3. /\ c[i - 1] \in [Keys -> KeyValues] /\ c[i - 1][steps[i].key] = steps[i].old
        /\ c[i] = [c[i - 1] EXCEPT ![steps[i].key] = steps[i].new]
    BY <1>5, <2>1 DEF Contents
  <2> HIDE DEF i
  <2>4. [c[i] EXCEPT ![steps[i].key] = steps[i].old] = c[i - 1]
    BY <2>3
  <2>. QED
    BY <2>1, <2>2, <2>4
<1> HIDE DEF T
<1>8. n \in T
  BY <1>2, <1>6, <1>7, NatSetInduction
<1>9. g[n] = c[0]
  BY <1>2, <1>8 DEF T
<1>. QED
  BY <1>1, <1>3, <1>4, <1>9

LEMMA LeadsOn ==
    ASSUME NEW x, NEW y, NEW steps \in Seq(Steps), Leads(x, steps, y)
    PROVE  Replayed(x, steps) = y
<1> DEFINE n == Len(steps)
<1>1. PICK c \in [0..n -> Contents] : Chain(c, steps) /\ c[0] = x /\ c[n] = y
  BY DEF Leads
<1>2. n \in Nat /\ 0 \in 0..n
  OBVIOUS
<1>3. x \in Contents
  BY <1>1, <1>2
<1>4. PICK g \in [0..n -> Contents] :
         /\ g[0] = x /\ Replayed(x, steps) = g[n]
         /\ \A i \in 1..n : g[i] = [g[i - 1] EXCEPT ![steps[i].key] = steps[i].new]
  BY <1>3, ReplayedIs
<1>5. \A i \in 1..n : c[i] = [c[i - 1] EXCEPT ![steps[i].key] = steps[i].new]
  BY <1>1 DEF Chain
<1> HIDE DEF n
<1> DEFINE T == {k \in Nat : k <= n => g[k] = c[k]}
<1>6. 0 \in T
  BY <1>1, <1>2, <1>4
<1>7. ASSUME NEW k \in Nat, k \in T PROVE k + 1 \in T
  <2> SUFFICES ASSUME k + 1 <= n PROVE g[k + 1] = c[k + 1]
    OBVIOUS
  <2>1. k + 1 \in 1..n /\ (k + 1) - 1 = k /\ g[k] = c[k]
    BY <1>2, <1>7
  <2>2. g[k + 1] = [g[k] EXCEPT ![steps[k + 1].key] = steps[k + 1].new]
    BY <1>4, <2>1
  <2>3. c[k + 1] = [c[k] EXCEPT ![steps[k + 1].key] = steps[k + 1].new]
    BY <1>5, <2>1
  <2>. QED
    BY <2>1, <2>2, <2>3
<1> HIDE DEF T
<1>8. n \in T
  BY <1>2, <1>6, <1>7, NatSetInduction
<1>. QED
  BY <1>1, <1>2, <1>4, <1>8 DEF T

LEMMA LeadsNowhere ==
    ASSUME NEW x \in Contents
    PROVE  Leads(x, <<>>, x)
<1> DEFINE c == [i \in 0..0 |-> x]
<1>1. c \in [0..Len(<<>>) -> Contents] /\ Chain(c, <<>>) /\ c[0] = x /\ c[Len(<<>>)] = x
  BY DEF Chain
<1>. QED
  BY <1>1 DEF Leads

LEMMA LeadsNowhereOnly ==
    ASSUME NEW x, NEW y, Leads(x, <<>>, y)
    PROVE  x = y
BY DEF Leads

\* One more step, from the content it was recorded at.
LEMMA LeadsFurther ==
    ASSUME NEW x, NEW y, NEW steps \in Seq(Steps), Leads(x, steps, y),
           NEW s \in Steps, y[s.key] = s.old
    PROVE  Leads(x, Append(steps, s), [y EXCEPT ![s.key] = s.new])
<1> DEFINE n == Len(steps)
           z == [y EXCEPT ![s.key] = s.new]
<1>1. PICK c \in [0..n -> Contents] : Chain(c, steps) /\ c[0] = x /\ c[n] = y
  BY DEF Leads
<1> DEFINE d == [i \in 0..(n + 1) |-> IF i = n + 1 THEN z ELSE c[i]]
<1>2. n \in Nat /\ Len(Append(steps, s)) = n + 1 /\ Append(steps, s)[n + 1] = s
      /\ \A i \in 1..n : Append(steps, s)[i] = steps[i]
  OBVIOUS
<1>3. z \in Contents
  BY <1>1, <1>2 DEF Contents, Steps
<1>4. d \in [0..(n + 1) -> Contents] /\ d[n + 1] = z /\ \A i \in 0..n : d[i] = c[i]
  BY <1>2, <1>3
<1>5. \A i \in 1..n : /\ c[i - 1][steps[i].key] = steps[i].old
                      /\ c[i] = [c[i - 1] EXCEPT ![steps[i].key] = steps[i].new]
  BY <1>1 DEF Chain
<1> HIDE DEF n, d
<1>6. ASSUME NEW i \in 1..(n + 1)
      PROVE  /\ d[i - 1][Append(steps, s)[i].key] = Append(steps, s)[i].old
             /\ d[i] = [d[i - 1] EXCEPT ![Append(steps, s)[i].key] = Append(steps, s)[i].new]
  <2>1. CASE i = n + 1
    <3>1. d[i - 1] = y /\ Append(steps, s)[i] = s /\ d[i] = z
      BY <1>1, <1>2, <1>4, <2>1
    <3>. QED
      BY <3>1
  <2>2. CASE i \in 1..n
    <3>1. d[i - 1] = c[i - 1] /\ Append(steps, s)[i] = steps[i] /\ d[i] = c[i]
      BY <1>2, <1>4, <2>2
    <3>. QED
      BY <1>5, <2>2, <3>1
  <2>3. i = n + 1 \/ i \in 1..n
    BY <1>2
  <2>. QED
    BY <2>1, <2>2, <2>3
<1>7. d[0] = x
  BY <1>1, <1>2, <1>4
<1>8. Chain(d, Append(steps, s))
  BY <1>2, <1>4, <1>6 DEF Chain
<1>. QED
  BY <1>2, <1>4, <1>7, <1>8 DEF Leads

\* Merging a newer value into a step that no later one overwrites.
LEMMA LeadsMerged ==
    ASSUME NEW x, NEW y, NEW steps \in Seq(Steps), Leads(x, steps, y),
           NEW t \in 1..Len(steps), NEW v \in KeyValues,
           \A j \in (t + 1)..Len(steps) : steps[j].key # steps[t].key
    PROVE  Leads(x, [steps EXCEPT ![t].new = v], [y EXCEPT ![steps[t].key] = v])
<1> DEFINE n == Len(steps)
           k == steps[t].key
           new == [steps EXCEPT ![t].new = v]
<1>1. PICK c \in [0..n -> Contents] : Chain(c, steps) /\ c[0] = x /\ c[n] = y
  BY DEF Leads
<1> DEFINE d == [i \in 0..n |-> IF i < t THEN c[i] ELSE [c[i] EXCEPT ![k] = v]]
<1>2. n \in Nat /\ t \in 1..n /\ t \in Nat /\ \A i \in 1..n : steps[i] \in Steps
  OBVIOUS
<1>3. k \in Keys
  BY <1>2 DEF Steps
<1>4. /\ Len(new) = n /\ new[t].new = v /\ new[t].key = k /\ new[t].old = steps[t].old
      /\ \A i \in 1..n : i # t => new[i] = steps[i]
  BY <1>2 DEF Steps
<1>5. \A i \in 1..n : /\ c[i - 1][steps[i].key] = steps[i].old
                      /\ c[i] = [c[i - 1] EXCEPT ![steps[i].key] = steps[i].new]
  BY <1>1 DEF Chain
<1>6. \A i \in 0..n : c[i] \in [Keys -> KeyValues]
  BY DEF Contents
<1>7. d \in [0..n -> Contents]
  BY <1>3, <1>6 DEF Contents
<1>8. \A i \in 0..n : (i < t => d[i] = c[i]) /\ (i >= t => d[i] = [c[i] EXCEPT ![k] = v])
  BY <1>2
<1>k. \A j \in 1..n : j > t => steps[j].key # k
  BY <1>2
<1> HIDE DEF n, d, k, new
<1>9. ASSUME NEW i \in 1..n
      PROVE  /\ d[i - 1][new[i].key] = new[i].old
             /\ d[i] = [d[i - 1] EXCEPT ![new[i].key] = new[i].new]
  <2>1. i - 1 \in 0..n /\ i \in 0..n
    BY <1>2
  <2>2. CASE i < t
    <3>0. i - 1 < t /\ i # t
      BY <1>2, <2>2
    <3>1. d[i - 1] = c[i - 1] /\ d[i] = c[i] /\ new[i] = steps[i]
      BY <1>4, <1>8, <2>1, <2>2, <3>0
    <3>. QED
      BY <1>5, <3>1
  <2>3. CASE i = t
    <3>0. i - 1 < t /\ i >= t
      BY <1>2, <2>3
    <3>1. d[i - 1] = c[i - 1] /\ d[i] = [c[i] EXCEPT ![k] = v]
      BY <1>8, <2>1, <3>0
    <3>2. c[i - 1][k] = steps[i].old /\ c[i] = [c[i - 1] EXCEPT ![k] = steps[i].new]
      BY <1>5, <2>3 DEF k
    <3>3. d[i] = [c[i - 1] EXCEPT ![k] = v]
      BY <1>6, <2>1, <3>1, <3>2
    <3>. QED
      BY <1>4, <2>3, <3>1, <3>2, <3>3
  <2>4. CASE i > t
    <3>0. i - 1 >= t /\ i >= t /\ i # t
      BY <1>2, <2>4
    <3>1. d[i - 1] = [c[i - 1] EXCEPT ![k] = v] /\ d[i] = [c[i] EXCEPT ![k] = v] /\ new[i] = steps[i]
      BY <1>4, <1>8, <2>1, <3>0
    <3>s. steps[i].key # k /\ steps[i].key \in Keys
      BY <1>2, <1>k, <2>4 DEF Steps
    <3>2. c[i - 1][steps[i].key] = steps[i].old /\ c[i] = [c[i - 1] EXCEPT ![steps[i].key] = steps[i].new]
      BY <1>5
    <3>3. c[i - 1] \in [Keys -> KeyValues]
      BY <1>6, <2>1
    <3>. QED
      BY <1>3, <3>s, <3>1, <3>2, <3>3
  <2>. QED
    BY <1>2, <2>2, <2>3, <2>4
<1>10. Chain(d, new)
  <2>1. d \in [0..Len(new) -> Contents]
    BY <1>4, <1>7
  <2>2. \A i \in 1..Len(new) : /\ d[i - 1][new[i].key] = new[i].old
                               /\ d[i] = [d[i - 1] EXCEPT ![new[i].key] = new[i].new]
    BY <1>4, <1>9
  <2>. QED
    BY <2>1, <2>2 DEF Chain
<1>11. d[0] = x /\ d[n] = [y EXCEPT ![k] = v]
  <2>1. 0 \in 0..n /\ n \in 0..n /\ 0 < t /\ n >= t
    BY <1>2
  <2>2. d[0] = c[0] /\ d[n] = [c[n] EXCEPT ![k] = v]
    BY <1>8, <2>1
  <2>. QED
    BY <1>1, <2>2
<1>12. Leads(x, new, [y EXCEPT ![k] = v])
  BY <1>4, <1>7, <1>10, <1>11 DEF Leads
<1>. QED
  BY <1>12 DEF new, k

---------------------------------------------------------------------------
(* Coalescing.                                                             *)

LEMMA MaxUpTo ==
    ASSUME NEW n \in Nat, NEW S \in SUBSET (0..n), S # {}
    PROVE  Max(S) \in S
<1> DEFINE T == {k \in Nat : \A U \in SUBSET (0..k) : U # {} => \E x \in U : \A y \in U : x >= y}
<1>1. 0 \in T
  <2>1. ASSUME NEW U \in SUBSET (0..0), U # {} PROVE \E x \in U : \A y \in U : x >= y
    <3>1. \A x \in U : x = 0
      OBVIOUS
    <3>2. 0 \in U
      BY <2>1, <3>1
    <3>3. \A y \in U : 0 >= y
      BY <3>1
    <3>. QED
      BY <3>2, <3>3
  <2>. QED
    BY <2>1
<1>2. ASSUME NEW k \in Nat, k \in T PROVE k + 1 \in T
  <2> SUFFICES ASSUME NEW U \in SUBSET (0..(k + 1)), U # {}
               PROVE  \E x \in U : \A y \in U : x >= y
    OBVIOUS
  <2>1. CASE k + 1 \in U
    BY <2>1
  <2>2. CASE k + 1 \notin U
    <3>1. U \in SUBSET (0..k)
      BY <2>2
    <3>. QED
      BY <3>1, <1>2
  <2>. QED
    BY <2>1, <2>2
<1> HIDE DEF T
<1>3. n \in T
  BY <1>1, <1>2, NatSetInduction
<1>4. \E x \in S : \A y \in S : x >= y
  BY <1>3 DEF T
<1>. QED
  BY <1>4 DEF Max

LEMMA TargetIs ==
    ASSUME NEW steps \in Seq(Steps), NEW new \in Steps
    PROVE  /\ MergeTarget(steps, new) \in 0..Len(steps)
           /\ MergeTarget(steps, new) # 0 => /\ new.behaviour = "Coalesce"
                                             /\ steps[MergeTarget(steps, new)].key = new.key
<1> DEFINE S == {i \in 1..Len(steps) : Mergeable(steps[i], new)}
<1>1. S \cup {0} \in SUBSET (0..Len(steps)) /\ Len(steps) \in Nat
  OBVIOUS
<1>2. Max(S \cup {0}) \in S \cup {0}
  BY <1>1, MaxUpTo
<1>3. MergeTarget(steps, new) = IF new.behaviour = "Coalesce" THEN Max(S \cup {0}) ELSE 0
  BY DEF MergeTarget
<1>4. \A i \in S : steps[i].key = new.key
  BY DEF Mergeable
<1> HIDE DEF S
<1>. QED
  BY <1>1, <1>2, <1>3, <1>4

\* What a merge does not change.
SameShape(p, q) ==
    /\ Len(p) = Len(q)
    /\ \A i \in 1..Len(p) : p[i].key = q[i].key /\ p[i].behaviour = q[i].behaviour /\ p[i].tick = q[i].tick

LEMMA TargetSame ==
    ASSUME NEW p \in Seq(Steps), NEW q \in Seq(Steps), SameShape(p, q), NEW new \in Steps
    PROVE  MergeTarget(p, new) = MergeTarget(q, new)
<1>1. {i \in 1..Len(p) : Mergeable(p[i], new)} = {i \in 1..Len(q) : Mergeable(q[i], new)}
  BY DEF SameShape, Mergeable
<1>. QED
  BY <1>1 DEF MergeTarget

Merged(steps, i, v) == [steps EXCEPT ![i].new = v]

Absorbing == [into : Seq(Steps), rest : Seq(Steps)]
AbsorbOne(acc, new) ==
    LET i == MergeTarget(acc.into, new)
    IN  IF i = 0 THEN [acc EXCEPT !.rest = Append(@, new)] ELSE [acc EXCEPT !.into[i].new = new.new]

LEMMA AbsorbOneIs ==
    ASSUME NEW acc \in Absorbing, NEW new \in Steps, NEW i, i = MergeTarget(acc.into, new)
    PROVE  /\ AbsorbOne(acc, new) \in Absorbing
           /\ i = 0 => /\ AbsorbOne(acc, new).into = acc.into
                       /\ AbsorbOne(acc, new).rest = Append(acc.rest, new)
           /\ i # 0 => AbsorbOne(acc, new).into = Merged(acc.into, i, new.new)
           /\ i # 0 => AbsorbOne(acc, new).rest = acc.rest
           /\ SameShape(AbsorbOne(acc, new).into, acc.into)
<1> DEFINE into == [acc.into EXCEPT ![i].new = new.new]
<1>1. acc.into \in Seq(Steps) /\ acc.rest \in Seq(Steps) /\ new.new \in KeyValues
  BY DEF Absorbing, Steps
<1>2. i \in 0..Len(acc.into)
  BY <1>1, TargetIs
<1> HIDE DEF into
<1>3. CASE i = 0
  <2>1. AbsorbOne(acc, new) = [acc EXCEPT !.rest = Append(@, new)]
    BY <1>3 DEF AbsorbOne
  <2>2. Append(acc.rest, new) \in Seq(Steps)
    BY <1>1
  <2>3. /\ AbsorbOne(acc, new) \in Absorbing
        /\ AbsorbOne(acc, new).into = acc.into
        /\ AbsorbOne(acc, new).rest = Append(acc.rest, new)
    BY <2>1, <2>2 DEF Absorbing
  <2>4. SameShape(acc.into, acc.into)
    BY DEF SameShape
  <2>. QED
    BY <1>3, <2>3, <2>4
<1>4. CASE i # 0
  <2>1. AbsorbOne(acc, new) = [acc EXCEPT !.into = into]
    BY <1>4 DEF AbsorbOne, into
  <2>2. i \in 1..Len(acc.into) /\ Len(acc.into) \in Nat
    BY <1>1, <1>2, <1>4
  <2>3. into \in Seq(Steps) /\ SameShape(into, acc.into)
    <3>1. into = [acc.into EXCEPT ![i] = [acc.into[i] EXCEPT !.new = new.new]]
      BY DEF into
    <3>2. acc.into[i] \in Steps
      BY <1>1, <2>2
    <3> DEFINE m == [acc.into[i] EXCEPT !.new = new.new]
    <3>3. m \in Steps /\ m.key = acc.into[i].key /\ m.behaviour = acc.into[i].behaviour /\ m.tick = acc.into[i].tick
      BY <1>1, <3>2 DEF Steps
    <3> HIDE DEF m
    <3>4. into \in Seq(Steps) /\ Len(into) = Len(acc.into) /\ into[i] = m
          /\ \A j \in 1..Len(acc.into) : j # i => into[j] = acc.into[j]
      BY <1>1, <2>2, <3>1, <3>3 DEF m
    <3>. QED
      BY <2>2, <3>3, <3>4 DEF SameShape
  <2>4. /\ [acc EXCEPT !.into = into] \in Absorbing
        /\ [acc EXCEPT !.into = into].into = into
        /\ [acc EXCEPT !.into = into].rest = acc.rest
    BY <2>3 DEF Absorbing
  <2>. QED
    BY <1>4, <2>1, <2>3, <2>4 DEF into, Merged
<1>. QED
  BY <1>3, <1>4

LEMMA AbsorbIs ==
    ASSUME NEW previous \in Seq(Steps), NEW incoming \in Seq(Steps)
    PROVE  \E g \in [0..Len(incoming) -> Absorbing] :
              /\ g[0] = [into |-> previous, rest |-> <<>>]
              /\ Absorb(previous, incoming) = g[Len(incoming)]
              /\ \A i \in 1..Len(incoming) : g[i] = AbsorbOne(g[i - 1], incoming[i])
<1> DEFINE n == Len(incoming)
           q == [into |-> previous, rest |-> <<>>]
           F == [i \in 1..n |-> [a \in Absorbing |-> AbsorbOne(a, incoming[i])]]
           Sol(g) == g = [i \in 0..n |->
                             IF i = 0 THEN [into |-> previous, rest |-> <<>>]
                             ELSE LET acc == g[i - 1]
                                      j == MergeTarget(acc.into, incoming[i])
                                  IN  IF j = 0 THEN [acc EXCEPT !.rest = Append(@, incoming[i])]
                                      ELSE [acc EXCEPT !.into[j].new = incoming[i].new]]
           h == CHOOSE g : Sol(g)
<1>1. n \in Nat /\ q \in Absorbing
  BY DEF Absorbing
<1>2. ASSUME NEW i \in 1..n, NEW a \in Absorbing PROVE AbsorbOne(a, incoming[i]) \in Absorbing
  <2>1. incoming[i] \in Steps
    OBVIOUS
  <2>. QED
    BY <2>1, AbsorbOneIs
<1>3. F \in [1..n -> [Absorbing -> Absorbing]]
  BY <1>2
<1>4. \A i \in 1..n, a \in Absorbing : F[i][a] = AbsorbOne(a, incoming[i])
  OBVIOUS
<1>5. Absorb(previous, incoming) = h[n]
  BY DEF Absorb
<1> HIDE DEF F, h
<1>6. PICK g \in [0..n -> Absorbing] : IsRecursion(g, n, q, F)
  <2> HIDE DEF n, q
  <2>. QED
    BY <1>1, <1>3, RecursionExists
<1>7. ASSUME NEW i \in 0..n PROVE g[i] = IF i = 0 THEN q ELSE AbsorbOne(g[i - 1], incoming[i])
  <2>1. i # 0 => i \in 1..n /\ i - 1 \in 0..n
    BY <1>1
  <2> HIDE DEF n, q
  <2>2. g[i] = IF i = 0 THEN q ELSE F[i][g[i - 1]]
    BY <1>6 DEF IsRecursion
  <2>. QED
    BY <1>4, <1>6, <2>1, <2>2
<1>8. Sol(g)
  <2>1. g = [i \in 0..n |-> IF i = 0 THEN q ELSE AbsorbOne(g[i - 1], incoming[i])]
    <3> HIDE DEF n, q
    <3>. QED
      BY <1>6, <1>7
  <2>. QED
    BY <2>1 DEF AbsorbOne
<1>9. Sol(h)
  BY <1>8 DEF h
<1>10. ASSUME NEW i \in 0..n PROVE h[i] = IF i = 0 THEN q ELSE AbsorbOne(h[i - 1], incoming[i])
  BY <1>9 DEF AbsorbOne
<1> HIDE DEF n, q, Sol
<1> DEFINE T == {k \in Nat : k <= n => g[k] = h[k]}
<1>11. 0 \in T
  BY <1>1, <1>7, <1>10
<1>12. ASSUME NEW k \in Nat, k \in T PROVE k + 1 \in T
  <2> SUFFICES ASSUME k + 1 <= n PROVE g[k + 1] = h[k + 1]
    OBVIOUS
  <2>1. k + 1 \in 0..n /\ k + 1 # 0 /\ (k + 1) - 1 = k /\ g[k] = h[k]
    BY <1>1, <1>12
  <2>. QED
    BY <1>7, <1>10, <2>1
<1> HIDE DEF T
<1>13. n \in T
  BY <1>1, <1>11, <1>12, NatSetInduction
<1>14. g[0] = q /\ Absorb(previous, incoming) = g[n]
  BY <1>1, <1>5, <1>7, <1>13 DEF T
<1>15. \A i \in 1..n : g[i] = AbsorbOne(g[i - 1], incoming[i])
  BY <1>1, <1>7
<1>. QED
  BY <1>14, <1>15 DEF n, q

\* How much of the incoming steps was absorbed, read off what is left of them.
LEMMA AbsorbShape ==
    ASSUME NEW previous \in Seq(Steps), NEW incoming \in Seq(Steps),
           NEW g \in [0..Len(incoming) -> Absorbing], g[0] = [into |-> previous, rest |-> <<>>],
           \A i \in 1..Len(incoming) : g[i] = AbsorbOne(g[i - 1], incoming[i])
    PROVE  \A k \in 0..Len(incoming) :
              /\ SameShape(g[k].into, previous)
              /\ Len(g[k].rest) <= k
              /\ Len(g[k].rest) = k => g[k].into = previous
              /\ Len(g[k].rest) = 0 => \A j \in 1..k : MergeTarget(previous, incoming[j]) # 0
<1> DEFINE n == Len(incoming)
           P(k) == /\ SameShape(g[k].into, previous)
                   /\ Len(g[k].rest) <= k
                   /\ Len(g[k].rest) = k => g[k].into = previous
                   /\ Len(g[k].rest) = 0 => \A j \in 1..k : MergeTarget(previous, incoming[j]) # 0
           T == {k \in Nat : k <= n => P(k)}
<1>1. 0 \in T
  BY DEF SameShape
<1> HIDE DEF P
<1>2. ASSUME NEW k \in Nat, k \in T PROVE k + 1 \in T
  <2> SUFFICES ASSUME k + 1 <= n PROVE P(k + 1)
    OBVIOUS
  <2> DEFINE new == incoming[k + 1]
             t == MergeTarget(previous, new)
  <2>1. k \in 0..n /\ k + 1 \in 1..n /\ k + 1 \in 0..n /\ (k + 1) - 1 = k
    OBVIOUS
  <2>p. P(k)
    BY <1>2
  <2>2. /\ new \in Steps /\ g[k] \in Absorbing /\ g[k + 1] \in Absorbing
        /\ SameShape(g[k].into, previous)
    <3>1. incoming[k + 1] \in Steps
      BY <2>1
    <3>2. g[k] \in Absorbing /\ g[k + 1] \in Absorbing
      BY <2>1
    <3>. QED
      BY <2>p, <3>1, <3>2 DEF P
  <2>3. g[k].into \in Seq(Steps) /\ g[k].rest \in Seq(Steps) /\ g[k + 1].into \in Seq(Steps)
    BY <2>2 DEF Absorbing
  <2>4. g[k + 1] = AbsorbOne(g[k], new)
    BY <2>1
  <2>5. MergeTarget(g[k].into, new) = t
    BY <2>2, <2>3, TargetSame
  <2> HIDE DEF new, t
  <2>6. /\ t = 0 => g[k + 1].into = g[k].into /\ g[k + 1].rest = Append(g[k].rest, new)
        /\ t # 0 => g[k + 1].rest = g[k].rest
        /\ SameShape(g[k + 1].into, g[k].into)
    <3> DEFINE acc == g[k]
    <3>1. acc \in Absorbing /\ new \in Steps /\ t = MergeTarget(acc.into, new) /\ g[k + 1] = AbsorbOne(acc, new)
      BY <2>2, <2>4, <2>5
    <3> HIDE DEF acc
    <3>2. SameShape(g[k + 1].into, acc.into)
      BY <3>1, AbsorbOneIs
    <3>a. t = 0 => AbsorbOne(acc, new).into = acc.into
      BY <3>1, AbsorbOneIs
    <3>b. t = 0 => AbsorbOne(acc, new).rest = Append(acc.rest, new)
      BY <3>1, AbsorbOneIs
    <3>c. t # 0 => AbsorbOne(acc, new).rest = acc.rest
      BY <3>1, AbsorbOneIs
    <3>3. t = 0 => g[k + 1].into = acc.into /\ g[k + 1].rest = Append(acc.rest, new)
      BY <3>1, <3>a, <3>b
    <3>4. t # 0 => g[k + 1].rest = acc.rest
      BY <3>1, <3>c
    <3>. QED
      BY <3>2, <3>3, <3>4 DEF acc
  <2>7. SameShape(g[k + 1].into, previous)
    BY <2>2, <2>6 DEF SameShape
  <2>8. Len(g[k + 1].rest) = IF t = 0 THEN Len(g[k].rest) + 1 ELSE Len(g[k].rest)
    BY <2>3, <2>6
  <2>9. Len(g[k].rest) \in Nat /\ Len(g[k].rest) <= k
    BY <2>3, <2>p DEF P
  <2>10. ASSUME Len(g[k + 1].rest) = k + 1 PROVE g[k + 1].into = previous
    <3>1. t = 0 /\ Len(g[k].rest) = k
      BY <2>8, <2>9, <2>10
    <3>. QED
      BY <2>6, <2>p, <3>1 DEF P
  <2>11. ASSUME Len(g[k + 1].rest) = 0, NEW j \in 1..(k + 1)
         PROVE  MergeTarget(previous, incoming[j]) # 0
    <3>1. t # 0 /\ Len(g[k].rest) = 0
      BY <2>8, <2>9, <2>11
    <3>2. CASE j = k + 1
      BY <3>1, <3>2 DEF t, new
    <3>3. CASE j \in 1..k
      BY <2>p, <3>1, <3>3 DEF P
    <3>. QED
      BY <2>11, <3>2, <3>3
  <2>. QED
    BY <2>7, <2>8, <2>9, <2>10, <2>11 DEF P
<1> HIDE DEF T
<1>3. Nat \subseteq T
  BY <1>1, <1>2, NatSetInduction
<1>4. ASSUME NEW k \in 0..n PROVE P(k)
  BY <1>3 DEF T
<1>. QED
  BY <1>4 DEF P

\* Whatever is absorbed, the outcome is typed; what is left whole was not absorbed at all.
LEMMA AbsorbTyped ==
    ASSUME NEW previous \in Seq(Steps), NEW incoming \in Seq(Steps)
    PROVE  /\ Absorb(previous, incoming) \in Absorbing
           /\ Absorb(previous, incoming).rest = incoming => Absorb(previous, incoming).into = previous
<1> DEFINE n == Len(incoming)
<1>1. PICK g \in [0..n -> Absorbing] :
         /\ g[0] = [into |-> previous, rest |-> <<>>]
         /\ Absorb(previous, incoming) = g[n]
         /\ \A i \in 1..n : g[i] = AbsorbOne(g[i - 1], incoming[i])
  BY AbsorbIs
<1>2. n \in 0..n
  OBVIOUS
<1>3. Len(g[n].rest) = n => g[n].into = previous
  BY <1>1, <1>2, AbsorbShape
<1>. QED
  BY <1>1, <1>2, <1>3

\* Nothing is left only if every step found its target.
LEMMA AbsorbedWhole ==
    ASSUME NEW previous \in Seq(Steps), NEW incoming \in Seq(Steps), Absorb(previous, incoming).rest = <<>>
    PROVE  \A j \in 1..Len(incoming) : MergeTarget(previous, incoming[j]) # 0
<1> DEFINE n == Len(incoming)
<1>1. PICK g \in [0..n -> Absorbing] :
         /\ g[0] = [into |-> previous, rest |-> <<>>]
         /\ Absorb(previous, incoming) = g[n]
         /\ \A i \in 1..n : g[i] = AbsorbOne(g[i - 1], incoming[i])
  BY AbsorbIs
<1>2. n \in 0..n
  OBVIOUS
<1>3. \A k \in 0..n : Len(g[k].rest) = 0 => \A j \in 1..k : MergeTarget(previous, incoming[j]) # 0
  BY <1>1, AbsorbShape
<1>4. Len(g[n].rest) = 0
  BY <1>1
<1>. QED
  BY <1>2, <1>3, <1>4

\* Absorbing all of what came after an entry extends the entry to where that led.
LEMMA AbsorbAll ==
    ASSUME NEW previous \in Seq(Steps), NEW incoming \in Seq(Steps),
           NEW x, NEW y, NEW z, Leads(x, previous, y), Leads(y, incoming, z),
           Absorb(previous, incoming).rest = <<>>,
           \A i \in 1..Len(incoming) : \A j \in 1..Len(previous) :
              j > MergeTarget(previous, incoming[i]) => previous[j].key # incoming[i].key
    PROVE  Leads(x, Absorb(previous, incoming).into, z)
<1> DEFINE n == Len(incoming)
<1>1. PICK g \in [0..n -> Absorbing] :
         /\ g[0] = [into |-> previous, rest |-> <<>>]
         /\ Absorb(previous, incoming) = g[n]
         /\ \A i \in 1..n : g[i] = AbsorbOne(g[i - 1], incoming[i])
  BY AbsorbIs
<1>2. PICK c \in [0..n -> Contents] : Chain(c, incoming) /\ c[0] = y /\ c[n] = z
  BY DEF Leads
<1>3. n \in Nat /\ n \in 0..n /\ 0 \in 0..n
  OBVIOUS
<1>4. \A k \in 0..n : SameShape(g[k].into, previous)
  BY <1>1, AbsorbShape
<1>5. \A j \in 1..n : MergeTarget(previous, incoming[j]) # 0
  BY AbsorbedWhole
<1> DEFINE T == {k \in Nat : k <= n => Leads(x, g[k].into, c[k])}
<1>6. 0 \in T
  BY <1>1, <1>2
<1>7. ASSUME NEW k \in Nat, k \in T PROVE k + 1 \in T
  <2> SUFFICES ASSUME k + 1 <= n PROVE Leads(x, g[k + 1].into, c[k + 1])
    OBVIOUS
  <2> DEFINE new == incoming[k + 1]
             t == MergeTarget(previous, new)
             into == g[k].into
  <2>1. k \in 0..n /\ k + 1 \in 1..n /\ k + 1 \in 0..n /\ (k + 1) - 1 = k
    BY <1>3
  <2>2. new \in Steps /\ g[k] \in Absorbing /\ Leads(x, into, c[k]) /\ SameShape(into, previous)
    BY <1>4, <1>7, <2>1
  <2>3. into \in Seq(Steps) /\ new.new \in KeyValues
    BY <2>2 DEF Absorbing, Steps
  <2>4. g[k + 1] = AbsorbOne(g[k], new)
    BY <1>1, <2>1
  <2>5. MergeTarget(into, new) = t /\ t # 0
    BY <1>5, <2>1, <2>2, <2>3, TargetSame
  <2>6. t \in 0..Len(previous) /\ previous[t].key = new.key
    BY <2>2, <2>5, TargetIs
  <2>7. \A j \in 1..Len(previous) : j > t => previous[j].key # new.key
    BY <2>1
  <2>8. c[k + 1] = [c[k] EXCEPT ![new.key] = new.new]
    BY <1>2, <2>1 DEF Chain
  <2>9. g[k + 1].into = [into EXCEPT ![t].new = new.new]
    <3> DEFINE acc == g[k]
    <3>1. /\ acc \in Absorbing /\ new \in Steps /\ t = MergeTarget(acc.into, new) /\ t # 0
          /\ g[k + 1] = AbsorbOne(acc, new)
      BY <2>2, <2>4, <2>5
    <3> HIDE DEF acc, t, new
    <3>2. AbsorbOne(acc, new).into = Merged(acc.into, t, new.new)
      BY <3>1, AbsorbOneIs
    <3>. QED
      BY <3>1, <3>2 DEF acc, Merged
  <2> HIDE DEF new, t, into
  <2>10. t \in 1..Len(into) /\ into[t].key = new.key
    BY <2>2, <2>5, <2>6 DEF SameShape
  <2>11. \A j \in (t + 1)..Len(into) : into[j].key # into[t].key
    BY <2>2, <2>7, <2>10 DEF SameShape
  <2>12. Leads(x, [into EXCEPT ![t].new = new.new], [c[k] EXCEPT ![into[t].key] = new.new])
    BY <2>2, <2>3, <2>10, <2>11, LeadsMerged
  <2>. QED
    BY <2>8, <2>9, <2>10, <2>12
<1> HIDE DEF T, n
<1>8. n \in T
  BY <1>3, <1>6, <1>7, NatSetInduction
<1>. QED
  BY <1>1, <1>2, <1>3, <1>8 DEF T

---------------------------------------------------------------------------
(* Stacks of entries.                                                      *)

\* The entry leads from x to y, and its ids, given out before nx, name them.
Sound(e, x, y, nm, nx) ==
    /\ Leads(x, e.steps, y)
    /\ e.before < nx /\ nm[e.before] = x
    /\ e.after < nx /\ nm[e.after] = y

After(p, b, i) == IF i = Len(p) THEN b ELSE p[i + 1]

\* The undo stack goes through the contents p to b, oldest first.
Behind(stack, p, b, nm, nx) ==
    /\ p \in Seq(Contents) /\ Len(p) = Len(stack) /\ b \in Contents
    /\ \A i \in 1..Len(stack) : Sound(stack[i], p[i], After(p, b, i), nm, nx)

\* The redo stack goes from v through the contents f, next first.
Ahead(stack, v, f, nm, nx) ==
    /\ f \in Seq(Contents) /\ Len(f) = Len(stack) /\ v \in Contents
    /\ \A i \in 1..Len(stack) :
          Sound(stack[Len(stack) + 1 - i], IF i = 1 THEN v ELSE f[i - 1], f[i], nm, nx)

LEMMA BehindIs ==
    ASSUME NEW stack \in Seq(Entries), NEW p, NEW b, NEW nm, NEW nx, Behind(stack, p, b, nm, nx)
    PROVE  UndoneFrom(b, stack) = p
<1> DEFINE n == Len(stack)
           Sol(g) == g = [i \in 0..n |-> IF i = 0 THEN b ELSE Reverted(g[i - 1], stack[n + 1 - i].steps)]
           h == CHOOSE g : Sol(g)
           c == [i \in 0..n |-> IF i = 0 THEN b ELSE p[n + 1 - i]]
<1>1. n \in Nat /\ Len(p) = n /\ p \in Seq(Contents) /\ b \in Contents
  BY DEF Behind
<1>2. ASSUME NEW i \in 1..n PROVE p[i] = Reverted(After(p, b, i), stack[i].steps)
  <2>1. stack[i].steps \in Seq(Steps) /\ Leads(p[i], stack[i].steps, After(p, b, i))
    <3>1. stack[i] \in Entries
      OBVIOUS
    <3>2. Sound(stack[i], p[i], After(p, b, i), nm, nx)
      BY DEF Behind
    <3>. QED
      BY <3>1, <3>2 DEF Sound, Entries
  <2>. QED
    BY <2>1, LeadsBack
<1>3. UndoneFrom(b, stack) = [i \in 1..n |-> h[n + 1 - i]]
  BY DEF UndoneFrom
<1> HIDE DEF n, h
<1>4. ASSUME NEW i \in 0..n PROVE c[i] = IF i = 0 THEN b ELSE Reverted(c[i - 1], stack[n + 1 - i].steps)
  <2> SUFFICES ASSUME i # 0 PROVE c[i] = Reverted(c[i - 1], stack[n + 1 - i].steps)
    OBVIOUS
  <2>1. n + 1 - i \in 1..n /\ i - 1 \in 0..n
    BY <1>1
  <2>2. c[i] = p[n + 1 - i]
    OBVIOUS
  <2>3. After(p, b, n + 1 - i) = c[i - 1]
    <3>1. CASE i = 1
      BY <1>1, <3>1 DEF After
    <3>2. CASE i # 1
      <4>1. n + 1 - i # n /\ i - 1 # 0 /\ n + 1 - (i - 1) = (n + 1 - i) + 1
        BY <1>1, <3>2
      <4>. QED
        BY <1>1, <2>1, <4>1 DEF After
    <3>. QED
      BY <3>1, <3>2
  <2>. QED
    BY <1>2, <2>1, <2>2, <2>3
<1>5. Sol(c)
  <2>1. c = [i \in 0..n |-> c[i]]
    OBVIOUS
  <2> HIDE DEF c
  <2>. QED
    BY <1>4, <2>1
<1>6. Sol(h)
  BY <1>5 DEF h
<1>7. ASSUME NEW i \in 0..n PROVE h[i] = IF i = 0 THEN b ELSE Reverted(h[i - 1], stack[n + 1 - i].steps)
  BY <1>6
<1>c. \A i \in 1..n : c[n + 1 - i] = p[i]
  BY <1>1
<1> HIDE DEF c
<1> DEFINE T == {k \in Nat : k <= n => h[k] = c[k]}
<1>8. 0 \in T
  BY <1>1, <1>4, <1>7
<1>9. ASSUME NEW k \in Nat, k \in T PROVE k + 1 \in T
  <2> SUFFICES ASSUME k + 1 <= n PROVE h[k + 1] = c[k + 1]
    OBVIOUS
  <2>1. k + 1 \in 0..n /\ k + 1 # 0 /\ (k + 1) - 1 = k /\ h[k] = c[k]
    BY <1>1, <1>9
  <2>. QED
    BY <1>4, <1>7, <2>1
<1> HIDE DEF T
<1>10. Nat \subseteq T
  BY <1>8, <1>9, NatSetInduction
<1>11. \A i \in 1..n : h[n + 1 - i] = p[i]
  <2> SUFFICES ASSUME NEW i \in 1..n PROVE h[n + 1 - i] = p[i]
    OBVIOUS
  <2>1. n + 1 - i \in Nat /\ n + 1 - i <= n
    BY <1>1
  <2>. QED
    BY <1>10, <1>c, <2>1 DEF T
<1>12. p = [i \in 1..n |-> p[i]]
  BY <1>1
<1>. QED
  BY <1>3, <1>11, <1>12

LEMMA AheadIs ==
    ASSUME NEW stack \in Seq(Entries), NEW v, NEW f, NEW nm, NEW nx, Ahead(stack, v, f, nm, nx)
    PROVE  RedoneFrom(v, stack) = f
<1> DEFINE n == Len(stack)
           Sol(g) == g = [i \in 0..n |-> IF i = 0 THEN v ELSE Replayed(g[i - 1], stack[n + 1 - i].steps)]
           h == CHOOSE g : Sol(g)
           c == [i \in 0..n |-> IF i = 0 THEN v ELSE f[i]]
<1>1. n \in Nat /\ Len(f) = n /\ f \in Seq(Contents) /\ v \in Contents
  BY DEF Ahead
<1>2. ASSUME NEW i \in 1..n PROVE f[i] = Replayed(IF i = 1 THEN v ELSE f[i - 1], stack[n + 1 - i].steps)
  <2>1. n + 1 - i \in 1..n
    BY <1>1
  <2>2. stack[n + 1 - i].steps \in Seq(Steps)
        /\ Leads(IF i = 1 THEN v ELSE f[i - 1], stack[n + 1 - i].steps, f[i])
    <3>1. stack[n + 1 - i] \in Entries
      BY <2>1
    <3>2. Sound(stack[n + 1 - i], IF i = 1 THEN v ELSE f[i - 1], f[i], nm, nx)
      BY DEF Ahead
    <3>. QED
      BY <3>1, <3>2 DEF Sound, Entries
  <2>. QED
    BY <2>2, LeadsOn
<1>3. RedoneFrom(v, stack) = [i \in 1..n |-> h[i]]
  BY DEF RedoneFrom
<1> HIDE DEF n, h
<1>4. ASSUME NEW i \in 0..n PROVE c[i] = IF i = 0 THEN v ELSE Replayed(c[i - 1], stack[n + 1 - i].steps)
  <2> SUFFICES ASSUME i # 0 PROVE c[i] = Replayed(c[i - 1], stack[n + 1 - i].steps)
    OBVIOUS
  <2>1. i \in 1..n /\ i - 1 \in 0..n
    BY <1>1
  <2>2. c[i] = f[i] /\ c[i - 1] = IF i = 1 THEN v ELSE f[i - 1]
    BY <1>1, <2>1
  <2>. QED
    BY <1>2, <2>1, <2>2
<1>5. Sol(c)
  <2>1. c = [i \in 0..n |-> c[i]]
    OBVIOUS
  <2> HIDE DEF c
  <2>. QED
    BY <1>4, <2>1
<1>6. Sol(h)
  BY <1>5 DEF h
<1>7. ASSUME NEW i \in 0..n PROVE h[i] = IF i = 0 THEN v ELSE Replayed(h[i - 1], stack[n + 1 - i].steps)
  BY <1>6
<1>c. \A i \in 1..n : c[i] = f[i]
  BY <1>1
<1> HIDE DEF c
<1> DEFINE T == {k \in Nat : k <= n => h[k] = c[k]}
<1>8. 0 \in T
  BY <1>1, <1>4, <1>7
<1>9. ASSUME NEW k \in Nat, k \in T PROVE k + 1 \in T
  <2> SUFFICES ASSUME k + 1 <= n PROVE h[k + 1] = c[k + 1]
    OBVIOUS
  <2>1. k + 1 \in 0..n /\ k + 1 # 0 /\ (k + 1) - 1 = k /\ h[k] = c[k]
    BY <1>1, <1>9
  <2>. QED
    BY <1>4, <1>7, <2>1
<1> HIDE DEF T
<1>10. Nat \subseteq T
  BY <1>8, <1>9, NatSetInduction
<1>11. \A i \in 1..n : h[i] = f[i]
  <2> SUFFICES ASSUME NEW i \in 1..n PROVE h[i] = f[i]
    OBVIOUS
  <2>1. i \in Nat /\ i <= n
    BY <1>1
  <2>. QED
    BY <1>10, <1>c, <2>1 DEF T
<1>12. f = [i \in 1..n |-> f[i]]
  BY <1>1
<1>. QED
  BY <1>3, <1>11, <1>12

\* Nothing is on either side of a content when a stack is empty.
LEMMA EmptyStacks ==
    ASSUME NEW v \in Contents, NEW nm, NEW nx
    PROVE  Behind(<<>>, <<>>, v, nm, nx) /\ Ahead(<<>>, v, <<>>, nm, nx)
BY DEF Behind, Ahead

\* Giving out another id disturbs no entry.
LEMMA IdsStay ==
    ASSUME NEW nx \in Nat, NEW nx2 \in Nat, nx <= nx2, NEW nm, NEW nm2, \A i \in Nat : i < nx => nm2[i] = nm[i],
           NEW stack \in Seq(Entries)
    PROVE  /\ \A e \in Entries : \A x, y : Sound(e, x, y, nm, nx) => Sound(e, x, y, nm2, nx2)
           /\ \A p, b : Behind(stack, p, b, nm, nx) => Behind(stack, p, b, nm2, nx2)
           /\ \A v, f : Ahead(stack, v, f, nm, nx) => Ahead(stack, v, f, nm2, nx2)
<1>1. ASSUME NEW e \in Entries, NEW x, NEW y, Sound(e, x, y, nm, nx) PROVE Sound(e, x, y, nm2, nx2)
  BY <1>1 DEF Sound, Entries
<1>2. ASSUME NEW p, NEW b, Behind(stack, p, b, nm, nx) PROVE Behind(stack, p, b, nm2, nx2)
  <2>1. ASSUME NEW i \in 1..Len(stack) PROVE Sound(stack[i], p[i], After(p, b, i), nm2, nx2)
    <3>1. stack[i] \in Entries /\ Sound(stack[i], p[i], After(p, b, i), nm, nx)
      BY <1>2 DEF Behind
    <3>. QED
      BY <1>1, <3>1
  <2>. QED
    BY <1>2, <2>1 DEF Behind
<1>3. ASSUME NEW v, NEW f, Ahead(stack, v, f, nm, nx) PROVE Ahead(stack, v, f, nm2, nx2)
  <2>1. ASSUME NEW i \in 1..Len(stack)
        PROVE  Sound(stack[Len(stack) + 1 - i], IF i = 1 THEN v ELSE f[i - 1], f[i], nm2, nx2)
    <3>1. Len(stack) + 1 - i \in 1..Len(stack)
      OBVIOUS
    <3>2. /\ stack[Len(stack) + 1 - i] \in Entries
          /\ Sound(stack[Len(stack) + 1 - i], IF i = 1 THEN v ELSE f[i - 1], f[i], nm, nx)
      BY <1>3, <3>1 DEF Ahead
    <3>. QED
      BY <1>1, <3>2
  <2>. QED
    BY <1>3, <2>1 DEF Ahead
<1>. QED
  BY <1>1, <1>2, <1>3

\* A new entry on the undo stack.
LEMMA BehindPush ==
    ASSUME NEW stack \in Seq(Entries), NEW p, NEW b, NEW nm, NEW nx, Behind(stack, p, b, nm, nx),
           NEW e \in Entries, NEW z \in Contents, Sound(e, b, z, nm, nx)
    PROVE  Behind(Append(stack, e), Append(p, b), z, nm, nx)
<1> DEFINE n == Len(stack)
           q == Append(p, b)
<1>1. /\ n \in Nat /\ p \in Seq(Contents) /\ Len(p) = n /\ b \in Contents
      /\ \A i \in 1..n : Sound(stack[i], p[i], After(p, b, i), nm, nx)
  BY DEF Behind
<1>2. /\ q \in Seq(Contents) /\ Len(q) = n + 1 /\ q[n + 1] = b /\ \A i \in 1..n : q[i] = p[i]
      /\ Len(Append(stack, e)) = n + 1 /\ Append(stack, e)[n + 1] = e
      /\ \A i \in 1..n : Append(stack, e)[i] = stack[i]
  BY <1>1
<1> HIDE DEF n, q
<1>3. ASSUME NEW i \in 1..(n + 1) PROVE Sound(Append(stack, e)[i], q[i], After(q, z, i), nm, nx)
  <2>1. CASE i = n + 1
    BY <1>2, <2>1 DEF After
  <2>2. CASE i \in 1..n
    <3>1. After(q, z, i) = After(p, b, i)
      <4>1. CASE i = n
        BY <1>1, <1>2, <4>1 DEF After
      <4>2. CASE i # n
        <5>1. i + 1 \in 1..n /\ i # n + 1
          BY <1>1, <2>2, <4>2
        <5>. QED
          BY <1>1, <1>2, <4>2, <5>1 DEF After
      <4>. QED
        BY <4>1, <4>2
    <3>. QED
      BY <1>1, <1>2, <2>2, <3>1
  <2>3. i = n + 1 \/ i \in 1..n
    BY <1>1
  <2>. QED
    BY <2>1, <2>2, <2>3
<1>. QED
  BY <1>2, <1>3 DEF Behind, q

\* The newest entry of the undo stack leads to where the stack ends.
LEMMA BehindPop ==
    ASSUME NEW stack \in Seq(Entries), NEW p, NEW b, NEW nm, NEW nx, Behind(stack, p, b, nm, nx), stack # <<>>
    PROVE  /\ p # <<>> /\ Last(stack) \in Entries /\ Front(stack) \in Seq(Entries) /\ Last(p) \in Contents
           /\ Sound(Last(stack), Last(p), b, nm, nx)
           /\ Behind(Front(stack), Front(p), Last(p), nm, nx)
<1> DEFINE n == Len(stack)
<1>1. /\ n \in Nat /\ p \in Seq(Contents) /\ Len(p) = n /\ b \in Contents /\ n # 0
      /\ \A i \in 1..n : Sound(stack[i], p[i], After(p, b, i), nm, nx)
  BY DEF Behind
<1>2. /\ Last(stack) = stack[n] /\ Last(stack) \in Entries /\ Front(stack) \in Seq(Entries)
      /\ Len(Front(stack)) = n - 1 /\ \A i \in 1..(n - 1) : Front(stack)[i] = stack[i]
  BY <1>1 DEF Last, Front
<1>3. /\ Last(p) = p[n] /\ Last(p) \in Contents /\ Front(p) \in Seq(Contents)
      /\ Len(Front(p)) = n - 1 /\ \A i \in 1..(n - 1) : Front(p)[i] = p[i]
  BY <1>1 DEF Last, Front
<1>4. p # <<>>
  BY <1>1
<1> HIDE DEF n
<1>5. Sound(Last(stack), Last(p), b, nm, nx)
  BY <1>1, <1>2, <1>3 DEF After
<1>6. ASSUME NEW i \in 1..(n - 1)
      PROVE  Sound(Front(stack)[i], Front(p)[i], After(Front(p), Last(p), i), nm, nx)
  <2>1. i \in 1..n /\ i # n
    BY <1>1
  <2>2. After(Front(p), Last(p), i) = p[i + 1]
    <3>1. CASE i = n - 1
      BY <1>1, <1>3, <3>1 DEF After
    <3>2. CASE i # n - 1
      BY <1>1, <1>3, <3>2 DEF After
    <3>. QED
      BY <3>1, <3>2
  <2>3. After(p, b, i) = p[i + 1]
    BY <1>1, <2>1 DEF After
  <2>. QED
    BY <1>1, <1>2, <1>3, <2>1, <2>2, <2>3
<1>. QED
  BY <1>2, <1>3, <1>4, <1>5, <1>6 DEF Behind

LEMMA AheadPush ==
    ASSUME NEW stack \in Seq(Entries), NEW v, NEW f, NEW nm, NEW nx, Ahead(stack, v, f, nm, nx),
           NEW e \in Entries, NEW z \in Contents, Sound(e, z, v, nm, nx)
    PROVE  Ahead(Append(stack, e), z, <<v>> \o f, nm, nx)
<1> DEFINE n == Len(stack)
           q == <<v>> \o f
           new == Append(stack, e)
<1>1. /\ n \in Nat /\ f \in Seq(Contents) /\ Len(f) = n /\ v \in Contents
      /\ \A i \in 1..n : Sound(stack[n + 1 - i], IF i = 1 THEN v ELSE f[i - 1], f[i], nm, nx)
  BY DEF Ahead
<1>2. /\ q \in Seq(Contents) /\ Len(q) = n + 1 /\ q[1] = v /\ \A i \in 1..n : q[i + 1] = f[i]
  BY <1>1
<1>3. /\ Len(new) = n + 1 /\ new[n + 1] = e /\ \A i \in 1..n : new[i] = stack[i]
  BY <1>1
<1> HIDE DEF n, q, new
<1>4. ASSUME NEW i \in 1..(n + 1)
      PROVE  Sound(new[(n + 1) + 1 - i], IF i = 1 THEN z ELSE q[i - 1], q[i], nm, nx)
  <2>1. CASE i = 1
    <3>1. (n + 1) + 1 - i = n + 1
      BY <1>1, <2>1
    <3>. QED
      BY <1>2, <1>3, <2>1, <3>1
  <2>2. CASE i # 1
    <3> DEFINE j == i - 1
    <3>1. j \in 1..n /\ (n + 1) + 1 - i = n + 1 - j /\ n + 1 - j \in 1..n /\ j + 1 = i
      BY <1>1, <2>2
    <3>2. q[i] = f[j]
      BY <1>2, <3>1
    <3>3. q[j] = IF j = 1 THEN v ELSE f[j - 1]
      <4>1. CASE j = 1
        BY <1>2, <4>1
      <4>2. CASE j # 1
        <5>1. j - 1 \in 1..n /\ (j - 1) + 1 = j
          <6> HIDE DEF j
          <6>. QED
            BY <1>1, <3>1, <4>2
        <5> HIDE DEF j
        <5>2. q[(j - 1) + 1] = f[j - 1]
          BY <1>2, <5>1
        <5>. QED
          BY <4>2, <5>1, <5>2
      <4>. QED
        BY <4>1, <4>2
    <3>4. new[n + 1 - j] = stack[n + 1 - j]
      BY <1>3, <3>1
    <3>5. Sound(stack[n + 1 - j], IF j = 1 THEN v ELSE f[j - 1], f[j], nm, nx)
      BY <1>1, <3>1
    <3>. QED
      BY <2>2, <3>1, <3>2, <3>3, <3>4, <3>5
  <2>. QED
    BY <2>1, <2>2
<1>. QED
  BY <1>2, <1>3, <1>4 DEF Ahead, q, new

LEMMA AheadPop ==
    ASSUME NEW stack \in Seq(Entries), NEW v, NEW f, NEW nm, NEW nx, Ahead(stack, v, f, nm, nx), stack # <<>>
    PROVE  /\ f # <<>> /\ Last(stack) \in Entries /\ Front(stack) \in Seq(Entries) /\ Head(f) \in Contents
           /\ Sound(Last(stack), v, Head(f), nm, nx)
           /\ Ahead(Front(stack), Head(f), Tail(f), nm, nx)
<1> DEFINE n == Len(stack)
<1>1. /\ n \in Nat /\ f \in Seq(Contents) /\ Len(f) = n /\ v \in Contents /\ n # 0
      /\ \A i \in 1..n : Sound(stack[n + 1 - i], IF i = 1 THEN v ELSE f[i - 1], f[i], nm, nx)
  BY DEF Ahead
<1>2. /\ Last(stack) = stack[n] /\ Last(stack) \in Entries /\ Front(stack) \in Seq(Entries)
      /\ Len(Front(stack)) = n - 1 /\ \A i \in 1..(n - 1) : Front(stack)[i] = stack[i]
  BY <1>1 DEF Last, Front
<1>3. /\ f # <<>> /\ Head(f) = f[1] /\ Head(f) \in Contents /\ Tail(f) \in Seq(Contents)
      /\ Len(Tail(f)) = n - 1 /\ \A i \in 1..(n - 1) : Tail(f)[i] = f[i + 1]
  BY <1>1
<1> HIDE DEF n
<1>4. Sound(Last(stack), v, Head(f), nm, nx)
  <2>1. 1 \in 1..n /\ n + 1 - 1 = n
    BY <1>1
  <2>. QED
    BY <1>1, <1>2, <1>3, <2>1
<1>5. ASSUME NEW i \in 1..(n - 1)
      PROVE  Sound(Front(stack)[(n - 1) + 1 - i], IF i = 1 THEN Head(f) ELSE Tail(f)[i - 1], Tail(f)[i], nm, nx)
  <2>1. i + 1 \in 1..n /\ (n - 1) + 1 - i = n + 1 - (i + 1) /\ n + 1 - (i + 1) \in 1..(n - 1) /\ i + 1 # 1
        /\ (i + 1) - 1 = i
    BY <1>1
  <2>2. Sound(stack[n + 1 - (i + 1)], f[i], f[i + 1], nm, nx)
    BY <1>1, <2>1
  <2>3. (IF i = 1 THEN Head(f) ELSE Tail(f)[i - 1]) = f[i]
    <3>1. CASE i = 1
      BY <1>3, <3>1
    <3>2. CASE i # 1
      <4>1. i - 1 \in 1..(n - 1) /\ (i - 1) + 1 = i
        BY <1>1, <3>2
      <4>. QED
        BY <1>3, <3>2, <4>1
    <3>. QED
      BY <3>1, <3>2
  <2>. QED
    BY <1>2, <1>3, <2>1, <2>2, <2>3
<1>. QED
  BY <1>2, <1>3, <1>4, <1>5 DEF Ahead


\* A sequence is its front and its last element.
LEMMA LastAndMore ==
    ASSUME NEW S, NEW s \in Seq(S), s # <<>>, NEW t \in S
    PROVE  Front(s) \o <<Last(s), t>> = Append(s, t)
<1> DEFINE f == Front(s)
           l == Last(s)
<1>1. f \in Seq(S) /\ l \in S /\ Append(f, l) = s
  <2>1. Len(s) \in Nat /\ Len(s) # 0
    OBVIOUS
  <2>2. f \in Seq(S) /\ l \in S
    BY <2>1 DEF Front, Last
  <2>3. Append(f, l) = s
    BY <2>1 DEF Front, Last
  <2>. QED
    BY <2>2, <2>3
<1> HIDE DEF f, l
<1>2. <<l, t>> = <<l>> \o <<t>> /\ <<l>> \in Seq(S) /\ <<t>> \in Seq(S)
  BY <1>1
<1>3. (f \o <<l>>) \o <<t>> = f \o (<<l>> \o <<t>>)
  BY <1>1, <1>2, ConcatAssociative
<1>4. f \o <<l>> = s
  BY <1>1, AppendIsConcat
<1>5. s \o <<t>> = Append(s, t)
  BY AppendIsConcat
<1>. QED
  BY <1>2, <1>3, <1>4, <1>5 DEF f, l

\* A pushed transaction becomes an entry, or extends the entry before it, in whole.
LEMMA PushedTyped ==
    ASSUME NEW stack \in Seq(Entries), NEW tx \in Entries
    PROVE  Pushed(stack, tx) \in Seq(Entries)
<1>1. CASE stack = <<>>
  BY <1>1 DEF Pushed
<1>2. CASE stack # <<>>
  <2> DEFINE a == Absorb(Last(stack).steps, tx.steps)
             merged == [Last(stack) EXCEPT !.steps = a.into]
  <2>1. Last(stack) \in Entries /\ Front(stack) \in Seq(Entries)
    BY <1>2 DEF Last, Front
  <2>2. a \in Absorbing
    BY <2>1, AbsorbTyped DEF Entries
  <2> HIDE DEF a
  <2>3. merged \in Entries /\ [merged EXCEPT !.after = tx.after] \in Entries /\ [tx EXCEPT !.steps = a.rest] \in Entries
    BY <2>1, <2>2 DEF Entries, Absorbing
  <2>4. Pushed(stack, tx) = IF a.rest = <<>> THEN Append(Front(stack), [merged EXCEPT !.after = tx.after])
                            ELSE Front(stack) \o <<merged, [tx EXCEPT !.steps = a.rest]>>
    BY <1>2 DEF Pushed, a
  <2> HIDE DEF merged
  <2>. QED
    BY <2>1, <2>3, <2>4
<1>. QED
  BY <1>1, <1>2

LEMMA PushedRight ==
    ASSUME NEW stack \in Seq(Entries), NEW p, NEW b, NEW nm, NEW nx, Behind(stack, p, b, nm, nx),
           NEW tx \in Entries, tx.steps # <<>>, NEW z \in Contents, Sound(tx, b, z, nm, nx),
           ~Misplaced(stack, tx.steps)
    PROVE  \/ Behind(Pushed(stack, tx), Append(p, b), z, nm, nx)
           \/ p # <<>> /\ Behind(Pushed(stack, tx), p, z, nm, nx)
<1>1. CASE stack = <<>>
  <2>1. Pushed(stack, tx) = Append(stack, tx)
    BY <1>1 DEF Pushed
  <2>. QED
    BY <2>1, BehindPush
<1>2. CASE stack # <<>>
  <2> DEFINE last == Last(stack)
             a == Absorb(last.steps, tx.steps)
             merged == [last EXCEPT !.steps = a.into]
  <2>1. /\ p # <<>> /\ last \in Entries /\ Front(stack) \in Seq(Entries) /\ Last(p) \in Contents
        /\ Sound(last, Last(p), b, nm, nx)
        /\ Behind(Front(stack), Front(p), Last(p), nm, nx)
    BY <1>2, BehindPop
  <2>2. last.steps \in Seq(Steps) /\ tx.steps \in Seq(Steps)
    BY <2>1 DEF Entries
  <2>3. a \in Absorbing /\ (a.rest = tx.steps => a.into = last.steps)
    BY <2>2, AbsorbTyped
  <2>4. a.rest \in {<<>>, tx.steps}
    BY <1>2 DEF Misplaced
  <2>5. Pushed(stack, tx) = IF a.rest = <<>> THEN Append(Front(stack), [merged EXCEPT !.after = tx.after])
                            ELSE Front(stack) \o <<merged, [tx EXCEPT !.steps = a.rest]>>
    BY <1>2 DEF Pushed
  <2>6. CASE a.rest = <<>>
    <3> DEFINE e == [merged EXCEPT !.after = tx.after]
    <3>1. Leads(Last(p), last.steps, b) /\ Leads(b, tx.steps, z)
      BY <2>1 DEF Sound
    <3>2. ASSUME NEW i \in 1..Len(tx.steps), NEW j \in 1..Len(last.steps),
                 j > MergeTarget(last.steps, tx.steps[i])
          PROVE  last.steps[j].key # tx.steps[i].key
      <4> DEFINE at == MergeTarget(last.steps, tx.steps[i])
      <4>3. ~(at # 0 /\ \E jj \in (at + 1)..Len(last.steps) : last.steps[jj].key = tx.steps[i].key)
        BY <1>2 DEF Misplaced
      <4> HIDE DEF last, a
      <4>1. at # 0
        BY <2>2, <2>6, AbsorbedWhole DEF a
      <4>2. at \in 0..Len(last.steps) /\ Len(last.steps) \in Nat
        <5>1. tx.steps[i] \in Steps
          BY <2>2
        <5> DEFINE ls == last.steps
                   new == tx.steps[i]
        <5>2. ls \in Seq(Steps) /\ new \in Steps
          BY <2>2, <5>1
        <5> HIDE DEF ls, new
        <5>3. MergeTarget(ls, new) \in 0..Len(ls)
          BY <5>2, TargetIs
        <5>. QED
          BY <5>2, <5>3 DEF ls, new
      <4> HIDE DEF at
      <4>4. j \in (at + 1)..Len(last.steps)
        BY <3>2, <4>2 DEF at
      <4>. QED
        BY <4>1, <4>3, <4>4
    <3> HIDE DEF last, a
    <3>3. Leads(Last(p), a.into, z)
      BY <2>2, <2>6, <3>1, <3>2, AbsorbAll DEF a
    <3>4. /\ merged \in Entries /\ e \in Entries
          /\ e.steps = a.into /\ e.before = last.before /\ e.after = tx.after
      BY <2>1, <2>3 DEF Entries, Absorbing
    <3> HIDE DEF e, merged
    <3>5. Sound(e, Last(p), z, nm, nx)
      BY <2>1, <3>3, <3>4 DEF Sound
    <3>6. Behind(Append(Front(stack), e), Append(Front(p), Last(p)), z, nm, nx)
      BY <2>1, <3>4, <3>5, BehindPush
    <3>7. Append(Front(p), Last(p)) = p
      <4>1. p \in Seq(Contents)
        BY DEF Behind
      <4>. QED
        BY <2>1, <4>1 DEF Front, Last
    <3>. QED
      BY <2>1, <2>5, <2>6, <3>6, <3>7 DEF e
  <2>7. CASE a.rest = tx.steps
    <3> HIDE DEF a
    <3>1. merged = last /\ [tx EXCEPT !.steps = a.rest] = tx
      BY <2>1, <2>3, <2>7 DEF Entries
    <3> HIDE DEF merged
    <3>2. Pushed(stack, tx) = Front(stack) \o <<last, tx>>
      BY <2>5, <2>7, <3>1
    <3>3. Front(stack) \o <<last, tx>> = Append(stack, tx)
      BY <1>2, <2>1, LastAndMore
    <3>. QED
      BY <3>2, <3>3, BehindPush
  <2>. QED
    BY <2>4, <2>6, <2>7
<1>. QED
  BY <1>1, <1>2

\* A step recorded to be appended is never merged.
LEMMA PushedApart ==
    ASSUME NEW stack \in Seq(Entries), NEW tx \in Entries,
           NEW s \in Steps, Len(tx.steps) = 1, tx.steps[1] = s, s.behaviour = "Append"
    PROVE  Pushed(stack, tx) = Append(stack, tx)
<1>1. CASE stack = <<>>
  BY <1>1 DEF Pushed
<1>2. CASE stack # <<>>
  <2> DEFINE last == Last(stack)
             a == Absorb(last.steps, tx.steps)
             merged == [last EXCEPT !.steps = a.into]
  <2>1. last \in Entries
    BY <1>2 DEF Last
  <2>2. last.steps \in Seq(Steps) /\ tx.steps \in Seq(Steps) /\ 1 \in 1..1 /\ 1 - 1 = 0
    BY <2>1 DEF Entries
  <2>3. Pushed(stack, tx) = IF a.rest = <<>> THEN Append(Front(stack), [merged EXCEPT !.after = tx.after])
                            ELSE Front(stack) \o <<merged, [tx EXCEPT !.steps = a.rest]>>
    BY <1>2 DEF Pushed
  <2> HIDE DEF last
  <2>4. PICK g \in [0..Len(tx.steps) -> Absorbing] :
           /\ g[0] = [into |-> last.steps, rest |-> <<>>]
           /\ a = g[Len(tx.steps)]
           /\ \A i \in 1..Len(tx.steps) : g[i] = AbsorbOne(g[i - 1], tx.steps[i])
    BY <2>2, AbsorbIs
  <2>5. a = AbsorbOne(g[0], s)
    BY <2>2, <2>4
  <2>6. MergeTarget(last.steps, s) = 0
    BY DEF MergeTarget
  <2>7. a.into = last.steps /\ a.rest = <<s>>
    BY <2>4, <2>5, <2>6 DEF AbsorbOne
  <2>8. tx.steps = <<s>>
    BY <2>2
  <2> HIDE DEF a
  <2>9. merged = last /\ [tx EXCEPT !.steps = a.rest] = tx
    BY <2>1, <2>7, <2>8 DEF Entries
  <2> HIDE DEF merged
  <2>10. Pushed(stack, tx) = Front(stack) \o <<last, tx>>
    BY <2>3, <2>7, <2>9
  <2>. QED
    BY <1>2, <2>10, LastAndMore DEF last
<1>. QED
  BY <1>1, <1>2

---------------------------------------------------------------------------
(* The inductive invariant.                                                *)

HistoryTypeOK ==
    /\ value \in Contents
    /\ undoStack \in Seq(Entries) /\ redoStack \in Seq(Entries)
    /\ editSession \in EditSessions
    /\ batch \in Seq(Steps)
    /\ applying \in BOOLEAN /\ redoCleared \in BOOLEAN /\ slipped \in BOOLEAN
    /\ tick \in Nat /\ current \in Nat /\ next \in Nat \ {0}
    /\ edits \in Nat /\ edits <= MaxEdits
    /\ named \in [Ids -> Contents]

\* A queue that recorded steps cleared the redo stack; it takes one id when it ends.
Phases ==
    /\ ~applying => batch = <<>> /\ ~redoCleared
    /\ batch # <<>> => redoCleared /\ next <= edits
    /\ redoCleared => redoStack = <<>>
    /\ next <= edits + 1

\* The history keeps track of the graph: the stacks lead through the contents p, b
\* and f, what is not an entry yet leads from b to the graph, and the ids name
\* what they were given to.
Placed(p, b, f) ==
    /\ Behind(undoStack, p, b, named, next)
    /\ Leads(b, Uncommitted, value)
    /\ Ahead(redoStack, value, f, named, next)
    /\ current < next
    /\ named[current] = IF batch # <<>> THEN b ELSE value
    /\ batch = <<>> \/ editSession.steps = <<>>
    /\ editSession.steps # <<>> => /\ redoStack = <<>>
                                   /\ editSession.after = current
                                   /\ editSession.before < next
                                   /\ named[editSession.before] = b

HistoryInv ==
    /\ HistoryTypeOK
    /\ Phases
    /\ slipped \/ \E p, b, f : Placed(p, b, f)

---------------------------------------------------------------------------
(* Every step keeps the types and the phases.                              *)

LEMMA StepIs ==
    ASSUME HistoryTypeOK, NEW k \in Keys, NEW v \in KeyValues, NEW b \in {"Append", "Coalesce"}
    PROVE  /\ Step(k, v, b) \in Steps
           /\ Step(k, v, b).key = k /\ Step(k, v, b).old = value[k] /\ Step(k, v, b).new = v
           /\ [value EXCEPT ![k] = v] \in Contents
BY DEF Step, Steps, HistoryTypeOK, Contents

LEMMA FreshTyped ==
    ASSUME HistoryTypeOK, NEW steps \in Seq(Steps), NEW c \in Contents, PushFresh(undoStack, steps, c)
    PROVE  /\ undoStack' \in Seq(Entries)
           /\ current' \in Nat /\ next' = next + 1 /\ next' \in Nat \ {0}
           /\ named' \in [Ids -> Contents] /\ slipped' \in BOOLEAN
<1>1. [steps |-> steps, before |-> current, after |-> next] \in Entries
  BY DEF HistoryTypeOK, Entries
<1>2. undoStack' \in Seq(Entries)
  BY <1>1, PushedTyped DEF HistoryTypeOK, PushFresh
<1>3. current' \in Nat /\ next' = next + 1 /\ next' \in Nat \ {0}
  BY DEF HistoryTypeOK, PushFresh
<1>4. named' \in [Ids -> Contents]
  BY DEF HistoryTypeOK, PushFresh
<1>5. slipped' \in BOOLEAN
  BY DEF PushFresh
<1>. QED
  BY <1>2, <1>3, <1>4, <1>5

LEMMA IntoSessionTyped ==
    ASSUME HistoryTypeOK, NEW step \in Steps, value' \in Contents, PushIntoSession(step)
    PROVE  /\ editSession' \in EditSessions
           /\ editSession'.owner = editSession.owner
           /\ editSession'.steps = Append(editSession.steps, step)
           /\ editSession'.after = next
           /\ editSession'.before = IF editSession.steps = <<>> THEN current ELSE editSession.before
           /\ current' \in Nat /\ next' = next + 1 /\ next' \in Nat \ {0}
           /\ named' \in [Ids -> Contents] /\ slipped' \in BOOLEAN
<1>1. editSession \in EditSessions /\ editSession.steps \in Seq(Steps)
  BY DEF HistoryTypeOK, EditSessions
<1>2. Append(editSession.steps, step) \in Seq(Steps) /\ next \in Nat /\ current \in Nat
  BY <1>1 DEF HistoryTypeOK
<1>3. /\ editSession' \in EditSessions
      /\ editSession'.owner = editSession.owner
      /\ editSession'.steps = Append(editSession.steps, step)
      /\ editSession'.after = next
      /\ editSession'.before = IF editSession.steps = <<>> THEN current ELSE editSession.before
  BY <1>1, <1>2 DEF PushIntoSession, EditSessions
<1>4. current' \in Nat /\ next' = next + 1 /\ next' \in Nat \ {0} /\ slipped' \in BOOLEAN
  BY DEF HistoryTypeOK, PushIntoSession
<1>5. named' \in [Ids -> Contents]
  BY DEF HistoryTypeOK, PushIntoSession
<1>. QED
  BY <1>3, <1>4, <1>5

LEMMA FinishTyped ==
    ASSUME HistoryTypeOK, FinishOver(undoStack)
    PROVE  /\ undoStack' \in Seq(Entries)
           /\ ~applying' /\ batch' = <<>> /\ ~redoCleared'
           /\ applying' \in BOOLEAN /\ redoCleared' \in BOOLEAN
           /\ current' \in Nat /\ next' \in Nat \ {0}
           /\ next' = IF batch = <<>> THEN next ELSE next + 1
           /\ named' \in [Ids -> Contents] /\ slipped' \in BOOLEAN
<1>1. CASE batch = <<>>
  BY <1>1 DEF FinishOver, HistoryTypeOK, ids
<1>2. CASE batch # <<>>
  <2>1. PushFresh(undoStack, batch, value) /\ batch \in Seq(Steps) /\ value \in Contents
    BY <1>2 DEF FinishOver, HistoryTypeOK
  <2>2. /\ undoStack' \in Seq(Entries)
        /\ current' \in Nat /\ next' = next + 1 /\ next' \in Nat \ {0}
        /\ named' \in [Ids -> Contents] /\ slipped' \in BOOLEAN
    BY <2>1, FreshTyped
  <2>. QED
    BY <1>2, <2>2 DEF FinishOver
<1>. QED
  BY <1>1, <1>2

LEMMA StepTyped ==
    ASSUME HistoryTypeOK, Phases, HistoryNext
    PROVE  HistoryTypeOK' /\ Phases'
<1>0. MaxEdits \in Nat
  BY EditAssumption
<1>a. ASSUME CountEdit PROVE edits' \in Nat /\ edits' <= MaxEdits /\ edits' = edits + 1
  BY <1>0, <1>a DEF CountEdit, HistoryTypeOK
<1>b. /\ NoEditSession \in EditSessions
      /\ \A c \in Clients : [NoEditSession EXCEPT !.owner = c] \in EditSessions
      /\ NoEditSession.steps = <<>>
  <2>1. <<>> \in Seq(Steps) /\ 0 \in Nat
    OBVIOUS
  <2>2. NoEditSession \in EditSessions /\ NoEditSession.steps = <<>>
    BY <2>1 DEF NoEditSession, EditSessions
  <2>3. ASSUME NEW c \in Clients PROVE [NoEditSession EXCEPT !.owner = c] \in EditSessions
    BY <2>1 DEF NoEditSession, EditSessions
  <2>. QED
    BY <2>2, <2>3
<1>d. Behaviours \subseteq {"Append", "Coalesce"}
  BY EditAssumption
<1>1. CASE StartApply
  BY <1>1 DEF StartApply, HistoryTypeOK, Phases, Active, stacks, ids
<1>2. CASE ApplyUnrecorded
  <2>1. redoStack' = <<>>
    BY <1>2 DEF ApplyUnrecorded, ClearRedo, Phases, HistoryTypeOK
  <2>2. HistoryTypeOK'
    <3>1. edits' \in Nat /\ edits' <= MaxEdits
      BY <1>2, <1>a DEF ApplyUnrecorded
    <3>. QED
      BY <1>2, <2>1, <3>1 DEF ApplyUnrecorded, HistoryTypeOK, ids
  <2>3. Phases'
    BY <1>2, <2>1 DEF ApplyUnrecorded, CountEdit, HistoryTypeOK, Phases, Active, ids
  <2>. QED
    BY <2>2, <2>3
<1>3. CASE EndApply
  <2>1. FinishOver(undoStack) /\ UNCHANGED <<value, redoStack, editSession, tick, edits>>
    BY <1>3 DEF EndApply
  <2>2. /\ undoStack' \in Seq(Entries) /\ batch' = <<>> /\ ~applying' /\ ~redoCleared'
        /\ applying' \in BOOLEAN /\ redoCleared' \in BOOLEAN
        /\ current' \in Nat /\ next' \in Nat \ {0} /\ next' = (IF batch = <<>> THEN next ELSE next + 1)
        /\ named' \in [Ids -> Contents] /\ slipped' \in BOOLEAN
    BY <2>1, FinishTyped
  <2>3. HistoryTypeOK'
    BY <2>1, <2>2 DEF HistoryTypeOK
  <2>4. Phases'
    BY <2>1, <2>2 DEF HistoryTypeOK, Phases
  <2>. QED
    BY <2>3, <2>4
<1>4. CASE ApplyFails
  <2>1. HistoryTypeOK'
    <3>1. edits' \in Nat /\ edits' <= MaxEdits
      BY <1>4, <1>a DEF ApplyFails
    <3>2. slipped' \in BOOLEAN
      BY <1>4 DEF ApplyFails
    <3>3. /\ UNCHANGED <<value, undoStack, redoStack, editSession, tick, current, next, named>>
          /\ applying' = FALSE /\ batch' = <<>> /\ redoCleared' = FALSE
      BY <1>4 DEF ApplyFails, stacks
    <3>4. batch' \in Seq(Steps)
      BY <3>3
    <3>5. applying' \in BOOLEAN /\ redoCleared' \in BOOLEAN
      BY <3>3
    <3>. QED
      BY <3>1, <3>2, <3>3, <3>4, <3>5 DEF HistoryTypeOK
  <2>2. Phases'
    BY <1>4 DEF ApplyFails, CountEdit, HistoryTypeOK, Phases, stacks
  <2>. QED
    BY <2>1, <2>2
<1>5. ASSUME NEW k \in Keys, NEW v \in KeyValues, NEW b \in Behaviours, ApplyStep(k, v, b)
      PROVE  HistoryTypeOK' /\ Phases'
  <2> DEFINE s == Step(k, v, b)
  <2>1. s \in Steps /\ value' \in Contents
    BY <1>5, <1>d, StepIs DEF ApplyStep
  <2>2. redoStack' = <<>> /\ redoCleared' = TRUE
    BY <1>5 DEF ApplyStep, ClearRedo, Phases, HistoryTypeOK
  <2>3. /\ edits' = edits + 1 /\ edits' \in Nat /\ edits' <= MaxEdits
        /\ UNCHANGED <<undoStack, applying, tick>> /\ applying
    BY <1>5, <1>a DEF ApplyStep
  <2>4. CASE Active
    <3>1. PushIntoSession(s) /\ batch' = batch
      BY <1>5, <2>4 DEF ApplyStep
    <3> HIDE DEF s
    <3>3. /\ editSession' \in EditSessions
          /\ current' \in Nat /\ next' = next + 1 /\ next' \in Nat \ {0}
          /\ named' \in [Ids -> Contents] /\ slipped' \in BOOLEAN
      BY <2>1, <3>1, IntoSessionTyped
    <3>4. HistoryTypeOK'
      BY <2>1, <2>2, <2>3, <3>1, <3>3 DEF HistoryTypeOK
    <3>5. Phases'
      BY <2>2, <2>3, <3>1, <3>3 DEF Phases, HistoryTypeOK
    <3>. QED
      BY <3>4, <3>5
  <2>5. CASE ~Active
    <3>1. batch' = Append(batch, s) /\ UNCHANGED <<editSession, current, next, named, slipped>>
      BY <1>5, <2>5 DEF ApplyStep, ids
    <3>2. batch' \in Seq(Steps)
      BY <2>1, <3>1 DEF HistoryTypeOK
    <3> HIDE DEF s
    <3>4. HistoryTypeOK'
      BY <2>1, <2>2, <2>3, <3>1, <3>2 DEF HistoryTypeOK
    <3>5. Phases'
      BY <2>2, <2>3, <2>5, <3>1 DEF Phases, HistoryTypeOK, Active
    <3>. QED
      BY <3>4, <3>5
  <2>. QED
    BY <2>4, <2>5
<1>e. ASSUME BoundaryFails, UNCHANGED <<value, redoStack, tick>>,
             edits' = edits + 1, edits' \in Nat, edits' <= MaxEdits
      PROVE  HistoryTypeOK' /\ Phases'
  <2>1. FinishOver(undoStack) /\ editSession' = editSession
    BY <1>e DEF BoundaryFails
  <2>2. /\ undoStack' \in Seq(Entries) /\ batch' = <<>> /\ ~applying' /\ ~redoCleared'
        /\ applying' \in BOOLEAN /\ redoCleared' \in BOOLEAN
        /\ current' \in Nat /\ next' \in Nat \ {0} /\ next' = (IF batch = <<>> THEN next ELSE next + 1)
        /\ named' \in [Ids -> Contents] /\ slipped' \in BOOLEAN
    BY <2>1, FinishTyped
  <2>3. HistoryTypeOK'
    BY <1>e, <2>1, <2>2 DEF HistoryTypeOK
  <2>4. Phases'
    BY <1>e, <2>1, <2>2 DEF HistoryTypeOK, Phases
  <2>. QED
    BY <2>3, <2>4
<1>6. ASSUME NEW c \in Clients, ApplyBegin(c)
      PROVE  HistoryTypeOK' /\ Phases'
  <2>1. UNCHANGED <<value, redoStack, tick>> /\ applying
        /\ edits' = edits + 1 /\ edits' \in Nat /\ edits' <= MaxEdits
    BY <1>6, <1>a DEF ApplyBegin
  <2>2. CASE BoundaryFails
    BY <1>e, <2>1, <2>2
  <2>3. CASE ~BoundaryFails
    <3>1. /\ editSession' \in EditSessions
          /\ UNCHANGED <<undoStack, batch, applying, redoCleared, current, next, named, slipped>>
      BY <1>6, <1>b, <2>3 DEF ApplyBegin, apply, ids
    <3>2. HistoryTypeOK'
      BY <2>1, <3>1 DEF HistoryTypeOK
    <3>3. Phases'
      BY <2>1, <3>1 DEF HistoryTypeOK, Phases
    <3>. QED
      BY <3>2, <3>3
  <2>. QED
    BY <2>2, <2>3
<1>7. ASSUME NEW c \in Clients, ApplyEnd(c)
      PROVE  HistoryTypeOK' /\ Phases'
  <2> DEFINE tx == [steps |-> editSession.steps, before |-> editSession.before, after |-> editSession.after]
  <2>1. UNCHANGED <<value, redoStack, tick>> /\ applying
        /\ edits' = edits + 1 /\ edits' \in Nat /\ edits' <= MaxEdits
    BY <1>7, <1>a DEF ApplyEnd
  <2>2. CASE BoundaryFails
    BY <1>e, <2>1, <2>2
  <2>3. CASE CloseSession
    <3>1. editSession' \in EditSessions /\ UNCHANGED <<batch, applying, redoCleared>>
      BY <1>b, <2>3 DEF CloseSession, apply
    <3>2. /\ undoStack' \in Seq(Entries) /\ current' \in Nat /\ slipped' \in BOOLEAN
          /\ UNCHANGED <<next, named>>
      <4>1. CASE editSession.steps = <<>>
        BY <2>3, <4>1 DEF CloseSession, ids, HistoryTypeOK
      <4>2. CASE editSession.steps # <<>>
        <5>1. /\ undoStack' = Pushed(undoStack, tx) /\ current' = editSession.after
              /\ slipped' \in BOOLEAN /\ UNCHANGED <<next, named>>
          BY <2>3, <4>2 DEF CloseSession
        <5>2. tx \in Entries /\ editSession.after \in Nat
          BY DEF HistoryTypeOK, EditSessions, Entries
        <5>3. undoStack' \in Seq(Entries)
          BY <5>1, <5>2, PushedTyped DEF HistoryTypeOK
        <5>. QED
          BY <5>1, <5>2, <5>3
      <4>. QED
        BY <4>1, <4>2
    <3>3. HistoryTypeOK'
      BY <2>1, <3>1, <3>2 DEF HistoryTypeOK
    <3>4. Phases'
      BY <2>1, <3>1, <3>2 DEF HistoryTypeOK, Phases
    <3>. QED
      BY <3>3, <3>4
  <2>. QED
    BY <1>7, <2>2, <2>3 DEF ApplyEnd
<1>8. ASSUME NEW k \in Keys, NEW v \in KeyValues, RecordSingle(k, v)
      PROVE  HistoryTypeOK' /\ Phases'
  <2> DEFINE s == Step(k, v, "Append")
  <2>1. s \in Steps /\ value' \in Contents
    BY <1>8, StepIs DEF RecordSingle
  <2>2. redoStack' = <<>> /\ ~applying
        /\ edits' = edits + 1 /\ edits' \in Nat /\ edits' <= MaxEdits
        /\ UNCHANGED <<batch, applying, redoCleared, tick>>
    BY <1>8, <1>a DEF RecordSingle, apply
  <2>3. CASE Active
    <3>1. PushIntoSession(s) /\ undoStack' = undoStack
      BY <1>8, <2>3 DEF RecordSingle
    <3> HIDE DEF s
    <3>2. /\ editSession' \in EditSessions
          /\ current' \in Nat /\ next' = next + 1 /\ next' \in Nat \ {0}
          /\ named' \in [Ids -> Contents] /\ slipped' \in BOOLEAN
      BY <2>1, <3>1, IntoSessionTyped
    <3>3. HistoryTypeOK'
      BY <2>1, <2>2, <3>1, <3>2 DEF HistoryTypeOK
    <3>4. Phases'
      BY <2>2, <3>2 DEF Phases, HistoryTypeOK
    <3>. QED
      BY <3>3, <3>4
  <2>4. CASE ~Active
    <3>1. PushFresh(undoStack, <<s>>, value') /\ editSession' = editSession
      BY <1>8, <2>4 DEF RecordSingle
    <3>2. <<s>> \in Seq(Steps)
      BY <2>1
    <3> HIDE DEF s
    <3>3. /\ undoStack' \in Seq(Entries)
          /\ current' \in Nat /\ next' = next + 1 /\ next' \in Nat \ {0}
          /\ named' \in [Ids -> Contents] /\ slipped' \in BOOLEAN
      BY <2>1, <3>1, <3>2, FreshTyped
    <3>4. HistoryTypeOK'
      BY <2>1, <2>2, <3>1, <3>3 DEF HistoryTypeOK
    <3>5. Phases'
      BY <2>2, <3>3 DEF Phases, HistoryTypeOK
    <3>. QED
      BY <3>4, <3>5
  <2>. QED
    BY <2>3, <2>4
<1>9. CASE Undo
  <2>1. Last(undoStack) \in Entries /\ Front(undoStack) \in Seq(Entries)
    <3>1. undoStack \in Seq(Entries) /\ Len(undoStack) # 0 /\ Len(undoStack) \in Nat
      BY <1>9 DEF Undo, HistoryTypeOK
    <3>. QED
      BY <3>1 DEF Last, Front
  <2>2. value' \in Contents /\ redoStack' \in Seq(Entries) /\ current' \in Nat
    BY <1>9, <2>1, ReplayTyped DEF Undo, Entries, HistoryTypeOK
  <2>3. HistoryTypeOK'
    BY <1>9, <2>1, <2>2 DEF Undo, ReplayUnderSession, HistoryTypeOK, apply
  <2>4. Phases'
    BY <1>9 DEF Undo, HistoryTypeOK, Phases, apply
  <2>. QED
    BY <2>3, <2>4
<1>10. CASE Redo
  <2>1. Last(redoStack) \in Entries /\ Front(redoStack) \in Seq(Entries)
    <3>1. redoStack \in Seq(Entries) /\ Len(redoStack) # 0 /\ Len(redoStack) \in Nat
      BY <1>10 DEF Redo, HistoryTypeOK
    <3>. QED
      BY <3>1 DEF Last, Front
  <2>2. value' \in Contents /\ undoStack' \in Seq(Entries) /\ current' \in Nat
    BY <1>10, <2>1, ReplayTyped DEF Redo, Entries, HistoryTypeOK
  <2>3. HistoryTypeOK'
    BY <1>10, <2>1, <2>2 DEF Redo, ReplayUnderSession, HistoryTypeOK, apply
  <2>4. Phases'
    BY <1>10 DEF Redo, HistoryTypeOK, Phases, apply
  <2>. QED
    BY <2>3, <2>4
<1>11. CASE Cancel
  <2>1. NoEditSession \in EditSessions
    BY DEF NoEditSession, EditSessions
  <2>2. HistoryTypeOK'
    BY <1>11, <2>1 DEF Cancel, HistoryTypeOK, apply, stacks
  <2>3. Phases'
    BY <1>11 DEF Cancel, HistoryTypeOK, Phases, apply, stacks
  <2>. QED
    BY <2>2, <2>3
<1>12. CASE ClearHistory
  <2>1. NoEditSession \in EditSessions /\ <<>> \in Seq(Entries) /\ 0 \in Nat /\ 1 \in Nat \ {0}
    BY <1>b
  <2>t. named' \in [Ids -> Contents]
    BY <1>12 DEF ClearHistory, HistoryTypeOK
  <2>2. HistoryTypeOK'
    BY <1>12, <2>1, <2>t DEF ClearHistory, HistoryTypeOK, apply
  <2>3. Phases'
    BY <1>12 DEF ClearHistory, HistoryTypeOK, Phases, apply
  <2>. QED
    BY <2>2, <2>3
<1>13. CASE Tick
  <2>1. HistoryTypeOK'
    BY <1>13 DEF Tick, HistoryTypeOK, apply, stacks, ids
  <2>2. Phases'
    BY <1>13 DEF Tick, HistoryTypeOK, Phases, apply, stacks, ids, Active
  <2>. QED
    BY <2>1, <2>2
<1>. QED
  BY <1>1, <1>2, <1>3, <1>4, <1>5, <1>6, <1>7, <1>8, <1>9, <1>10, <1>11, <1>12, <1>13 DEF HistoryNext

---------------------------------------------------------------------------
(* Every step keeps track of the graph and moves along the line.           *)

\* What a step does to the line: it was p, b, v, f and becomes q, d, w, g.
Moves(p, b, v, f, q, d, w, g) ==
    \/ q = p /\ d = b /\ w = v /\ g = f
    \/ w \in Contents /\ g = <<>> /\ q = p /\ d = b                     \* Change
    \/ f = <<>> /\ q = Append(p, b) /\ d = v /\ w = v /\ g = f          \* Commit
    \/ p # <<>> /\ f = <<>> /\ q = p /\ d = v /\ w = v /\ g = f         \* Amend
    \/ w \in Contents /\ d = w /\ q = Append(p, b) /\ g = <<>>          \* Record
    \/ b = v /\ p # <<>> /\ w = Last(p) /\ d = w /\ q = Front(p) /\ g = <<v>> \o f
    \/ b = v /\ f # <<>> /\ w = Head(f) /\ d = w /\ q = Append(p, v) /\ g = Tail(f)
    \/ q = <<>> /\ g = <<>> /\ d = v /\ w = v                           \* Forget

\* The invariant but for the existence of a line.
Ready == HistoryTypeOK /\ Phases

\* The history moves from one line to another.
Follows(p, b, f) == \E q, d, g : Placed(q, d, g)' /\ Moves(p, b, value, f, q, d, value', g)

LEMMA PlacedNow ==
    ASSUME HistoryTypeOK, NEW p, NEW b, NEW f, Placed(p, b, f)
    PROVE  /\ PastContents = p /\ BaseContent = b /\ FutureContents = f
           /\ p \in Seq(Contents) /\ b \in Contents /\ f \in Seq(Contents) /\ value \in Contents
<1>1. Uncommitted \in Seq(Steps)
  BY DEF HistoryTypeOK, EditSessions, Uncommitted
<1>2. Leads(b, Uncommitted, value) /\ Behind(undoStack, p, b, named, next) /\ Ahead(redoStack, value, f, named, next)
  BY DEF Placed
<1>3. BaseContent = b
  BY <1>1, <1>2, LeadsBack DEF BaseContent
<1>4. PastContents = p
  BY <1>2, <1>3, BehindIs DEF HistoryTypeOK, PastContents
<1>5. FutureContents = f
  BY <1>2, AheadIs DEF HistoryTypeOK, FutureContents
<1>. QED
  BY <1>2, <1>3, <1>4, <1>5 DEF Behind, Ahead

LEMMA PlacedNext ==
    ASSUME HistoryTypeOK', NEW p, NEW b, NEW f, Placed(p, b, f)'
    PROVE  PastContents' = p /\ BaseContent' = b /\ FutureContents' = f
<1>1. Uncommitted' \in Seq(Steps)
  BY DEF HistoryTypeOK, EditSessions, Uncommitted
<1>2. /\ Leads(b, Uncommitted', value') /\ Behind(undoStack', p, b, named', next')
      /\ Ahead(redoStack', value', f, named', next')
  BY DEF Placed
<1>3. BaseContent' = b
  BY <1>1, <1>2, LeadsBack DEF BaseContent
<1>4. PastContents' = p
  BY <1>2, <1>3, BehindIs DEF HistoryTypeOK, PastContents
<1>5. FutureContents' = f
  BY <1>2, AheadIs DEF HistoryTypeOK, FutureContents
<1>. QED
  BY <1>3, <1>4, <1>5

\* Once a queue or a session recorded a step, nothing can be redone.
LEMMA Recording ==
    ASSUME HistoryTypeOK, Phases, NEW p, NEW b, NEW f, Placed(p, b, f), Uncommitted # <<>>
    PROVE  redoStack = <<>> /\ f = <<>>
<1>1. batch # <<>> \/ editSession.steps # <<>>
  BY DEF Uncommitted, HistoryTypeOK, EditSessions
<1>2. redoStack = <<>>
  BY <1>1 DEF Phases, Placed
<1>3. f = <<>>
  BY <1>2 DEF Placed, Ahead
<1>. QED
  BY <1>2, <1>3

\* Giving out the next id leaves the meaning of the others.
LEMMA NextNamed ==
    ASSUME HistoryTypeOK, NEW c, named' = [named EXCEPT ![next] = c], next <= MaxEdits
    PROVE  /\ named'[next] = c
           /\ \A i \in Nat : i < next => named'[i] = named[i]
           /\ next \in Nat /\ next + 1 \in Nat /\ next < next + 1 /\ next <= next + 1
<1>1. MaxEdits \in Nat
  BY EditAssumption
<1>2. next \in Nat /\ next \in Ids /\ \A i \in Nat : i < next => i \in Ids /\ i # next
  BY <1>1 DEF HistoryTypeOK, Ids
<1>. QED
  BY <1>2 DEF HistoryTypeOK

\* What the queue recorded becomes an entry, or is merged into the one before.
LEMMA Finishes ==
    ASSUME HistoryTypeOK, Phases, NEW p, NEW b, NEW f, Placed(p, b, f),
           FinishOver(undoStack), UNCHANGED <<value, redoStack>>, ~slipped',
           editSession'.steps = editSession.steps,
           editSession.steps # <<>> => editSession' = editSession
    PROVE  Follows(p, b, f)
<1>1. CASE batch = <<>>
  <2>1. UNCHANGED <<undoStack, current, next, named, batch>>
    BY <1>1 DEF FinishOver, ids
  <2>2. Placed(p, b, f)'
    BY <1>1, <2>1 DEF Placed, Uncommitted
  <2>. QED
    BY <2>2 DEF Follows, Moves
<1>2. CASE batch # <<>>
  <2> DEFINE tx == [steps |-> batch, before |-> current, after |-> next]
  <2>1. /\ undoStack' = Pushed(undoStack, tx) /\ current' = next /\ next' = next + 1 /\ batch' = <<>>
        /\ named' = [named EXCEPT ![next] = value] /\ ~Misplaced(undoStack, batch)
    BY <1>2 DEF FinishOver, PushFresh
  <2>2. editSession.steps = <<>> /\ next <= edits /\ edits <= MaxEdits /\ edits \in Nat /\ next \in Nat
    BY <1>2 DEF Phases, Placed, HistoryTypeOK
  <2>3. tx \in Entries /\ tx.steps = batch /\ tx.before = current /\ tx.after = next
    BY DEF HistoryTypeOK, Entries
  <2>4. next <= MaxEdits
    <3>1. MaxEdits \in Nat
      BY EditAssumption
    <3>. QED
      BY <2>2, <3>1
  <2>5. /\ named'[next] = value /\ \A i \in Nat : i < next => named'[i] = named[i]
        /\ next + 1 \in Nat /\ next < next + 1 /\ next <= next + 1
    BY <2>1, <2>4, NextNamed
  <2>6. Uncommitted = batch /\ Uncommitted # <<>> /\ Uncommitted' = <<>>
    <3>1. batch \in Seq(Steps)
      BY DEF HistoryTypeOK
    <3>. QED
      BY <1>2, <2>1, <2>2, <3>1 DEF Uncommitted
  <2>7. Leads(b, batch, value) /\ current < next /\ current \in Nat /\ named[current] = b
    BY <1>2, <2>6 DEF Placed, HistoryTypeOK
  <2> HIDE DEF tx
  <2>8. Sound(tx, b, value, named', next + 1)
    BY <2>2, <2>3, <2>5, <2>7 DEF Sound
  <2>9. Behind(undoStack, p, b, named', next + 1)
    <3>1. Behind(undoStack, p, b, named, next) /\ undoStack \in Seq(Entries)
      BY DEF Placed, HistoryTypeOK
    <3>. QED
      BY <2>2, <2>5, <3>1, IdsStay
  <2>10. value \in Contents /\ undoStack \in Seq(Entries)
    BY DEF HistoryTypeOK
  <2>11. PICK q : /\ q = Append(p, b) \/ (p # <<>> /\ q = p)
                  /\ Behind(undoStack', q, value, named', next + 1)
    BY <1>2, <2>1, <2>3, <2>8, <2>9, <2>10, PushedRight
  <2>12. f = <<>> /\ redoStack' = <<>>
    BY <2>6, Recording
  <2>13. Placed(q, value, <<>>)'
    <3>1. Leads(value', Uncommitted', value')
      BY <2>6, <2>10, LeadsNowhere
    <3>2. Ahead(redoStack', value', <<>>, named', next')
      BY <2>10, <2>12, EmptyStacks
    <3>. QED
      BY <2>1, <2>2, <2>5, <2>11, <3>1, <3>2 DEF Placed
  <2>14. Moves(p, b, value, f, q, value, value', <<>>)
    BY <2>11, <2>12 DEF Moves
  <2>. QED
    BY <2>13, <2>14 DEF Follows
<1>. QED
  BY <1>1, <1>2

\* A step of a session extends what leads from the base, and names the new content.
LEMMA SessionGrows ==
    ASSUME HistoryTypeOK, Phases, NEW p, NEW b, NEW f, Placed(p, b, f), ~slipped',
           NEW s \in Steps, value[s.key] = s.old, value' = [value EXCEPT ![s.key] = s.new], value' \in Contents,
           Active, PushIntoSession(s), edits < MaxEdits, redoStack' = <<>>, UNCHANGED <<undoStack, batch>>
    PROVE  Follows(p, b, f)
<1>1. batch = <<>> /\ next <= edits + 1 /\ edits \in Nat /\ next \in Nat /\ current \in Nat
      /\ MaxEdits \in Nat /\ next <= MaxEdits
  BY EditAssumption DEF Phases, HistoryTypeOK, PushIntoSession
<1>2. /\ editSession.steps \in Seq(Steps) /\ editSession.before \in Nat
      /\ Uncommitted = editSession.steps
      /\ Leads(b, Uncommitted, value) /\ current < next /\ named[current] = value
      /\ b \in Contents /\ undoStack \in Seq(Entries)
  <2>1. editSession.steps \in Seq(Steps) /\ editSession.before \in Nat
    BY DEF HistoryTypeOK, EditSessions
  <2>2. Uncommitted = editSession.steps
    BY <1>1, <2>1 DEF Uncommitted
  <2>. QED
    BY <1>1, <2>1, <2>2 DEF Placed, Behind, HistoryTypeOK
<1>3. /\ editSession'.steps = Append(editSession.steps, s)
      /\ editSession'.after = next
      /\ editSession'.before = IF editSession.steps = <<>> THEN current ELSE editSession.before
  BY IntoSessionTyped
<1>4. current' = next /\ next' = next + 1 /\ named' = [named EXCEPT ![next] = value']
  BY DEF PushIntoSession
<1>5. /\ named'[next] = value' /\ \A i \in Nat : i < next => named'[i] = named[i]
      /\ next + 1 \in Nat /\ next < next + 1 /\ next <= next + 1
  BY <1>1, <1>4, NextNamed
<1>6. Uncommitted' = Append(Uncommitted, s)
  <2>1. batch' = <<>> /\ Append(editSession.steps, s) \in Seq(Steps)
    BY <1>1, <1>2
  <2>. QED
    BY <1>2, <1>3, <2>1 DEF Uncommitted
<1>7. Leads(b, Uncommitted', value')
  BY <1>2, <1>6, LeadsFurther
<1>8. Behind(undoStack', p, b, named', next')
  <2>1. Behind(undoStack, p, b, named, next)
    BY DEF Placed
  <2>2. Behind(undoStack, p, b, named', next + 1)
    BY <1>1, <1>2, <1>5, <2>1, IdsStay
  <2>. QED
    BY <1>4, <2>2
<1>9. Ahead(redoStack', value', <<>>, named', next')
  BY EmptyStacks
<1>10. editSession'.before < next' /\ named'[editSession'.before] = b
  <2>1. CASE editSession.steps = <<>>
    <3>1. b = value
      BY <1>2, <2>1, LeadsNowhereOnly
    <3>. QED
      BY <1>1, <1>2, <1>3, <1>4, <1>5, <2>1, <3>1
  <2>2. CASE editSession.steps # <<>>
    <3>1. editSession.before < next /\ named[editSession.before] = b
      BY <2>2 DEF Placed
    <3>. QED
      BY <1>1, <1>2, <1>3, <1>4, <1>5, <2>2, <3>1
  <2>. QED
    BY <2>1, <2>2
<1>11. Placed(p, b, <<>>)'
  BY <1>1, <1>3, <1>4, <1>5, <1>7, <1>8, <1>9, <1>10 DEF Placed
<1>. QED
  BY <1>11 DEF Follows, Moves

LEMMA ApplyStepFollows ==
    ASSUME HistoryTypeOK, Phases, NEW p, NEW b, NEW f, Placed(p, b, f), ~slipped',
           NEW k \in Keys, NEW v \in KeyValues, NEW h \in Behaviours, ApplyStep(k, v, h)
    PROVE  Follows(p, b, f)
<1> DEFINE s == Step(k, v, h)
<1>1. /\ s \in Steps /\ s.key = k /\ s.old = value[k] /\ s.new = v
      /\ value' = [value EXCEPT ![k] = v] /\ value' \in Contents
  <2>1. h \in {"Append", "Coalesce"}
    BY EditAssumption
  <2>2. /\ s \in Steps /\ s.key = k /\ s.old = value[k] /\ s.new = v
        /\ [value EXCEPT ![k] = v] \in Contents
    BY <2>1, StepIs
  <2>3. value' = [value EXCEPT ![k] = v]
    BY DEF ApplyStep
  <2>. QED
    BY <2>2, <2>3
<1>2. redoStack' = <<>> /\ undoStack' = undoStack /\ edits < MaxEdits
  BY DEF ApplyStep, ClearRedo, Phases, HistoryTypeOK, CountEdit
<1>3. CASE Active
  <2>1. PushIntoSession(s) /\ batch' = batch
    BY <1>3 DEF ApplyStep
  <2> HIDE DEF s
  <2>. QED
    BY <1>1, <1>2, <1>3, <2>1, SessionGrows
<1>4. CASE ~Active
  <2>1. batch' = Append(batch, s) /\ UNCHANGED <<editSession, current, next, named, slipped>>
    BY <1>4 DEF ApplyStep, ids
  <2>2. editSession.steps = <<>> /\ batch \in Seq(Steps)
    BY <1>4 DEF Active, NoEditSession, HistoryTypeOK
  <2> HIDE DEF s
  <2>3. Uncommitted = batch /\ Uncommitted' = Append(batch, s) /\ batch' # <<>>
    BY <1>1, <2>1, <2>2 DEF Uncommitted
  <2>4. Leads(b, batch, value) /\ current < next
    BY <2>3 DEF Placed
  <2>5. Leads(b, Uncommitted', value')
    BY <1>1, <2>2, <2>3, <2>4, LeadsFurther
  <2>6. named[current] = b
    <3>1. batch = <<>> => b = value
      BY <2>4, LeadsNowhereOnly
    <3>. QED
      BY <3>1 DEF Placed
  <2>7. Behind(undoStack, p, b, named, next)
    BY DEF Placed
  <2>8. Ahead(redoStack', value', <<>>, named', next')
    BY <1>1, <1>2, EmptyStacks
  <2>9. Placed(p, b, <<>>)'
    BY <1>2, <2>1, <2>2, <2>3, <2>4, <2>5, <2>6, <2>7, <2>8 DEF Placed
  <2>. QED
    BY <1>1, <2>9 DEF Follows, Moves
<1>. QED
  BY <1>3, <1>4

LEMMA RecordFollows ==
    ASSUME HistoryTypeOK, Phases, NEW p, NEW b, NEW f, Placed(p, b, f), ~slipped',
           NEW k \in Keys, NEW v \in KeyValues, RecordSingle(k, v)
    PROVE  Follows(p, b, f)
<1> DEFINE s == Step(k, v, "Append")
<1>1. /\ s \in Steps /\ s.key = k /\ s.old = value[k] /\ s.new = v /\ s.behaviour = "Append"
      /\ value' = [value EXCEPT ![k] = v] /\ value' \in Contents
  <2>1. s.behaviour = "Append"
    BY DEF Step
  <2>. QED
    BY <2>1, StepIs DEF RecordSingle
<1>2. redoStack' = <<>> /\ edits < MaxEdits /\ batch = <<>> /\ batch' = <<>>
  BY DEF RecordSingle, CountEdit, Phases, apply
<1>3. CASE Active
  <2>1. PushIntoSession(s) /\ undoStack' = undoStack
    BY <1>3 DEF RecordSingle
  <2> HIDE DEF s
  <2>. QED
    BY <1>1, <1>2, <1>3, <2>1, SessionGrows
<1>4. CASE ~Active
  <2> DEFINE one == <<s>>
             tx == [steps |-> one, before |-> current, after |-> next]
  <2>1. /\ undoStack' = Pushed(undoStack, tx) /\ current' = next /\ next' = next + 1
        /\ named' = [named EXCEPT ![next] = value'] /\ editSession' = editSession
    BY <1>4 DEF RecordSingle, PushFresh
  <2>2. ~Misplaced(undoStack, one)
    BY <1>4 DEF RecordSingle, PushFresh
  <2> HIDE DEF s
  <2>3. one \in Seq(Steps) /\ one # <<>> /\ Len(one) = 1 /\ one[1] = s
    BY <1>1
  <2> HIDE DEF one
  <2>4. /\ tx \in Entries /\ tx.steps = one /\ tx.before = current /\ tx.after = next
        /\ editSession.steps = <<>> /\ undoStack \in Seq(Entries) /\ next \in Nat /\ current \in Nat
    BY <1>4, <2>3 DEF HistoryTypeOK, Entries, Active, NoEditSession
  <2> HIDE DEF tx
  <2>5. next <= MaxEdits
    <3>1. MaxEdits \in Nat /\ next <= edits + 1 /\ edits \in Nat
      BY EditAssumption DEF Phases, HistoryTypeOK
    <3>. QED
      BY <1>2, <2>4, <3>1
  <2>6. /\ named'[next] = value' /\ \A i \in Nat : i < next => named'[i] = named[i]
        /\ next + 1 \in Nat /\ next < next + 1 /\ next <= next + 1
    BY <2>1, <2>5, NextNamed
  <2>7. Uncommitted = <<>> /\ Uncommitted' = <<>>
    BY <1>2, <2>1, <2>4 DEF Uncommitted
  <2>8. b = value /\ current < next /\ named[current] = b /\ b \in Contents
    <3>1. b = value
      BY <2>7, LeadsNowhereOnly DEF Placed
    <3>. QED
      BY <1>2, <3>1 DEF Placed, HistoryTypeOK
  <2>9. Leads(b, one, value')
    <3>1. Leads(b, <<>>, b)
      BY <2>8, LeadsNowhere
    <3>2. <<>> \in Seq(Steps) /\ one = Append(<<>>, s)
      BY DEF one
    <3>. QED
      BY <1>1, <2>8, <3>1, <3>2, LeadsFurther
  <2>10. Sound(tx, b, value', named', next + 1)
    BY <2>4, <2>6, <2>8, <2>9 DEF Sound
  <2>11. Behind(undoStack, p, b, named', next + 1)
    <3>1. Behind(undoStack, p, b, named, next)
      BY DEF Placed
    <3>. QED
      BY <2>4, <2>6, <3>1, IdsStay
  <2>12. Pushed(undoStack, tx) = Append(undoStack, tx)
    BY <1>1, <2>3, <2>4, PushedApart
  <2>13. Behind(undoStack', Append(p, b), value', named', next')
    BY <1>1, <2>1, <2>4, <2>10, <2>11, <2>12, BehindPush
  <2>14. PICK w : w = value'
    OBVIOUS
  <2>15. Placed(Append(p, b), w, <<>>)'
    <3>1. Leads(w, Uncommitted', value')
      BY <1>1, <2>7, <2>14, LeadsNowhere
    <3>2. Ahead(redoStack', value', <<>>, named', next')
      BY <1>1, <1>2, EmptyStacks
    <3>3. current' < next' /\ named'[current'] = value' /\ batch' = <<>> /\ editSession'.steps = <<>>
      BY <1>2, <2>1, <2>4, <2>6
    <3>. QED
      BY <2>13, <2>14, <3>1, <3>2, <3>3 DEF Placed
  <2>16. Moves(p, b, value, f, Append(p, b), w, value', <<>>)
    BY <1>1, <2>14 DEF Moves
  <2>. QED
    BY <2>15, <2>16 DEF Follows
<1>. QED
  BY <1>3, <1>4

LEMMA EndFollows ==
    ASSUME HistoryTypeOK, Phases, NEW p, NEW b, NEW f, Placed(p, b, f), ~slipped',
           NEW c \in Clients, ApplyEnd(c)
    PROVE  Follows(p, b, f)
<1> DEFINE tx == [steps |-> editSession.steps, before |-> editSession.before, after |-> editSession.after]
<1>1. UNCHANGED <<value, redoStack>>
  BY DEF ApplyEnd
<1>2. CASE CloseSession /\ editSession.steps # <<>>
  <2>1. /\ undoStack' = Pushed(undoStack, tx) /\ current' = editSession.after
        /\ UNCHANGED <<next, named, batch>> /\ editSession'.steps = <<>>
    BY <1>2 DEF CloseSession, NoEditSession, apply
  <2>m. ~Misplaced(undoStack, editSession.steps)
    BY <1>2 DEF CloseSession
  <2>2. /\ tx \in Entries /\ tx.steps = editSession.steps
        /\ tx.before = editSession.before /\ tx.after = editSession.after
        /\ undoStack \in Seq(Entries) /\ value \in Contents /\ editSession.steps \in Seq(Steps)
    BY DEF HistoryTypeOK, EditSessions, Entries
  <2>3. batch = <<>>
    BY <1>2 DEF Placed
  <2>4. Uncommitted = editSession.steps /\ Uncommitted' = <<>>
    BY <2>1, <2>2, <2>3 DEF Uncommitted
  <2>5. /\ Leads(b, editSession.steps, value) /\ Behind(undoStack, p, b, named, next)
        /\ current < next /\ named[current] = value /\ redoStack = <<>>
        /\ editSession.after = current /\ editSession.before < next /\ named[editSession.before] = b
    BY <1>2, <2>3, <2>4 DEF Placed
  <2> HIDE DEF tx
  <2>6. Sound(tx, b, value, named, next)
    BY <2>2, <2>5 DEF Sound
  <2>7. PICK q : /\ q = Append(p, b) \/ (p # <<>> /\ q = p)
                 /\ Behind(undoStack', q, value, named, next)
    BY <1>2, <2>1, <2>m, <2>2, <2>5, <2>6, PushedRight
  <2>8. f = <<>>
    BY <1>2, <2>4, Recording
  <2>9. Placed(q, value, <<>>)'
    <3>1. Leads(value', Uncommitted', value')
      BY <1>1, <2>2, <2>4, LeadsNowhere
    <3>2. Ahead(redoStack', value', <<>>, named', next')
      BY <1>1, <2>2, <2>5, EmptyStacks
    <3>3. current' < next' /\ named'[current'] = value' /\ batch' = <<>>
      BY <1>1, <2>1, <2>3, <2>5
    <3>. QED
      BY <1>1, <2>1, <2>7, <3>1, <3>2, <3>3 DEF Placed
  <2>10. Moves(p, b, value, f, q, value, value', <<>>)
    BY <1>1, <2>7, <2>8 DEF Moves
  <2>. QED
    BY <1>1, <2>9, <2>10 DEF Follows
<1>3. CASE CloseSession /\ editSession.steps = <<>>
  <2>1. editSession'.steps = <<>> /\ UNCHANGED <<undoStack, batch, current, next, named>>
    BY <1>3 DEF CloseSession, NoEditSession, ids, apply
  <2>2. Placed(p, b, f)'
    BY <1>1, <1>3, <2>1 DEF Placed, Uncommitted
  <2>. QED
    BY <1>1, <2>2 DEF Follows, Moves
<1>4. CASE BoundaryFails
  BY <1>1, <1>4, Finishes DEF BoundaryFails
<1>. QED
  BY <1>2, <1>3, <1>4 DEF ApplyEnd

LEMMA UndoFollows ==
    ASSUME HistoryTypeOK, Phases, NEW p, NEW b, NEW f, Placed(p, b, f), ~slipped', Undo
    PROVE  Follows(p, b, f)
<1> DEFINE e == Last(undoStack)
<1>1. /\ undoStack # <<>> /\ value' = Reverted(value, e.steps) /\ current' = e.before
      /\ redoStack' = Append(redoStack, e) /\ undoStack' = Front(undoStack)
      /\ UNCHANGED <<editSession, batch, next, named>>
      /\ editSession.steps = <<>> /\ batch = <<>>
  BY DEF Undo, ReplayUnderSession, Phases, apply
<1>2. undoStack \in Seq(Entries) /\ redoStack \in Seq(Entries)
  BY DEF HistoryTypeOK
<1>3. Uncommitted = <<>> /\ Uncommitted' = <<>>
  BY <1>1 DEF Uncommitted
<1>4. b = value /\ Behind(undoStack, p, b, named, next) /\ Ahead(redoStack, value, f, named, next)
  BY <1>3, LeadsNowhereOnly DEF Placed
<1> HIDE DEF e
<1>5. /\ p # <<>> /\ e \in Entries /\ Last(p) \in Contents
      /\ Sound(e, Last(p), value, named, next)
      /\ Behind(Front(undoStack), Front(p), Last(p), named, next)
  BY <1>1, <1>2, <1>4, BehindPop DEF e
<1>6. value' = Last(p)
  <2>1. e.steps \in Seq(Steps) /\ Leads(Last(p), e.steps, value)
    BY <1>5 DEF Entries, Sound
  <2>. QED
    BY <1>1, <2>1, LeadsBack
<1>7. Ahead(redoStack', value', <<value>> \o f, named', next')
  <2>1. Ahead(Append(redoStack, e), Last(p), <<value>> \o f, named, next)
    BY <1>2, <1>4, <1>5, AheadPush
  <2>. QED
    BY <1>1, <1>6, <2>1
<1>8. e.before < next /\ named[e.before] = Last(p)
  BY <1>5 DEF Sound
<1>9. PICK w : w = <<value>> \o f
  OBVIOUS
<1>10. Placed(Front(p), Last(p), w)'
  <2>1. Leads(Last(p), Uncommitted', value')
    BY <1>3, <1>5, <1>6, LeadsNowhere
  <2>2. Behind(undoStack', Front(p), Last(p), named', next')
    BY <1>1, <1>5
  <2>3. current' < next' /\ named'[current'] = value' /\ batch' = <<>> /\ editSession'.steps = <<>>
    BY <1>1, <1>6, <1>8
  <2>. QED
    BY <1>7, <1>9, <2>1, <2>2, <2>3 DEF Placed
<1>11. Moves(p, b, value, f, Front(p), Last(p), value', w)
  BY <1>4, <1>5, <1>6, <1>9 DEF Moves
<1>. QED
  BY <1>10, <1>11 DEF Follows

LEMMA RedoFollows ==
    ASSUME HistoryTypeOK, Phases, NEW p, NEW b, NEW f, Placed(p, b, f), ~slipped', Redo
    PROVE  Follows(p, b, f)
<1> DEFINE e == Last(redoStack)
<1>1. /\ redoStack # <<>> /\ value' = Replayed(value, e.steps) /\ current' = e.after
      /\ undoStack' = Append(undoStack, e) /\ redoStack' = Front(redoStack)
      /\ UNCHANGED <<editSession, batch, next, named>>
      /\ editSession.steps = <<>> /\ batch = <<>>
  BY DEF Redo, ReplayUnderSession, Phases, apply
<1>2. undoStack \in Seq(Entries) /\ redoStack \in Seq(Entries)
  BY DEF HistoryTypeOK
<1>3. Uncommitted = <<>> /\ Uncommitted' = <<>>
  BY <1>1 DEF Uncommitted
<1>4. b = value /\ Behind(undoStack, p, b, named, next) /\ Ahead(redoStack, value, f, named, next)
  BY <1>3, LeadsNowhereOnly DEF Placed
<1> HIDE DEF e
<1>5. /\ f # <<>> /\ e \in Entries /\ Head(f) \in Contents
      /\ Sound(e, value, Head(f), named, next)
      /\ Ahead(Front(redoStack), Head(f), Tail(f), named, next)
  BY <1>1, <1>2, <1>4, AheadPop DEF e
<1>6. value' = Head(f)
  <2>1. e.steps \in Seq(Steps) /\ Leads(value, e.steps, Head(f))
    BY <1>5 DEF Entries, Sound
  <2>. QED
    BY <1>1, <2>1, LeadsOn
<1>7. Behind(undoStack', Append(p, value), value', named', next')
  <2>1. Behind(Append(undoStack, e), Append(p, value), Head(f), named, next)
    BY <1>2, <1>4, <1>5, BehindPush
  <2>. QED
    BY <1>1, <1>6, <2>1
<1>8. e.after < next /\ named[e.after] = Head(f)
  BY <1>5 DEF Sound
<1>9. PICK q : q = Append(p, value)
  OBVIOUS
<1>10. Placed(q, Head(f), Tail(f))'
  <2>1. Leads(Head(f), Uncommitted', value')
    BY <1>3, <1>5, <1>6, LeadsNowhere
  <2>2. Ahead(redoStack', value', Tail(f), named', next')
    BY <1>1, <1>5, <1>6
  <2>3. current' < next' /\ named'[current'] = value' /\ batch' = <<>> /\ editSession'.steps = <<>>
    BY <1>1, <1>6, <1>8
  <2>. QED
    BY <1>6, <1>7, <1>9, <2>1, <2>2, <2>3 DEF Placed
<1>11. Moves(p, b, value, f, q, Head(f), value', Tail(f))
  BY <1>4, <1>5, <1>6, <1>9 DEF Moves
<1>. QED
  BY <1>10, <1>11 DEF Follows

\* Clearing the history finds the graph again, wherever it was.
LEMMA ClearFinds ==
    ASSUME HistoryTypeOK, Phases, ClearHistory
    PROVE  Placed(<<>>, value, <<>>)' /\ value' = value
<1>1. /\ undoStack' = <<>> /\ redoStack' = <<>> /\ editSession'.steps = <<>> /\ current' = 0 /\ next' = 1
      /\ value' = value /\ batch' = <<>>
  BY DEF ClearHistory, NoEditSession, Phases, apply
<1>2. value' \in Contents /\ named'[0] = value'
  <2>1. 0 \in Ids
    BY EditAssumption DEF Ids
  <2>. QED
    BY <2>1 DEF ClearHistory, HistoryTypeOK
<1>3. Uncommitted' = <<>>
  BY <1>1 DEF Uncommitted
<1>4. Leads(value', Uncommitted', value')
  BY <1>2, <1>3, LeadsNowhere
<1>5. Behind(undoStack', <<>>, value', named', next') /\ Ahead(redoStack', value', <<>>, named', next')
  BY <1>1, <1>2, EmptyStacks
<1>. QED
  BY <1>1, <1>2, <1>4, <1>5 DEF Placed

LEMMA StepFollows ==
    ASSUME HistoryTypeOK, Phases, NEW p, NEW b, NEW f, Placed(p, b, f), ~slipped', HistoryNext
    PROVE  Follows(p, b, f)
<1>a. /\ b \in Contents /\ value \in Contents
      /\ Behind(undoStack, p, b, named, next) /\ Leads(b, Uncommitted, value)
  BY DEF Placed, Behind, HistoryTypeOK
<1>b. ASSUME UNCHANGED <<value, undoStack, redoStack, editSession, batch, current, next, named>>
      PROVE  Follows(p, b, f)
  <2>1. Placed(p, b, f)'
    BY <1>b DEF Placed, Uncommitted
  <2>. QED
    BY <1>b, <2>1 DEF Follows, Moves
<1>1. CASE StartApply
  <2>1. batch = <<>>
    BY <1>1 DEF StartApply, Phases
  <2>. QED
    BY <1>1, <1>b, <2>1 DEF StartApply, stacks, ids
<1>2. CASE ApplyUnrecorded
  <2>1. /\ redoStack' = <<>>
        /\ UNCHANGED <<value, undoStack, editSession, batch, current, next, named>>
    BY <1>2 DEF ApplyUnrecorded, ClearRedo, Phases, HistoryTypeOK, ids
  <2>2. Ahead(redoStack', value', <<>>, named', next')
    BY <1>a, <2>1, EmptyStacks
  <2>3. Placed(p, b, <<>>)'
    BY <2>1, <2>2 DEF Placed, Uncommitted
  <2>4. Moves(p, b, value, f, p, b, value', <<>>)
    BY <1>a, <2>1 DEF Moves
  <2>. QED
    BY <2>3, <2>4 DEF Follows
<1>3. CASE EndApply
  BY <1>3, Finishes DEF EndApply
<1>4. CASE ApplyFails
  <2>1. batch = <<>>
    BY <1>4 DEF ApplyFails
  <2>. QED
    BY <1>4, <1>b, <2>1 DEF ApplyFails, stacks
<1>5. ASSUME NEW k \in Keys, NEW v \in KeyValues, NEW h \in Behaviours, ApplyStep(k, v, h)
      PROVE  Follows(p, b, f)
  BY <1>5, ApplyStepFollows
<1>6. ASSUME NEW c \in Clients, ApplyBegin(c)
      PROVE  Follows(p, b, f)
  <2>1. UNCHANGED <<value, redoStack>>
    BY <1>6 DEF ApplyBegin
  <2>2. CASE BoundaryFails
    BY <2>1, <2>2, Finishes DEF BoundaryFails
  <2>3. CASE ~BoundaryFails
    <3>1. /\ editSession.steps = <<>> /\ editSession'.steps = <<>>
          /\ UNCHANGED <<undoStack, batch, current, next, named>>
      BY <1>6, <2>3 DEF ApplyBegin, Active, NoEditSession, ids, apply
    <3>2. Placed(p, b, f)'
      BY <2>1, <3>1 DEF Placed, Uncommitted
    <3>. QED
      BY <2>1, <3>2 DEF Follows, Moves
  <2>. QED
    BY <2>2, <2>3
<1>7. ASSUME NEW c \in Clients, ApplyEnd(c)
      PROVE  Follows(p, b, f)
  BY <1>7, EndFollows
<1>8. ASSUME NEW k \in Keys, NEW v \in KeyValues, RecordSingle(k, v)
      PROVE  Follows(p, b, f)
  BY <1>8, RecordFollows
<1>9. CASE Undo
  BY <1>9, UndoFollows
<1>10. CASE Redo
  BY <1>10, RedoFollows
<1>11. CASE Cancel
  <2>1. editSession.steps = <<>> /\ editSession'.steps = <<>>
        /\ UNCHANGED <<value, undoStack, redoStack, batch, current, next, named>>
    BY <1>11 DEF Cancel, NoEditSession, stacks, apply
  <2>2. Placed(p, b, f)'
    BY <2>1 DEF Placed, Uncommitted
  <2>. QED
    BY <2>1, <2>2 DEF Follows, Moves
<1>12. CASE ClearHistory
  <2>1. Placed(<<>>, value, <<>>)' /\ value' = value
    BY <1>12, ClearFinds
  <2>2. Moves(p, b, value, f, <<>>, value, value', <<>>)
    BY <2>1 DEF Moves
  <2>. QED
    BY <2>1, <2>2 DEF Follows
<1>13. CASE Tick
  BY <1>13, <1>b DEF Tick, stacks, apply, ids
<1>. QED
  BY <1>1, <1>2, <1>3, <1>4, <1>5, <1>6, <1>7, <1>8, <1>9, <1>10, <1>11, <1>12, <1>13 DEF HistoryNext

---------------------------------------------------------------------------
(* The history implements the line, and ids keep their meaning.            *)

LEMMA InitPlaced ==
    ASSUME HistoryInit
    PROVE  HistoryTypeOK /\ Phases /\ Placed(<<>>, value, <<>>)
<1>1. /\ value \in Contents /\ undoStack = <<>> /\ redoStack = <<>> /\ editSession = NoEditSession
      /\ batch = <<>> /\ applying = FALSE /\ redoCleared = FALSE /\ slipped = FALSE /\ tick = 0
      /\ current = 0 /\ next = 1 /\ edits = 0 /\ named = [i \in Ids |-> value]
  BY EditAssumption DEF HistoryInit, Contents
<1>2. MaxEdits \in Nat /\ 0 \in Ids
  BY EditAssumption DEF Ids
<1>3. HistoryTypeOK
  <2>1. editSession \in EditSessions
    BY <1>1 DEF EditSessions, NoEditSession
  <2>2. undoStack \in Seq(Entries) /\ redoStack \in Seq(Entries) /\ batch \in Seq(Steps)
    BY <1>1
  <2>. QED
    BY <1>1, <1>2, <2>1, <2>2 DEF HistoryTypeOK
<1>4. Phases
  BY <1>1 DEF Phases
<1>5. editSession.steps = <<>> /\ Uncommitted = <<>>
  BY <1>1 DEF Uncommitted, NoEditSession
<1>6. Leads(value, Uncommitted, value)
  BY <1>1, <1>5, LeadsNowhere
<1>7. Behind(undoStack, <<>>, value, named, next) /\ Ahead(redoStack, value, <<>>, named, next)
  BY <1>1, EmptyStacks
<1>. QED
  BY <1>1, <1>2, <1>3, <1>4, <1>5, <1>6, <1>7 DEF Placed

\* Only clearing the history ends a slip.
LEMMA SlipLasts ==
    ASSUME HistoryNext, slipped, ~slipped'
    PROVE  ClearHistory
<1>1. \A stack, steps, c : ~PushFresh(stack, steps, c)
  BY DEF PushFresh
<1>2. \A stack : FinishOver(stack) => FALSE
  BY <1>1 DEF FinishOver, ids
<1>3. \A s : ~PushIntoSession(s)
  BY DEF PushIntoSession
<1>4. ~StartApply /\ ~ApplyUnrecorded /\ ~EndApply /\ ~ApplyFails
  BY <1>2 DEF StartApply, ApplyUnrecorded, EndApply, ApplyFails, ids
<1>5. \A k \in Keys, v \in KeyValues, b \in Behaviours : ~ApplyStep(k, v, b)
  BY <1>3 DEF ApplyStep, ids
<1>6. \A c \in Clients : ~ApplyBegin(c) /\ ~ApplyEnd(c)
  BY <1>2 DEF ApplyBegin, ApplyEnd, BoundaryFails, CloseSession, ids
<1>7. \A k \in Keys, v \in KeyValues : ~RecordSingle(k, v)
  BY <1>1, <1>3 DEF RecordSingle
<1>8. ~Undo /\ ~Redo /\ ~Cancel /\ ~Tick
  BY DEF Undo, Redo, Cancel, Tick, ReplayUnderSession, ids
<1>. QED
  BY <1>4, <1>5, <1>6, <1>7, <1>8 DEF HistoryNext

LEMMA InvStep ==
    ASSUME HistoryInv, [HistoryNext]_historyVars
    PROVE  HistoryInv'
<1>1. CASE UNCHANGED historyVars
  BY <1>1 DEF historyVars, stacks, apply, ids, HistoryInv, HistoryTypeOK, Phases, Placed, Uncommitted, Active
<1>2. CASE HistoryNext
  <2>1. HistoryTypeOK' /\ Phases'
    BY <1>2, StepTyped DEF HistoryInv
  <2>2. ASSUME ~slipped' PROVE (\E p, b, f : Placed(p, b, f))'
    <3>1. CASE slipped
      <4>1. Placed(<<>>, value, <<>>)'
        BY <1>2, <2>2, <3>1, SlipLasts, ClearFinds DEF HistoryInv
      <4>. QED
        BY <4>1
    <3>2. CASE ~slipped
      <4>1. PICK p, b, f : Placed(p, b, f)
        BY <3>2 DEF HistoryInv
      <4>2. Follows(p, b, f)
        BY <1>2, <2>2, <4>1, StepFollows DEF HistoryInv
      <4>. QED
        BY <4>2 DEF Follows
    <3>. QED
      BY <3>1, <3>2
  <2>. QED
    BY <2>1, <2>2 DEF HistoryInv
<1>. QED
  BY <1>1, <1>2

\* The types, the phases of apply_edits, and that the history keeps track of the
\* graph unless it slipped: every entry leads from one content to the next and its
\* ids name them (engine/apply.rs, engine/history.rs).
THEOREM HistoryTracks == HistorySpec => []HistoryInv
<1>1. HistoryInit => HistoryInv
  BY InitPlaced DEF HistoryInv
<1>2. HistoryInv /\ [HistoryNext]_historyVars => HistoryInv'
  BY InvStep
<1>. QED
  BY <1>1, <1>2, PTL DEF HistorySpec

LEMMA LineStep ==
    ASSUME HistoryInv, HistoryNext, ~slipped, ~slipped'
    PROVE  Line!LinearNext \/ UNCHANGED <<PastContents, BaseContent, value, FutureContents>>
<1>1. HistoryTypeOK /\ Phases /\ HistoryTypeOK'
  BY StepTyped DEF HistoryInv
<1>2. PICK p, b, f : Placed(p, b, f)
  BY DEF HistoryInv
<1>3. PICK q, d, g : Placed(q, d, g)' /\ Moves(p, b, value, f, q, d, value', g)
  BY <1>1, <1>2, StepFollows DEF Follows
<1>4. PastContents = p /\ BaseContent = b /\ FutureContents = f
  BY <1>1, <1>2, PlacedNow
<1>5. PastContents' = q /\ BaseContent' = d /\ FutureContents' = g
  BY <1>1, <1>3, PlacedNext
<1> DEFINE w == value'
<1> HIDE DEF w
<1>6. CASE q = p /\ d = b /\ w = value /\ g = f
  BY <1>4, <1>5, <1>6 DEF w
<1>7. CASE w \in Contents /\ g = <<>> /\ q = p /\ d = b
  BY <1>4, <1>5, <1>7 DEF w, Line!LinearNext, Line!Change
<1>8. CASE f = <<>> /\ q = Append(p, b) /\ d = value /\ w = value /\ g = f
  BY <1>4, <1>5, <1>8 DEF w, Line!LinearNext, Line!Commit
<1>9. CASE p # <<>> /\ f = <<>> /\ q = p /\ d = value /\ w = value /\ g = f
  BY <1>4, <1>5, <1>9 DEF w, Line!LinearNext, Line!Amend
<1>10. CASE w \in Contents /\ d = w /\ q = Append(p, b) /\ g = <<>>
  BY <1>4, <1>5, <1>10 DEF w, Line!LinearNext, Line!Record
<1>11. CASE b = value /\ p # <<>> /\ w = Last(p) /\ d = w /\ q = Front(p) /\ g = <<value>> \o f
  <2>1. /\ BaseContent = value /\ PastContents # <<>>
        /\ value' = Last(PastContents) /\ BaseContent' = value'
        /\ PastContents' = Front(PastContents)
    BY <1>4, <1>5, <1>11 DEF w
  <2>2. FutureContents' = <<value>> \o FutureContents
    BY <1>4, <1>5, <1>11
  <2>3. Line!Undo
    BY <2>1, <2>2 DEF Line!Undo, Last, Front, Line!Last, Line!Front
  <2>. QED
    BY <2>3 DEF Line!LinearNext
<1>12. CASE b = value /\ f # <<>> /\ w = Head(f) /\ d = w /\ q = Append(p, value) /\ g = Tail(f)
  BY <1>4, <1>5, <1>12 DEF w, Line!LinearNext, Line!Redo
<1>13. CASE q = <<>> /\ g = <<>> /\ d = value /\ w = value
  BY <1>4, <1>5, <1>13 DEF w, Line!LinearNext, Line!Forget
<1>. QED
  BY <1>3, <1>6, <1>7, <1>8, <1>9, <1>10, <1>11, <1>12, <1>13 DEF w, Moves

\* Undo, redo, edits, sessions and coalescing walk a line of contents, whatever
\* the keys, values, clients and behaviours and however many edits there are,
\* until the history loses track of the graph (engine/apply.rs, engine/history.rs).
THEOREM LineOfContentsCorrect == HistorySpec => LineOfContents
<1> DEFINE Still == UNCHANGED <<PastContents, BaseContent, value, FutureContents>>
           Along == slipped \/ slipped' \/ Line!LinearNext \/ Still
<1>1. HistoryInit => Line!LinearInit
  <2> SUFFICES ASSUME HistoryInit PROVE Line!LinearInit
    OBVIOUS
  <2>1. HistoryTypeOK /\ Placed(<<>>, value, <<>>)
    BY InitPlaced
  <2>2. PastContents = <<>> /\ BaseContent = value /\ FutureContents = <<>> /\ value \in Contents
    BY <2>1, PlacedNow
  <2>. QED
    BY <2>2 DEF Line!LinearInit
<1>2. HistoryInv /\ [HistoryNext]_historyVars => [Along]_historyVars
  BY LineStep
<1>. QED
  BY <1>1, <1>2, HistoryTracks, PTL DEF HistorySpec, LineOfContents

\* An id given to a content names it until the history is cleared, and the current
\* id names the content of the graph (Engine::current_history_state_id).
THEOREM IdsNameContentsCorrect == HistorySpec => IdsNameContents
<1>1. HistoryInv => NamesContent
  BY DEF HistoryInv, Phases, Placed, NamesContent
<1>2. HistoryInv /\ [HistoryNext]_historyVars => [KeepMeanings]_historyVars
  <2> SUFFICES ASSUME HistoryInv, HistoryNext, next' >= next, next # 1, NEW i \in 0..(next - 1)
               PROVE  named'[i] = named[i]
    BY DEF KeepMeanings
  <2>1. next \in Nat \ {0} /\ i \in Nat /\ i < next
    BY DEF HistoryInv, HistoryTypeOK
  <2>2. named' = named \/ \E c : named' = [named EXCEPT ![next] = c]
    <3>1. \A stack, steps, c : PushFresh(stack, steps, c) => named' = [named EXCEPT ![next] = c]
      BY DEF PushFresh
    <3>2. \A s : PushIntoSession(s) => named' = [named EXCEPT ![next] = value']
      BY DEF PushIntoSession
    <3>3. \A stack : FinishOver(stack) => named' = named \/ \E c : named' = [named EXCEPT ![next] = c]
      BY <3>1 DEF FinishOver, ids
    <3>4. ~ClearHistory
      BY <2>1 DEF ClearHistory
    <3>5. \A k \in Keys, v \in KeyValues, b \in Behaviours :
             ApplyStep(k, v, b) => named' = named \/ \E c : named' = [named EXCEPT ![next] = c]
      BY <3>2 DEF ApplyStep, ids
    <3>6. \A c \in Clients : ApplyBegin(c) \/ ApplyEnd(c) => named' = named \/ \E d : named' = [named EXCEPT ![next] = d]
      BY <3>3 DEF ApplyBegin, ApplyEnd, BoundaryFails, CloseSession, ids
    <3>7. \A k \in Keys, v \in KeyValues :
             RecordSingle(k, v) => named' = named \/ \E c : named' = [named EXCEPT ![next] = c]
      BY <3>1, <3>2 DEF RecordSingle
    <3>8. EndApply => named' = named \/ \E c : named' = [named EXCEPT ![next] = c]
      BY <3>3 DEF EndApply
    <3>9. StartApply \/ ApplyUnrecorded \/ ApplyFails \/ Undo \/ Redo \/ Cancel \/ Tick => named' = named
      BY DEF StartApply, ApplyUnrecorded, ApplyFails, Undo, Redo, Cancel, Tick, ids
    <3>. QED
      BY <3>4, <3>5, <3>6, <3>7, <3>8, <3>9 DEF HistoryNext
  <2>3. i # next
    BY <2>1
  <2>4. named \in [Ids -> Contents]
    BY DEF HistoryInv, HistoryTypeOK
  <2>5. ASSUME NEW c, named' = [named EXCEPT ![next] = c] PROVE named'[i] = named[i]
    BY <2>3, <2>4, <2>5
  <2>. QED
    BY <2>2, <2>5
<1>. QED
  BY <1>1, <1>2, HistoryTracks, PTL DEF IdsNameContents, HistorySpec
=============================================================================
