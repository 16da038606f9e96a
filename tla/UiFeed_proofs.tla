---------------------------- MODULE UiFeed_proofs ----------------------------
EXTENDS UiFeed, InductionFacts, FiniteSetTheorems, SequenceTheorems

-----------------------------------------------------------------------------
(* Event sequences.                                                        *)

Elems(s) == {s[i] : i \in 1..Len(s)}

\* Stamps that nothing supersedes: those of all events but values.
Lasting(s) == {e.time : e \in {d \in Elems(s) : d.kind # "set"}}

Rising(s) == \A i, j \in 1..Len(s) : i < j => s[i].time < s[j].time

Distinct(s) == \A i, j \in 1..Len(s) : s[i].time = s[j].time => i = j

\* p is s with some of its events left out.
Thins(p, s) ==
    \E f \in [1..Len(p) -> 1..Len(s)] :
        /\ \A i, j \in 1..Len(p) : i < j => f[i] < f[j]
        /\ \A i \in 1..Len(p) : p[i] = s[f[i]]

LEMMA TimesAre == ASSUME NEW s PROVE Times(s) = {e.time : e \in Elems(s)}
  BY DEF Times, Elems

LEMMA EventTyped == \A e \in Event : e.time \in Nat
  BY DEF Event

LEMMA ThinsKeeps ==
    ASSUME NEW s \in Seq(Event), NEW p \in Seq(Event), Thins(p, s)
    PROVE  /\ Elems(p) \subseteq Elems(s)
           /\ Rising(s) => Rising(p)
           /\ Distinct(s) => Distinct(p)
<1>1. PICK f \in [1..Len(p) -> 1..Len(s)] :
        /\ \A i, j \in 1..Len(p) : i < j => f[i] < f[j]
        /\ \A i \in 1..Len(p) : p[i] = s[f[i]]
  BY DEF Thins
<1>2. Elems(p) \subseteq Elems(s)
  BY <1>1 DEF Elems
<1>3. ASSUME Rising(s) PROVE Rising(p)
  BY <1>1, <1>3 DEF Rising
<1>4. ASSUME Distinct(s) PROVE Distinct(p)
  <2> SUFFICES ASSUME NEW i \in 1..Len(p), NEW j \in 1..Len(p), p[i].time = p[j].time PROVE i = j
    BY DEF Distinct
  <2>1. f[i] \in 1..Len(s) /\ f[j] \in 1..Len(s) /\ p[i] = s[f[i]] /\ p[j] = s[f[j]]
    BY <1>1
  <2>3. f[i] = f[j]
    BY <1>4, <2>1 DEF Distinct
  <2>2. i \in Nat /\ j \in Nat
    OBVIOUS
  <2>4. f[i] \in Nat /\ ~(i < j) /\ ~(j < i)
    BY <1>1, <2>1, <2>3
  <2>. QED
    BY <2>2, <2>4
<1>. QED
  BY <1>2, <1>3, <1>4

LEMMA AppendKeeps ==
    ASSUME NEW s \in Seq(Event), NEW e \in Event
    PROVE  /\ Append(s, e) \in Seq(Event) /\ Len(Append(s, e)) = Len(s) + 1
           /\ Elems(Append(s, e)) = Elems(s) \cup {e}
           /\ Rising(s) /\ (\A d \in Elems(s) : d.time < e.time) => Rising(Append(s, e))
           /\ Distinct(s) /\ e.time \notin Times(s) => Distinct(Append(s, e))
<1> DEFINE a == Append(s, e)
<1>1. /\ a \in Seq(Event) /\ Len(a) = Len(s) + 1 /\ Len(s) \in Nat
      /\ \A i \in 1..Len(s) : a[i] = s[i]
      /\ a[Len(s) + 1] = e
  BY AppendProperties, LenProperties
<1> HIDE DEF a
<1>2. Elems(a) = Elems(s) \cup {e}
  BY <1>1 DEF Elems
<1>3. ASSUME Rising(s), \A d \in Elems(s) : d.time < e.time PROVE Rising(a)
  <2>1. \A i \in 1..Len(s) : s[i].time < e.time
    BY <1>3 DEF Elems
  <2>2. \A i \in 1..Len(a) : i \in 1..Len(s) \/ i = Len(s) + 1
    BY <1>1
  <2>. QED
    BY <1>1, <1>3, <2>1, <2>2 DEF Rising
<1>4. ASSUME Distinct(s), e.time \notin Times(s) PROVE Distinct(a)
  <2>1. \A i \in 1..Len(s) : s[i].time # e.time
    BY <1>4 DEF Times
  <2>2. \A i \in 1..Len(a) : i \in 1..Len(s) \/ i = Len(s) + 1
    BY <1>1
  <2>. QED
    BY <1>1, <1>4, <2>1, <2>2 DEF Distinct
<1>. QED
  BY <1>1, <1>2, <1>3, <1>4 DEF a

\* Taking one event out.
LEMMA RemoveAtKeeps ==
    ASSUME NEW s \in Seq(Event), NEW k \in 1..Len(s)
    PROVE  /\ RemoveAt(s, k) \in Seq(Event) /\ Len(RemoveAt(s, k)) = Len(s) - 1
           /\ \A i \in 1..(Len(s) - 1) : RemoveAt(s, k)[i] = IF i < k THEN s[i] ELSE s[i + 1]
           /\ Thins(RemoveAt(s, k), s)
           /\ \A i \in 1..Len(s) : i # k => s[i] \in Elems(RemoveAt(s, k))
<1> DEFINE b == SubSeq(s, 1, k - 1)
           a == SubSeq(s, k + 1, Len(s))
           p == b \o a
           n == Len(s)
<1>1. n \in Nat /\ k \in Nat /\ 1 <= k /\ k <= n /\ \A i \in 1..n : s[i] \in Event
  BY LenProperties, ElementOfSeq
<1>2. b \in Seq(Event) /\ Len(b) = k - 1 /\ \A i \in 1..(k - 1) : b[i] = s[i]
  <2>1. \A i \in 1..(k - 1) : s[i] \in Event
    BY <1>1
  <2>2. 1 \in Int /\ k - 1 \in Int
    BY <1>1
  <2>3. /\ b \in Seq(Event) /\ Len(b) = IF 1 <= k - 1 THEN (k - 1) - 1 + 1 ELSE 0
        /\ \A i \in 1..(k - 1) - 1 + 1 : b[i] = s[1 + i - 1]
    BY <2>1, <2>2, SubSeqProperties
  <2>4. \A i \in 1..(k - 1) : i \in 1..(k - 1) - 1 + 1 /\ 1 + i - 1 = i
    BY <1>1
  <2> HIDE DEF b
  <2>. QED
    BY <1>1, <2>3, <2>4
<1>3. a \in Seq(Event) /\ Len(a) = n - k /\ \A i \in 1..(n - k) : a[i] = s[k + i]
  <2>1. \A i \in (k + 1)..n : s[i] \in Event
    BY <1>1
  <2>2. k + 1 \in Int /\ n \in Int
    BY <1>1
  <2>3. /\ a \in Seq(Event) /\ Len(a) = IF k + 1 <= n THEN n - (k + 1) + 1 ELSE 0
        /\ \A i \in 1..n - (k + 1) + 1 : a[i] = s[(k + 1) + i - 1]
    BY <2>1, <2>2, SubSeqProperties
  <2>4. \A i \in 1..(n - k) : i \in 1..n - (k + 1) + 1 /\ (k + 1) + i - 1 = k + i
    BY <1>1
  <2> HIDE DEF a
  <2>. QED
    BY <1>1, <2>3, <2>4
<1>4. RemoveAt(s, k) = p
  BY DEF RemoveAt
<1> HIDE DEF a, b, n
<1>5. /\ p \in Seq(Event) /\ Len(p) = Len(b) + Len(a)
      /\ \A i \in 1..Len(b) + Len(a) : p[i] = IF i <= Len(b) THEN b[i] ELSE a[i - Len(b)]
  BY <1>2, <1>3, ConcatProperties
<1> HIDE DEF p
<1>6. Len(p) = n - 1 /\ \A i \in 1..(n - 1) : p[i] = IF i < k THEN s[i] ELSE s[i + 1]
  <2>1. Len(b) + Len(a) = n - 1
    BY <1>1, <1>2, <1>3
  <2>2. ASSUME NEW i \in 1..(n - 1), i < k PROVE p[i] = s[i]
    <3>1. i \in 1..(k - 1) /\ i <= Len(b) /\ i \in 1..Len(b) + Len(a)
      BY <1>1, <1>2, <2>1, <2>2
    <3>. QED
      BY <1>2, <1>5, <3>1
  <2>3. ASSUME NEW i \in 1..(n - 1), ~(i < k) PROVE p[i] = s[i + 1]
    <3>1. i - Len(b) \in 1..(n - k) /\ k + (i - Len(b)) = i + 1 /\ ~(i <= Len(b))
      BY <1>1, <1>2, <2>3
    <3>2. p[i] = a[i - Len(b)]
      BY <1>5, <2>1, <3>1
    <3>3. a[i - Len(b)] = s[k + (i - Len(b))]
      BY <1>3, <3>1
    <3>. QED
      BY <3>1, <3>2, <3>3
  <2>. QED
    BY <1>5, <2>1, <2>2, <2>3
<1>7. Thins(p, s)
  <2> DEFINE f == [i \in 1..Len(p) |-> IF i < k THEN i ELSE i + 1]
  <2>1. f \in [1..Len(p) -> 1..Len(s)] /\ \A i, j \in 1..Len(p) : i < j => f[i] < f[j]
    BY <1>1, <1>6 DEF n
  <2>2. \A i \in 1..Len(p) : p[i] = s[f[i]]
    BY <1>6
  <2>. QED
    BY <2>1, <2>2 DEF Thins
<1>8. ASSUME NEW i \in 1..Len(s), i # k PROVE s[i] \in Elems(p)
  <2>1. CASE i < k
    <3>1. i \in 1..(n - 1) /\ p[i] = s[i]
      BY <1>1, <1>6, <2>1 DEF n
    <3>. QED
      BY <1>6, <3>1 DEF Elems
  <2>2. CASE ~(i < k)
    <3>1. i - 1 \in 1..(n - 1) /\ ~(i - 1 < k) /\ (i - 1) + 1 = i
      BY <1>1, <1>8, <2>2 DEF n
    <3>2. p[i - 1] = s[i]
      BY <1>6, <3>1
    <3>. QED
      BY <1>6, <3>1, <3>2 DEF Elems
  <2>. QED
    BY <2>1, <2>2
<1>. QED
  BY <1>4, <1>5, <1>6, <1>7, <1>8 DEF n

\* A set of positions has a greatest one.
LEMMA GreatestIs ==
    ASSUME NEW n \in Nat, NEW old \in SUBSET (1..n), old # {}
    PROVE  LET last == CHOOSE i \in old : \A j \in old : j <= i
           IN  last \in old /\ \A j \in old : j <= last
<1> DEFINE T == {b \in Nat : (\E i \in old : n - b <= i)}
<1>1. PICK i \in old : TRUE
  OBVIOUS
<1>2. n - i \in Nat /\ n - (n - i) = i
  OBVIOUS
<1>3. n - i \in T
  BY <1>2
<1>4. PICK b \in T : \A c \in T : b <= c
  <2>1. T # {} /\ T \subseteq Nat
    BY <1>3
  <2> HIDE DEF T
  <2>2. \E b \in T : \A c \in T : <<c, b>> \notin {ss \in Nat \X Nat : ss[1] < ss[2]}
    <3>1. IsWellFoundedOn({ss \in Nat \X Nat : ss[1] < ss[2]}, Nat)
      BY NatLessThanWellFounded DEF OpToRel
    <3>. QED
      BY <2>1, <3>1, WFMin, Zenon
  <2>3. PICK b \in T : \A c \in T : <<c, b>> \notin {ss \in Nat \X Nat : ss[1] < ss[2]}
    BY <2>2
  <2>4. ASSUME NEW c \in T PROVE b <= c
    <3>1. c \in Nat /\ b \in Nat /\ <<c, b>> \in Nat \X Nat
      BY <2>1, <2>3
    <3>2. ~(c < b)
      BY <2>3, <3>1
    <3>. QED
      BY <3>1, <3>2
  <2>. QED
    BY <2>4
<1>5. PICK j \in old : n - b <= j
  BY <1>4
<1>6. ASSUME NEW m \in old PROVE m <= j
  <2>1. m \in 1..n /\ j \in 1..n /\ n - m \in Nat /\ b \in Nat /\ n - (n - m) <= m
    OBVIOUS
  <2>2. n - m \in T
    BY <2>1
  <2>3. b <= n - m
    BY <1>4, <2>2
  <2>. QED
    BY <1>5, <2>1, <2>3
<1>. QED
  BY <1>6

\* The pushed event is last, what it supersedes is a value, the rest stays in its order.
LEMMA PushKeeps ==
    ASSUME NEW s \in Seq(Event), NEW g, NEW e \in Event
    PROVE  LET p == Push(s, g, e) IN
           /\ p \in Seq(Event) /\ Len(p) \in 1..(Len(s) + 1) /\ p[Len(p)] = e
           /\ Elems(p) \subseteq Elems(s) \cup {e} /\ e \in Elems(p)
           /\ \A d \in Elems(s) : d.kind # "set" => d \in Elems(p)
           /\ Rising(s) /\ (\A d \in Elems(s) : d.time < e.time) => Rising(p)
           /\ Distinct(s) /\ e.time \notin Times(s) => Distinct(p)
<1> DEFINE p == Push(s, g, e)
           Result(q) ==
               /\ q \in Seq(Event) /\ Len(q) \in 1..(Len(s) + 1) /\ q[Len(q)] = e
               /\ Elems(q) \subseteq Elems(s) \cup {e} /\ e \in Elems(q)
               /\ \A d \in Elems(s) : d.kind # "set" => d \in Elems(q)
               /\ Rising(s) /\ (\A d \in Elems(s) : d.time < e.time) => Rising(q)
               /\ Distinct(s) /\ e.time \notin Times(s) => Distinct(q)
           From(r) ==
               /\ r \in Seq(Event) /\ Len(r) \in 0..Len(s) /\ Elems(r) \subseteq Elems(s)
               /\ \A d \in Elems(s) : d.kind # "set" => d \in Elems(r)
               /\ Rising(s) => Rising(r)
               /\ Distinct(s) => Distinct(r)
<1>0. Len(s) \in Nat
  BY LenProperties
<1>1. ASSUME NEW r, From(r) PROVE Result(Append(r, e))
  <2> DEFINE a == Append(r, e)
  <2>1. r \in Seq(Event)
    BY <1>1
  <2>2. /\ a \in Seq(Event) /\ Len(a) = Len(r) + 1
        /\ Elems(a) = Elems(r) \cup {e}
        /\ Rising(r) /\ (\A d \in Elems(r) : d.time < e.time) => Rising(a)
        /\ Distinct(r) /\ e.time \notin Times(r) => Distinct(a)
    BY <2>1, AppendKeeps
  <2>3. a[Len(r) + 1] = e
    BY <2>1, AppendProperties
  <2>4. Times(r) \subseteq Times(s)
    BY <1>1, TimesAre
  <2> HIDE DEF a
  <2>5. Len(a) \in 1..(Len(s) + 1) /\ a[Len(a)] = e
    BY <1>0, <1>1, <2>2, <2>3
  <2>6. a \in Seq(Event) /\ Elems(a) \subseteq Elems(s) \cup {e} /\ e \in Elems(a)
    BY <1>1, <2>2
  <2>7. \A d \in Elems(s) : d.kind # "set" => d \in Elems(a)
    BY <1>1, <2>2
  <2>8. Rising(s) /\ (\A d \in Elems(s) : d.time < e.time) => Rising(a)
    BY <1>1, <2>2
  <2>9. Distinct(s) /\ e.time \notin Times(s) => Distinct(a)
    BY <1>1, <2>2, <2>4
  <2>. QED
    BY <2>5, <2>6, <2>7, <2>8, <2>9 DEF a
<1>2. From(s)
  BY <1>0
<1>3. ASSUME NEW k \in 1..Len(s), s[k].kind = "set" PROVE From(RemoveAt(s, k))
  <2> DEFINE r == RemoveAt(s, k)
  <2>1. /\ r \in Seq(Event) /\ Len(r) = Len(s) - 1 /\ Thins(r, s)
        /\ \A i \in 1..Len(s) : i # k => s[i] \in Elems(r)
    BY RemoveAtKeeps
  <2> HIDE DEF r
  <2>2. Elems(r) \subseteq Elems(s) /\ (Rising(s) => Rising(r)) /\ (Distinct(s) => Distinct(r))
    BY <2>1, ThinsKeeps
  <2>3. ASSUME NEW d \in Elems(s), d.kind # "set" PROVE d \in Elems(r)
    <3>1. PICK i \in 1..Len(s) : d = s[i]
      BY DEF Elems
    <3>. QED
      BY <1>3, <2>1, <2>3, <3>1
  <2>4. Len(r) \in 0..Len(s)
    BY <1>0, <2>1
  <2>. QED
    BY <2>1, <2>2, <2>3, <2>4 DEF r
<1> DEFINE old == Superseded(s, g, e)
           last == CHOOSE i \in old : \A j \in old : j <= i
<1>4. ASSUME old # {} PROVE last \in 1..Len(s) /\ s[last].kind = "set"
  <2>1. old \subseteq 1..Len(s)
    BY DEF Superseded
  <2>3. last \in old
    BY <1>0, <1>4, <2>1, GreatestIs
  <2> HIDE DEF last
  <2>4. last \in last..Len(s)
    BY <1>0, <2>1, <2>3
  <2>5. s[last].kind = "set"
    BY <2>3, <2>4 DEF Superseded, Coalescable
  <2>. QED
    BY <2>1, <2>3, <2>5
<1>5. p = Append(s, e) \/ (old # {} /\ p = Append(RemoveAt(s, last), e))
  BY DEF Push
<1> HIDE DEF old, last, p, Result, From
<1>6. Result(p)
  BY <1>1, <1>2, <1>3, <1>4, <1>5
<1>. QED
  BY <1>6 DEF Result, p

LEMMA TrimKeeps ==
    ASSUME NEW s \in Seq(Event), NEW cap \in Nat \ {0}
    PROVE  LET t == Trim(s, cap) IN
           /\ t \in Seq(Event) /\ Thins(t, s)
           /\ Len(s) <= cap => t = s
           /\ s # <<>> => t # <<>> /\ t[Len(t)] = s[Len(s)]
<1> DEFINE n == Len(s)
           t == SubSeq(s, n - cap + 1, n)
           same == [i \in 1..n |-> i]
<1>1. n \in Nat /\ (\A i \in 1..n : s[i] \in Event) /\ (s # <<>> => n # 0)
  BY LenProperties, ElementOfSeq, EmptySeq
<1>2. Thins(s, s)
  <2>1. same \in [1..Len(s) -> 1..Len(s)] /\ \A i, j \in 1..Len(s) : i < j => same[i] < same[j]
    BY <1>1
  <2>2. \A i \in 1..Len(s) : s[i] = s[same[i]]
    OBVIOUS
  <2>. QED
    BY <2>1, <2>2 DEF Thins
<1>3. CASE ~(n > cap)
  BY <1>2, <1>3 DEF Trim
<1>4. CASE n > cap
  <2>1. Trim(s, cap) = t
    BY <1>4 DEF Trim
  <2>2. n - cap + 1 \in Int /\ n \in Int /\ 1 <= n - cap + 1 /\ n - cap + 1 <= n
    BY <1>1, <1>4
  <2>3. \A i \in (n - cap + 1)..n : s[i] \in Event
    BY <1>1, <2>2
  <2>4. /\ t \in Seq(Event)
        /\ Len(t) = IF n - cap + 1 <= n THEN n - (n - cap + 1) + 1 ELSE 0
        /\ \A i \in 1..n - (n - cap + 1) + 1 : t[i] = s[(n - cap + 1) + i - 1]
    BY <2>2, <2>3, SubSeqProperties
  <2> HIDE DEF t
  <2>5. Len(t) = cap
    BY <1>1, <2>2, <2>4
  <2>6. ASSUME NEW i \in 1..cap PROVE t[i] = s[n - cap + i]
    <3>1. i \in 1..n - (n - cap + 1) + 1 /\ (n - cap + 1) + i - 1 = n - cap + i
      BY <1>1
    <3>. QED
      BY <2>4, <3>1
  <2>7. Thins(t, s)
    <3> DEFINE f == [i \in 1..Len(t) |-> n - cap + i]
    <3>1. f \in [1..Len(t) -> 1..Len(s)] /\ \A i, j \in 1..Len(t) : i < j => f[i] < f[j]
      BY <1>1, <1>4, <2>5
    <3>2. \A i \in 1..Len(t) : t[i] = s[f[i]]
      BY <2>5, <2>6
    <3>. QED
      BY <3>1, <3>2 DEF Thins
  <2>8. t # <<>> /\ t[Len(t)] = s[n]
    <3>1. cap \in 1..cap /\ n - cap + cap = n
      BY <1>1
    <3>2. t[Len(t)] = s[n]
      BY <2>5, <2>6, <3>1
    <3>. QED
      BY <2>4, <2>5, <3>2
  <2>9. ~(Len(s) <= cap)
    BY <1>1, <1>4
  <2> HIDE DEF n
  <2>. QED
    BY <2>1, <2>4, <2>7, <2>8, <2>9 DEF n
<1>. QED
  BY <1>3, <1>4

\* What After computes.
LEMMA AfterIs ==
    ASSUME NEW s \in Seq(Event), NEW since
    PROVE  \E h : /\ \A k \in 0..Len(s) : h[k] \in Seq(Event)
                  /\ h[0] = <<>> /\ After(s, since) = h[Len(s)]
                  /\ \A k \in 1..Len(s) :
                        h[k] = IF s[k].time > since THEN Append(h[k - 1], s[k]) ELSE h[k - 1]
<1> DEFINE n == Len(s)
           Step(a, i) == IF s[i].time > since THEN Append(a, s[i]) ELSE a
           F == [i \in 1..n |-> [a \in Seq(Event) |-> Step(a, i)]]
           Sol(c) == c = [i \in 0..n |-> IF i = 0 THEN <<>> ELSE Step(c[i - 1], i)]
           h == CHOOSE c : Sol(c)
           q == <<>>
<1>1. n \in Nat /\ \A i \in 1..n : s[i] \in Event
  BY LenProperties, ElementOfSeq
<1>2. q \in Seq(Event)
  OBVIOUS
<1>3. F \in [1..n -> [Seq(Event) -> Seq(Event)]]
  BY <1>1, AppendProperties
<1>4. \A i \in 1..n, a \in Seq(Event) : F[i][a] = Step(a, i)
  OBVIOUS
<1>5. After(s, since) = h[n]
  BY DEF After
<1> HIDE DEF n, F, h, q
<1>6. PICK c \in [0..n -> Seq(Event)] : IsRecursion(c, n, q, F)
  BY <1>1, <1>2, <1>3, RecursionExists
<1>7. ASSUME NEW i \in 0..n PROVE c[i] = IF i = 0 THEN <<>> ELSE Step(c[i - 1], i)
  <2>1. i # 0 => i \in 1..n /\ i - 1 \in 0..n
    BY <1>1
  <2>2. c[i] = IF i = 0 THEN q ELSE F[i][c[i - 1]]
    BY <1>6 DEF IsRecursion
  <2>. QED
    BY <1>4, <1>6, <2>1, <2>2 DEF q
<1>8. Sol(c)
  BY <1>6, <1>7
<1>9. Sol(h)
  BY <1>8 DEF h
<1>10. ASSUME NEW i \in 0..n PROVE h[i] = IF i = 0 THEN <<>> ELSE Step(h[i - 1], i)
  BY <1>9
<1>11. h[0] = q /\ \A k \in 1..n : h[k] = Step(h[k - 1], k)
  <2> HIDE DEF Step
  <2>1. 0 \in 0..n /\ \A k \in 1..n : k \in 0..n /\ k # 0
    BY <1>1
  <2>. QED
    BY <1>10, <2>1 DEF q
<1>12. \A k \in 1..n : h[k - 1] \in Seq(Event) => h[k] = F[k][h[k - 1]]
  <2> HIDE DEF Step
  <2>. QED
    BY <1>4, <1>11
<1>13. \A k \in 0..n : h[k] \in Seq(Event)
  BY <1>1, <1>2, <1>3, <1>11, <1>12, RecursionStays, Zenon
<1>. QED
  BY <1>5, <1>11, <1>13 DEF n, q

\* The events after a stamp, in their order.
LEMMA AfterKeeps ==
    ASSUME NEW s \in Seq(Event), NEW since
    PROVE  /\ After(s, since) \in Seq(Event)
           /\ Elems(After(s, since)) = {e \in Elems(s) : e.time > since}
           /\ Rising(s) => Rising(After(s, since))
<1> DEFINE n == Len(s)
           Step(a, i) == IF s[i].time > since THEN Append(a, s[i]) ELSE a
<1>1. n \in Nat /\ \A i \in 1..n : s[i] \in Event
  BY LenProperties, ElementOfSeq
<1>2. PICK h : /\ \A k \in 0..n : h[k] \in Seq(Event)
               /\ h[0] = <<>> /\ After(s, since) = h[n]
               /\ \A k \in 1..n : h[k] = Step(h[k - 1], k)
  BY AfterIs
<1> HIDE DEF n
<1> DEFINE Result(a, k) ==
               /\ a \in Seq(Event)
               /\ Elems(a) = {e \in {s[i] : i \in 1..k} : e.time > since}
               /\ Rising(s) => Rising(a)
           T == {k \in Nat : k <= n => Result(h[k], k)}
<1>11. 0 \in T
  <2>1. h[0] = <<>>
    BY <1>2
  <2>2. Result(<<>>, 0)
    BY DEF Elems, Rising
  <2>. QED
    BY <2>1, <2>2
<1>12. ASSUME NEW k \in Nat, k \in T PROVE k + 1 \in T
  <2> SUFFICES ASSUME k + 1 <= n PROVE Result(h[k + 1], k + 1)
    OBVIOUS
  <2> DEFINE a == h[k]
             e == s[k + 1]
  <2>1. k + 1 \in 0..n /\ k + 1 \in 1..n /\ k + 1 # 0 /\ (k + 1) - 1 = k /\ Result(a, k)
    BY <1>1, <1>12
  <2>2. h[k + 1] = Step(a, k + 1)
    BY <1>2, <2>1
  <2>3. e \in Event
    BY <1>1, <2>1
  <2>4. {s[i] : i \in 1..(k + 1)} = {s[i] : i \in 1..k} \cup {e}
    BY <2>1
  <2> HIDE DEF a, e
  <2>5. CASE ~(s[k + 1].time > since)
    BY <2>1, <2>2, <2>4, <2>5 DEF e
  <2>6. CASE s[k + 1].time > since
    <3>1. h[k + 1] = Append(a, e)
      BY <2>2, <2>6 DEF e
    <3>2. /\ Append(a, e) \in Seq(Event)
          /\ Elems(Append(a, e)) = Elems(a) \cup {e}
          /\ Rising(a) /\ (\A d \in Elems(a) : d.time < e.time) => Rising(Append(a, e))
      BY <2>1, <2>3, AppendKeeps
    <3>3. ASSUME Rising(s), NEW d \in Elems(a) PROVE d.time < e.time
      <4>1. PICK i \in 1..k : d = s[i]
        BY <2>1, <3>3
      <4>2. i \in 1..Len(s) /\ k + 1 \in 1..Len(s) /\ i < k + 1
        BY <1>1, <2>1 DEF n
      <4>. QED
        BY <3>3, <4>1, <4>2 DEF Rising, e
    <3>4. e.time > since
      BY <2>6 DEF e
    <3>. QED
      BY <2>1, <2>4, <3>1, <3>2, <3>3, <3>4
  <2>. QED
    BY <2>5, <2>6
<1> HIDE DEF T
<1>13. n \in T
  BY <1>1, <1>11, <1>12, NatSetInduction
<1>14. Result(h[n], n)
  BY <1>1, <1>13 DEF T
<1>. QED
  BY <1>2, <1>14 DEF Elems, n

\* What Appended computes.
LEMMA AppendedIs ==
    ASSUME NEW r \in Seq(Event), NEW es \in Seq(Event)
    PROVE  \E h : /\ \A k \in 0..Len(es) : h[k] \in Seq(Event)
                  /\ h[0] = r /\ Appended(r, es) = h[Len(es)]
                  /\ \A k \in 1..Len(es) : h[k] = Trim(Push(h[k - 1], store, es[k]), RingCap)
<1> DEFINE n == Len(es)
           Step(a, i) == Trim(Push(a, store, es[i]), RingCap)
           F == [i \in 1..n |-> [a \in Seq(Event) |-> Step(a, i)]]
           Sol(c) == c = [i \in 0..n |-> IF i = 0 THEN r ELSE Step(c[i - 1], i)]
           h == CHOOSE c : Sol(c)
<1>1. n \in Nat /\ Len(r) \in Nat /\ \A i \in 1..n : es[i] \in Event
  BY LenProperties, ElementOfSeq
<1>2. RingCap \in Nat \ {0}
  BY ThreadsAssumption
<1>3. ASSUME NEW i \in 1..n, NEW a \in Seq(Event) PROVE Step(a, i) \in Seq(Event)
  BY <1>1, <1>2, PushKeeps, TrimKeeps
<1>4. F \in [1..n -> [Seq(Event) -> Seq(Event)]]
  BY <1>3
<1>5. \A i \in 1..n, a \in Seq(Event) : F[i][a] = Step(a, i)
  OBVIOUS
<1>6. Appended(r, es) = h[n]
  BY DEF Appended
<1> HIDE DEF n, F, h
<1>7. PICK c \in [0..n -> Seq(Event)] : IsRecursion(c, n, r, F)
  BY <1>1, <1>4, RecursionExists
<1>8. ASSUME NEW i \in 0..n PROVE c[i] = IF i = 0 THEN r ELSE Step(c[i - 1], i)
  <2>1. i # 0 => i \in 1..n /\ i - 1 \in 0..n
    BY <1>1
  <2>2. c[i] = IF i = 0 THEN r ELSE F[i][c[i - 1]]
    BY <1>7 DEF IsRecursion
  <2>. QED
    BY <1>5, <1>7, <2>1, <2>2
<1>9. Sol(c)
  BY <1>7, <1>8
<1>10. Sol(h)
  BY <1>9 DEF h
<1>11. ASSUME NEW i \in 0..n PROVE h[i] = IF i = 0 THEN r ELSE Step(h[i - 1], i)
  BY <1>10
<1>12. h[0] = r /\ \A k \in 1..n : h[k] = Step(h[k - 1], k)
  <2>1. 0 \in 0..n /\ \A k \in 1..n : k \in 0..n /\ k # 0
    BY <1>1
  <2>. QED
    BY <1>11, <2>1
<1>13. \A k \in 1..n : h[k - 1] \in Seq(Event) => h[k] = F[k][h[k - 1]]
  BY <1>5, <1>12
<1>14. \A k \in 0..n : h[k] \in Seq(Event)
  BY <1>1, <1>4, <1>12, <1>13, RecursionStays, Zenon
<1>. QED
  BY <1>6, <1>12, <1>14 DEF n

\* What appending a capture does to the ring.  Nothing but superseded values
\* is lost as long as the capture fits.
LEMMA AppendedKeeps ==
    ASSUME NEW r \in Seq(Event), NEW es \in Seq(Event)
    PROVE  /\ Appended(r, es) \in Seq(Event)
           /\ Elems(Appended(r, es)) \subseteq Elems(r) \cup Elems(es)
           /\ Distinct(r) /\ Distinct(es) /\ Times(r) \cap Times(es) = {} => Distinct(Appended(r, es))
           /\ Len(r) + Len(es) <= RingCap =>
                \A e \in Elems(r) \cup Elems(es) : e.kind # "set" => e \in Elems(Appended(r, es))
<1> DEFINE n == Len(es)
<1>1. n \in Nat /\ Len(r) \in Nat /\ \A i \in 1..n : es[i] \in Event
  BY LenProperties, ElementOfSeq
<1>2. RingCap \in Nat \ {0}
  BY ThreadsAssumption
<1>3. PICK h : /\ \A k \in 0..n : h[k] \in Seq(Event)
               /\ h[0] = r /\ Appended(r, es) = h[n]
               /\ \A k \in 1..n : h[k] = Trim(Push(h[k - 1], store, es[k]), RingCap)
  BY AppendedIs
<1> HIDE DEF n
<1> DEFINE First(k) == {es[i] : i \in 1..k}
           Apart == Distinct(r) /\ Distinct(es) /\ Times(r) \cap Times(es) = {}
           Result(a, k) ==
               /\ a \in Seq(Event)
               /\ Elems(a) \subseteq Elems(r) \cup First(k)
               /\ Apart => Distinct(a)
               /\ Len(r) + n <= RingCap =>
                    /\ Len(a) <= Len(r) + k
                    /\ \A e \in Elems(r) \cup First(k) : e.kind # "set" => e \in Elems(a)
           T == {k \in Nat : k <= n => Result(h[k], k)}
<1>4. 0 \in T
  <2>1. h[0] = r
    BY <1>1, <1>3
  <2>2. Result(r, 0)
    BY <1>1
  <2>. QED
    BY <2>1, <2>2
<1>5. ASSUME NEW k \in Nat, k \in T PROVE k + 1 \in T
  <2> SUFFICES ASSUME k + 1 <= n PROVE Result(h[k + 1], k + 1)
    OBVIOUS
  <2> DEFINE a == h[k]
             e == es[k + 1]
             p == Push(a, store, e)
             t == Trim(p, RingCap)
  <2>1. k + 1 \in 0..n /\ k + 1 \in 1..n /\ k + 1 # 0 /\ (k + 1) - 1 = k /\ Result(a, k)
    BY <1>1, <1>5
  <2>2. h[k + 1] = t
    BY <1>3, <2>1
  <2>3. e \in Event /\ a \in Seq(Event)
    BY <1>1, <2>1
  <2>4. First(k + 1) = First(k) \cup {e}
    BY <2>1
  <2> HIDE DEF a, e
  <2>5. /\ p \in Seq(Event) /\ Len(p) \in 1..(Len(a) + 1) /\ p[Len(p)] = e
        /\ Elems(p) \subseteq Elems(a) \cup {e} /\ e \in Elems(p)
        /\ \A d \in Elems(a) : d.kind # "set" => d \in Elems(p)
        /\ Distinct(a) /\ e.time \notin Times(a) => Distinct(p)
    BY <2>3, PushKeeps
  <2> HIDE DEF p
  <2>6. t \in Seq(Event) /\ Thins(t, p) /\ (Len(p) <= RingCap => t = p)
    BY <1>2, <2>5, TrimKeeps
  <2> HIDE DEF t
  <2>7. Elems(t) \subseteq Elems(p) /\ (Distinct(p) => Distinct(t))
    BY <2>5, <2>6, ThinsKeeps
  <2>8. Elems(t) \subseteq Elems(r) \cup First(k + 1)
    BY <2>1, <2>4, <2>5, <2>7
  <2>9. ASSUME Apart PROVE Distinct(t)
    <3>1. e.time \notin Times(r)
      <4>1. e.time \in Times(es)
        BY <2>1 DEF Times, e, n
      <4>. QED
        BY <2>9, <4>1
    <3>2. \A d \in First(k) : d.time # e.time
      <4> SUFFICES ASSUME NEW i \in 1..k PROVE es[i].time # es[k + 1].time
        BY DEF e
      <4>1. i \in 1..Len(es) /\ k + 1 \in 1..Len(es) /\ i # k + 1
        BY <1>1, <2>1 DEF n
      <4>. QED
        BY <2>9, <4>1 DEF Distinct
    <3>3. \A d \in Elems(r) : d.time # e.time
      BY <3>1, TimesAre
    <3>4. e.time \notin Times(a)
      <4>1. \A d \in Elems(a) : d.time # e.time
        BY <2>1, <3>2, <3>3
      <4>. QED
        BY <4>1, TimesAre
    <3>. QED
      BY <2>1, <2>5, <2>7, <2>9, <3>4
  <2>10. ASSUME Len(r) + n <= RingCap
         PROVE  /\ Len(t) <= Len(r) + (k + 1)
                /\ \A d \in Elems(r) \cup First(k + 1) : d.kind # "set" => d \in Elems(t)
    <3>1. Len(a) <= Len(r) + k /\ \A d \in Elems(r) \cup First(k) : d.kind # "set" => d \in Elems(a)
      BY <2>1, <2>10
    <3>2. Len(p) <= Len(r) + (k + 1)
      <4>1. Len(a) \in Nat /\ Len(p) \in Nat
        BY <2>3, <2>5, LenProperties
      <4>. QED
        BY <1>1, <2>5, <3>1, <4>1
    <3>3. Len(p) <= RingCap
      BY <1>1, <1>2, <2>1, <2>5, <2>10, <3>2, LenProperties
    <3>4. t = p
      BY <2>6, <3>3
    <3>. QED
      BY <2>4, <2>5, <3>1, <3>2, <3>4
  <2> HIDE DEF First, Apart
  <2>. QED
    BY <2>2, <2>6, <2>8, <2>9, <2>10
<1>6. n \in T
  <2> HIDE DEF T
  <2>. QED
    BY <1>1, <1>4, <1>5, NatSetInduction
<1>7. Result(h[n], n) /\ n <= n
  BY <1>1, <1>6
<1>8. First(n) = Elems(es)
  BY DEF Elems, n
<1>9. /\ h[n] \in Seq(Event)
      /\ Elems(h[n]) \subseteq Elems(r) \cup Elems(es)
      /\ Apart => Distinct(h[n])
      /\ Len(r) + n <= RingCap =>
           \A e \in Elems(r) \cup Elems(es) : e.kind # "set" => e \in Elems(h[n])
  <2> HIDE DEF First, Apart
  <2>. QED
    BY <1>7, <1>8
<1>. QED
  BY <1>3, <1>9 DEF n

-----------------------------------------------------------------------------
(* The invariant.                                                          *)

Snapshots == [nodes : Graph, at : Nat]

Refreshing == {"r.store", "r.header", "r.current", "r.latest", "r.ring"}

Applying == {"history", "append", "patch", "stamp", "nodes", "header", "publish", "latest"}

EngineTyped ==
    /\ holder \in Threads \cup {NoThread} /\ clock \in Nat \ {0} /\ epoch \in {0, 1}
    /\ dropped \subseteq Nat /\ graph \in Graph /\ log \in Seq(Event)

ModelTyped ==
    /\ ring \in Seq(Event) /\ store \in Graph /\ latest \in Nat
    /\ header \in [at : Nat, history : Nat] /\ current \in Snapshots

Captures == [events : Seq(Event), history : Nat]

ThreadsTyped ==
    /\ pc \in [Threads -> {"idle", "inside", "swapped"} \cup Applying \cup Refreshing]
    /\ before \in [Threads -> Nat] /\ capture \in [Threads -> Captures]
    /\ kept \in [Threads -> Snapshots]

ClientTyped ==
    /\ cursor \in Nat /\ checked \in BOOLEAN
    /\ client \in [phase : {"away", "fetching", "fetched", "live", "bounced"}, nodes : Graph, at : Nat]

FeedTypeOK == EngineTyped /\ ModelTyped /\ ThreadsTyped /\ ClientTyped

\* The thread has events that are not in the ring yet.
Carries(t) == pc[t] \in {"history", "append"}

\* The thread has swapped the engine and not published the new log yet.
Replaces(t) == pc[t] = "swapped" \/ pc[t] \in Refreshing

\* The engine's clock stamps the log.
LogInOrder == Rising(log) /\ \A e \in Elems(log) : 1 <= e.time /\ e.time < clock

\* One thread at a time is inside the engine.
OneInside == \A t \in Threads : pc[t] = "inside" \/ pc[t] \in Refreshing => holder = t

\* What a thread will capture has been logged since it entered.
EnteredAfter == \A t \in Threads : pc[t] = "inside" => before[t] <= LastTime(log)

CapturesInOrder == \A t \in Threads : Rising(capture[t].events)

\* The stamps of a project that have left the engine.
Out(x) == x \in Times(ring) \/ \E t \in Threads : Carries(t) /\ x \in Times(capture[t].events)

\* Captures of one project, the ring and what is still to be captured are disjoint.
NothingTwice ==
    epoch = 0 =>
        /\ \A t \in Threads : ~Replaces(t)
        /\ Distinct(ring)
        /\ \A t \in Threads : Carries(t) => Times(capture[t].events) \cap Times(ring) = {}
        /\ \A t, u \in Threads : Carries(t) /\ Carries(u) /\ t # u =>
              Times(capture[t].events) \cap Times(capture[u].events) = {}
        /\ \A x \in Nat : Out(x) => x <= LastTime(log)
        /\ \A t \in Threads, x \in Nat : pc[t] = "inside" /\ Out(x) => x <= before[t]

\* Where an event that lasts is.
Accounted(x) ==
    \/ x \in Lasting(ring) \/ x \in dropped
    \/ \E t \in Threads : Carries(t) /\ x \in Lasting(capture[t].events)
    \/ \E t \in Threads : pc[t] = "inside" /\ before[t] < x

NothingMissed == (\E t \in Threads : Replaces(t)) \/ \A x \in Lasting(log) : Accounted(x)

\* Every capture on its way fits into the ring.
CapturesFit == \A t \in Threads : pc[t] = "append" => Len(ring) + Len(capture[t].events) <= RingCap

-----------------------------------------------------------------------------
(* Types.                                                                  *)

LEMMA PatchedTyped == \A g \in Graph, e \in Event : Patched(g, e) \in Graph
  BY DEF Patched, Graph, Event

\* What replaying events computes.
LEMMA PatchedByIs ==
    ASSUME NEW g \in Graph, NEW es \in Seq(Event)
    PROVE  \E c : /\ \A k \in 0..Len(es) : c[k] \in Graph
                  /\ c[0] = g /\ PatchedBy(g, es) = c[Len(es)]
                  /\ \A k \in 1..Len(es) : c[k] = Patched(c[k - 1], es[k])
<1> DEFINE n == Len(es)
           F == [i \in 1..n |-> [a \in Graph |-> Patched(a, es[i])]]
           Sol(c) == c = [i \in 0..n |-> IF i = 0 THEN g ELSE Patched(c[i - 1], es[i])]
           h == CHOOSE c : Sol(c)
<1>1. n \in Nat /\ \A i \in 1..n : es[i] \in Event
  BY LenProperties, ElementOfSeq
<1>2. F \in [1..n -> [Graph -> Graph]]
  BY <1>1, PatchedTyped
<1>3. \A i \in 1..n, a \in Graph : F[i][a] = Patched(a, es[i])
  OBVIOUS
<1>4. PatchedBy(g, es) = h[n]
  BY DEF PatchedBy
<1> HIDE DEF n, F, h
<1>5. PICK c \in [0..n -> Graph] : IsRecursion(c, n, g, F)
  BY <1>1, <1>2, RecursionExists
<1>6. ASSUME NEW i \in 0..n PROVE c[i] = IF i = 0 THEN g ELSE Patched(c[i - 1], es[i])
  <2>1. i # 0 => i \in 1..n /\ i - 1 \in 0..n
    BY <1>1
  <2>2. c[i] = IF i = 0 THEN g ELSE F[i][c[i - 1]]
    BY <1>5 DEF IsRecursion
  <2>. QED
    BY <1>3, <1>5, <2>1, <2>2
<1>7. Sol(c)
  BY <1>5, <1>6
<1>8. Sol(h)
  BY <1>7 DEF h
<1>9. ASSUME NEW i \in 0..n PROVE h[i] = IF i = 0 THEN g ELSE Patched(h[i - 1], es[i])
  BY <1>8
<1>10. h[0] \in Graph
  BY <1>1, <1>9
<1>11. \A k \in 1..n : h[k - 1] \in Graph => h[k] = F[k][h[k - 1]]
  <2> SUFFICES ASSUME NEW k \in 1..n, h[k - 1] \in Graph PROVE h[k] = F[k][h[k - 1]]
    OBVIOUS
  <2>1. k \in 0..n /\ k # 0
    BY <1>1
  <2>. QED
    BY <1>3, <1>9, <2>1
<1>12. \A k \in 0..n : h[k] \in Graph
  BY <1>1, <1>2, <1>10, <1>11, RecursionStays, Zenon
<1>13. h[0] = g /\ \A k \in 1..n : h[k] = Patched(h[k - 1], es[k])
  <2>1. 0 \in 0..n /\ \A k \in 1..n : k \in 0..n /\ k # 0
    BY <1>1
  <2>. QED
    BY <1>9, <2>1
<1>. QED
  BY <1>4, <1>12, <1>13 DEF n

LEMMA PatchedByTyped == \A g \in Graph, es \in Seq(Event) : PatchedBy(g, es) \in Graph
<1> SUFFICES ASSUME NEW g \in Graph, NEW es \in Seq(Event) PROVE PatchedBy(g, es) \in Graph
  OBVIOUS
<1>1. Len(es) \in 0..Len(es)
  BY LenProperties
<1>. QED
  BY <1>1, PatchedByIs

LEMMA LastTimeIs ==
    ASSUME NEW s \in Seq(Event)
    PROVE  /\ LastTime(s) \in Nat
           /\ s # <<>> => LastTime(s) = s[Len(s)].time /\ Len(s) \in 1..Len(s)
           /\ s = <<>> => LastTime(s) = 0
<1>1. Len(s) \in Nat /\ (s # <<>> => Len(s) # 0)
  BY LenProperties, EmptySeq
<1>2. ASSUME s # <<>> PROVE s[Len(s)] \in Event /\ Len(s) \in 1..Len(s)
  BY <1>1, <1>2, ElementOfSeq
<1>. QED
  BY <1>2, EventTyped DEF LastTime, Last, NoTime

LEMMA CapturedTyped ==
    ASSUME EngineTyped, NEW since PROVE Captured(since) \in Captures
  BY AfterKeeps DEF EngineTyped, Captured, Captures

LEMMA SpentTyped == NoCapture \in Captures /\ NoSnapshot \in Snapshots
<1>1. <<>> \in Seq(Event) /\ [n \in Nodes |-> Gone] \in Graph
  BY DEF Graph
<1>. QED
  BY <1>1 DEF NoCapture, Captures, NoSnapshot, Snapshots, NoTime

LEMMA StampedTyped ==
    ASSUME NEW change \in Differs, clock \in Nat
    PROVE  Stamped(change) \in Event
<1> DEFINE C == [kind : Kinds, node : Nodes \cup {Gone}, value : Values \cup {Gone}]
<1>a. ASSUME change \in [kind: {"create"}, node: {n \in Nodes : graph[n] = Gone}, value: Values] PROVE change \in C
  BY <1>a DEF Kinds
<1>b. ASSUME change \in [kind: {"remove"}, node: {n \in Nodes : graph[n] # Gone}, value: {Gone}] PROVE change \in C
  BY <1>b DEF Kinds
<1>c. ASSUME NEW n \in Nodes, change \in [kind: {"set"}, node: {n}, value: Values \ {graph[n]}] PROVE change \in C
  BY <1>c DEF Kinds
<1>d. ASSUME change \in [kind: {"note"}, node: {Gone}, value: {Gone}] PROVE change \in C
  BY <1>d DEF Kinds
<1> DEFINE A == [kind: {"create"}, node: {n \in Nodes : graph[n] = Gone}, value: Values]
           B == [kind: {"remove"}, node: {n \in Nodes : graph[n] # Gone}, value: {Gone}]
           D == [kind: {"note"}, node: {Gone}, value: {Gone}]
           Set(n) == [kind: {"set"}, node: {n}, value: Values \ {graph[n]}]
           All == A \cup B \cup D \cup UNION {Set(n) : n \in {m \in Nodes : graph[m] # Gone}}
<1>e. change \in All
  BY DEF Differs
<1>1. change \in C
  <2> HIDE DEF A, B, D, Set, C
  <2>1. change \in A \/ change \in B \/ change \in D \/ \E n \in Nodes : change \in Set(n)
    BY <1>e
  <2>. QED
    BY <1>a, <1>b, <1>c, <1>d, <2>1 DEF A, B, D, Set
<1>2. change.kind \in Kinds /\ change.node \in Nodes \cup {Gone} /\ change.value \in Values \cup {Gone}
  BY <1>1
<1>. QED
  BY <1>2 DEF Stamped, Event

LEMMA FeedTypeInit == FeedInit => FeedTypeOK
<1> SUFFICES ASSUME FeedInit PROVE FeedTypeOK
  OBVIOUS
<1>1. <<>> \in Seq(Event) /\ [n \in Nodes |-> Gone] \in Graph
  BY DEF Graph
<1>2. EngineTyped
  BY <1>1 DEF FeedInit, EngineTyped
<1>3. ModelTyped
  BY <1>1 DEF FeedInit, ModelTyped, Snapshots, NoTime
<1>4. ThreadsTyped
  <2>1. pc \in [Threads -> {"idle"}] /\ before \in [Threads -> Nat]
    BY DEF FeedInit, NoTime
  <2>2. capture \in [Threads -> Captures] /\ kept \in [Threads -> Snapshots]
    BY SpentTyped DEF FeedInit
  <2>. QED
    BY <2>1, <2>2 DEF ThreadsTyped
<1>5. ClientTyped
  BY <1>1 DEF FeedInit, ClientTyped, NoTime
<1>. QED
  BY <1>2, <1>3, <1>4, <1>5 DEF FeedTypeOK

\* A thread moves on.
LEMMA GotoTyped ==
    ASSUME ThreadsTyped, NEW t \in Threads, NEW where \in {"idle", "inside", "swapped"} \cup Applying \cup Refreshing,
           Goto(t, where)
    PROVE  /\ pc' \in [Threads -> {"idle", "inside", "swapped"} \cup Applying \cup Refreshing]
           /\ pc' = [pc EXCEPT ![t] = where]
  BY DEF ThreadsTyped, Goto

LEMMA EngineStepTyped ==
    ASSUME FeedTypeOK, NEW t \in Threads,
           Enter(t) \/ Emit(t) \/ LeaveCritical(t) \/ LeaveFailed(t)
    PROVE  FeedTypeOK'
<1> USE DEF FeedTypeOK
<1>1. CASE Enter(t)
  <2>1. EngineTyped'
    BY <1>1 DEF Enter, EngineTyped
  <2>2. ModelTyped' /\ ClientTyped'
    BY <1>1 DEF Enter, modelVars, clientVars, ModelTyped, ClientTyped
  <2>3. before' \in [Threads -> Nat]
    BY <1>1, LastTimeIs DEF Enter, EngineTyped, ThreadsTyped
  <2>4. ThreadsTyped'
    BY <1>1, <2>3 DEF Enter, ThreadsTyped
  <2>. QED
    BY <2>1, <2>2, <2>4
<1>2. CASE Emit(t)
  <2>1. PICK change \in Differs :
          graph' = Patched(graph, change) /\ log' = Trim(Push(log, graph', Stamped(change)), LogCap)
    BY <1>2 DEF Emit
  <2>2. Stamped(change) \in Event
    BY StampedTyped DEF EngineTyped
  <2>3. graph' \in Graph
    <3>1. Patched(graph, change) = Patched(graph, Stamped(change))
      BY DEF Patched, Stamped
    <3>. QED
      BY <2>1, <2>2, <3>1, PatchedTyped DEF EngineTyped
  <2>4. log' \in Seq(Event)
    BY <2>1, <2>2, PushKeeps, TrimKeeps, ThreadsAssumption DEF EngineTyped
  <2>5. EngineTyped'
    BY <1>2, <2>3, <2>4 DEF Emit, EngineTyped
  <2>6. ModelTyped' /\ ClientTyped' /\ ThreadsTyped'
    BY <1>2 DEF Emit, modelVars, clientVars, threadVars, ModelTyped, ClientTyped, ThreadsTyped
  <2>. QED
    BY <2>5, <2>6
<1>3. CASE LeaveCritical(t)
  <2>1. EngineTyped'
    BY <1>3 DEF LeaveCritical, EngineTyped
  <2>2. ModelTyped' /\ ClientTyped'
    BY <1>3 DEF LeaveCritical, modelVars, clientVars, ModelTyped, ClientTyped
  <2>3. capture' \in [Threads -> Captures]
    <3>1. Captured(before[t]) \in Captures
      BY CapturedTyped
    <3>. QED
      BY <1>3, <3>1 DEF LeaveCritical, ThreadsTyped
  <2>4. before' \in [Threads -> Nat]
    BY <1>3 DEF LeaveCritical, ThreadsTyped, NoTime
  <2>5. pc' \in [Threads -> {"idle", "inside", "swapped"} \cup Applying \cup Refreshing] /\ kept' = kept
    BY <1>3 DEF LeaveCritical, ThreadsTyped, Applying
  <2>6. ThreadsTyped'
    BY <2>3, <2>4, <2>5 DEF ThreadsTyped
  <2>. QED
    BY <2>1, <2>2, <2>6
<1>4. CASE LeaveFailed(t)
  <2>1. dropped' \subseteq Nat
    <3>1. Times(After(log, before[t])) \subseteq Nat
      <4>1. \A e \in Elems(After(log, before[t])) : e.time \in Nat
        BY AfterKeeps, EventTyped DEF EngineTyped, Elems
      <4>. QED
        BY <4>1, TimesAre
    <3>. QED
      BY <1>4, <3>1 DEF LeaveFailed, EngineTyped
  <2>2. EngineTyped'
    BY <1>4, <2>1 DEF LeaveFailed, EngineTyped
  <2>3. ModelTyped' /\ ClientTyped'
    BY <1>4 DEF LeaveFailed, modelVars, clientVars, ModelTyped, ClientTyped
  <2>4. ThreadsTyped'
    BY <1>4 DEF LeaveFailed, ThreadsTyped, NoTime
  <2>. QED
    BY <2>2, <2>3, <2>4
<1>. QED
  BY <1>1, <1>2, <1>3, <1>4

\* A thread is done with its capture.
LEMMA DoneTyped ==
    ASSUME EngineTyped, ThreadsTyped, NEW t \in Threads, Done(t), UNCHANGED before
    PROVE  ThreadsTyped' /\ holder' \in Threads \cup {NoThread}
<1>1. pc' \in [Threads -> {"idle", "inside", "swapped"} \cup Applying \cup Refreshing]
  BY DEF Done, Goto, ThreadsTyped
<1>2. capture' \in [Threads -> Captures] /\ kept' \in [Threads -> Snapshots]
  BY SpentTyped DEF Done, ThreadsTyped
<1>3. holder' \in Threads \cup {NoThread}
  BY DEF Done, EngineTyped
<1>. QED
  BY <1>1, <1>2, <1>3 DEF ThreadsTyped

LEMMA ApplyStepTyped ==
    ASSUME FeedTypeOK, NEW t \in Threads, ApplyStep(t)
    PROVE  FeedTypeOK'
<1> USE DEF FeedTypeOK
<1>0. /\ capture[t] \in Captures /\ capture[t].events \in Seq(Event) /\ capture[t].history \in Nat
      /\ kept[t] \in Snapshots /\ kept[t].at \in Nat /\ kept[t].nodes \in Graph
      /\ LastTime(capture[t].events) \in Nat
  <2>1. capture[t] \in Captures /\ kept[t] \in Snapshots
    BY DEF ThreadsTyped
  <2>2. capture[t].events \in Seq(Event) /\ capture[t].history \in Nat
    BY <2>1 DEF Captures
  <2>3. kept[t].at \in Nat /\ kept[t].nodes \in Graph
    BY <2>1 DEF Snapshots
  <2>. QED
    BY <2>1, <2>2, <2>3, LastTimeIs
<1>1. CASE ApplyHistory(t)
  <2>1. ModelTyped' /\ ClientTyped'
    BY <1>0, <1>1 DEF ApplyHistory, ModelTyped, clientVars, ClientTyped
  <2>2. ThreadsTyped' /\ holder' \in Threads \cup {NoThread}
    <3>1. CASE Done(t)
      BY <1>1, <3>1, DoneTyped DEF ApplyHistory
    <3>2. CASE Goto(t, "append") /\ UNCHANGED <<holder, capture, kept>>
      BY <1>1, <3>2 DEF ApplyHistory, Goto, ThreadsTyped, EngineTyped, Applying
    <3>. QED
      BY <1>1, <3>1, <3>2 DEF ApplyHistory
  <2>3. EngineTyped'
    BY <1>1, <2>2 DEF ApplyHistory, EngineTyped
  <2>. QED
    BY <2>1, <2>2, <2>3
<1>2. CASE AppendEvents(t)
  <2>1. ring' \in Seq(Event)
    BY <1>0, <1>2, AppendedKeeps DEF AppendEvents, ModelTyped
  <2>2. ModelTyped'
    BY <1>2, <2>1 DEF AppendEvents, ModelTyped
  <2>3. EngineTyped' /\ ClientTyped'
    BY <1>2 DEF AppendEvents, engineVars, clientVars, EngineTyped, ClientTyped
  <2>4. ThreadsTyped'
    BY <1>2 DEF AppendEvents, Goto, ThreadsTyped, Applying
  <2>. QED
    BY <2>2, <2>3, <2>4
<1>3. CASE PatchStore(t)
  <2>1. store' \in Graph
    BY <1>0, <1>3, PatchedByTyped DEF PatchStore, ModelTyped
  <2>2. ModelTyped'
    BY <1>3, <2>1 DEF PatchStore, ModelTyped
  <2>3. EngineTyped' /\ ClientTyped'
    BY <1>3 DEF PatchStore, engineVars, clientVars, EngineTyped, ClientTyped
  <2>4. ThreadsTyped'
    BY <1>3 DEF PatchStore, Goto, ThreadsTyped, Applying
  <2>. QED
    BY <2>2, <2>3, <2>4
<1>4. CASE StampHeader(t)
  <2>1. ModelTyped'
    BY <1>0, <1>4 DEF StampHeader, ModelTyped
  <2>2. EngineTyped' /\ ClientTyped'
    BY <1>4 DEF StampHeader, engineVars, clientVars, EngineTyped, ClientTyped
  <2>3. ThreadsTyped'
    BY <1>4 DEF StampHeader, Goto, ThreadsTyped, Applying
  <2>. QED
    BY <2>1, <2>2, <2>3
<1>5. CASE ReadStore(t)
  <2>1. kept' \in [Threads -> Snapshots]
    BY <1>5 DEF ReadStore, ThreadsTyped, Snapshots, ModelTyped
  <2>2. ThreadsTyped'
    BY <1>5, <2>1 DEF ReadStore, Goto, ThreadsTyped, Applying
  <2>3. EngineTyped' /\ ModelTyped' /\ ClientTyped'
    BY <1>5 DEF ReadStore, engineVars, modelVars, clientVars, EngineTyped, ModelTyped, ClientTyped
  <2>. QED
    BY <2>2, <2>3
<1>6. CASE ReadHeader(t)
  <2>1. kept' \in [Threads -> Snapshots]
    BY <1>6 DEF ReadHeader, ThreadsTyped, Snapshots, ModelTyped
  <2>2. ThreadsTyped'
    BY <1>6, <2>1 DEF ReadHeader, Goto, ThreadsTyped, Applying
  <2>3. EngineTyped' /\ ModelTyped' /\ ClientTyped'
    BY <1>6 DEF ReadHeader, engineVars, modelVars, clientVars, EngineTyped, ModelTyped, ClientTyped
  <2>. QED
    BY <2>2, <2>3
<1>7. CASE PublishCurrent(t)
  <2>1. ModelTyped'
    BY <1>0, <1>7 DEF PublishCurrent, ModelTyped
  <2>2. EngineTyped' /\ ClientTyped'
    BY <1>7 DEF PublishCurrent, engineVars, clientVars, EngineTyped, ClientTyped
  <2>3. ThreadsTyped'
    BY <1>7 DEF PublishCurrent, Goto, ThreadsTyped, Applying
  <2>. QED
    BY <2>1, <2>2, <2>3
<1>8. CASE BumpLatest(t)
  <2>1. latest' \in Nat
    BY <1>0, <1>8 DEF BumpLatest, MaxOf, ModelTyped
  <2>2. ModelTyped' /\ ClientTyped'
    BY <1>8, <2>1 DEF BumpLatest, ModelTyped, clientVars, ClientTyped
  <2>3. ThreadsTyped' /\ holder' \in Threads \cup {NoThread}
    BY <1>8, DoneTyped DEF BumpLatest
  <2>4. EngineTyped'
    BY <1>8, <2>3 DEF BumpLatest, EngineTyped
  <2>. QED
    BY <2>2, <2>3, <2>4
<1>. QED
  BY <1>1, <1>2, <1>3, <1>4, <1>5, <1>6, <1>7, <1>8 DEF ApplyStep

LEMMA RefreshTyped ==
    ASSUME FeedTypeOK, NEW t \in Threads, SwapEngine(t) \/ RefreshStep(t)
    PROVE  FeedTypeOK'
<1> USE DEF FeedTypeOK
<1>0. kept[t] \in Snapshots /\ kept[t].at \in Nat /\ kept[t].nodes \in Graph
  BY DEF ThreadsTyped, Snapshots
<1>1. CASE SwapEngine(t)
  <2>1. PICK stamp \in 1..2 :
          /\ log' = <<[time |-> stamp, kind |-> "resync", node |-> Gone, value |-> Gone]>>
          /\ clock' = stamp + 1
    BY <1>1 DEF SwapEngine
  <2>2. log' \in Seq(Event)
    BY <2>1 DEF Event, Kinds
  <2>3. EngineTyped'
    BY <1>1, <2>1, <2>2 DEF SwapEngine, EngineTyped
  <2>4. ModelTyped' /\ ClientTyped'
    BY <1>1 DEF SwapEngine, modelVars, clientVars, ModelTyped, ClientTyped
  <2>5. ThreadsTyped'
    BY <1>1 DEF SwapEngine, Goto, ThreadsTyped
  <2>. QED
    BY <2>3, <2>4, <2>5
<1>2. CASE EnterRefresh(t)
  <2>1. EngineTyped'
    BY <1>2 DEF EnterRefresh, EngineTyped
  <2>2. ModelTyped' /\ ClientTyped'
    BY <1>2 DEF EnterRefresh, modelVars, clientVars, ModelTyped, ClientTyped
  <2>3. kept' \in [Threads -> Snapshots]
    BY <1>2 DEF EnterRefresh, ThreadsTyped, EngineTyped, Snapshots
  <2>4. ThreadsTyped'
    BY <1>2, <2>3 DEF EnterRefresh, Goto, ThreadsTyped, Refreshing
  <2>. QED
    BY <2>1, <2>2, <2>4
<1>3. CASE RefreshStore(t) \/ RefreshHeader(t) \/ RefreshCurrent(t) \/ RefreshLatest(t)
  <2>1. LastTime(log) \in Nat
    BY LastTimeIs DEF EngineTyped
  <2>2. ModelTyped'
    BY <1>0, <1>3, <2>1 DEF RefreshStore, RefreshHeader, RefreshCurrent, RefreshLatest, ModelTyped, EngineTyped
  <2>3. EngineTyped' /\ ClientTyped'
    BY <1>3 DEF RefreshStore, RefreshHeader, RefreshCurrent, RefreshLatest, engineVars, clientVars, EngineTyped, ClientTyped
  <2>4. ThreadsTyped'
    BY <1>3 DEF RefreshStore, RefreshHeader, RefreshCurrent, RefreshLatest, Goto, ThreadsTyped, Refreshing
  <2>. QED
    BY <2>2, <2>3, <2>4
<1>4. CASE RefreshRing(t)
  <2>1. EngineTyped' /\ ClientTyped' /\ ModelTyped'
    BY <1>4 DEF RefreshRing, engineVars, clientVars, EngineTyped, ClientTyped, ModelTyped
  <2>2. capture' \in [Threads -> Captures] /\ kept' \in [Threads -> Snapshots]
    BY <1>4, CapturedTyped, SpentTyped DEF RefreshRing, ThreadsTyped
  <2>3. ThreadsTyped'
    BY <1>4, <2>2 DEF RefreshRing, Goto, ThreadsTyped, Applying
  <2>. QED
    BY <2>1, <2>3
<1>. QED
  BY <1>1, <1>2, <1>3, <1>4 DEF RefreshStep

LEMMA ClientStepTyped ==
    ASSUME FeedTypeOK, FetchNodes \/ FetchHeader \/ Subscribe \/ CheckCursor \/ Replay
    PROVE  FeedTypeOK'
<1> USE DEF FeedTypeOK
<1>1. ModelTyped' /\ EngineTyped' /\ ThreadsTyped'
  BY DEF FetchNodes, FetchHeader, Subscribe, CheckCursor, Replay, engineVars, modelVars, threadVars,
         EngineTyped, ModelTyped, ThreadsTyped
<1>2. ServerTime \in Nat
  BY DEF ServerTime, ModelTyped, Snapshots
<1>3. ASSUME NEW at \in Nat, Bounce(at) PROVE ClientTyped'
  BY <1>3 DEF Bounce, ClientTyped
<1>4. ASSUME FetchNodes \/ FetchHeader \/ Subscribe PROVE ClientTyped'
  <2>1. current.nodes \in Graph /\ header.at \in Nat /\ client.at \in Nat
    BY DEF ModelTyped, Snapshots, ClientTyped
  <2>2. CASE FetchNodes
    BY <2>1, <2>2 DEF FetchNodes, ClientTyped, NoTime
  <2>3. CASE FetchHeader
    BY <2>1, <2>3 DEF FetchHeader, ClientTyped
  <2>4. CASE Subscribe
    BY <2>1, <2>4 DEF Subscribe, ClientTyped
  <2>. QED
    BY <1>4, <2>2, <2>3, <2>4
<1>5. ASSUME CheckCursor PROVE ClientTyped'
  <2>1. Evicted => Head(ring).time \in Nat
    BY EventTyped, HeadTailProperties DEF Evicted, ModelTyped
  <2>2. NoTime \in Nat
    BY DEF NoTime
  <2>3. checked' = TRUE /\ UNCHANGED <<cursor, client>> => ClientTyped'
    BY DEF ClientTyped
  <2>. QED
    <3>1. CASE Ahead
      BY <1>3, <1>5, <2>2, <3>1 DEF CheckCursor
    <3>2. CASE ~Ahead /\ Evicted
      BY <1>3, <1>5, <2>1, <3>2 DEF CheckCursor
    <3>3. CASE ~Ahead /\ ~Evicted
      BY <1>5, <2>3, <3>3 DEF CheckCursor
    <3>. QED
      BY <3>1, <3>2, <3>3
<1>6. ASSUME Replay PROVE ClientTyped'
  <2>1. After(ring, cursor) \in Seq(Event)
    BY AfterKeeps DEF ModelTyped
  <2>2. ASSUME Deliver(After(ring, cursor)), checked' = FALSE PROVE ClientTyped'
    <3>1. PatchedBy(client.nodes, After(ring, cursor)) \in Graph
      BY <2>1, PatchedByTyped DEF ClientTyped
    <3>2. cursor' \in Nat
      BY <2>1, <2>2, LastTimeIs DEF Deliver, ClientTyped
    <3>3. client' \in [phase : {"away", "fetching", "fetched", "live", "bounced"}, nodes : Graph, at : Nat]
      BY <2>2, <3>1 DEF Deliver, ClientTyped
    <3>. QED
      BY <2>2, <3>2, <3>3 DEF ClientTyped
  <2>. QED
    BY <1>2, <1>3, <1>6, <2>2 DEF Replay
<1>. QED
  BY <1>1, <1>4, <1>5, <1>6

LEMMA FeedTypeStep == FeedTypeOK /\ [FeedNext]_feedVars => FeedTypeOK'
<1> SUFFICES ASSUME FeedTypeOK, [FeedNext]_feedVars PROVE FeedTypeOK'
  OBVIOUS
<1>1. CASE UNCHANGED feedVars
  BY <1>1 DEF feedVars, engineVars, modelVars, threadVars, clientVars, FeedTypeOK,
              EngineTyped, ModelTyped, ThreadsTyped, ClientTyped
<1>2. CASE FeedNext
  BY <1>2, EngineStepTyped, ApplyStepTyped, RefreshTyped, ClientStepTyped DEF FeedNext, ServerNext
<1>. QED
  BY <1>1, <1>2

-----------------------------------------------------------------------------
(* What captures do, whatever the ring holds.                              *)

OrderInv == LogInOrder /\ OneInside /\ EnteredAfter /\ CapturesInOrder /\ NothingTwice

FeedInv == OrderInv /\ NothingMissed

LEMMA LogTop ==
    ASSUME FeedTypeOK, LogInOrder
    PROVE  /\ \A e \in Elems(log) : e.time <= LastTime(log)
           /\ LastTime(log) \in Nat /\ LastTime(log) < clock
<1>1. log \in Seq(Event) /\ clock \in Nat \ {0} /\ Len(log) \in Nat
  BY LenProperties DEF FeedTypeOK, EngineTyped
<1>2. LastTime(log) \in Nat /\ LastTime(log) < clock
  BY <1>1, LastTimeIs DEF LogInOrder, Elems
<1>3. ASSUME NEW i \in 1..Len(log) PROVE log[i].time <= LastTime(log)
  <2>1. log # <<>> /\ log[i] \in Event
    BY <1>1, ElementOfSeq, EmptySeq
  <2>2. LastTime(log) = log[Len(log)].time /\ Len(log) \in 1..Len(log)
    BY <1>1, <2>1, LastTimeIs
  <2>3. log[i].time \in Nat
    BY <2>1, EventTyped
  <2>4. i < Len(log) \/ i = Len(log)
    BY <1>1
  <2>. QED
    BY <1>2, <2>2, <2>3, <2>4 DEF LogInOrder, Rising
<1>. QED
  BY <1>2, <1>3 DEF Elems

LEMMA CaptureTyped ==
    ASSUME FeedTypeOK, NEW t \in Threads
    PROVE  capture[t].events \in Seq(Event) /\ before[t] \in Nat
  BY DEF FeedTypeOK, ThreadsTyped, Captures

\* The stamps that have left the engine are numbers.
LEMMA OutTyped == ASSUME FeedTypeOK PROVE \A x : Out(x) => x \in Nat
<1>1. \A s \in Seq(Event) : Times(s) \subseteq Nat
  <2> SUFFICES ASSUME NEW s \in Seq(Event), NEW x \in Times(s) PROVE x \in Nat
    OBVIOUS
  <2>1. PICK i \in 1..Len(s) : x = s[i].time
    BY DEF Times
  <2>. QED
    BY <2>1, ElementOfSeq, EventTyped
<1>2. ring \in Seq(Event)
  BY DEF FeedTypeOK, ModelTyped
<1>. QED
  BY <1>1, <1>2, CaptureTyped DEF Out

LEMMA RisingIsDistinct == \A s \in Seq(Event) : Rising(s) => Distinct(s)
<1> SUFFICES ASSUME NEW s \in Seq(Event), Rising(s), NEW i \in 1..Len(s), NEW j \in 1..Len(s),
                    s[i].time = s[j].time
             PROVE  i = j
  BY DEF Distinct
<1>1. s[i].time \in Nat /\ s[j].time \in Nat
  BY ElementOfSeq, EventTyped
<1>2. ~(i < j) /\ ~(j < i)
  BY <1>1 DEF Rising
<1>. QED
  BY <1>2

LEMMA FeedInvInit == FeedInit => FeedInv
<1> SUFFICES ASSUME FeedInit PROVE FeedInv
  OBVIOUS
<1>1. Elems(<<>>) = {} /\ Rising(<<>>) /\ Distinct(<<>>) /\ Times(<<>>) = {} /\ Lasting(<<>>) = {}
  BY DEF Elems, Rising, Distinct, Times, Lasting
<1>2. log = <<>> /\ ring = <<>> /\ \A t \in Threads : pc[t] = "idle" /\ capture[t].events = <<>>
  BY DEF FeedInit, NoCapture
<1>3. \A t \in Threads : ~Carries(t) /\ ~Replaces(t) /\ pc[t] # "inside" /\ pc[t] \notin Refreshing
  BY <1>2 DEF Carries, Replaces, Refreshing
<1>4. LogInOrder /\ OneInside /\ EnteredAfter /\ CapturesInOrder
  BY <1>1, <1>2, <1>3 DEF LogInOrder, OneInside, EnteredAfter, CapturesInOrder
<1>5. NothingTwice
  BY <1>1, <1>2, <1>3 DEF NothingTwice, Out
<1>6. NothingMissed
  BY <1>1, <1>2 DEF NothingMissed
<1>. QED
  BY <1>4, <1>5, <1>6 DEF FeedInv, OrderInv

\* The engine is held by the thread inside it.
LEMMA OneInsideStep == ASSUME FeedTypeOK, OneInside, FeedNext PROVE OneInside'
<1> USE DEF OneInside
<1>0. pc \in [Threads -> {"idle", "inside", "swapped"} \cup Applying \cup Refreshing] /\ NoThread \notin Threads
  BY ThreadsAssumption DEF FeedTypeOK, ThreadsTyped
<1>1. ASSUME NEW t \in Threads, NEW w, w # "inside", w \notin Refreshing, pc' = [pc EXCEPT ![t] = w],
             holder' = holder \/ holder = t
      PROVE  OneInside'
  BY <1>0, <1>1
<1>2. ASSUME NEW t \in Threads, NEW w, pc' = [pc EXCEPT ![t] = w], holder' = t, holder = NoThread \/ holder = t
      PROVE  OneInside'
  BY <1>0, <1>2
<1>3. ASSUME NEW t \in Threads, Enter(t) \/ EnterRefresh(t) PROVE OneInside'
  BY <1>2, <1>3 DEF Enter, EnterRefresh, Goto
<1>4. ASSUME NEW t \in Threads, Emit(t) PROVE OneInside'
  BY <1>4 DEF Emit, threadVars
<1>5. ASSUME NEW t \in Threads, LeaveCritical(t) PROVE OneInside'
  BY <1>1, <1>5 DEF LeaveCritical, Refreshing
<1>6. ASSUME NEW t \in Threads, LeaveFailed(t) PROVE OneInside'
  BY <1>1, <1>6 DEF LeaveFailed, Refreshing
<1>7. ASSUME NEW t \in Threads, Done(t) PROVE OneInside'
  BY <1>1, <1>7 DEF Done, Goto, Refreshing
<1>8. ASSUME NEW t \in Threads, ApplyStep(t) PROVE OneInside'
  <2>1. CASE ApplyHistory(t)
    <3>1. CASE Goto(t, "append") /\ UNCHANGED <<holder, capture, kept>>
      BY <1>1, <3>1 DEF Goto, Refreshing
    <3>. QED
      BY <1>7, <2>1, <3>1 DEF ApplyHistory
  <2>2. CASE BumpLatest(t)
    BY <1>7, <2>2 DEF BumpLatest
  <2>3. CASE AppendEvents(t) \/ PatchStore(t) \/ StampHeader(t) \/ ReadStore(t) \/ ReadHeader(t) \/ PublishCurrent(t)
    <3>1. holder' = holder
      BY <2>3 DEF AppendEvents, PatchStore, StampHeader, ReadStore, ReadHeader, PublishCurrent, engineVars
    <3>2. \E w \in {"patch", "stamp", "latest", "nodes", "header", "publish"} : pc' = [pc EXCEPT ![t] = w]
      BY <2>3 DEF AppendEvents, PatchStore, StampHeader, ReadStore, ReadHeader, PublishCurrent, Goto
    <3>. QED
      BY <1>1, <3>1, <3>2 DEF Refreshing
  <2>. QED
    BY <1>8, <2>1, <2>2, <2>3 DEF ApplyStep
<1>9. ASSUME NEW t \in Threads, SwapEngine(t) PROVE OneInside'
  BY <1>1, <1>9 DEF SwapEngine, Goto, Refreshing
<1>10. ASSUME NEW t \in Threads,
              RefreshStore(t) \/ RefreshHeader(t) \/ RefreshCurrent(t) \/ RefreshLatest(t) \/ RefreshRing(t)
       PROVE  OneInside'
  <2>1. pc[t] \in Refreshing /\ holder' = holder
    BY <1>10 DEF RefreshStore, RefreshHeader, RefreshCurrent, RefreshLatest, RefreshRing, engineVars, Refreshing
  <2>2. \E w \in Refreshing \cup {"history"} : pc' = [pc EXCEPT ![t] = w]
    BY <1>10 DEF RefreshStore, RefreshHeader, RefreshCurrent, RefreshLatest, RefreshRing, Goto, Refreshing
  <2>. QED
    BY <1>2, <2>1, <2>2
<1>11. ASSUME FetchNodes \/ FetchHeader \/ Subscribe \/ CheckCursor \/ Replay PROVE OneInside'
  BY <1>11 DEF FetchNodes, FetchHeader, Subscribe, CheckCursor, Replay, engineVars, threadVars
<1> USE DEF FeedNext, ServerNext, RefreshStep
<1>. QED
  BY <1>3, <1>4, <1>5, <1>6, <1>8, <1>9, <1>10, <1>11

\* A step that moves no event keeps the invariant.
Unmoved ==
    /\ UNCHANGED <<clock, log, epoch, dropped, ring, before>>
    /\ \A u \in Threads :
        /\ (pc[u] = "inside")' <=> pc[u] = "inside"
        /\ Replaces(u)' <=> Replaces(u)
        /\ Carries(u)' => Carries(u)
        /\ Carries(u) => Carries(u)' \/ capture[u].events = <<>>
        /\ capture'[u].events = capture[u].events \/ (capture'[u].events = <<>> /\ ~Carries(u)')

LEMMA UnmovedKeeps == ASSUME FeedTypeOK, OneInside', OrderInv, Unmoved PROVE OrderInv' /\ (NothingMissed => NothingMissed')
<1> USE DEF OrderInv
<1>1. UNCHANGED <<clock, log, epoch, dropped, ring, before>>
  BY DEF Unmoved
<1>2. \A u \in Threads :
        /\ (pc[u] = "inside")' <=> pc[u] = "inside"
        /\ Replaces(u)' <=> Replaces(u)
        /\ Carries(u)' => Carries(u) /\ capture'[u].events = capture[u].events
        /\ Carries(u) => Carries(u)' \/ capture[u].events = <<>>
        /\ capture'[u].events = capture[u].events \/ capture'[u].events = <<>>
  BY DEF Unmoved
<1>3. LogInOrder' /\ EnteredAfter'
  BY <1>1, <1>2 DEF LogInOrder, EnteredAfter
<1>4. CapturesInOrder'
  <2>1. Rising(<<>>)
    BY DEF Rising
  <2>. QED
    BY <1>2, <2>1 DEF CapturesInOrder
<1>5. ASSUME NEW x, Out(x)' PROVE Out(x)
  BY <1>1, <1>2, <1>5 DEF Out
<1>6. NothingTwice'
  <2> SUFFICES ASSUME epoch' = 0 PROVE
        /\ \A t \in Threads : ~Replaces(t)'
        /\ Distinct(ring')
        /\ \A t \in Threads : Carries(t)' => Times(capture'[t].events) \cap Times(ring') = {}
        /\ \A t, u \in Threads : Carries(t)' /\ Carries(u)' /\ t # u =>
              Times(capture'[t].events) \cap Times(capture'[u].events) = {}
        /\ \A x \in Nat : Out(x)' => x <= LastTime(log')
        /\ \A t \in Threads, x \in Nat : pc'[t] = "inside" /\ Out(x)' => x <= before'[t]
    BY DEF NothingTwice
  <2>1. epoch = 0
    BY <1>1
  <2>2. \A t \in Threads : ~Replaces(t)'
    BY <1>2, <2>1 DEF NothingTwice
  <2>3. Distinct(ring') /\ \A t \in Threads : Carries(t)' => Times(capture'[t].events) \cap Times(ring') = {}
    BY <1>1, <1>2, <2>1 DEF NothingTwice
  <2>4. \A t, u \in Threads : Carries(t)' /\ Carries(u)' /\ t # u =>
           Times(capture'[t].events) \cap Times(capture'[u].events) = {}
    BY <1>2, <2>1 DEF NothingTwice
  <2>5. \A x \in Nat : Out(x)' => x <= LastTime(log')
    BY <1>1, <1>5, <2>1 DEF NothingTwice
  <2>6. \A t \in Threads, x \in Nat : pc'[t] = "inside" /\ Out(x)' => x <= before'[t]
    BY <1>1, <1>2, <1>5, <2>1 DEF NothingTwice
  <2>. QED
    BY <2>2, <2>3, <2>4, <2>5, <2>6
<1>7. ASSUME NothingMissed PROVE NothingMissed'
  <2>1. CASE \E t \in Threads : Replaces(t)
    BY <1>2, <2>1 DEF NothingMissed
  <2>2. CASE \A x \in Lasting(log) : Accounted(x)
    <3>1. ASSUME NEW x \in Lasting(log), Accounted(x) PROVE Accounted(x)'
      <4>1. CASE x \in Lasting(ring) \/ x \in dropped
        BY <1>1, <4>1 DEF Accounted
      <4>2. CASE \E t \in Threads : Carries(t) /\ x \in Lasting(capture[t].events)
        <5>1. PICK t \in Threads : Carries(t) /\ x \in Lasting(capture[t].events)
          BY <4>2
        <5>2. capture[t].events # <<>>
          BY <5>1 DEF Lasting, Elems
        <5>. QED
          BY <1>2, <5>1, <5>2 DEF Accounted
      <4>3. CASE \E t \in Threads : pc[t] = "inside" /\ before[t] < x
        BY <1>1, <1>2, <4>3 DEF Accounted
      <4>. QED
        BY <3>1, <4>1, <4>2, <4>3 DEF Accounted
    <3>. QED
      BY <1>1, <2>2, <3>1 DEF NothingMissed
  <2>. QED
    BY <1>7, <2>1, <2>2 DEF NothingMissed
<1>. QED
  BY <1>3, <1>4, <1>6, <1>7

LEMMA EnterKeeps ==
    ASSUME FeedTypeOK, OneInside', OrderInv, NEW t \in Threads, Enter(t)
    PROVE  OrderInv' /\ (NothingMissed => NothingMissed')
<1> USE DEF OrderInv
<1>0. /\ pc[t] = "idle" /\ UNCHANGED <<log, epoch, dropped, ring, capture>>
      /\ before' = [before EXCEPT ![t] = LastTime(log)] /\ pc' = [pc EXCEPT ![t] = "inside"]
      /\ clock' = clock \/ clock' = clock + 1
  BY DEF Enter, modelVars
<1>1. clock \in Nat /\ pc \in [Threads -> {"idle", "inside", "swapped"} \cup Applying \cup Refreshing]
      /\ before \in [Threads -> Nat]
  BY DEF FeedTypeOK, EngineTyped, ThreadsTyped
<1>2. /\ \A u \in Threads : (Carries(u)' <=> Carries(u)) /\ (Replaces(u)' <=> Replaces(u))
      /\ \A u \in Threads : u # t => pc'[u] = pc[u] /\ before'[u] = before[u]
      /\ pc'[t] = "inside" /\ before'[t] = LastTime(log)
  BY <1>0, <1>1 DEF Carries, Replaces, Refreshing
<1>3. LogInOrder'
  <2>1. \A e \in Elems(log) : e.time \in Nat
    BY ElementOfSeq, EventTyped DEF FeedTypeOK, EngineTyped, Elems
  <2>. QED
    BY <1>0, <1>1, <2>1 DEF LogInOrder
<1>4. EnteredAfter' /\ CapturesInOrder'
  <2>1. LastTime(log) <= LastTime(log)
    BY LogTop
  <2>. QED
    BY <1>0, <1>2, <2>1 DEF EnteredAfter, CapturesInOrder
<1>5. \A x : Out(x)' <=> Out(x)
  BY <1>0, <1>2 DEF Out
<1>6. NothingTwice'
  BY <1>0, <1>2, <1>5 DEF NothingTwice
<1>7. ASSUME NothingMissed PROVE NothingMissed'
  <2>1. ASSUME NEW x, Accounted(x) PROVE Accounted(x)'
    <3>1. \A u \in Threads : pc[u] = "inside" => u # t
      BY <1>0
    <3>. QED
      BY <1>0, <1>2, <2>1, <3>1 DEF Accounted
  <2>. QED
    BY <1>0, <1>2, <1>7, <2>1 DEF NothingMissed
<1>. QED
  BY <1>3, <1>4, <1>6, <1>7

LEMMA EmitKeeps ==
    ASSUME FeedTypeOK, OneInside', OrderInv, NEW t \in Threads, Emit(t)
    PROVE  OrderInv' /\ (NothingMissed => NothingMissed')
<1> USE DEF OrderInv
<1>0. /\ pc[t] = "inside" /\ UNCHANGED <<epoch, dropped, ring, capture, pc, before>> /\ clock' = clock + 1
  BY DEF Emit, modelVars, threadVars
<1>1. PICK change \in Differs : log' = Trim(Push(log, graph', Stamped(change)), LogCap)
  BY DEF Emit
<1> DEFINE e == Stamped(change)
           p == Push(log, graph', e)
<1>2. log \in Seq(Event) /\ clock \in Nat \ {0}
  BY DEF FeedTypeOK, EngineTyped
<1>3. e \in Event /\ e.time = clock
  BY <1>2, StampedTyped DEF Stamped
<1> HIDE DEF e
<1>4. \A d \in Elems(log) : d.time < e.time
  BY <1>3 DEF LogInOrder
<1>5. /\ p \in Seq(Event) /\ Len(p) \in 1..(Len(log) + 1) /\ p[Len(p)] = e
      /\ Elems(p) \subseteq Elems(log) \cup {e}
      /\ Rising(log) /\ (\A d \in Elems(log) : d.time < e.time) => Rising(p)
  BY <1>2, <1>3, PushKeeps
<1>6. log' = Trim(p, LogCap)
  BY <1>1 DEF e
<1> HIDE DEF p
<1>7. p # <<>>
  BY <1>5, EmptySeq
<1>8. /\ log' \in Seq(Event) /\ Thins(log', p) /\ log' # <<>> /\ log'[Len(log')] = e
  BY <1>5, <1>6, <1>7, TrimKeeps, ThreadsAssumption
<1>9. Elems(log') \subseteq Elems(log) \cup {e} /\ Rising(log')
  BY <1>4, <1>5, <1>8, ThinsKeeps DEF LogInOrder
<1>10. LastTime(log') = clock
  BY <1>3, <1>8, LastTimeIs
<1>11. LastTime(log) \in Nat /\ LastTime(log) < clock
  BY LogTop
<1>12. LogInOrder'
  <2>1. \A d \in Elems(log) : d.time \in Nat /\ 1 <= d.time /\ d.time < clock
    BY <1>2, ElementOfSeq, EventTyped DEF LogInOrder, Elems
  <2>2. \A d \in Elems(log') : 1 <= d.time /\ d.time < clock + 1
    BY <1>2, <1>3, <1>9, <2>1
  <2>. QED
    BY <1>0, <1>9, <2>2 DEF LogInOrder
<1>13. EnteredAfter' /\ CapturesInOrder'
  <2>1. ASSUME NEW u \in Threads, pc[u] = "inside" PROVE before[u] <= clock
    <3>1. before[u] \in Nat /\ before[u] <= LastTime(log)
      BY <2>1, CaptureTyped DEF EnteredAfter
    <3>. QED
      BY <1>2, <1>11, <3>1
  <2>. QED
    BY <1>0, <1>10, <2>1 DEF EnteredAfter, CapturesInOrder
<1>14. \A u \in Threads : (Carries(u)' <=> Carries(u)) /\ (Replaces(u)' <=> Replaces(u))
  BY <1>0 DEF Carries, Replaces
<1>15. \A x : Out(x)' <=> Out(x)
  BY <1>0, <1>14 DEF Out
<1>16. NothingTwice'
  <2> SUFFICES ASSUME epoch' = 0 PROVE
        /\ \A v \in Threads : ~Replaces(v)'
        /\ Distinct(ring')
        /\ \A v \in Threads : Carries(v)' => Times(capture'[v].events) \cap Times(ring') = {}
        /\ \A v, u \in Threads : Carries(v)' /\ Carries(u)' /\ v # u =>
              Times(capture'[v].events) \cap Times(capture'[u].events) = {}
        /\ \A x \in Nat : Out(x)' => x <= LastTime(log')
        /\ \A v \in Threads, x \in Nat : pc'[v] = "inside" /\ Out(x)' => x <= before'[v]
    BY DEF NothingTwice
  <2>1. \A x \in Nat : Out(x) => x <= clock
    <3>1. \A x \in Nat : Out(x) => x <= LastTime(log)
      BY <1>0 DEF NothingTwice
    <3>. QED
      BY <1>2, <1>11, <3>1
  <2>. QED
    BY <1>0, <1>10, <1>14, <1>15, <2>1 DEF NothingTwice
<1>17. ASSUME NothingMissed PROVE NothingMissed'
  <2>1. ASSUME NEW x, Accounted(x) PROVE Accounted(x)'
    BY <1>0, <1>14, <2>1 DEF Accounted
  <2>2. before[t] < clock
    <3>1. before[t] \in Nat /\ before[t] <= LastTime(log)
      BY <1>0, CaptureTyped DEF EnteredAfter
    <3>. QED
      BY <1>2, <1>11, <3>1
  <2>4. Lasting(log') \subseteq Lasting(log) \cup {clock}
    BY <1>3, <1>9 DEF Lasting
  <2>6. CASE \E u \in Threads : Replaces(u)
    BY <1>14, <2>6 DEF NothingMissed
  <2>7. CASE \A x \in Lasting(log) : Accounted(x)
    <3> HIDE DEF Accounted
    <3>1. ASSUME NEW x \in Lasting(log') PROVE Accounted(x)'
      <4>1. CASE x \in Lasting(log)
        BY <2>1, <2>7, <4>1
      <4>2. CASE x = clock
        BY <1>0, <2>2, <4>2 DEF Accounted
      <4>. QED
        BY <2>4, <3>1, <4>1, <4>2
    <3>. QED
      BY <3>1 DEF NothingMissed
  <2>. QED
    BY <1>17, <2>6, <2>7 DEF NothingMissed
<1>. QED
  BY <1>12, <1>13, <1>16, <1>17

LEMMA LeaveKeeps ==
    ASSUME FeedTypeOK, OneInside', OrderInv, NEW t \in Threads, LeaveCritical(t)
    PROVE  OrderInv' /\ (NothingMissed => NothingMissed')
<1> DEFINE es == After(log, before[t])
<1> USE DEF OrderInv
<1>0. /\ pc[t] = "inside" /\ UNCHANGED <<clock, log, epoch, dropped, ring>>
      /\ before' = [before EXCEPT ![t] = NoTime] /\ pc' = [pc EXCEPT ![t] = "history"]
      /\ capture' = [capture EXCEPT ![t] = Captured(before[t])] /\ holder' = NoThread
  BY DEF LeaveCritical, modelVars
<1>1. /\ pc \in [Threads -> {"idle", "inside", "swapped"} \cup Applying \cup Refreshing]
      /\ before \in [Threads -> Nat] /\ capture \in [Threads -> Captures] /\ log \in Seq(Event)
      /\ NoThread \notin Threads
  BY ThreadsAssumption DEF FeedTypeOK, EngineTyped, ThreadsTyped
<1>2. /\ es \in Seq(Event) /\ Elems(es) = {e \in Elems(log) : e.time > before[t]}
      /\ Rising(es)
  BY <1>1, AfterKeeps DEF LogInOrder
<1>3. capture'[t].events = es
  BY <1>0, <1>1 DEF Captured
<1> HIDE DEF es
<1>4. /\ \A u \in Threads : u # t => pc'[u] = pc[u] /\ before'[u] = before[u] /\ capture'[u] = capture[u]
      /\ pc'[t] = "history"
      /\ \A u \in Threads : (Replaces(u)' <=> Replaces(u)) /\ (u # t => (Carries(u)' <=> Carries(u)))
      /\ Carries(t)' /\ ~Carries(t)
  BY <1>0, <1>1 DEF Carries, Replaces, Refreshing
<1>5. \A u \in Threads : pc'[u] # "inside"
  BY <1>0, <1>1 DEF OneInside
<1>6. \A u \in Threads : u # t => pc[u] # "inside"
  BY <1>4, <1>5
<1>7. LogInOrder' /\ EnteredAfter' /\ CapturesInOrder'
  BY <1>0, <1>2, <1>3, <1>4, <1>5 DEF LogInOrder, EnteredAfter, CapturesInOrder
<1>8. \A x \in Times(es) : x \in Nat /\ before[t] < x /\ x <= LastTime(log)
  <2>1. \A e \in Elems(es) : e.time \in Nat /\ before[t] < e.time /\ e.time <= LastTime(log)
    <3>1. before[t] \in Nat /\ \A e \in Elems(log) : e.time \in Nat /\ e.time <= LastTime(log)
      BY <1>1, LogTop, ElementOfSeq, EventTyped DEF Elems
    <3>. QED
      BY <1>2, <3>1
  <2>. QED
    BY <2>1, TimesAre
<1>9. \A x : Out(x)' => Out(x) \/ x \in Times(es)
  BY <1>0, <1>3, <1>4 DEF Out
<1>10. NothingTwice'
  <2> SUFFICES ASSUME epoch' = 0 PROVE
        /\ \A v \in Threads : ~Replaces(v)'
        /\ Distinct(ring')
        /\ \A v \in Threads : Carries(v)' => Times(capture'[v].events) \cap Times(ring') = {}
        /\ \A v, u \in Threads : Carries(v)' /\ Carries(u)' /\ v # u =>
              Times(capture'[v].events) \cap Times(capture'[u].events) = {}
        /\ \A x \in Nat : Out(x)' => x <= LastTime(log')
        /\ \A v \in Threads, x \in Nat : pc'[v] = "inside" /\ Out(x)' => x <= before'[v]
    BY DEF NothingTwice
  <2>1. epoch = 0
    BY <1>0
  <2>2. \A x \in Nat : Out(x) => x <= before[t] /\ x <= LastTime(log)
    BY <1>0, <2>1 DEF NothingTwice
  <2>3. \A x : ~(Out(x) /\ x \in Times(es))
    <3>1. \A x \in Nat : ~(Out(x) /\ x \in Times(es))
      BY <1>1, <1>8, <2>2
    <3>. QED
      BY <1>8, <3>1
  <2>4. \A v \in Threads : Carries(v)' => Times(capture'[v].events) \cap Times(ring') = {}
    <3>1. Times(es) \cap Times(ring) = {}
      BY <2>3 DEF Out
    <3>. QED
      BY <1>0, <1>3, <1>4, <2>1, <3>1 DEF NothingTwice
  <2>5. \A v, u \in Threads : Carries(v)' /\ Carries(u)' /\ v # u =>
              Times(capture'[v].events) \cap Times(capture'[u].events) = {}
    <3>1. \A u \in Threads : Carries(u) => Times(es) \cap Times(capture[u].events) = {}
      BY <2>3 DEF Out
    <3>2. \A v, u \in Threads : Carries(v) /\ Carries(u) /\ v # u =>
              Times(capture[v].events) \cap Times(capture[u].events) = {}
      BY <2>1 DEF NothingTwice
    <3> SUFFICES ASSUME NEW v \in Threads, NEW u \in Threads, Carries(v)', Carries(u)', v # u
                 PROVE  Times(capture'[v].events) \cap Times(capture'[u].events) = {}
      OBVIOUS
    <3>3. CASE v = t
      BY <1>3, <1>4, <3>1, <3>3
    <3>4. CASE u = t
      BY <1>3, <1>4, <3>1, <3>4
    <3>5. CASE v # t /\ u # t
      BY <1>4, <3>2, <3>5
    <3>. QED
      BY <3>3, <3>4, <3>5
  <2>6. \A x \in Nat : Out(x)' => x <= LastTime(log')
    BY <1>0, <1>8, <1>9, <2>2
  <2>7. (\A v \in Threads : ~Replaces(v)') /\ Distinct(ring')
    BY <1>0, <1>4, <2>1 DEF NothingTwice
  <2>8. \A v \in Threads, x \in Nat : pc'[v] = "inside" /\ Out(x)' => x <= before'[v]
    BY <1>5
  <2>. QED
    BY <2>4, <2>5, <2>6, <2>7, <2>8
<1>11. ASSUME NothingMissed PROVE NothingMissed'
  <2>1. ASSUME NEW x \in Lasting(log), Accounted(x) PROVE Accounted(x)'
    <3>1. CASE x \in Lasting(ring) \/ x \in dropped
      BY <1>0, <3>1 DEF Accounted
    <3>2. CASE \E u \in Threads : Carries(u) /\ x \in Lasting(capture[u].events)
      BY <1>4, <3>2 DEF Accounted
    <3>3. CASE before[t] < x
      <4>1. PICK e \in Elems(log) : x = e.time /\ e.kind # "set"
        BY DEF Lasting
      <4>2. before[t] \in Nat /\ e.time \in Nat
        BY <1>1, ElementOfSeq, EventTyped DEF Elems
      <4>3. e \in Elems(es)
        BY <1>2, <3>3, <4>1, <4>2
      <4>4. x \in Lasting(capture'[t].events)
        BY <1>3, <4>1, <4>3 DEF Lasting
      <4>. QED
        BY <1>4, <4>4 DEF Accounted
    <3>. QED
      BY <1>6, <2>1, <3>1, <3>2, <3>3 DEF Accounted
  <2>. QED
    BY <1>0, <1>4, <1>11, <2>1 DEF NothingMissed
<1>. QED
  BY <1>7, <1>10, <1>11

LEMMA FailKeeps ==
    ASSUME FeedTypeOK, OneInside', OrderInv, NEW t \in Threads, LeaveFailed(t)
    PROVE  OrderInv' /\ (NothingMissed => NothingMissed')
<1> USE DEF OrderInv
<1>0. /\ pc[t] = "inside" /\ UNCHANGED <<clock, log, epoch, ring, capture>>
      /\ dropped' = dropped \cup Times(After(log, before[t]))
      /\ before' = [before EXCEPT ![t] = NoTime] /\ pc' = [pc EXCEPT ![t] = "idle"]
      /\ holder' = NoThread
  BY DEF LeaveFailed, modelVars
<1>1. /\ pc \in [Threads -> {"idle", "inside", "swapped"} \cup Applying \cup Refreshing]
      /\ before \in [Threads -> Nat] /\ log \in Seq(Event) /\ NoThread \notin Threads
  BY ThreadsAssumption DEF FeedTypeOK, EngineTyped, ThreadsTyped
<1>2. Elems(After(log, before[t])) = {e \in Elems(log) : e.time > before[t]}
  BY <1>1, AfterKeeps
<1>3. /\ \A u \in Threads : u # t => pc'[u] = pc[u] /\ before'[u] = before[u]
      /\ \A u \in Threads : (Replaces(u)' <=> Replaces(u)) /\ (Carries(u)' <=> Carries(u))
      /\ pc'[t] = "idle"
  BY <1>0, <1>1 DEF Carries, Replaces, Refreshing
<1>4. \A u \in Threads : pc'[u] # "inside"
  BY <1>0, <1>1 DEF OneInside
<1>5. \A u \in Threads : u # t => pc[u] # "inside"
  BY <1>3, <1>4
<1>6. LogInOrder' /\ EnteredAfter' /\ CapturesInOrder'
  BY <1>0, <1>4 DEF LogInOrder, EnteredAfter, CapturesInOrder
<1>7. \A x : Out(x)' <=> Out(x)
  BY <1>0, <1>3 DEF Out
<1>8. NothingTwice'
  BY <1>0, <1>3, <1>4, <1>7 DEF NothingTwice
<1>9. ASSUME NothingMissed PROVE NothingMissed'
  <2>1. ASSUME NEW x \in Lasting(log), Accounted(x) PROVE Accounted(x)'
    <3>1. CASE before[t] < x
      <4>1. PICK e \in Elems(log) : x = e.time
        BY DEF Lasting
      <4>2. before[t] \in Nat /\ e.time \in Nat
        BY <1>1, ElementOfSeq, EventTyped DEF Elems
      <4>3. x \in Times(After(log, before[t]))
        BY <1>2, <3>1, <4>1, <4>2, TimesAre
      <4>. QED
        BY <1>0, <4>3 DEF Accounted
    <3>2. CASE ~(before[t] < x)
      BY <1>0, <1>3, <1>5, <2>1, <3>2 DEF Accounted
    <3>. QED
      BY <3>1, <3>2
  <2>. QED
    BY <1>0, <1>3, <1>9, <2>1 DEF NothingMissed
<1>. QED
  BY <1>6, <1>8, <1>9

LEMMA AppendsKeeps ==
    ASSUME FeedTypeOK, OneInside', OrderInv, NEW t \in Threads, AppendEvents(t)
    PROVE  OrderInv' /\ (NothingMissed /\ CapturesFit => NothingMissed')
<1> DEFINE es == capture[t].events
<1> USE DEF OrderInv
<1>0. /\ pc[t] = "append" /\ UNCHANGED <<clock, log, epoch, dropped, capture, before>>
      /\ ring' = Appended(ring, es) /\ pc' = [pc EXCEPT ![t] = "patch"]
  BY DEF AppendEvents, engineVars, Goto
<1>1. /\ pc \in [Threads -> {"idle", "inside", "swapped"} \cup Applying \cup Refreshing]
      /\ ring \in Seq(Event) /\ es \in Seq(Event)
  BY CaptureTyped DEF FeedTypeOK, ModelTyped, ThreadsTyped
<1>2. /\ Elems(ring') \subseteq Elems(ring) \cup Elems(es)
      /\ Distinct(ring) /\ Distinct(es) /\ Times(ring) \cap Times(es) = {} => Distinct(ring')
      /\ Len(ring) + Len(es) <= RingCap =>
            \A e \in Elems(ring) \cup Elems(es) : e.kind # "set" => e \in Elems(ring')
  BY <1>0, <1>1, AppendedKeeps
<1>3. /\ \A u \in Threads : (Replaces(u)' <=> Replaces(u)) /\ ((pc[u] = "inside")' <=> pc[u] = "inside")
      /\ \A u \in Threads : (Carries(u)' <=> Carries(u) /\ u # t)
      /\ Carries(t)
  BY <1>0, <1>1 DEF Carries, Replaces, Refreshing
<1>4. LogInOrder' /\ EnteredAfter' /\ CapturesInOrder'
  BY <1>0, <1>3 DEF LogInOrder, EnteredAfter, CapturesInOrder
<1>5. Times(ring') \subseteq Times(ring) \cup Times(es)
  BY <1>2, TimesAre
<1>6. \A x : Out(x)' => Out(x)
  BY <1>0, <1>3, <1>5 DEF Out
<1>7. Distinct(es)
  BY <1>1, RisingIsDistinct DEF CapturesInOrder
<1>8. NothingTwice'
  <2> SUFFICES ASSUME epoch' = 0 PROVE
        /\ \A v \in Threads : ~Replaces(v)'
        /\ Distinct(ring')
        /\ \A v \in Threads : Carries(v)' => Times(capture'[v].events) \cap Times(ring') = {}
        /\ \A v, u \in Threads : Carries(v)' /\ Carries(u)' /\ v # u =>
              Times(capture'[v].events) \cap Times(capture'[u].events) = {}
        /\ \A x \in Nat : Out(x)' => x <= LastTime(log')
        /\ \A v \in Threads, x \in Nat : pc'[v] = "inside" /\ Out(x)' => x <= before'[v]
    BY DEF NothingTwice
  <2>1. epoch = 0
    BY <1>0
  <2>2. Distinct(ring')
    BY <1>2, <1>3, <1>7, <2>1 DEF NothingTwice
  <2>3. ASSUME NEW v \in Threads, Carries(v)' PROVE Times(capture'[v].events) \cap Times(ring') = {}
    <3>1. Carries(v) /\ v # t /\ capture'[v] = capture[v]
      BY <1>0, <1>3, <2>3
    <3>2. Times(capture[v].events) \cap Times(ring) = {} /\ Times(capture[v].events) \cap Times(es) = {}
      BY <1>3, <2>1, <3>1 DEF NothingTwice
    <3>. QED
      BY <1>5, <3>1, <3>2
  <2>4. \A v, u \in Threads : Carries(v)' /\ Carries(u)' /\ v # u =>
              Times(capture'[v].events) \cap Times(capture'[u].events) = {}
    BY <1>0, <1>3, <2>1 DEF NothingTwice
  <2>5. \A v \in Threads : ~Replaces(v)'
    BY <1>3, <2>1 DEF NothingTwice
  <2>6. \A x \in Nat : Out(x)' => x <= LastTime(log')
    BY <1>0, <1>6, <2>1 DEF NothingTwice
  <2>7. \A v \in Threads, x \in Nat : pc'[v] = "inside" /\ Out(x)' => x <= before'[v]
    BY <1>0, <1>3, <1>6, <2>1 DEF NothingTwice
  <2>. QED
    BY <2>2, <2>3, <2>4, <2>5, <2>6, <2>7
<1>9. ASSUME NothingMissed, CapturesFit PROVE NothingMissed'
  <2>1. \A e \in Elems(ring) \cup Elems(es) : e.kind # "set" => e \in Elems(ring')
    BY <1>0, <1>2, <1>9 DEF CapturesFit
  <2>2. Lasting(ring) \cup Lasting(es) \subseteq Lasting(ring')
    BY <2>1 DEF Lasting
  <2>3. ASSUME NEW x, Accounted(x) PROVE Accounted(x)'
    <3>1. CASE x \in Lasting(ring) \cup Lasting(es) \/ x \in dropped
      BY <1>0, <2>2, <3>1 DEF Accounted
    <3>2. CASE \E u \in Threads : Carries(u) /\ u # t /\ x \in Lasting(capture[u].events)
      BY <1>0, <1>3, <3>2 DEF Accounted
    <3>3. CASE \E u \in Threads : pc[u] = "inside" /\ before[u] < x
      BY <1>0, <1>3, <3>3 DEF Accounted
    <3>. QED
      BY <2>3, <3>1, <3>2, <3>3 DEF Accounted
  <2>. QED
    BY <1>0, <1>3, <1>9, <2>3 DEF NothingMissed
<1>. QED
  BY <1>4, <1>8, <1>9

LEMMA SwapKeepsFeed ==
    ASSUME FeedTypeOK, OneInside', OrderInv, NEW t \in Threads, SwapEngine(t)
    PROVE  OrderInv' /\ NothingMissed'
<1> USE DEF OrderInv
<1>0. /\ holder = NoThread /\ pc[t] = "idle" /\ epoch' = 1 /\ UNCHANGED <<holder, ring, capture, before>>
      /\ pc' = [pc EXCEPT ![t] = "swapped"]
  BY DEF SwapEngine, modelVars, Goto
<1>1. PICK stamp \in 1..2 :
        /\ log' = <<[time |-> stamp, kind |-> "resync", node |-> Gone, value |-> Gone]>>
        /\ clock' = stamp + 1
  BY DEF SwapEngine
<1>2. pc \in [Threads -> {"idle", "inside", "swapped"} \cup Applying \cup Refreshing] /\ NoThread \notin Threads
  BY ThreadsAssumption DEF FeedTypeOK, ThreadsTyped
<1>3. \A u \in Threads : pc'[u] # "inside"
  BY <1>0, <1>2 DEF OneInside
<1>4. LogInOrder'
  <2>1. Len(log') = 1 /\ log'[1].time = stamp
    BY <1>1
  <2>2. Rising(log')
    BY <2>1 DEF Rising
  <2>3. Elems(log') = {log'[1]}
    BY <2>1 DEF Elems
  <2>. QED
    BY <1>1, <2>1, <2>2, <2>3 DEF LogInOrder
<1>5. EnteredAfter' /\ CapturesInOrder' /\ NothingTwice'
  BY <1>0, <1>3 DEF EnteredAfter, CapturesInOrder, NothingTwice
<1>6. NothingMissed'
  BY <1>0, <1>2 DEF NothingMissed, Replaces
<1>. QED
  BY <1>4, <1>5, <1>6

LEMMA RefreshRingKeeps ==
    ASSUME FeedTypeOK, OneInside', OrderInv, NEW t \in Threads, RefreshRing(t)
    PROVE  OrderInv' /\ NothingMissed'
<1> USE DEF OrderInv
<1>0. /\ pc[t] = "r.ring" /\ UNCHANGED <<clock, log, epoch, dropped, before>>
      /\ capture' = [capture EXCEPT ![t] = Captured(NoTime)] /\ pc' = [pc EXCEPT ![t] = "history"]
  BY DEF RefreshRing, engineVars, Goto
<1>1. /\ pc \in [Threads -> {"idle", "inside", "swapped"} \cup Applying \cup Refreshing]
      /\ capture \in [Threads -> Captures] /\ log \in Seq(Event)
  BY DEF FeedTypeOK, EngineTyped, ThreadsTyped
<1>2. /\ Elems(After(log, NoTime)) = {e \in Elems(log) : e.time > NoTime}
      /\ Rising(After(log, NoTime))
  BY <1>1, AfterKeeps DEF LogInOrder
<1>3. capture'[t].events = After(log, NoTime) /\ \A u \in Threads : u # t => capture'[u] = capture[u]
  BY <1>0, <1>1 DEF Captured
<1>4. Replaces(t) /\ Carries(t)' /\ \A u \in Threads : (pc[u] = "inside")' => pc[u] = "inside"
  BY <1>0, <1>1 DEF Replaces, Refreshing, Carries
<1>5. LogInOrder' /\ EnteredAfter' /\ CapturesInOrder'
  BY <1>0, <1>2, <1>3, <1>4 DEF LogInOrder, EnteredAfter, CapturesInOrder
<1>6. NothingTwice'
  BY <1>0, <1>4 DEF NothingTwice
<1>7. NothingMissed'
  <2>1. Elems(log) \subseteq Elems(After(log, NoTime))
    <3>1. \A e \in Elems(log) : e.time \in Nat /\ 1 <= e.time
      BY <1>1, ElementOfSeq, EventTyped DEF LogInOrder, Elems
    <3>2. \A e \in Elems(log) : e.time > NoTime
      BY <3>1 DEF NoTime
    <3>. QED
      BY <1>2, <3>2
  <2>2. Lasting(log) \subseteq Lasting(capture'[t].events)
    BY <1>3, <2>1 DEF Lasting
  <2>. QED
    BY <1>0, <1>4, <2>2 DEF NothingMissed, Accounted
<1>. QED
  BY <1>5, <1>6, <1>7

\* Every other step moves no event.
LEMMA DoneUnmoved ==
    ASSUME FeedTypeOK, NEW t \in Threads, Done(t), pc[t] = "latest" \/ (pc[t] = "history" /\ capture[t].events = <<>>),
           UNCHANGED <<clock, log, epoch, dropped, ring, before>>
    PROVE  Unmoved
<1>1. /\ pc \in [Threads -> {"idle", "inside", "swapped"} \cup Applying \cup Refreshing]
      /\ capture \in [Threads -> Captures]
  BY DEF FeedTypeOK, ThreadsTyped
<1>2. /\ \A u \in Threads : u # t => pc'[u] = pc[u] /\ capture'[u] = capture[u]
      /\ pc'[t] = "idle" /\ capture'[t].events = <<>>
  BY <1>1 DEF Done, Goto, NoCapture
<1>3. ASSUME NEW u \in Threads
      PROVE  /\ (pc[u] = "inside")' <=> pc[u] = "inside"
             /\ Replaces(u)' <=> Replaces(u)
             /\ Carries(u)' => Carries(u)
             /\ Carries(u) => Carries(u)' \/ capture[u].events = <<>>
             /\ capture'[u].events = capture[u].events \/ (capture'[u].events = <<>> /\ ~Carries(u)')
  <2>1. CASE u # t
    BY <1>2, <2>1 DEF Replaces, Carries
  <2>2. CASE u = t
    BY <1>2, <2>2 DEF Replaces, Carries, Refreshing
  <2>. QED
    BY <2>1, <2>2
<1>. QED
  BY <1>3 DEF Unmoved

\* A thread goes from one place to another of the same sort.
LEMMA GotoUnmoved ==
    ASSUME FeedTypeOK, NEW t \in Threads, NEW w, pc' = [pc EXCEPT ![t] = w],
           UNCHANGED <<clock, log, epoch, dropped, ring, before, capture>>,
           \/ pc[t] = "history" /\ w = "append"
           \/ /\ pc[t] \in {"patch", "stamp", "nodes", "header", "publish"}
              /\ w \in {"stamp", "nodes", "header", "publish", "latest"}
           \/ pc[t] \in {"swapped"} \cup Refreshing /\ w \in Refreshing
    PROVE  Unmoved
<1>1. pc \in [Threads -> {"idle", "inside", "swapped"} \cup Applying \cup Refreshing]
  BY DEF FeedTypeOK, ThreadsTyped
<1>2. (\A u \in Threads : u # t => pc'[u] = pc[u]) /\ pc'[t] = w
  BY <1>1
<1>3. ASSUME NEW u \in Threads
      PROVE  /\ (pc[u] = "inside")' <=> pc[u] = "inside"
             /\ Replaces(u)' <=> Replaces(u)
             /\ Carries(u)' <=> Carries(u)
  <2>1. CASE u # t
    BY <1>2, <2>1 DEF Replaces, Carries
  <2>2. CASE u = t
    BY <1>2, <2>2 DEF Replaces, Carries, Refreshing
  <2>. QED
    BY <2>1, <2>2
<1>. QED
  BY <1>3 DEF Unmoved

LEMMA ApplyKeeps ==
    ASSUME FeedTypeOK, OneInside', OrderInv, NEW t \in Threads, ApplyStep(t)
    PROVE  OrderInv' /\ (NothingMissed /\ CapturesFit => NothingMissed')
<1>1. CASE AppendEvents(t)
  BY <1>1, AppendsKeeps
<1>2. ASSUME ApplyHistory(t) PROVE Unmoved
  <2>1. CASE capture[t].events = <<>>
    BY <1>2, <2>1, DoneUnmoved DEF ApplyHistory
  <2>2. CASE capture[t].events # <<>>
    BY <1>2, <2>2, GotoUnmoved DEF ApplyHistory, Goto
  <2>. QED
    BY <2>1, <2>2
<1>3. ASSUME BumpLatest(t) PROVE Unmoved
  BY <1>3, DoneUnmoved DEF BumpLatest
<1>4. ASSUME PatchStore(t) \/ StampHeader(t) \/ ReadStore(t) \/ ReadHeader(t) \/ PublishCurrent(t)
      PROVE  Unmoved
  <2>1. /\ UNCHANGED <<clock, log, epoch, dropped, ring, before, capture>>
        /\ pc[t] \in {"patch", "stamp", "nodes", "header", "publish"}
    BY <1>4 DEF PatchStore, StampHeader, ReadStore, ReadHeader, PublishCurrent, engineVars, modelVars
  <2>2. \E w \in {"stamp", "nodes", "header", "publish", "latest"} : pc' = [pc EXCEPT ![t] = w]
    BY <1>4 DEF PatchStore, StampHeader, ReadStore, ReadHeader, PublishCurrent, Goto
  <2>. QED
    BY <2>1, <2>2, GotoUnmoved
<1>. QED
  BY <1>1, <1>2, <1>3, <1>4, UnmovedKeeps DEF ApplyStep

LEMMA RefreshKeeps ==
    ASSUME FeedTypeOK, OneInside', OrderInv, NEW t \in Threads, RefreshStep(t)
    PROVE  OrderInv' /\ (NothingMissed => NothingMissed')
<1>1. CASE RefreshRing(t)
  BY <1>1, RefreshRingKeeps
<1>2. ASSUME EnterRefresh(t) \/ RefreshStore(t) \/ RefreshHeader(t) \/ RefreshCurrent(t) \/ RefreshLatest(t)
      PROVE  Unmoved
  <2>1. /\ UNCHANGED <<clock, log, epoch, dropped, ring, before, capture>>
        /\ pc[t] \in {"swapped"} \cup Refreshing
    BY <1>2 DEF EnterRefresh, RefreshStore, RefreshHeader, RefreshCurrent, RefreshLatest, engineVars, modelVars, Refreshing
  <2>2. \E w \in Refreshing : pc' = [pc EXCEPT ![t] = w]
    BY <1>2 DEF EnterRefresh, RefreshStore, RefreshHeader, RefreshCurrent, RefreshLatest, Goto, Refreshing
  <2>. QED
    BY <2>1, <2>2, GotoUnmoved
<1>. QED
  BY <1>1, <1>2, UnmovedKeeps DEF RefreshStep

LEMMA FeedInvStep ==
    ASSUME FeedTypeOK, OrderInv, [FeedNext]_feedVars
    PROVE  OrderInv' /\ (NothingMissed /\ CapturesFit => NothingMissed')
<1>1. OneInside'
  <2>1. UNCHANGED feedVars => OneInside'
    BY DEF feedVars, engineVars, threadVars, OneInside, OrderInv
  <2>. QED
    BY <2>1, OneInsideStep DEF OrderInv
<1>2. ASSUME UNCHANGED <<engineVars, modelVars, threadVars>> PROVE Unmoved
  BY <1>2 DEF Unmoved, engineVars, modelVars, threadVars, Replaces, Carries
<1>3. CASE UNCHANGED feedVars
  BY <1>1, <1>2, <1>3, UnmovedKeeps DEF feedVars
<1>4. CASE FetchNodes \/ FetchHeader \/ Subscribe \/ CheckCursor \/ Replay
  BY <1>1, <1>2, <1>4, UnmovedKeeps DEF FetchNodes, FetchHeader, Subscribe, CheckCursor, Replay,
     engineVars, modelVars, threadVars
<1>5. ASSUME NEW t \in Threads,
             Enter(t) \/ Emit(t) \/ LeaveCritical(t) \/ LeaveFailed(t) \/ ApplyStep(t) \/ SwapEngine(t) \/ RefreshStep(t)
      PROVE  OrderInv' /\ (NothingMissed /\ CapturesFit => NothingMissed')
  BY <1>1, <1>5, EnterKeeps, EmitKeeps, LeaveKeeps, FailKeeps, ApplyKeeps, SwapKeepsFeed, RefreshKeeps
<1>. QED
  BY <1>3, <1>4, <1>5 DEF FeedNext, ServerNext

LEMMA AccountedIsPublished == ASSUME FeedTypeOK, FeedInv PROVE PublishedOnce
<1>1. ASSUME Quiet, NEW i \in 1..Len(log), log[i].kind # "set" PROVE log[i].time \in Times(ring) \cup dropped
  <2>1. \A t \in Threads : ~Replaces(t) /\ ~Carries(t) /\ pc[t] # "inside"
    BY <1>1 DEF Quiet, Replaces, Carries, Refreshing
  <2>2. log[i].time \in Lasting(log)
    BY <1>1 DEF Lasting, Elems
  <2>3. log[i].time \in Lasting(ring) \cup dropped
    BY <2>1, <2>2 DEF FeedInv, NothingMissed, Accounted
  <2>. QED
    BY <2>3, TimesAre DEF Lasting
<1>2. epoch = 0 => Distinct(ring)
  BY DEF FeedInv, OrderInv, NothingTwice
<1>. QED
  BY <1>1, <1>2 DEF PublishedOnce, Distinct

-----------------------------------------------------------------------------
\* The read model's state has its type.
THEOREM FeedTyped == FeedSpec => []FeedTypeOK
  BY FeedTypeInit, FeedTypeStep, PTL DEF FeedSpec

\* No event of a project is published twice, however many threads publish and
\* however small the ring is.
THEOREM NeverPublishedTwice == FeedSpec => [](epoch = 0 => Distinct(ring))
<1>1. FeedInit => OrderInv
  BY FeedInvInit DEF FeedInv
<1>2. FeedTypeOK /\ OrderInv /\ [FeedNext]_feedVars => OrderInv'
  BY FeedInvStep
<1>3. OrderInv => (epoch = 0 => Distinct(ring))
  BY DEF OrderInv, NothingTwice
<1>. QED
  BY <1>1, <1>2, <1>3, FeedTyped, PTL DEF FeedSpec

\* As long as the captures fit into the ring, every lasting event is in it once
\* nothing is under way.
THEOREM PublishedOnceCorrect == FeedSpec /\ []CapturesFit => []PublishedOnce
<1>1. FeedInit => FeedInv
  BY FeedInvInit
<1>2. FeedTypeOK /\ CapturesFit /\ FeedInv /\ [FeedNext]_feedVars => FeedInv'
  BY FeedInvStep DEF FeedInv
<1>3. FeedTypeOK /\ FeedInv => PublishedOnce
  BY AccountedIsPublished
<1>. QED
  BY <1>1, <1>2, <1>3, FeedTyped, PTL DEF FeedSpec

\* Different stamps of one project fit into a ring with room for all of them.
LEMMA StampsFit ==
    ASSUME NEW r \in Seq(Event), NEW es \in Seq(Event), NEW top \in Nat,
           Distinct(r), Distinct(es), Times(r) \cap Times(es) = {}, Times(r) \cup Times(es) \subseteq 0..top
    PROVE  Len(r) + Len(es) <= top + 1
<1> DEFINE m == Len(r)
           n == Len(es)
           f == [i \in 1..(m + n) |-> IF i <= m THEN r[i].time ELSE es[i - m].time]
<1>1. m \in Nat /\ n \in Nat
  BY LenProperties
<1>2. ASSUME NEW i \in 1..(m + n) PROVE IF i <= m THEN i \in 1..m ELSE i - m \in 1..n
  BY <1>1
<1>3. \A i \in 1..(m + n) : IF i <= m THEN f[i] = r[i].time /\ f[i] \in Times(r)
                            ELSE f[i] = es[i - m].time /\ f[i] \in Times(es)
  BY <1>2 DEF Times
<1>4. f \in [1..(m + n) -> 0..top]
  BY <1>3
<1> HIDE DEF f, m, n
<1>5. ASSUME NEW i \in 1..(m + n), NEW j \in 1..(m + n), f[i] = f[j] PROVE i = j
  <2>1. CASE i <= m /\ j <= m
    <3>1. i \in 1..Len(r) /\ j \in 1..Len(r) /\ r[i].time = r[j].time
      <4>1. f[i] = r[i].time /\ f[j] = r[j].time
        BY <1>3, <2>1
      <4>. QED
        BY <1>2, <1>5, <2>1, <4>1 DEF m
    <3>. QED
      BY <3>1 DEF Distinct
  <2>2. CASE ~(i <= m) /\ ~(j <= m)
    <3>1. i - m \in 1..Len(es) /\ j - m \in 1..Len(es) /\ es[i - m].time = es[j - m].time
      <4>1. f[i] = es[i - m].time /\ f[j] = es[j - m].time
        BY <1>3, <2>2
      <4>. QED
        BY <1>2, <1>5, <2>2, <4>1 DEF n
    <3>2. i - m = j - m
      BY <3>1 DEF Distinct
    <3>3. i \in Int /\ j \in Int
      OBVIOUS
    <3>. QED
      BY <1>1, <3>2, <3>3
  <2>3. ~(i <= m /\ ~(j <= m)) /\ ~(~(i <= m) /\ j <= m)
    <3>1. (i <= m => f[i] \in Times(r)) /\ (~(i <= m) => f[i] \in Times(es))
      BY <1>3
    <3>2. (j <= m => f[j] \in Times(r)) /\ (~(j <= m) => f[j] \in Times(es))
      BY <1>3
    <3>. QED
      BY <1>5, <3>1, <3>2
  <2>. QED
    BY <2>1, <2>2, <2>3
<1>6. /\ IsFiniteSet(1..(m + n)) /\ Cardinality(1..(m + n)) = m + n
      /\ IsFiniteSet(0..top) /\ Cardinality(0..top) = top + 1
  <2>1. 1 \in Int /\ 0 \in Int /\ m + n \in Int /\ top \in Int
    BY <1>1
  <2>2. IsFiniteSet(1..(m + n)) /\ Cardinality(1..(m + n)) = IF 1 > m + n THEN 0 ELSE (m + n) - 1 + 1
    BY <2>1, FS_Interval, Zenon
  <2>3. IsFiniteSet(0..top) /\ Cardinality(0..top) = IF 0 > top THEN 0 ELSE top - 0 + 1
    BY <2>1, FS_Interval, Zenon
  <2>4. (IF 1 > m + n THEN 0 ELSE (m + n) - 1 + 1) = m + n /\ (IF 0 > top THEN 0 ELSE top - 0 + 1) = top + 1
    BY <1>1
  <2>. QED
    BY <2>2, <2>3, <2>4
<1>7. ~(Cardinality(0..top) < Cardinality(1..(m + n)))
  <2> SUFFICES ASSUME Cardinality(0..top) < Cardinality(1..(m + n)) PROVE FALSE
    OBVIOUS
  <2> DEFINE S == 1..(m + n)
             T == 0..top
  <2>1. IsFiniteSet(S) /\ IsFiniteSet(T) /\ Cardinality(T) < Cardinality(S) /\ f \in [S -> T]
    BY <1>4, <1>6
  <2> HIDE DEF S, T
  <2>2. \E x, y \in S : x # y /\ f[x] = f[y]
    BY <2>1, FS_PigeonHole
  <2>. QED
    BY <1>5, <2>2 DEF S
<1>. QED
  BY <1>1, <1>6, <1>7 DEF m, n

\* While one project is open the clock stays within its bound.
OneProjectClock == epoch = 0 /\ clock <= MaxTime + 1

LEMMA OneProjectStep ==
    ASSUME Loaders = {}, FeedTypeOK, OneProjectClock, [FeedNext]_feedVars
    PROVE  OneProjectClock'
<1>1. clock \in Nat /\ MaxTime \in Nat /\ epoch = 0 /\ clock <= MaxTime + 1
  BY ThreadsAssumption DEF FeedTypeOK, EngineTyped, OneProjectClock
<1>2. ASSUME UNCHANGED <<clock, epoch>> PROVE OneProjectClock'
  BY <1>1, <1>2 DEF OneProjectClock
<1>3. ASSUME NEW t \in Threads, Enter(t) \/ Emit(t) PROVE OneProjectClock'
  <2>1. epoch' = epoch /\ (clock' = clock \/ (clock < MaxTime /\ clock' = clock + 1))
    BY <1>3 DEF Enter, Emit
  <2>. QED
    BY <1>1, <2>1 DEF OneProjectClock
<1>4. ASSUME NEW t \in Threads, LeaveCritical(t) \/ LeaveFailed(t) PROVE OneProjectClock'
  BY <1>2, <1>4 DEF LeaveCritical, LeaveFailed
<1>5. ASSUME NEW t \in Threads, ApplyStep(t) PROVE OneProjectClock'
  BY <1>2, <1>5 DEF ApplyStep, ApplyHistory, AppendEvents, PatchStore, StampHeader, ReadStore, ReadHeader,
     PublishCurrent, BumpLatest, engineVars
<1>6. \A t \in Threads : ~SwapEngine(t)
  BY DEF SwapEngine
<1>7. ASSUME NEW t \in Threads, RefreshStep(t) PROVE OneProjectClock'
  BY <1>2, <1>7 DEF RefreshStep, EnterRefresh, RefreshStore, RefreshHeader, RefreshCurrent, RefreshLatest,
     RefreshRing, engineVars
<1>8. ASSUME FetchNodes \/ FetchHeader \/ Subscribe \/ CheckCursor \/ Replay PROVE OneProjectClock'
  BY <1>2, <1>8 DEF FetchNodes, FetchHeader, Subscribe, CheckCursor, Replay, engineVars
<1>9. UNCHANGED feedVars => OneProjectClock'
  BY <1>2 DEF feedVars, engineVars
<1>. QED
  BY <1>3, <1>4, <1>5, <1>6, <1>7, <1>8, <1>9 DEF FeedNext, ServerNext

\* With one project and a ring that has room for its stamps, every capture fits.
THEOREM RoomForOneProject == ASSUME Loaders = {}, RingCap > MaxTime PROVE FeedSpec => []CapturesFit
<1>1. FeedInit => OneProjectClock
  BY ThreadsAssumption DEF FeedInit, OneProjectClock
<1>2. FeedTypeOK /\ OneProjectClock /\ [FeedNext]_feedVars => OneProjectClock'
  BY OneProjectStep
<1>3. ASSUME FeedTypeOK, OrderInv, OneProjectClock PROVE CapturesFit
  <2> SUFFICES ASSUME NEW t \in Threads, pc[t] = "append"
               PROVE  Len(ring) + Len(capture[t].events) <= RingCap
    BY DEF CapturesFit
  <2> DEFINE es == capture[t].events
  <2>1. ring \in Seq(Event) /\ es \in Seq(Event) /\ clock \in Nat
    BY <1>3, CaptureTyped DEF FeedTypeOK, ModelTyped, EngineTyped
  <2>2. epoch = 0 /\ Carries(t)
    BY <1>3 DEF OneProjectClock, Carries
  <2>3. LastTime(log) \in Nat /\ LastTime(log) < clock /\ clock <= MaxTime + 1 /\ MaxTime \in Nat /\ RingCap \in Nat
    BY <1>3, LogTop, ThreadsAssumption DEF OrderInv, OneProjectClock
  <2>4. \A x : Out(x) => x \in 0..MaxTime
    <3>1. \A x : Out(x) => x \in Nat /\ x <= LastTime(log)
      BY <1>3, <2>2, OutTyped DEF OrderInv, NothingTwice
    <3>. QED
      BY <2>1, <2>3, <3>1
  <2>5. Times(ring) \cup Times(es) \subseteq 0..MaxTime
    BY <2>2, <2>4 DEF Out
  <2>6. Distinct(ring) /\ Times(es) \cap Times(ring) = {}
    BY <1>3, <2>2 DEF OrderInv, NothingTwice
  <2>7. Distinct(es)
    BY <1>3, <2>1, RisingIsDistinct DEF OrderInv, CapturesInOrder
  <2> HIDE DEF es
  <2>8. Len(ring) + Len(es) <= MaxTime + 1
    BY <2>1, <2>3, <2>5, <2>6, <2>7, StampsFit
  <2>9. Len(ring) \in Nat /\ Len(es) \in Nat
    BY <2>1, LenProperties
  <2>. QED
    BY <2>3, <2>8, <2>9 DEF es
<1>4. FeedInit => OrderInv
  BY FeedInvInit DEF FeedInv
<1>5. FeedTypeOK /\ OrderInv /\ [FeedNext]_feedVars => OrderInv'
  BY FeedInvStep
<1>. QED
  BY <1>1, <1>2, <1>3, <1>4, <1>5, FeedTyped, PTL DEF FeedSpec

\* The head of the feed only moves back where a project is replaced.
THEOREM HeadOnlyAdvancesCorrect == FeedSpec => HeadOnlyAdvances
<1>1. ASSUME FeedTypeOK, [FeedNext]_feedVars
      PROVE  [latest' < latest => \E t \in Threads : pc[t] = "r.latest"]_latest
  <2> SUFFICES ASSUME latest' < latest, latest' # latest PROVE \E t \in Threads : pc[t] = "r.latest"
    OBVIOUS
  <2>1. ASSUME NEW t \in Threads, BumpLatest(t) PROVE FALSE
    <3>1. latest \in Nat /\ kept[t].at \in Nat /\ LastTime(capture[t].events) \in Nat
      BY <1>1, CaptureTyped, LastTimeIs DEF FeedTypeOK, ModelTyped, ThreadsTyped, Snapshots
    <3>. QED
      BY <2>1, <3>1 DEF BumpLatest, MaxOf
  <2>2. ASSUME NEW t \in Threads, Enter(t) \/ Emit(t) \/ LeaveCritical(t) \/ LeaveFailed(t) \/ SwapEngine(t)
        PROVE  FALSE
    BY <2>2 DEF Enter, Emit, LeaveCritical, LeaveFailed, SwapEngine, modelVars
  <2>3. ASSUME NEW t \in Threads, ApplyStep(t) PROVE FALSE
    BY <2>1, <2>3 DEF ApplyStep, ApplyHistory, AppendEvents, PatchStore, StampHeader, ReadStore, ReadHeader,
       PublishCurrent, modelVars
  <2>4. ASSUME NEW t \in Threads, RefreshStep(t) PROVE pc[t] = "r.latest"
    BY <2>4 DEF RefreshStep, EnterRefresh, RefreshStore, RefreshHeader, RefreshCurrent, RefreshLatest, RefreshRing, modelVars
  <2>5. ~(FetchNodes \/ FetchHeader \/ Subscribe \/ CheckCursor \/ Replay)
    BY DEF FetchNodes, FetchHeader, Subscribe, CheckCursor, Replay, modelVars
  <2>6. ~UNCHANGED feedVars
    BY DEF feedVars, modelVars
  <2>. QED
    BY <1>1, <2>2, <2>3, <2>4, <2>5, <2>6 DEF FeedNext, ServerNext
<1>. QED
  BY <1>1, FeedTyped, PTL DEF FeedSpec, HeadOnlyAdvances

-----------------------------------------------------------------------------
(* One thread.  Superseding a value changes nothing for a graph that         *)
(* follows the events, so the store follows the engine.                     *)

\* Replaying one event more.
LEMMA PatchedByAppend ==
    ASSUME NEW g \in Graph, NEW es \in Seq(Event), NEW e \in Event
    PROVE  PatchedBy(g, Append(es, e)) = Patched(PatchedBy(g, es), e)
<1> DEFINE n == Len(es)
           a == Append(es, e)
<1>1. /\ n \in Nat /\ a \in Seq(Event) /\ Len(a) = n + 1 /\ a[n + 1] = e
      /\ \A i \in 1..n : a[i] = es[i]
  BY AppendProperties, LenProperties
<1>2. PICK c : /\ c[0] = g /\ PatchedBy(g, es) = c[n]
               /\ \A k \in 1..n : c[k] = Patched(c[k - 1], es[k])
  BY PatchedByIs
<1> HIDE DEF n, a
<1>3. PICK d : /\ d[0] = g /\ PatchedBy(g, a) = d[n + 1]
               /\ \A k \in 1..(n + 1) : d[k] = Patched(d[k - 1], a[k])
  BY <1>1, PatchedByIs
<1> DEFINE T == {k \in Nat : k <= n => d[k] = c[k]}
<1>4. 0 \in T
  BY <1>2, <1>3
<1>5. ASSUME NEW k \in Nat, k \in T PROVE k + 1 \in T
  <2> SUFFICES ASSUME k + 1 <= n PROVE d[k + 1] = c[k + 1]
    OBVIOUS
  <2>1. k + 1 \in 1..n /\ k + 1 \in 1..(n + 1) /\ (k + 1) - 1 = k /\ d[k] = c[k]
    BY <1>1, <1>5
  <2>. QED
    BY <1>1, <1>2, <1>3, <2>1
<1>6. n \in T
  <2> HIDE DEF T
  <2>. QED
    BY <1>1, <1>4, <1>5, NatSetInduction
<1>7. d[n] = c[n] /\ n + 1 \in 1..(n + 1) /\ (n + 1) - 1 = n
  BY <1>1, <1>6
<1>8. d[n + 1] = Patched(d[n], e)
  BY <1>1, <1>3, <1>7
<1>. QED
  BY <1>2, <1>3, <1>7, <1>8 DEF a

\* c replays the events of s after a stamp, one by one.
Replays(c, g, s, since) ==
    /\ \A k \in 0..Len(s) : c[k] \in Graph
    /\ c[0] = g
    /\ \A k \in 1..Len(s) : c[k] = IF s[k].time > since THEN Patched(c[k - 1], s[k]) ELSE c[k - 1]

LEMMA ReplayIs ==
    ASSUME NEW g \in Graph, NEW s \in Seq(Event), NEW since
    PROVE  \E c : Replays(c, g, s, since) /\ PatchedBy(g, After(s, since)) = c[Len(s)]
<1> DEFINE n == Len(s)
<1>1. PICK h : /\ \A k \in 0..n : h[k] \in Seq(Event)
               /\ h[0] = <<>> /\ After(s, since) = h[n]
               /\ \A k \in 1..n : h[k] = IF s[k].time > since THEN Append(h[k - 1], s[k]) ELSE h[k - 1]
  BY AfterIs
<1>2. n \in Nat /\ \A k \in 1..n : s[k] \in Event
  BY LenProperties, ElementOfSeq
<1> DEFINE c == [k \in 0..n |-> PatchedBy(g, h[k])]
<1>3. \A k \in 0..n : c[k] \in Graph
  BY <1>1, PatchedByTyped
<1>4. c[0] = g
  <2>1. PatchedBy(g, <<>>) = g
    <3>1. ASSUME NEW es \in Seq(Event), Len(es) = 0 PROVE PatchedBy(g, es) = g
      <4>1. PICK d : d[0] = g /\ PatchedBy(g, es) = d[Len(es)]
        BY PatchedByIs
      <4>. QED
        BY <3>1, <4>1
    <3>2. <<>> \in Seq(Event) /\ Len(<<>>) = 0
      OBVIOUS
    <3>. QED
      BY <3>1, <3>2
  <2>. QED
    BY <1>1, <1>2, <2>1
<1>5. ASSUME NEW k \in 1..n PROVE c[k] = IF s[k].time > since THEN Patched(c[k - 1], s[k]) ELSE c[k - 1]
  <2>1. k \in 0..n /\ k - 1 \in 0..n
    BY <1>2
  <2>2. c[k] = PatchedBy(g, h[k]) /\ c[k - 1] = PatchedBy(g, h[k - 1])
    BY <2>1
  <2>3. h[k - 1] \in Seq(Event) /\ s[k] \in Event
    BY <1>1, <1>2, <2>1
  <2> HIDE DEF c
  <2>. QED
    BY <1>1, <2>2, <2>3, PatchedByAppend
<1>6. After(s, since) = h[n] /\ n \in 0..n
  BY <1>1, <1>2
<1>7. PatchedBy(g, After(s, since)) = c[n]
  BY <1>6
<1> HIDE DEF c
<1>. QED
  BY <1>3, <1>4, <1>5, <1>7 DEF Replays

\* Two graphs that differ at most in the value of one node that both have.
Agree(g1, g2, node) ==
    \A n \in Nodes : IF n = node THEN g1[n] = Gone <=> g2[n] = Gone ELSE g1[n] = g2[n]

IsSet(e) == e.kind = "set" /\ e.value \in Values

KnownValues(s) == \A i \in 1..Len(s) : s[i].kind = "set" => IsSet(s[i])

LEMMA SetAgrees ==
    ASSUME NEW g \in Graph, NEW e \in Event, IsSet(e) PROVE Agree(g, Patched(g, e), e.node)
<1>1. e.value # Gone
  BY GoneIsNoNode DEF IsSet
<1>. QED
  BY <1>1 DEF Agree, Patched, IsSet

LEMMA SetKeepsAgreement ==
    ASSUME NEW g1 \in Graph, NEW g2 \in Graph, NEW e \in Event, e.kind = "set", NEW node, e.node # node, Agree(g1, g2, node)
    PROVE  Agree(Patched(g1, e), Patched(g2, e), node)
  BY DEF Agree, Patched

LEMMA SetSettles ==
    ASSUME NEW g1 \in Graph, NEW g2 \in Graph, NEW e \in Event, e.kind = "set", Agree(g1, g2, e.node)
    PROVE  Patched(g1, e) = Patched(g2, e)
  BY DEF Agree, Patched

LEMMA AgreeWithItself == \A g, node : Agree(g, g, node)
  BY DEF Agree

\* After takes sequences event by event.
LEMMA AfterAppend ==
    ASSUME NEW s \in Seq(Event), NEW e \in Event, NEW since
    PROVE  After(Append(s, e), since) = IF e.time > since THEN Append(After(s, since), e) ELSE After(s, since)
<1> DEFINE n == Len(s)
           a == Append(s, e)
<1>1. /\ n \in Nat /\ a \in Seq(Event) /\ Len(a) = n + 1 /\ a[n + 1] = e
      /\ \A i \in 1..n : a[i] = s[i]
  BY AppendProperties, LenProperties
<1>2. PICK h : /\ h[0] = <<>> /\ After(s, since) = h[n]
               /\ \A k \in 1..n : h[k] = IF s[k].time > since THEN Append(h[k - 1], s[k]) ELSE h[k - 1]
  BY AfterIs
<1> HIDE DEF n, a
<1>b. a \in Seq(Event)
  BY <1>1
<1>a. PICK j : /\ \A k \in 0..Len(a) : j[k] \in Seq(Event)
               /\ j[0] = <<>> /\ After(a, since) = j[Len(a)]
               /\ \A k \in 1..Len(a) : j[k] = IF a[k].time > since THEN Append(j[k - 1], a[k]) ELSE j[k - 1]
  BY <1>b, AfterIs
<1>3. /\ j[0] = <<>> /\ After(a, since) = j[n + 1]
      /\ \A k \in 1..(n + 1) : j[k] = IF a[k].time > since THEN Append(j[k - 1], a[k]) ELSE j[k - 1]
  BY <1>1, <1>a
<1> DEFINE T == {k \in Nat : k <= n => h[k] = j[k]}
<1>4. 0 \in T
  BY <1>2, <1>3
<1>5. ASSUME NEW k \in Nat, k \in T PROVE k + 1 \in T
  <2> SUFFICES ASSUME k + 1 <= n PROVE h[k + 1] = j[k + 1]
    OBVIOUS
  <2>1. k + 1 \in 1..n /\ k + 1 \in 1..(n + 1) /\ (k + 1) - 1 = k /\ h[k] = j[k]
    BY <1>1, <1>5
  <2>2. h[k + 1] = IF s[k + 1].time > since THEN Append(h[k], s[k + 1]) ELSE h[k]
    BY <1>2, <2>1
  <2>3. j[k + 1] = IF a[k + 1].time > since THEN Append(j[k], a[k + 1]) ELSE j[k]
    BY <1>3, <2>1
  <2>4. a[k + 1] = s[k + 1]
    BY <1>1, <2>1
  <2>. QED
    BY <2>1, <2>2, <2>3, <2>4
<1>6. n \in T
  <2> HIDE DEF T
  <2>. QED
    BY <1>1, <1>4, <1>5, NatSetInduction
<1>7. h[n] = j[n] /\ n + 1 \in 1..(n + 1) /\ (n + 1) - 1 = n
  BY <1>1, <1>6
<1>8. j[n + 1] = IF a[n + 1].time > since THEN Append(j[n], a[n + 1]) ELSE j[n]
  BY <1>3, <1>7
<1>9. j[n + 1] = IF e.time > since THEN Append(j[n], e) ELSE j[n]
  BY <1>1, <1>8
<1>10. After(a, since) = IF e.time > since THEN Append(After(s, since), e) ELSE After(s, since)
  BY <1>2, <1>3, <1>7, <1>9
<1>. QED
  BY <1>10 DEF a

\* Leaving out a value of a node that only values of other nodes follow.
LEMMA RemoveReplay ==
    ASSUME NEW g \in Graph, NEW s \in Seq(Event), NEW i \in 1..Len(s), NEW since,
           \A j \in i..Len(s) : IsSet(s[j]),
           \A j \in (i + 1)..Len(s) : s[j].node # s[i].node
    PROVE  Agree(PatchedBy(g, After(RemoveAt(s, i), since)), PatchedBy(g, After(s, since)), s[i].node)
<1> DEFINE n == Len(s)
           r == RemoveAt(s, i)
           node == s[i].node
<1>1. n \in Nat /\ i \in Nat /\ 1 <= i /\ i <= n /\ \A k \in 1..n : s[k] \in Event
  BY LenProperties, ElementOfSeq
<1>2. /\ r \in Seq(Event) /\ Len(r) = n - 1
      /\ \A k \in 1..(n - 1) : r[k] = IF k < i THEN s[k] ELSE s[k + 1]
  BY RemoveAtKeeps
<1> HIDE DEF r
<1>3. PICK c : Replays(c, g, s, since) /\ PatchedBy(g, After(s, since)) = c[n]
  BY ReplayIs
<1>4. PICK d : Replays(d, g, r, since) /\ PatchedBy(g, After(r, since)) = d[n - 1]
  <2>1. PICK d : Replays(d, g, r, since) /\ PatchedBy(g, After(r, since)) = d[Len(r)]
    BY <1>2, ReplayIs
  <2>. QED
    BY <1>2, <2>1
<1>5. /\ \A k \in 0..n : c[k] \in Graph
      /\ c[0] = g
      /\ \A k \in 1..n : c[k] = IF s[k].time > since THEN Patched(c[k - 1], s[k]) ELSE c[k - 1]
  BY <1>3 DEF Replays
<1>6. /\ \A k \in 0..(n - 1) : d[k] \in Graph
      /\ d[0] = g
      /\ \A k \in 1..(n - 1) : d[k] = IF r[k].time > since THEN Patched(d[k - 1], r[k]) ELSE d[k - 1]
  BY <1>2, <1>4 DEF Replays
<1>7. /\ \A k \in i..n : IsSet(s[k])
      /\ \A k \in (i + 1)..n : s[k].node # node
  OBVIOUS
<1> HIDE DEF n, node
<1> DEFINE T == {k \in Nat : k <= n => IF k < i THEN d[k] = c[k] ELSE Agree(d[k - 1], c[k], node)}
<1>8. 0 \in T
  BY <1>1, <1>5, <1>6
<1>9. ASSUME NEW k \in Nat, k \in T PROVE k + 1 \in T
  <2> SUFFICES ASSUME k + 1 <= n
               PROVE  IF k + 1 < i THEN d[k + 1] = c[k + 1] ELSE Agree(d[(k + 1) - 1], c[k + 1], node)
    OBVIOUS
  <2>1. k + 1 \in 1..n /\ (k + 1) - 1 = k /\ k \in 0..n
    BY <1>1
  <2>2. c[k + 1] = IF s[k + 1].time > since THEN Patched(c[k], s[k + 1]) ELSE c[k]
    BY <1>5, <2>1
  <2>3. c[k] \in Graph /\ s[k + 1] \in Event
    BY <1>1, <1>5, <2>1
  <2>4. CASE k + 1 < i
    <3>1. k + 1 \in 1..(n - 1) /\ k < i /\ d[k] = c[k]
      BY <1>1, <1>9, <2>1, <2>4
    <3>2. d[k + 1] = IF r[k + 1].time > since THEN Patched(d[k], r[k + 1]) ELSE d[k]
      BY <1>6, <2>1, <3>1
    <3>3. r[k + 1] = s[k + 1]
      BY <1>2, <2>4, <3>1
    <3>. QED
      BY <2>2, <2>4, <3>1, <3>2, <3>3
  <2>5. CASE k + 1 = i
    <3>1. k < i /\ d[k] = c[k]
      BY <1>1, <1>9, <2>1, <2>5
    <3>2. IsSet(s[k + 1]) /\ s[k + 1].node = node
      <4>1. i \in i..n
        BY <1>1
      <4>. QED
        BY <1>7, <2>5, <4>1 DEF node
    <3>3. Agree(c[k], Patched(c[k], s[k + 1]), node)
      BY <2>3, <3>2, SetAgrees
    <3>4. Agree(d[k], c[k + 1], node)
      BY <2>2, <3>1, <3>3, AgreeWithItself
    <3>5. ~(k + 1 < i)
      BY <1>1, <2>5
    <3>. QED
      BY <2>1, <3>4, <3>5
  <2>6. CASE i < k + 1
    <3>1. ~(k < i) /\ Agree(d[k - 1], c[k], node)
      BY <1>1, <1>9, <2>1, <2>6
    <3>2. k \in 1..(n - 1) /\ k - 1 \in 0..(n - 1) /\ ~(k < i) /\ k + 1 \in i..n /\ k + 1 \in (i + 1)..n
      BY <1>1, <2>1, <2>6
    <3>3. r[k] = s[k + 1]
      BY <1>2, <3>2
    <3>4. d[k] = IF s[k + 1].time > since THEN Patched(d[k - 1], s[k + 1]) ELSE d[k - 1]
      BY <1>6, <3>2, <3>3
    <3>5. d[k - 1] \in Graph
      BY <1>6, <3>2
    <3>6. s[k + 1].kind = "set" /\ s[k + 1].node # node
      BY <1>7, <3>2 DEF IsSet
    <3>7. Agree(Patched(d[k - 1], s[k + 1]), Patched(c[k], s[k + 1]), node)
      BY <2>3, <3>1, <3>5, <3>6, SetKeepsAgreement
    <3>8. Agree(d[k], c[k + 1], node)
      BY <2>2, <3>1, <3>4, <3>7
    <3>9. ~(k + 1 < i)
      BY <1>1, <2>6
    <3>. QED
      BY <2>1, <3>8, <3>9
  <2>. QED
    BY <1>1, <2>4, <2>5, <2>6
<1>10. n \in T
  <2> HIDE DEF T
  <2>. QED
    BY <1>1, <1>8, <1>9, NatSetInduction
<1>11. Agree(d[n - 1], c[n], node)
  BY <1>1, <1>10
<1>. QED
  BY <1>3, <1>4, <1>11 DEF r, node

\* A pushed event acts on a graph that follows the events as if nothing had
\* been superseded.
LEMMA PushReplay ==
    ASSUME NEW g \in Graph, NEW s \in Seq(Event), NEW h, NEW e \in Event, NEW since, e.time > since, KnownValues(s)
    PROVE  PatchedBy(g, After(Push(s, h, e), since)) = Patched(PatchedBy(g, After(s, since)), e)
<1> DEFINE old == Superseded(s, h, e)
           last == CHOOSE i \in old : \A j \in old : j <= i
<1>1. ASSUME NEW r \in Seq(Event)
      PROVE  PatchedBy(g, After(Append(r, e), since)) = Patched(PatchedBy(g, After(r, since)), e)
  <2>1. After(r, since) \in Seq(Event)
    BY AfterKeeps
  <2>2. After(Append(r, e), since) = Append(After(r, since), e)
    BY AfterAppend
  <2>. QED
    BY <2>1, <2>2, PatchedByAppend
<1>2. CASE ~(Coalescable(e, h) /\ old # {})
  <2>1. Push(s, h, e) = Append(s, e)
    BY <1>2 DEF Push
  <2>. QED
    BY <1>1, <2>1
<1>3. CASE Coalescable(e, h) /\ old # {}
  <2>0. Len(s) \in Nat
    BY LenProperties
  <2>1. old \subseteq 1..Len(s)
    BY DEF Superseded
  <2>2. last \in old /\ \A j \in old : j <= last
    BY <1>3, <2>0, <2>1, GreatestIs
  <2>3. Push(s, h, e) = Append(RemoveAt(s, last), e)
    BY <1>3 DEF Push
  <2> HIDE DEF last
  <2>4. last \in 1..Len(s) /\ s[last].node = e.node /\ \A j \in last..Len(s) : Coalescable(s[j], h)
    BY <2>2 DEF Superseded
  <2>5. \A j \in last..Len(s) : IsSet(s[j])
    <3>1. \A j \in last..Len(s) : j \in 1..Len(s) /\ s[j].kind = "set"
      BY <2>0, <2>4 DEF Coalescable
    <3>. QED
      BY <3>1 DEF KnownValues
  <2>6. ASSUME NEW j \in (last + 1)..Len(s), s[j].node = s[last].node PROVE FALSE
    <3>1. j \in 1..Len(s) /\ last < j /\ \A k \in j..Len(s) : k \in last..Len(s)
      BY <2>0, <2>4
    <3>2. j \in old
      BY <2>4, <2>6, <3>1 DEF Superseded
    <3>3. j <= last
      BY <2>2, <3>2
    <3>. QED
      BY <2>0, <2>4, <3>1, <3>3
  <2>7. Agree(PatchedBy(g, After(RemoveAt(s, last), since)), PatchedBy(g, After(s, since)), e.node)
    BY <2>4, <2>5, <2>6, RemoveReplay
  <2>8. /\ RemoveAt(s, last) \in Seq(Event)
        /\ PatchedBy(g, After(RemoveAt(s, last), since)) \in Graph /\ PatchedBy(g, After(s, since)) \in Graph
    BY <2>4, RemoveAtKeeps, AfterKeeps, PatchedByTyped
  <2>9. e.kind = "set"
    BY <1>3 DEF Coalescable
  <2>10. Patched(PatchedBy(g, After(RemoveAt(s, last), since)), e) = Patched(PatchedBy(g, After(s, since)), e)
    BY <2>7, <2>8, <2>9, SetSettles
  <2>. QED
    BY <1>1, <2>3, <2>8, <2>10
<1>. QED
  BY <1>2, <1>3

\* One runtime loop, one project, and a log with room for the project's stamps.
OneLoop == Threads = {Tick} /\ Failing = {} /\ Loaders = {} /\ LogCap > MaxTime

\* What the loop still has to apply brings the store to the graph.
StoreLagsBehind ==
    \A t \in Threads :
        /\ pc[t] \in {"idle", "stamp", "nodes", "header", "publish", "latest"} => store = graph
        /\ pc[t] = "inside" => PatchedBy(store, After(log, before[t])) = graph
        /\ pc[t] \in {"history", "append", "patch"} => PatchedBy(store, capture[t].events) = graph

LEMMA PatchedByNone == ASSUME NEW g \in Graph, NEW es \in Seq(Event), Elems(es) = {} PROVE PatchedBy(g, es) = g
<1>1. Len(es) = 0
  <2>1. Len(es) \in Nat
    BY LenProperties
  <2>2. ~(1 \in 1..Len(es))
    BY DEF Elems
  <2>. QED
    BY <2>1, <2>2
<1>2. PICK d : d[0] = g /\ PatchedBy(g, es) = d[Len(es)]
  BY PatchedByIs
<1>. QED
  BY <1>1, <1>2

\* In a log that never fills, an event is pushed and nothing is forgotten.
LEMMA EmitIs ==
    ASSUME LogCap > MaxTime, FeedTypeOK, LogInOrder, OneProjectClock, NEW t \in Threads, Emit(t)
    PROVE  \E e \in Event :
              /\ e.time = clock /\ (e.kind = "set" => IsSet(e))
              /\ graph' = Patched(graph, e) /\ log' = Push(log, graph', e)
<1>1. PICK change \in Differs :
        graph' = Patched(graph, change) /\ log' = Trim(Push(log, graph', Stamped(change)), LogCap)
  BY DEF Emit
<1> DEFINE e == Stamped(change)
           p == Push(log, graph', e)
<1>2. /\ log \in Seq(Event) /\ clock \in Nat /\ clock < MaxTime
      /\ MaxTime \in Nat /\ LogCap \in Nat \ {0} /\ MaxTime < LogCap
  BY ThreadsAssumption DEF FeedTypeOK, EngineTyped, Emit
<1>3. e \in Event /\ e.time = clock
  BY <1>2, StampedTyped DEF Stamped
<1>4. e.kind = "set" => IsSet(e)
  <2>1. change.kind = "set" => change.value \in Values
    BY DEF Differs
  <2>. QED
    BY <2>1 DEF Stamped, IsSet
<1>5. graph' = Patched(graph, e)
  <2>1. Patched(graph, change) = Patched(graph, Stamped(change))
    BY DEF Patched, Stamped
  <2>. QED
    BY <1>1, <2>1
<1> HIDE DEF e
<1>6. \A d \in Elems(log) : d.time < e.time
  BY <1>3 DEF LogInOrder
<1>7. p \in Seq(Event) /\ Elems(p) \subseteq Elems(log) \cup {e} /\ Rising(p)
  BY <1>2, <1>3, <1>6, PushKeeps DEF LogInOrder
<1>8. log' = Trim(p, LogCap)
  BY <1>1 DEF e
<1> HIDE DEF p
<1>9. Len(p) <= MaxTime + 1
  <2>1. Times(p) \subseteq 0..MaxTime
    <3>1. \A d \in Elems(log) : d.time \in Nat /\ d.time < clock
      BY <1>2, ElementOfSeq, EventTyped DEF LogInOrder, Elems
    <3>2. \A d \in Elems(p) : d.time \in 0..MaxTime
      BY <1>2, <1>3, <1>7, <3>1
    <3>. QED
      BY <3>2, TimesAre
  <2>2. Distinct(p)
    BY <1>7, RisingIsDistinct
  <2> DEFINE none == <<>>
  <2>3. none \in Seq(Event) /\ Len(none) = 0 /\ Distinct(none) /\ Times(none) = {}
    BY DEF Distinct, Times
  <2> HIDE DEF none
  <2>4. Times(p) \cap Times(none) = {} /\ Times(p) \cup Times(none) \subseteq 0..MaxTime
    BY <2>1, <2>3
  <2>5. Len(p) + Len(none) <= MaxTime + 1
    BY <1>2, <1>7, <2>2, <2>3, <2>4, StampsFit
  <2>. QED
    BY <1>7, <2>3, <2>5, LenProperties
<1>10. log' = p
  <2>1. Len(p) <= LogCap
    BY <1>2, <1>7, <1>9, LenProperties
  <2>. QED
    BY <1>2, <1>7, <1>8, <2>1, TrimKeeps
<1>. QED
  BY <1>3, <1>4, <1>5, <1>10 DEF p

FollowInv == KnownValues(log) /\ StoreLagsBehind

LEMMA FollowInit == FeedInit => FollowInv
<1> SUFFICES ASSUME FeedInit PROVE FollowInv
  OBVIOUS
<1>1. Len(log) = 0 /\ store = graph /\ \A t \in Threads : pc[t] = "idle"
  BY DEF FeedInit
<1>. QED
  BY <1>1 DEF FollowInv, KnownValues, StoreLagsBehind

LEMMA FollowStep ==
    ASSUME OneLoop, FeedTypeOK, OrderInv, OneProjectClock, FollowInv, [FeedNext]_feedVars
    PROVE  FollowInv'
<1> USE DEF FollowInv
<1>0. /\ pc \in [Threads -> {"idle", "inside", "swapped"} \cup Applying \cup Refreshing]
      /\ before \in [Threads -> Nat] /\ capture \in [Threads -> Captures]
      /\ log \in Seq(Event) /\ store \in Graph /\ graph \in Graph
  BY DEF FeedTypeOK, EngineTyped, ModelTyped, ThreadsTyped
<1>1. \A t \in Threads : t = Tick
  BY DEF OneLoop
<1>2. \A t \in Threads : ~Replaces(t)
  BY DEF OneProjectClock, OrderInv, NothingTwice
<1>3. ASSUME UNCHANGED <<log, graph, store, pc, before, capture>> PROVE FollowInv'
  BY <1>3 DEF KnownValues, StoreLagsBehind
<1>4. ASSUME NEW t \in Threads, Enter(t) PROVE FollowInv'
  <2>1. /\ pc[t] = "idle" /\ UNCHANGED <<log, graph, store, capture>>
        /\ before' = [before EXCEPT ![t] = LastTime(log)] /\ pc' = [pc EXCEPT ![t] = "inside"]
    BY <1>4 DEF Enter, modelVars
  <2>2. store = graph /\ pc'[t] = "inside" /\ before'[t] = LastTime(log)
    BY <1>0, <2>1 DEF StoreLagsBehind
  <2>3. PatchedBy(store, After(log, LastTime(log))) = store
    <3>1. \A e \in Elems(log) : ~(e.time > LastTime(log))
      <4>1. \A e \in Elems(log) : e.time \in Nat /\ e.time <= LastTime(log) /\ LastTime(log) \in Nat
        BY <1>0, LogTop, ElementOfSeq, EventTyped DEF OrderInv, Elems
      <4>. QED
        BY <4>1
    <3>2. After(log, LastTime(log)) \in Seq(Event) /\ Elems(After(log, LastTime(log))) = {}
      BY <1>0, <3>1, AfterKeeps
    <3>. QED
      BY <1>0, <3>2, PatchedByNone
  <2>4. StoreLagsBehind'
    BY <1>1, <2>1, <2>2, <2>3 DEF StoreLagsBehind
  <2>. QED
    BY <2>1, <2>4 DEF KnownValues
<1>5. ASSUME NEW t \in Threads, Emit(t) PROVE FollowInv'
  <2>1. PICK e \in Event :
          /\ e.time = clock /\ (e.kind = "set" => IsSet(e))
          /\ graph' = Patched(graph, e) /\ log' = Push(log, graph', e)
    BY <1>5, EmitIs DEF OneLoop, OrderInv
  <2>2. pc[t] = "inside" /\ UNCHANGED <<store, capture, pc, before>>
    BY <1>5 DEF Emit, modelVars, threadVars
  <2>3. e.time > before[t]
    <3>1. before[t] \in Nat /\ before[t] <= LastTime(log) /\ LastTime(log) \in Nat /\ LastTime(log) < clock
      BY <1>0, <2>2, LogTop DEF OrderInv, EnteredAfter
    <3>2. clock \in Nat
      BY DEF FeedTypeOK, EngineTyped
    <3>. QED
      BY <2>1, <3>1, <3>2
  <2>4. PatchedBy(store, After(log', before[t])) = graph'
    <3>1. PatchedBy(store, After(Push(log, graph', e), before[t])) = Patched(PatchedBy(store, After(log, before[t])), e)
      <4>1. log \in Seq(Event) /\ store \in Graph
        BY <1>0
      <4>. QED
        BY <2>3, <4>1, PushReplay
    <3>. QED
      BY <2>1, <2>2, <3>1 DEF StoreLagsBehind
  <2>5. StoreLagsBehind'
    BY <1>1, <2>2, <2>4 DEF StoreLagsBehind
  <2>6. KnownValues(log)'
    <3>1. Elems(log') \subseteq Elems(log) \cup {e}
      BY <1>0, <2>1, PushKeeps
    <3>2. \A d \in Elems(log) : d.kind = "set" => IsSet(d)
      BY DEF KnownValues, Elems
    <3>3. \A d \in Elems(log') : d.kind = "set" => IsSet(d)
      BY <2>1, <3>1, <3>2
    <3>. QED
      BY <3>3 DEF KnownValues, Elems
  <2>. QED
    BY <2>5, <2>6
<1>6. ASSUME NEW t \in Threads, LeaveCritical(t) PROVE FollowInv'
  <2>1. /\ pc[t] = "inside" /\ UNCHANGED <<log, graph, store>>
        /\ capture' = [capture EXCEPT ![t] = Captured(before[t])] /\ pc' = [pc EXCEPT ![t] = "history"]
    BY <1>6 DEF LeaveCritical, modelVars
  <2>2. capture'[t].events = After(log, before[t]) /\ pc'[t] = "history"
    BY <1>0, <2>1 DEF Captured
  <2>3. PatchedBy(store, After(log, before[t])) = graph
    BY <2>1 DEF StoreLagsBehind
  <2>4. StoreLagsBehind'
    BY <1>1, <2>1, <2>2, <2>3 DEF StoreLagsBehind
  <2>. QED
    BY <2>1, <2>4 DEF KnownValues
<1>7. \A t \in Threads : ~LeaveFailed(t) /\ ~SwapEngine(t)
  BY DEF OneLoop, LeaveFailed, SwapEngine
<1>8. ASSUME NEW t \in Threads, ApplyStep(t) PROVE FollowInv'
  <2> DEFINE es == capture[t].events
  <2>0. es \in Seq(Event)
    BY CaptureTyped
  <2>1. CASE ApplyHistory(t)
    <3>1. pc[t] = "history" /\ UNCHANGED <<log, graph, store, before>>
      BY <2>1 DEF ApplyHistory
    <3>2. PatchedBy(store, es) = graph
      BY <3>1 DEF StoreLagsBehind
    <3>3. CASE es = <<>>
      <4>1. Elems(es) = {}
        BY <3>3 DEF Elems
      <4>2. store = graph
        BY <1>0, <2>0, <3>2, <4>1, PatchedByNone
      <4>3. pc'[t] = "idle"
        BY <1>0, <2>1, <3>3 DEF ApplyHistory, Done, Goto
      <4>4. StoreLagsBehind'
        BY <1>1, <3>1, <4>2, <4>3 DEF StoreLagsBehind
      <4>. QED
        BY <3>1, <4>4 DEF KnownValues
    <3>4. CASE es # <<>>
      <4>1. pc'[t] = "append" /\ capture' = capture
        BY <1>0, <2>1, <3>4 DEF ApplyHistory, Goto
      <4>2. StoreLagsBehind'
        BY <1>1, <3>1, <3>2, <4>1 DEF StoreLagsBehind
      <4>. QED
        BY <3>1, <4>2 DEF KnownValues
    <3>. QED
      BY <3>3, <3>4
  <2>2. CASE AppendEvents(t)
    <3>1. /\ pc[t] = "append" /\ pc'[t] = "patch" /\ UNCHANGED <<log, graph, store, before, capture>>
      BY <1>0, <2>2 DEF AppendEvents, engineVars, Goto
    <3>2. StoreLagsBehind'
      BY <1>1, <3>1 DEF StoreLagsBehind
    <3>. QED
      BY <3>1, <3>2 DEF KnownValues
  <2>3. CASE PatchStore(t)
    <3>1. /\ pc[t] = "patch" /\ pc'[t] \in {"stamp", "latest"} /\ UNCHANGED <<log, graph, before, capture>>
          /\ store' = PatchedBy(store, es)
      BY <1>0, <2>3 DEF PatchStore, engineVars, Goto
    <3>2. store' = graph
      BY <3>1 DEF StoreLagsBehind
    <3>3. StoreLagsBehind'
      BY <1>1, <3>1, <3>2 DEF StoreLagsBehind
    <3>. QED
      BY <3>1, <3>3 DEF KnownValues
  <2>4. CASE StampHeader(t) \/ ReadStore(t) \/ ReadHeader(t) \/ PublishCurrent(t) \/ BumpLatest(t)
    <3>1. /\ pc[t] \in {"stamp", "nodes", "header", "publish", "latest"}
          /\ UNCHANGED <<log, graph, store, before>>
      BY <2>4 DEF StampHeader, ReadStore, ReadHeader, PublishCurrent, BumpLatest, engineVars, modelVars
    <3>2. pc'[t] \in {"nodes", "header", "publish", "latest", "idle"}
      BY <1>0, <2>4 DEF StampHeader, ReadStore, ReadHeader, PublishCurrent, BumpLatest, Goto, Done
    <3>3. store = graph
      BY <3>1 DEF StoreLagsBehind
    <3>4. StoreLagsBehind'
      BY <1>1, <3>1, <3>2, <3>3 DEF StoreLagsBehind
    <3>. QED
      BY <3>1, <3>4 DEF KnownValues
  <2>. QED
    BY <1>8, <2>1, <2>2, <2>3, <2>4 DEF ApplyStep
<1>9. \A t \in Threads : ~RefreshStep(t)
  BY <1>2 DEF RefreshStep, EnterRefresh, RefreshStore, RefreshHeader, RefreshCurrent, RefreshLatest, RefreshRing,
     Replaces, Refreshing
<1>10. UNCHANGED <<engineVars, modelVars, threadVars>> => FollowInv'
  BY <1>3 DEF engineVars, modelVars, threadVars
<1>11. UNCHANGED feedVars => FollowInv'
  BY <1>10 DEF feedVars
<1>12. FetchNodes \/ FetchHeader \/ Subscribe \/ CheckCursor \/ Replay => FollowInv'
  BY <1>3 DEF FetchNodes, FetchHeader, Subscribe, CheckCursor, Replay, engineVars, modelVars, threadVars
<1>. QED
  BY <1>4, <1>5, <1>6, <1>7, <1>8, <1>9, <1>11, <1>12 DEF FeedNext, ServerNext

\* With the runtime loop as the only publisher of one project, the node store
\* is the live graph whenever nothing is under way, for any graphs and values.
THEOREM StoreFollowsEngineCorrect == ASSUME OneLoop PROVE FeedSpec => []StoreFollowsEngine
<1>1. FeedInit => OrderInv /\ FollowInv /\ OneProjectClock
  BY FeedInvInit, FollowInit, ThreadsAssumption DEF FeedInv, FeedInit, OneProjectClock
<1>2. FeedTypeOK /\ OrderInv /\ OneProjectClock /\ FollowInv /\ [FeedNext]_feedVars =>
        OrderInv' /\ OneProjectClock' /\ FollowInv'
  BY FeedInvStep, OneProjectStep, FollowStep DEF OneLoop
<1>3. FollowInv => StoreFollowsEngine
  BY ThreadsAssumption DEF FollowInv, StoreLagsBehind, StoreFollowsEngine, Quiet
<1>. QED
  BY <1>1, <1>2, <1>3, FeedTyped, PTL DEF FeedSpec

-----------------------------------------------------------------------------
(* One thread and a client.  From a stamp the ring covers, replaying it and *)
(* then the rest of the log does what replaying the log does.               *)

\* A stamp from which s has lost nothing that came later.
Covers(s, c) == s = <<>> \/ s[1].time <= c

\* Nothing came after the last stamp.
LEMMA AfterNone ==
    ASSUME NEW s \in Seq(Event), NEW c, \A e \in Elems(s) : ~(e.time > c)
    PROVE  After(s, c) = <<>>
<1>1. After(s, c) \in Seq(Event) /\ Elems(After(s, c)) = {}
  BY AfterKeeps
<1>2. Len(After(s, c)) \in Nat /\ ~(1 \in 1..Len(After(s, c)))
  BY <1>1, LenProperties DEF Elems
<1>3. Len(After(s, c)) = 0
  BY <1>2
<1>. QED
  BY <1>1, <1>3, EmptySeq

\* What came after a stamp, from a later one on or from an earlier one.
LEMMA AfterAfter ==
    ASSUME NEW s \in Seq(Event), NEW f \in Nat, NEW c \in Nat
    PROVE  After(After(s, f), c) = After(s, MaxOf(f, c))
<1> DEFINE n == Len(s)
           m == MaxOf(f, c)
<1>1. n \in Nat /\ \A k \in 1..n : s[k] \in Event /\ s[k].time \in Nat
  BY LenProperties, ElementOfSeq, EventTyped
<1>2. PICK h : /\ \A k \in 0..n : h[k] \in Seq(Event)
               /\ h[0] = <<>> /\ After(s, f) = h[n]
               /\ \A k \in 1..n : h[k] = IF s[k].time > f THEN Append(h[k - 1], s[k]) ELSE h[k - 1]
  BY AfterIs
<1>3. PICK j : /\ \A k \in 0..n : j[k] \in Seq(Event)
               /\ j[0] = <<>> /\ After(s, m) = j[n]
               /\ \A k \in 1..n : j[k] = IF s[k].time > m THEN Append(j[k - 1], s[k]) ELSE j[k - 1]
  BY AfterIs
<1>4. \A x \in Nat : x > m <=> x > f /\ x > c
  BY DEF MaxOf
<1> HIDE DEF n, m
<1> DEFINE T == {k \in Nat : k <= n => After(h[k], c) = j[k]}
<1>5. 0 \in T
  <2>1. h[0] \in Seq(Event) /\ Elems(h[0]) = {}
    BY <1>1, <1>2 DEF Elems
  <2>3. After(h[0], c) = <<>>
    BY <2>1, AfterNone
  <2>. QED
    BY <1>3, <2>3
<1>6. ASSUME NEW k \in Nat, k \in T PROVE k + 1 \in T
  <2> SUFFICES ASSUME k + 1 <= n PROVE After(h[k + 1], c) = j[k + 1]
    OBVIOUS
  <2> DEFINE e == s[k + 1]
  <2>0. k + 1 \in 1..n /\ (k + 1) - 1 = k /\ k \in 0..n /\ k <= n
    BY <1>1
  <2>1. k + 1 \in 1..n /\ (k + 1) - 1 = k /\ After(h[k], c) = j[k] /\ h[k] \in Seq(Event)
    BY <1>2, <1>6, <2>0
  <2>2. h[k + 1] = IF e.time > f THEN Append(h[k], e) ELSE h[k]
    BY <1>2, <2>1
  <2>3. j[k + 1] = IF e.time > m THEN Append(j[k], e) ELSE j[k]
    BY <1>3, <2>1
  <2>4. e \in Event /\ e.time \in Nat
    BY <1>1, <2>1
  <2> HIDE DEF e
  <2>5. e.time > m <=> e.time > f /\ e.time > c
    BY <1>4, <2>4
  <2>6. After(Append(h[k], e), c) = IF e.time > c THEN Append(After(h[k], c), e) ELSE After(h[k], c)
    BY <2>1, <2>4, AfterAppend
  <2>. QED
    BY <2>1, <2>2, <2>3, <2>5, <2>6
<1>7. n \in T
  <2> HIDE DEF T
  <2>. QED
    BY <1>1, <1>5, <1>6, NatSetInduction
<1>8. After(h[n], c) = j[n]
  BY <1>1, <1>7
<1>. QED
  BY <1>2, <1>3, <1>8 DEF m

\* What came after a stamp ends where everything does.
LEMMA LastAfter ==
    ASSUME NEW s \in Seq(Event), Rising(s), NEW c \in Nat, After(s, c) # <<>>
    PROVE  s # <<>> /\ LastTime(After(s, c)) = LastTime(s) /\ LastTime(s) > c
<1> DEFINE n == Len(s)
           a == After(s, c)
<1>1. n \in Nat /\ \A k \in 1..n : s[k] \in Event /\ s[k].time \in Nat
  BY LenProperties, ElementOfSeq, EventTyped
<1>2. PICK e \in Elems(s) : e.time > c
  BY AfterNone
<1>3. PICK i \in 1..n : s[i].time > c
  BY <1>2 DEF Elems
<1>4. n \in 1..n /\ (i < n \/ i = n)
  BY <1>1
<1>5. s[n].time > c
  BY <1>1, <1>3, <1>4 DEF Rising
<1>6. PICK h : /\ \A k \in 0..n : h[k] \in Seq(Event)
               /\ After(s, c) = h[n]
               /\ \A k \in 1..n : h[k] = IF s[k].time > c THEN Append(h[k - 1], s[k]) ELSE h[k - 1]
  BY AfterIs
<1>7. n - 1 \in 0..n /\ a = Append(h[n - 1], s[n])
  <2>1. n - 1 \in 0..n
    BY <1>1, <1>4
  <2>2. h[n] = Append(h[n - 1], s[n])
    BY <1>4, <1>5, <1>6
  <2>. QED
    BY <1>6, <2>1, <2>2
<1>8. a[Len(a)] = s[n] /\ a \in Seq(Event)
  BY <1>1, <1>4, <1>6, <1>7, AppendProperties, AfterKeeps
<1>9. s # <<>>
  BY <1>4, EmptySeq
<1>. QED
  BY <1>5, <1>8, <1>9, LastTimeIs

\* From a stamp that a trimmed sequence covers, nothing is missing.
LEMMA TrimAfter ==
    ASSUME NEW s \in Seq(Event), Rising(s), NEW cap \in Nat \ {0}, NEW c \in Nat, Covers(Trim(s, cap), c)
    PROVE  After(Trim(s, cap), c) = After(s, c)
<1> DEFINE n == Len(s)
           m == n - cap
           t == SubSeq(s, m + 1, n)
<1>1. n \in Nat /\ \A k \in 1..n : s[k] \in Event /\ s[k].time \in Nat
  BY LenProperties, ElementOfSeq, EventTyped
<1>2. CASE ~(n > cap)
  BY <1>2 DEF Trim
<1>3. CASE n > cap
  <2>1. m \in Nat /\ m < n /\ n - m \in Nat /\ n - m # 0 /\ m + 1 \in 1..n
    BY <1>1, <1>3
  <2>2. Trim(s, cap) = t
    BY <1>3 DEF Trim
  <2>3. /\ t \in Seq(Event) /\ Len(t) = n - m
        /\ \A i \in 1..(n - m) : t[i] = s[m + i]
    <3>1. m + 1 \in 1..(n + 1) /\ n \in m..n
      BY <2>1, <1>1
    <3>2. /\ t \in Seq(Event) /\ Len(t) = IF m + 1 <= n THEN n - (m + 1) + 1 ELSE 0
          /\ \A i \in 1..(n - (m + 1) + 1) : t[i] = s[(m + 1) + i - 1]
      BY <2>1, <1>1, <3>1, SubSeqProperties
    <3>3. n - (m + 1) + 1 = n - m /\ m + 1 <= n /\ \A i \in 1..(n - m) : (m + 1) + i - 1 = m + i
      BY <1>1, <2>1
    <3>. QED
      BY <3>2, <3>3
  <2> HIDE DEF n, m, t
  <2>4. t # <<>> /\ 1 \in 1..(n - m) /\ t[1] = s[m + 1]
    BY <2>1, <2>3, EmptySeq
  <2>5. s[m + 1].time <= c
    BY <2>2, <2>4 DEF Covers
  <2>6. ASSUME NEW k \in 1..n, k <= m PROVE ~(s[k].time > c)
    <3>1. s[k].time < s[m + 1].time /\ s[k].time \in Nat /\ s[m + 1].time \in Nat
      BY <1>1, <2>1, <2>6 DEF Rising, n
    <3>. QED
      BY <2>5, <3>1
  <2>7. PICK h : /\ \A k \in 0..n : h[k] \in Seq(Event)
                 /\ h[0] = <<>> /\ After(s, c) = h[n]
                 /\ \A k \in 1..n : h[k] = IF s[k].time > c THEN Append(h[k - 1], s[k]) ELSE h[k - 1]
    BY AfterIs DEF n
  <2>8. PICK j : /\ \A k \in 0..Len(t) : j[k] \in Seq(Event)
                 /\ j[0] = <<>> /\ After(t, c) = j[Len(t)]
                 /\ \A k \in 1..Len(t) : j[k] = IF t[k].time > c THEN Append(j[k - 1], t[k]) ELSE j[k - 1]
    BY <2>3, AfterIs
  <2> DEFINE T == {k \in Nat : k <= n => h[k] = IF k <= m THEN <<>> ELSE j[k - m]}
  <2>9. 0 \in T
    BY <2>1, <2>7
  <2>10. ASSUME NEW k \in Nat, k \in T PROVE k + 1 \in T
    <3> SUFFICES ASSUME k + 1 <= n PROVE h[k + 1] = IF k + 1 <= m THEN <<>> ELSE j[(k + 1) - m]
      OBVIOUS
    <3>1. k + 1 \in 1..n /\ (k + 1) - 1 = k /\ k <= n
      BY <1>1
    <3>2. h[k] = IF k <= m THEN <<>> ELSE j[k - m]
      BY <2>10, <3>1
    <3>3. h[k + 1] = IF s[k + 1].time > c THEN Append(h[k], s[k + 1]) ELSE h[k]
      BY <2>7, <3>1
    <3>4. CASE k + 1 <= m
      <4>1. ~(s[k + 1].time > c) /\ k <= m
        BY <2>1, <2>6, <3>1, <3>4
      <4>. QED
        BY <3>2, <3>3, <3>4, <4>1
    <3>5. CASE ~(k + 1 <= m)
      <4>1. /\ (k + 1) - m \in 1..(n - m) /\ ((k + 1) - m) - 1 = k - m /\ m + ((k + 1) - m) = k + 1
            /\ (k <= m => k - m = 0)
        BY <1>1, <2>1, <3>1, <3>5
      <4>2. t[(k + 1) - m] = s[k + 1]
        BY <2>3, <4>1
      <4>3. j[(k + 1) - m] = IF s[k + 1].time > c THEN Append(j[k - m], s[k + 1]) ELSE j[k - m]
        <5>1. (k + 1) - m \in 1..Len(t)
          BY <2>3, <4>1
        <5>. QED
          BY <2>8, <4>1, <4>2, <5>1
      <4>4. h[k] = j[k - m]
        BY <2>8, <3>2, <4>1
      <4>. QED
        BY <3>3, <3>5, <4>3, <4>4
    <3>. QED
      BY <3>4, <3>5
  <2>11. n \in T
    <3> HIDE DEF T
    <3>. QED
      BY <1>1, <2>9, <2>10, NatSetInduction DEF n
  <2>12. h[n] = j[n - m]
    BY <1>1, <2>1, <2>11
  <2>. QED
    BY <2>2, <2>3, <2>7, <2>8, <2>12
<1>. QED
  BY <1>2, <1>3

\* If s covers a stamp and has, besides events of r, only later ones, r covers it.
LEMMA CoversStays ==
    ASSUME NEW r \in Seq(Event), NEW s \in Seq(Event), Rising(r), s # <<>>, NEW c \in Nat, Covers(s, c),
           \A d \in Elems(s) : d \in Elems(r) \/ \A b \in Elems(r) : b.time < d.time
    PROVE  Covers(r, c)
<1> SUFFICES ASSUME r # <<>> PROVE r[1].time <= c
  BY DEF Covers
<1>1. Len(r) \in Nat /\ Len(s) \in Nat /\ 1 \in 1..Len(r) /\ 1 \in 1..Len(s)
  BY LenProperties, EmptySeq
<1>2. r[1] \in Elems(r) /\ s[1] \in Elems(s) /\ s[1].time <= c
  BY <1>1 DEF Elems, Covers
<1>3. r[1].time \in Nat /\ s[1].time \in Nat
  BY <1>1, ElementOfSeq, EventTyped
<1>4. CASE s[1] \in Elems(r)
  <2>1. PICK i \in 1..Len(r) : s[1] = r[i]
    BY <1>4 DEF Elems
  <2>2. 1 < i \/ i = 1
    BY <1>1
  <2>3. r[1].time < r[i].time \/ i = 1
    BY <1>1, <2>2 DEF Rising
  <2>. QED
    BY <1>2, <1>3, <2>1, <2>3
<1>5. CASE \A b \in Elems(r) : b.time < s[1].time
  BY <1>2, <1>3, <1>5
<1>. QED
  BY <1>2, <1>4, <1>5

\* Appending later events to the ring one by one, with what each supersedes and
\* evicts, keeps the order, ends with the last event and, from any stamp
\* the result covers, replays as the ring and then the events.
LEMMA AppendedReplay ==
    ASSUME NEW r \in Seq(Event), NEW es \in Seq(Event), Rising(r), Rising(es), KnownValues(r), KnownValues(es),
           \A d \in Elems(r), e \in Elems(es) : d.time < e.time,
           es # <<>>
    PROVE  /\ Appended(r, es) \in Seq(Event) /\ Rising(Appended(r, es)) /\ KnownValues(Appended(r, es))
           /\ Appended(r, es) # <<>> /\ LastTime(Appended(r, es)) = LastTime(es)
           /\ \A g \in Graph, c \in Nat : Covers(Appended(r, es), c) =>
                 PatchedBy(g, After(Appended(r, es), c)) = PatchedBy(PatchedBy(g, After(r, c)), After(es, c))
<1> DEFINE n == Len(es)
<1>1. n \in Nat /\ n # 0 /\ \A i \in 1..n : es[i] \in Event /\ es[i].time \in Nat
  BY LenProperties, ElementOfSeq, EventTyped, EmptySeq
<1>2. PICK h : /\ \A k \in 0..n : h[k] \in Seq(Event)
               /\ h[0] = r /\ Appended(r, es) = h[n]
               /\ \A k \in 1..n : h[k] = Trim(Push(h[k - 1], store, es[k]), RingCap)
  BY AppendedIs
<1>3. RingCap \in Nat \ {0}
  BY ThreadsAssumption
<1>4. \A k \in 1..n : es[k] \in Elems(es) /\ (es[k].kind = "set" => IsSet(es[k]))
  BY DEF Elems, KnownValues
<1>5. \A d \in Elems(r) : (d.kind = "set" => IsSet(d)) /\ d.time \in Nat
  BY ElementOfSeq, EventTyped DEF Elems, KnownValues
<1>6. \A i, j \in 1..n : i < j => es[i].time < es[j].time
  BY DEF Rising
<1> HIDE DEF n
<1> DEFINE First(k) == {es[i] : i \in 1..k}
           Result(a, k) ==
               /\ Elems(a) \subseteq Elems(r) \cup First(k)
               /\ Rising(a)
               /\ k # 0 => a # <<>> /\ a[Len(a)] = es[k]
<1>7. ASSUME NEW k \in Nat, k + 1 <= n, Result(h[k], k)
      PROVE  LET a == h[k]
                 e == es[k + 1]
                 p == Push(a, store, e)
             IN  /\ a \in Seq(Event) /\ e \in Event /\ p \in Seq(Event)
                 /\ h[k + 1] = Trim(p, RingCap) /\ h[k + 1] \in Seq(Event)
                 /\ \A d \in Elems(a) : d.time \in Nat /\ d.time < e.time /\ (d.kind = "set" => IsSet(d))
                 /\ Elems(p) \subseteq Elems(a) \cup {e} /\ Rising(p)
                 /\ Elems(h[k + 1]) \subseteq Elems(p)
                 /\ Result(h[k + 1], k + 1)
  <2> DEFINE a == h[k]
             e == es[k + 1]
             p == Push(a, store, e)
  <2>1. k + 1 \in 1..n /\ k \in 0..n /\ (k + 1) - 1 = k /\ k + 1 \in 0..n /\ k + 1 # 0
    <3>1. k + 1 <= n
      BY <1>7
    <3>. QED
      BY <1>1, <3>1
  <2>2. a \in Seq(Event) /\ e \in Event /\ h[k + 1] = Trim(p, RingCap) /\ h[k + 1] \in Seq(Event)
    BY <1>1, <1>2, <2>1
  <2>3. ASSUME NEW d \in First(k) PROVE d.time \in Nat /\ d.time < e.time /\ (d.kind = "set" => IsSet(d))
    <3>1. PICK i \in 1..k : d = es[i]
      BY <2>3
    <3>2. i \in 1..n /\ i < k + 1
      BY <1>1, <2>1, <3>1
    <3>. QED
      BY <1>1, <1>4, <1>6, <2>1, <3>1, <3>2
  <2>4. ASSUME NEW d \in Elems(a) PROVE d.time \in Nat /\ d.time < e.time /\ (d.kind = "set" => IsSet(d))
    <3>1. d \in Elems(r) \/ d \in First(k)
      BY <1>7, <2>4
    <3>2. d \in Elems(r) => d.time < e.time
      BY <1>4, <2>1
    <3>. QED
      BY <1>5, <2>3, <3>1, <3>2
  <2> HIDE DEF a, e
  <2>5. /\ p \in Seq(Event) /\ Len(p) \in 1..(Len(a) + 1) /\ p[Len(p)] = e
        /\ Elems(p) \subseteq Elems(a) \cup {e}
        /\ (Rising(a) /\ (\A d \in Elems(a) : d.time < e.time) => Rising(p))
    BY <2>2, PushKeeps
  <2>6. Rising(p)
    BY <1>7, <2>4, <2>5 DEF a
  <2> HIDE DEF p
  <2>7. p # <<>>
    <3>1. Len(a) \in Nat /\ ~(0 \in 1..(Len(a) + 1))
      BY <2>2, LenProperties
    <3>. QED
      BY <2>5, <3>1, EmptySeq
  <2>8. /\ Thins(h[k + 1], p) /\ h[k + 1] # <<>> /\ h[k + 1][Len(h[k + 1])] = p[Len(p)]
    BY <1>3, <2>2, <2>5, <2>7, TrimKeeps
  <2>9. Elems(h[k + 1]) \subseteq Elems(p) /\ Rising(h[k + 1])
    BY <2>2, <2>5, <2>6, <2>8, ThinsKeeps
  <2>10. Elems(a) \subseteq Elems(r) \cup First(k) /\ First(k + 1) = First(k) \cup {e}
    <3>1. First(k + 1) = First(k) \cup {e}
      BY <2>1 DEF e
    <3>. QED
      BY <1>7, <3>1 DEF a
  <2>11. Elems(h[k + 1]) \subseteq Elems(r) \cup First(k + 1)
    BY <2>5, <2>9, <2>10
  <2>12. Result(h[k + 1], k + 1)
    <3>1. h[k + 1] # <<>> /\ h[k + 1][Len(h[k + 1])] = es[k + 1]
      BY <2>5, <2>8 DEF e
    <3>. QED
      BY <2>9, <2>11, <3>1
  <2> HIDE DEF Result
  <2>. QED
    BY <2>2, <2>4, <2>5, <2>6, <2>9, <2>12 DEF a, e, p
<1>8. Result(r, 0)
  OBVIOUS
<1>9. Result(h[n], n)
  <2> DEFINE T == {k \in Nat : k <= n => Result(h[k], k)}
  <2>1. 0 \in T
    BY <1>2, <1>8
  <2> HIDE DEF Result
  <2>2. ASSUME NEW k \in Nat, k \in T PROVE k + 1 \in T
    <3> SUFFICES ASSUME k + 1 <= n PROVE Result(h[k + 1], k + 1)
      OBVIOUS
    <3>1. Result(h[k], k)
      BY <1>1, <2>2
    <3>. QED
      BY <1>7, <3>1
  <2> HIDE DEF T
  <2>3. n \in T
    BY <1>1, <2>1, <2>2, NatSetInduction
  <2>. QED
    BY <1>1, <2>3 DEF T
<1>10. n \in 0..n /\ n \in 1..n
  BY <1>1
<1>11. h[n] \in Seq(Event) /\ Rising(h[n]) /\ h[n] # <<>> /\ h[n][Len(h[n])] = es[n]
  BY <1>1, <1>2, <1>9, <1>10
<1>12. LastTime(h[n]) = LastTime(es)
  BY <1>11, LastTimeIs DEF n
<1>13. KnownValues(h[n])
  <2>1. \A d \in Elems(h[n]) : d.kind = "set" => IsSet(d)
    BY <1>4, <1>5, <1>9
  <2>. QED
    BY <2>1 DEF KnownValues, Elems
<1>14. ASSUME NEW g \in Graph, NEW c \in Nat, Covers(h[n], c)
       PROVE  PatchedBy(g, After(h[n], c)) = PatchedBy(PatchedBy(g, After(r, c)), After(es, c))
  <2> DEFINE f == PatchedBy(g, After(r, c))
  <2>1. f \in Graph
    BY AfterKeeps, PatchedByTyped
  <2>2. PICK z : Replays(z, f, es, c) /\ PatchedBy(f, After(es, c)) = z[n]
    BY <2>1, ReplayIs DEF n
  <2>3. /\ z[0] = f
        /\ \A k \in 1..n : z[k] = IF es[k].time > c THEN Patched(z[k - 1], es[k]) ELSE z[k - 1]
    BY <2>2 DEF Replays, n
  <2> DEFINE Same(k) == Covers(h[k], c) => PatchedBy(g, After(h[k], c)) = z[k]
             T == {k \in Nat : k <= n => Result(h[k], k) /\ Same(k)}
  <2>4. Same(0)
    BY <1>2, <2>3
  <2>5. 0 \in T
    BY <1>2, <1>8, <2>4
  <2>6. ASSUME NEW k \in Nat, k + 1 <= n, Result(h[k], k), Same(k) PROVE Same(k + 1)
    <3> DEFINE a == h[k]
               e == es[k + 1]
               p == Push(a, store, e)
               t == h[k + 1]
    <3>1. /\ a \in Seq(Event) /\ e \in Event /\ p \in Seq(Event)
          /\ t = Trim(p, RingCap) /\ t \in Seq(Event)
          /\ \A d \in Elems(a) : d.time \in Nat /\ d.time < e.time /\ (d.kind = "set" => IsSet(d))
          /\ Elems(p) \subseteq Elems(a) \cup {e} /\ Rising(p) /\ Elems(t) \subseteq Elems(p)
          /\ Rising(a) /\ t # <<>>
      <4>1. Rising(a) /\ t # <<>>
        <5>1. Result(t, k + 1)
          BY <1>7, <2>6
        <5>. QED
          BY <2>6, <5>1
      <4> HIDE DEF Result
      <4>. QED
        BY <1>7, <2>6, <4>1
    <3>2. z[k + 1] = IF e.time > c THEN Patched(z[k], e) ELSE z[k]
      <4>1. k + 1 \in 1..n /\ (k + 1) - 1 = k
        BY <1>1, <2>6
      <4>. QED
        BY <2>3, <4>1
    <3>3. Covers(a, c) => PatchedBy(g, After(a, c)) = z[k]
      BY <2>6
    <3> HIDE DEF a, e, t, Result
    <3> SUFFICES ASSUME Covers(t, c) PROVE PatchedBy(g, After(t, c)) = z[k + 1]
      BY DEF t
    <3>4. e.time \in Nat
      BY <3>1, EventTyped
    <3>5. Covers(a, c)
      BY <3>1, <3>4, CoversStays
    <3>6. After(t, c) = After(p, c)
      BY <1>3, <3>1, TrimAfter
    <3>7. CASE e.time > c
      <4>1. KnownValues(a)
        BY <3>1 DEF Elems, KnownValues
      <4>2. PatchedBy(g, After(Push(a, store, e), c)) = Patched(PatchedBy(g, After(a, c)), e)
        BY <3>1, <3>7, <4>1, PushReplay
      <4>. QED
        BY <3>2, <3>3, <3>5, <3>6, <3>7, <4>2
    <3>8. CASE ~(e.time > c)
      <4>1. \A d \in Elems(a) : ~(d.time > c)
        BY <3>1, <3>4, <3>8
      <4>2. \A d \in Elems(p) : ~(d.time > c)
        BY <3>1, <3>8, <4>1
      <4>3. After(a, c) = <<>> /\ After(p, c) = <<>>
        BY <3>1, <4>1, <4>2, AfterNone
      <4>. QED
        BY <3>2, <3>3, <3>5, <3>6, <3>8, <4>3
    <3>. QED
      BY <3>7, <3>8
  <2> HIDE DEF Result, Same
  <2>7. ASSUME NEW k \in Nat, k \in T PROVE k + 1 \in T
    <3> SUFFICES ASSUME k + 1 <= n PROVE Result(h[k + 1], k + 1) /\ Same(k + 1)
      OBVIOUS
    <3>1. Result(h[k], k) /\ Same(k)
      BY <1>1, <2>7
    <3>2. Same(k + 1)
      BY <2>6, <3>1
    <3>3. Result(h[k + 1], k + 1)
      BY <1>7, <3>1
    <3>. QED
      BY <3>2, <3>3
  <2>8. n \in T
    <3> HIDE DEF T
    <3>. QED
      BY <1>1, <2>5, <2>7, NatSetInduction
  <2>9. PatchedBy(g, After(h[n], c)) = z[n]
    BY <1>1, <1>14, <2>8 DEF Same
  <2>. QED
    BY <2>2, <2>9
<1>. QED
  BY <1>2, <1>11, <1>12, <1>13, <1>14

\* The stamp up to which the ring has been filled; a fresh client starts at 1.
Fed == MaxOf(LastTime(ring), 1)

\* What the ring lacks is what the loop has still to capture or to append.
RingLagsBehind ==
    /\ Rising(ring) /\ KnownValues(ring) /\ LastTime(ring) <= LastTime(log)
    /\ \A t \in Threads :
        /\ pc[t] \notin {"inside", "history", "append"} => LastTime(ring) = LastTime(log)
        /\ pc[t] = "inside" => before[t] = LastTime(ring) /\ 2 <= clock
        /\ pc[t] \in {"history", "append"} => capture[t].events = After(log, LastTime(ring))
        /\ pc[t] = "append" => capture[t].events # <<>>
        /\ pc[t] \in {"patch", "stamp"} => LastTime(capture[t].events) = LastTime(ring) /\ 1 <= LastTime(ring)

\* Nobody starts from a stamp the ring has not been filled up to.
CursorsAreFed ==
    /\ header.at \in 1..Fed
    /\ client.phase = "fetched" => client.at \in 1..Fed
    /\ client.phase = "live" => cursor \in 1..Fed

\* From any stamp it covers, replaying the ring and then the rest of the log
\* does what replaying the log does.
RingReplaysLog ==
    \A g \in Graph, c \in 1..Fed :
        Covers(ring, c) =>
            PatchedBy(PatchedBy(g, After(ring, c)), After(log, LastTime(ring))) = PatchedBy(g, After(log, c))

RingInv == RingLagsBehind /\ CursorsAreFed /\ RingReplaysLog

LEMMA RingInvInit == FeedInit => RingInv
<1> SUFFICES ASSUME FeedInit PROVE RingInv
  OBVIOUS
<1>1. /\ ring = <<>> /\ log = <<>> /\ LastTime(ring) = 0 /\ header.at = 1 /\ client.phase = "away"
      /\ \A t \in Threads : pc[t] = "idle"
  BY DEF FeedInit, LastTime, NoTime
<1>2. Fed = 1
  BY <1>1 DEF Fed, MaxOf
<1>3. RingLagsBehind
  <2>1. Rising(ring) /\ KnownValues(ring)
    BY <1>1 DEF Rising, KnownValues
  <2>. QED
    BY <1>1, <2>1 DEF RingLagsBehind
<1>4. CursorsAreFed
  BY <1>1, <1>2 DEF CursorsAreFed
<1>5. RingReplaysLog
  <2> SUFFICES ASSUME NEW g \in Graph, NEW c
               PROVE  PatchedBy(PatchedBy(g, After(ring, c)), After(log, LastTime(ring))) = PatchedBy(g, After(log, c))
    BY DEF RingReplaysLog
  <2> DEFINE none == <<>>
  <2>1. none \in Seq(Event) /\ Elems(none) = {}
    BY DEF Elems
  <2>2. \A x : After(none, x) = none
    <3> HIDE DEF none
    <3>1. ASSUME NEW x PROVE After(none, x) = <<>>
      BY <2>1, AfterNone
    <3>. QED
      BY <3>1 DEF none
  <2>3. PatchedBy(g, none) = g
    BY <2>1, PatchedByNone
  <2>. QED
    BY <1>1, <2>2, <2>3
<1>. QED
  BY <1>3, <1>4, <1>5 DEF RingInv

RingTyped ==
    /\ pc \in [Threads -> {"idle", "inside", "swapped"} \cup Applying \cup Refreshing]
    /\ before \in [Threads -> Nat] /\ capture \in [Threads -> Captures] /\ clock \in Nat \ {0}
    /\ log \in Seq(Event) /\ ring \in Seq(Event) /\ graph \in Graph /\ header.at \in Nat
    /\ LastTime(ring) \in Nat /\ LastTime(log) \in Nat /\ LastTime(log) < clock
    /\ Fed \in Nat /\ 1 <= Fed /\ LastTime(ring) <= Fed

LEMMA RingTypedIs == ASSUME FeedTypeOK, LogInOrder PROVE RingTyped
<1>1. /\ pc \in [Threads -> {"idle", "inside", "swapped"} \cup Applying \cup Refreshing]
      /\ before \in [Threads -> Nat] /\ capture \in [Threads -> Captures] /\ clock \in Nat \ {0}
      /\ log \in Seq(Event) /\ ring \in Seq(Event) /\ graph \in Graph /\ header.at \in Nat
  BY DEF FeedTypeOK, EngineTyped, ModelTyped, ThreadsTyped
<1>2. LastTime(ring) \in Nat /\ LastTime(log) \in Nat /\ LastTime(log) < clock
  BY <1>1, LastTimeIs, LogTop
<1>3. Fed \in Nat /\ 1 <= Fed /\ LastTime(ring) <= Fed
  BY <1>2 DEF Fed, MaxOf
<1>. QED
  BY <1>1, <1>2, <1>3 DEF RingTyped

\* While a tick is inside, what it logs is newer than what anybody has seen.
LEMMA EmitFed ==
    ASSUME OneLoop, FeedTypeOK, OrderInv, OneProjectClock, KnownValues(log), RingInv, NEW t \in Threads, Emit(t)
    PROVE  /\ RingInv'
           /\ \A g \in Graph, c \in 1..Fed : PatchedBy(g, After(log, c)) = graph => PatchedBy(g, After(log', c)) = graph'
<1>0. RingTyped
  BY RingTypedIs DEF OrderInv
<1> USE DEF RingTyped
<1>1. PICK e \in Event :
        /\ e.time = clock /\ (e.kind = "set" => IsSet(e))
        /\ graph' = Patched(graph, e) /\ log' = Push(log, graph', e)
  BY EmitIs DEF OneLoop, OrderInv
<1>2. /\ pc[t] = "inside" /\ clock' = clock + 1
      /\ UNCHANGED <<ring, header, capture, pc, before, client, cursor>>
  BY DEF Emit, modelVars, threadVars, clientVars
<1>3. 2 <= clock /\ before[t] = LastTime(ring) /\ LastTime(ring) <= LastTime(log)
  BY <1>2 DEF RingInv, RingLagsBehind
<1>4. Fed < clock /\ Fed' = Fed
  BY <1>0, <1>2, <1>3 DEF Fed, MaxOf
<1>5. ASSUME NEW g \in Graph, NEW c, clock > c
      PROVE  PatchedBy(g, After(log', c)) = Patched(PatchedBy(g, After(log, c)), e)
  <2>1. log \in Seq(Event) /\ e.time > c
    BY <1>0, <1>1, <1>5
  <2>. QED
    BY <1>1, <2>1, PushReplay
<1>6. \A c \in 1..Fed : clock > c
  BY <1>0, <1>4
<1>7. RingLagsBehind'
  <2>1. LastTime(ring') <= LastTime(log')
    <3>1. log' \in Seq(Event) /\ Len(log') \in 1..(Len(log) + 1) /\ log'[Len(log')] = e
      BY <1>0, <1>1, PushKeeps
    <3>2. log' # <<>>
      <4>1. Len(log) \in Nat /\ ~(0 \in 1..(Len(log) + 1))
        BY <1>0, LenProperties
      <4>. QED
        BY <3>1, <4>1, EmptySeq
    <3>3. LastTime(log') = clock
      BY <1>1, <3>1, <3>2, LastTimeIs
    <3>. QED
      BY <1>0, <1>2, <1>3, <3>3
  <2>2. Rising(ring) /\ KnownValues(ring)
    BY DEF RingInv, RingLagsBehind
  <2>3. \A u \in Threads : u = t
    BY DEF OneLoop
  <2>4. 2 <= clock'
    BY <1>0, <1>2, <1>3
  <2>. QED
    BY <1>2, <1>3, <2>1, <2>2, <2>3, <2>4 DEF RingLagsBehind
<1>8. CursorsAreFed'
  BY <1>2, <1>4 DEF RingInv, CursorsAreFed
<1>9. RingReplaysLog'
  <2> SUFFICES ASSUME NEW g \in Graph, NEW c \in 1..Fed, Covers(ring, c)
               PROVE  PatchedBy(PatchedBy(g, After(ring, c)), After(log', LastTime(ring))) = PatchedBy(g, After(log', c))
    BY <1>2, <1>4 DEF RingReplaysLog
  <2>1. PatchedBy(g, After(ring, c)) \in Graph
    BY <1>0, AfterKeeps, PatchedByTyped
  <2>2. clock > LastTime(ring)
    BY <1>0, <1>3
  <2>4. clock > c
    BY <1>6
  <2>3. PatchedBy(PatchedBy(g, After(ring, c)), After(log, LastTime(ring))) = PatchedBy(g, After(log, c))
    BY DEF RingInv, RingReplaysLog
  <2>. QED
    BY <1>5, <2>1, <2>2, <2>3, <2>4
<1>10. ASSUME NEW g \in Graph, NEW c \in 1..Fed, PatchedBy(g, After(log, c)) = graph
       PROVE  PatchedBy(g, After(log', c)) = graph'
  BY <1>1, <1>5, <1>6, <1>10
<1>. QED
  BY <1>7, <1>8, <1>9, <1>10 DEF RingInv

LEMMA AppendFed ==
    ASSUME OneLoop, FeedTypeOK, OrderInv, KnownValues(log), RingInv, NEW t \in Threads, AppendEvents(t)
    PROVE  RingInv'
<1> DEFINE es == capture[t].events
           f == LastTime(ring)
<1>0. RingTyped
  BY RingTypedIs DEF OrderInv
<1> USE DEF RingTyped
<1>1. /\ pc[t] = "append" /\ pc' = [pc EXCEPT ![t] = "patch"] /\ ring' = Appended(ring, es)
      /\ UNCHANGED <<log, clock, header, capture, before, client, cursor>>
  BY DEF AppendEvents, Goto, engineVars, clientVars
<1>2. es = After(log, f) /\ es # <<>> /\ Rising(ring) /\ KnownValues(ring)
  BY <1>1 DEF RingInv, RingLagsBehind
<1>3. Rising(log) /\ log \in Seq(Event) /\ f \in Nat
  BY <1>0 DEF OrderInv, LogInOrder
<1> HIDE DEF es, f
<1>4. es \in Seq(Event) /\ Elems(es) = {e \in Elems(log) : e.time > f} /\ Rising(es)
  BY <1>2, <1>3, AfterKeeps
<1>5. KnownValues(es)
  <2>1. \A d \in Elems(log) : d.kind = "set" => IsSet(d)
    BY DEF KnownValues, Elems
  <2>2. \A d \in Elems(es) : d.kind = "set" => IsSet(d)
    BY <1>4, <2>1
  <2>. QED
    BY <2>2 DEF KnownValues, Elems
<1>6. \A d \in Elems(ring) : d.time \in Nat /\ d.time <= f
  <2> SUFFICES ASSUME NEW i \in 1..Len(ring) PROVE ring[i].time \in Nat /\ ring[i].time <= f
    BY DEF Elems
  <2>1. Len(ring) \in Nat /\ ring # <<>>
    BY <1>0, LenProperties, EmptySeq
  <2>2. f = ring[Len(ring)].time /\ Len(ring) \in 1..Len(ring) /\ (i < Len(ring) \/ i = Len(ring))
    BY <1>0, <2>1, LastTimeIs DEF f
  <2>3. ring[i].time \in Nat
    BY <1>0, ElementOfSeq, EventTyped
  <2>4. ring[i].time < f \/ ring[i].time = f
    BY <1>2, <2>2 DEF Rising
  <2>. QED
    BY <1>3, <2>3, <2>4
<1>7. \A e \in Elems(es) : e.time \in Nat /\ e.time > f
  <2>1. \A e \in Elems(es) : e.time \in Nat
    BY <1>4, ElementOfSeq, EventTyped DEF Elems
  <2>. QED
    BY <1>4, <2>1
<1>8. \A d \in Elems(ring), e \in Elems(es) : d.time < e.time
  BY <1>3, <1>6, <1>7
<1>9. /\ ring' \in Seq(Event) /\ Rising(ring') /\ KnownValues(ring')
      /\ ring' # <<>> /\ LastTime(ring') = LastTime(es)
      /\ \A g \in Graph, c \in Nat : Covers(ring', c) =>
            PatchedBy(g, After(ring', c)) = PatchedBy(PatchedBy(g, After(ring, c)), After(es, c))
  BY <1>0, <1>1, <1>2, <1>4, <1>5, <1>8, AppendedReplay
<1>10. Elems(ring') \subseteq Elems(ring) \cup Elems(es)
  BY <1>0, <1>1, <1>4, AppendedKeeps
<1>11. LastTime(es) = LastTime(log) /\ LastTime(log) > f
  BY <1>2, <1>3, LastAfter
<1>12. LastTime(ring') = LastTime(log)
  BY <1>9, <1>11
<1>13. Fed' = LastTime(log) /\ Fed <= Fed' /\ Fed' \in Nat
  BY <1>0, <1>3, <1>11, <1>12 DEF Fed, MaxOf, f
<1>14. RingLagsBehind'
  <2>1. \A u \in Threads : u = t
    BY DEF OneLoop
  <2>2. pc'[t] = "patch" /\ capture'[t].events = es
    BY <1>0, <1>1 DEF es
  <2>3. 1 <= LastTime(ring')
    BY <1>0, <1>3, <1>11, <1>12
  <2>4. LastTime(ring') <= LastTime(log')
    BY <1>0, <1>1, <1>12
  <2>. QED
    BY <1>1, <1>9, <1>12, <2>1, <2>2, <2>3, <2>4 DEF RingLagsBehind
<1>15. CursorsAreFed'
  <2>1. \A x \in 1..Fed : x \in 1..Fed'
    BY <1>0, <1>13
  <2>. QED
    BY <1>1, <2>1 DEF RingInv, CursorsAreFed
<1>16. RingReplaysLog'
  <2> SUFFICES ASSUME NEW g \in Graph, NEW c \in 1..Fed', Covers(ring', c)
               PROVE  PatchedBy(PatchedBy(g, After(ring', c)), After(log, LastTime(ring'))) = PatchedBy(g, After(log, c))
    BY <1>1 DEF RingReplaysLog
  <2>0. c \in Nat /\ 1 <= c /\ c <= Fed'
    BY <1>13
  <2>1. After(log, LastTime(ring')) = <<>>
    <3>1. \A e \in Elems(log) : e.time \in Nat /\ e.time <= LastTime(log)
      BY <1>3, LogTop, ElementOfSeq, EventTyped DEF OrderInv, Elems
    <3>2. \A e \in Elems(log) : ~(e.time > LastTime(log))
      BY <1>0, <3>1
    <3>. QED
      BY <1>3, <1>12, <3>2, AfterNone
  <2>2. PatchedBy(g, After(ring', c)) \in Graph
    BY <1>9, AfterKeeps, PatchedByTyped
  <2>3. PatchedBy(PatchedBy(g, After(ring', c)), After(log, LastTime(ring'))) = PatchedBy(g, After(ring', c))
    <3>1. After(log, LastTime(ring')) \in Seq(Event) /\ Elems(After(log, LastTime(ring'))) = {}
      BY <2>1 DEF Elems
    <3>. QED
      BY <2>2, <3>1, PatchedByNone
  <2>4. PatchedBy(g, After(ring', c)) = PatchedBy(PatchedBy(g, After(ring, c)), After(es, c))
    BY <1>9, <2>0
  <2>5. After(es, c) = After(log, MaxOf(f, c))
    BY <1>2, <1>3, <2>0, AfterAfter
  <2>6. CASE c <= f
    <3>1. MaxOf(f, c) = f
      BY <1>3, <2>0, <2>6 DEF MaxOf
    <3>2. Covers(ring, c)
      <4>1. \A d \in Elems(ring') : d \in Elems(ring) \/ \A b \in Elems(ring) : b.time < d.time
        BY <1>8, <1>10
      <4>. QED
        BY <1>0, <1>2, <1>9, <2>0, <4>1, CoversStays
    <3>3. c \in 1..Fed
      BY <1>0, <1>3, <2>0, <2>6 DEF f
    <3>4. PatchedBy(PatchedBy(g, After(ring, c)), After(log, f)) = PatchedBy(g, After(log, c))
      BY <3>2, <3>3 DEF RingInv, RingReplaysLog, f
    <3>. QED
      BY <2>3, <2>4, <2>5, <3>1, <3>4
  <2>7. CASE ~(c <= f)
    <3>1. MaxOf(f, c) = c
      BY <1>3, <2>0, <2>7 DEF MaxOf
    <3>2. \A d \in Elems(ring) : ~(d.time > c)
      BY <1>3, <1>6, <2>0, <2>7
    <3>3. After(ring, c) = <<>>
      BY <1>0, <3>2, AfterNone
    <3>4. PatchedBy(g, After(ring, c)) = g
      <4>1. After(ring, c) \in Seq(Event) /\ Elems(After(ring, c)) = {}
        BY <3>3 DEF Elems
      <4>. QED
        BY <4>1, PatchedByNone
    <3>. QED
      BY <2>3, <2>4, <2>5, <3>1, <3>4
  <2>. QED
    BY <2>6, <2>7
<1>. QED
  BY <1>14, <1>15, <1>16 DEF RingInv

\* What a client that is still live receives: everything the ring has left.
LEMMA DeliverFed ==
    ASSUME RingTyped, ClientTyped, RingInv, Replay, client'.phase = "live"
    PROVE  /\ client.phase = "live" /\ cursor \in 1..Fed /\ Covers(ring, cursor)
           /\ client'.nodes = PatchedBy(client.nodes, After(ring, cursor))
           /\ cursor' = IF After(ring, cursor) = <<>> THEN cursor ELSE LastTime(ring)
           /\ cursor' \in 1..Fed
<1> USE DEF RingTyped
<1>1. client.phase = "live" /\ client \in [phase : {"away", "fetching", "fetched", "live", "bounced"}, nodes : Graph, at : Nat]
  BY DEF Replay, ClientTyped
<1>2. cursor \in 1..Fed
  BY <1>1 DEF RingInv, CursorsAreFed
<1>3. ~Evicted /\ Deliver(After(ring, cursor))
  <2>1. ~Bounce(ServerTime)
    BY <1>1 DEF Bounce
  <2>. QED
    BY <2>1 DEF Replay
<1>4. Covers(ring, cursor)
  <2> SUFFICES ASSUME ring # <<>> PROVE ring[1].time <= cursor
    BY DEF Covers
  <2>1. cursor # NoTime /\ cursor \in Nat
    BY <1>2 DEF NoTime
  <2>2. ~(cursor < Head(ring).time)
    BY <1>3, <2>1 DEF Evicted
  <2>3. Head(ring) = ring[1] /\ ring[1].time \in Nat
    <3>1. Len(ring) \in Nat /\ 1 \in 1..Len(ring)
      BY LenProperties, EmptySeq
    <3>. QED
      BY <3>1, ElementOfSeq, EventTyped
  <2>. QED
    BY <2>1, <2>2, <2>3
<1>5. client'.nodes = PatchedBy(client.nodes, After(ring, cursor))
  BY <1>1, <1>3 DEF Deliver
<1>6. cursor' = IF After(ring, cursor) = <<>> THEN cursor ELSE LastTime(After(ring, cursor))
  BY <1>3 DEF Deliver
<1>7. Rising(ring)
  BY DEF RingInv, RingLagsBehind
<1>8. After(ring, cursor) # <<>> => LastTime(After(ring, cursor)) = LastTime(ring) /\ LastTime(ring) > cursor
  <2>1. cursor \in Nat /\ ring \in Seq(Event)
    BY <1>2
  <2>. QED
    BY <1>7, <2>1, LastAfter
<1>9. After(ring, cursor) # <<>> => LastTime(ring) \in 1..Fed
  BY <1>2, <1>8
<1>. QED
  BY <1>1, <1>2, <1>4, <1>5, <1>6, <1>8, <1>9

LEMMA RingInvStep ==
    ASSUME OneLoop, FeedTypeOK, OrderInv, OneProjectClock, KnownValues(log), RingInv, [FeedNext]_feedVars
    PROVE  RingInv'
<1>0. RingTyped
  BY RingTypedIs DEF OrderInv
<1> USE DEF RingTyped
<1>1. \A t \in Threads : t = Tick
  BY DEF OneLoop
<1>2. \A t \in Threads : ~Replaces(t)
  BY DEF OneProjectClock, OrderInv, NothingTwice
<1>3. ASSUME UNCHANGED <<ring, log>>, RingLagsBehind', CursorsAreFed' PROVE RingInv'
  BY <1>3 DEF RingInv, RingReplaysLog, Fed
<1>4. ASSUME UNCHANGED <<ring, header, client, cursor>> PROVE CursorsAreFed'
  BY <1>4 DEF RingInv, CursorsAreFed, Fed
<1>5. ASSUME UNCHANGED <<ring, log, clock, pc, before, capture>> PROVE RingLagsBehind'
  BY <1>5 DEF RingInv, RingLagsBehind
<1>6. Rising(ring) /\ KnownValues(ring) /\ LastTime(ring) <= LastTime(log)
  BY DEF RingInv, RingLagsBehind
<1>7. ASSUME NEW t \in Threads, Enter(t) PROVE RingInv'
  <2>1. /\ pc[t] = "idle" /\ UNCHANGED <<ring, log, header, client, cursor, capture>>
        /\ before' = [before EXCEPT ![t] = LastTime(log)] /\ pc' = [pc EXCEPT ![t] = "inside"]
        /\ (t = Tick => clock' = clock + 1)
    BY <1>7 DEF Enter, modelVars, clientVars
  <2>2. pc'[t] = "inside" /\ before'[t] = LastTime(log) /\ 2 <= clock'
    BY <1>0, <1>1, <2>1
  <2>3. LastTime(ring) = LastTime(log)
    BY <2>1 DEF RingInv, RingLagsBehind
  <2>4. RingLagsBehind'
    BY <1>1, <1>6, <2>1, <2>2, <2>3 DEF RingLagsBehind
  <2>. QED
    BY <1>3, <1>4, <2>1, <2>4
<1>8. ASSUME NEW t \in Threads, Emit(t) PROVE RingInv'
  BY <1>8, EmitFed
<1>9. ASSUME NEW t \in Threads, LeaveCritical(t) PROVE RingInv'
  <2>1. /\ pc[t] = "inside" /\ UNCHANGED <<ring, log, clock, header, client, cursor>>
        /\ capture' = [capture EXCEPT ![t] = Captured(before[t])] /\ pc' = [pc EXCEPT ![t] = "history"]
    BY <1>9 DEF LeaveCritical, modelVars, clientVars
  <2>2. capture'[t].events = After(log, before[t]) /\ pc'[t] = "history"
    BY <1>0, <2>1 DEF Captured
  <2>3. before[t] = LastTime(ring)
    BY <2>1 DEF RingInv, RingLagsBehind
  <2>4. RingLagsBehind'
    BY <1>1, <1>6, <2>1, <2>2, <2>3 DEF RingLagsBehind
  <2>. QED
    BY <1>3, <1>4, <2>1, <2>4
<1>10. \A t \in Threads : ~LeaveFailed(t) /\ ~SwapEngine(t)
  BY DEF OneLoop, LeaveFailed, SwapEngine
<1>11. ASSUME NEW t \in Threads, ApplyStep(t) PROVE RingInv'
  <2>1. CASE ApplyHistory(t)
    <3>1. /\ pc[t] = "history" /\ UNCHANGED <<ring, log, clock, before, client, cursor>>
          /\ header' = [header EXCEPT !.history = capture[t].history]
      BY <2>1 DEF ApplyHistory, clientVars
    <3>2. capture[t].events = After(log, LastTime(ring))
      BY <3>1 DEF RingInv, RingLagsBehind
    <3>3. CursorsAreFed'
      <4>1. header'.at = header.at
        <5>1. header \in [at : Nat, history : Nat]
          BY DEF FeedTypeOK, ModelTyped
        <5>. QED
          BY <3>1, <5>1
      <4>. QED
        BY <3>1, <4>1 DEF RingInv, CursorsAreFed, Fed
    <3>4. CASE capture[t].events = <<>>
      <4>1. LastTime(ring) = LastTime(log)
        <5> SUFFICES ASSUME LastTime(log) > LastTime(ring) PROVE FALSE
          BY <1>0, <1>6
        <5>1. log # <<>>
          BY <1>0, LastTimeIs
        <5>2. log[Len(log)] \in Elems(log) /\ log[Len(log)].time > LastTime(ring)
          BY <1>0, <5>1, LastTimeIs DEF Elems
        <5>3. log[Len(log)] \in Elems(After(log, LastTime(ring)))
          BY <1>0, <5>2, AfterKeeps
        <5>. QED
          BY <3>2, <3>4, <5>3 DEF Elems
      <4>2. pc'[t] = "idle"
        BY <1>0, <2>1, <3>4 DEF ApplyHistory, Done, Goto
      <4>3. RingLagsBehind'
        BY <1>1, <1>6, <3>1, <4>1, <4>2 DEF RingLagsBehind
      <4>. QED
        BY <1>3, <3>1, <3>3, <4>3
    <3>5. CASE capture[t].events # <<>>
      <4>1. pc'[t] = "append" /\ capture' = capture
        BY <1>0, <2>1, <3>5 DEF ApplyHistory, Goto
      <4>2. RingLagsBehind'
        BY <1>1, <1>6, <3>1, <3>2, <3>5, <4>1 DEF RingLagsBehind
      <4>. QED
        BY <1>3, <3>1, <3>3, <4>2
    <3>. QED
      BY <3>4, <3>5
  <2>2. CASE AppendEvents(t)
    BY <2>2, AppendFed
  <2>3. CASE PatchStore(t)
    <3>1. /\ pc[t] = "patch" /\ pc'[t] \in {"stamp", "latest"}
          /\ UNCHANGED <<ring, log, clock, before, capture, header, client, cursor>>
      BY <1>0, <2>3 DEF PatchStore, engineVars, clientVars, Goto
    <3>2. LastTime(capture[t].events) = LastTime(ring) /\ 1 <= LastTime(ring) /\ LastTime(ring) = LastTime(log)
      BY <3>1 DEF RingInv, RingLagsBehind
    <3>3. RingLagsBehind'
      BY <1>1, <1>6, <3>1, <3>2 DEF RingLagsBehind
    <3>. QED
      BY <1>3, <1>4, <3>1, <3>3
  <2>4. CASE StampHeader(t)
    <3>1. /\ pc[t] = "stamp" /\ pc'[t] = "nodes"
          /\ UNCHANGED <<ring, log, clock, before, capture, client, cursor>>
          /\ header' = [header EXCEPT !.at = LastTime(capture[t].events)]
      BY <1>0, <2>4 DEF StampHeader, engineVars, clientVars, Goto
    <3>2. LastTime(capture[t].events) = LastTime(ring) /\ 1 <= LastTime(ring) /\ LastTime(ring) = LastTime(log)
      BY <3>1 DEF RingInv, RingLagsBehind
    <3>3. RingLagsBehind'
      BY <1>1, <1>6, <3>1, <3>2 DEF RingLagsBehind
    <3>4. header'.at = LastTime(ring)
      <4>1. header \in [at : Nat, history : Nat]
        BY DEF FeedTypeOK, ModelTyped
      <4>. QED
        BY <3>1, <3>2, <4>1
    <3>5. header'.at \in 1..Fed
      BY <1>0, <3>2, <3>4
    <3>6. CursorsAreFed'
      BY <3>1, <3>5 DEF RingInv, CursorsAreFed, Fed
    <3>. QED
      BY <1>3, <3>1, <3>3, <3>6
  <2>5. CASE ReadStore(t) \/ ReadHeader(t) \/ PublishCurrent(t) \/ BumpLatest(t)
    <3>1. /\ pc[t] \in {"nodes", "header", "publish", "latest"}
          /\ UNCHANGED <<ring, log, clock, header, client, cursor>>
      BY <2>5 DEF ReadStore, ReadHeader, PublishCurrent, BumpLatest, engineVars, modelVars, clientVars
    <3>2. pc'[t] \in {"header", "publish", "latest", "idle"}
      BY <1>0, <2>5 DEF ReadStore, ReadHeader, PublishCurrent, BumpLatest, Goto, Done
    <3>3. LastTime(ring) = LastTime(log)
      BY <3>1 DEF RingInv, RingLagsBehind
    <3>4. RingLagsBehind'
      BY <1>1, <1>6, <3>1, <3>2, <3>3 DEF RingLagsBehind
    <3>. QED
      BY <1>3, <1>4, <3>1, <3>4
  <2>. QED
    BY <1>11, <2>1, <2>2, <2>3, <2>4, <2>5 DEF ApplyStep
<1>12. \A t \in Threads : ~RefreshStep(t)
  BY <1>2 DEF RefreshStep, EnterRefresh, RefreshStore, RefreshHeader, RefreshCurrent, RefreshLatest, RefreshRing,
     Replaces, Refreshing
<1>13. UNCHANGED feedVars => RingInv'
  <2> SUFFICES ASSUME UNCHANGED feedVars PROVE RingInv'
    OBVIOUS
  <2>1. UNCHANGED <<ring, log, clock, pc, before, capture, header, client, cursor>>
    BY DEF feedVars, engineVars, modelVars, threadVars, clientVars
  <2>. QED
    BY <1>3, <1>4, <1>5, <2>1
<1>14. ASSUME FetchNodes \/ FetchHeader \/ Subscribe \/ CheckCursor \/ Replay PROVE RingInv'
  <2>1. UNCHANGED <<ring, log, clock, pc, before, capture, header>>
    BY <1>14 DEF FetchNodes, FetchHeader, Subscribe, CheckCursor, Replay, engineVars, modelVars, threadVars
  <2>2. ClientTyped /\ client \in [phase : {"away", "fetching", "fetched", "live", "bounced"}, nodes : Graph, at : Nat]
    BY DEF FeedTypeOK, ClientTyped
  <2>3. header.at \in 1..Fed
    BY DEF RingInv, CursorsAreFed
  <2>5. /\ client'.phase = "fetched" => client'.at \in 1..Fed
        /\ client'.phase = "live" => cursor' \in 1..Fed
    <3>1. CASE FetchNodes
      BY <3>1 DEF FetchNodes
    <3>2. CASE FetchHeader
      BY <2>2, <2>3, <3>2 DEF FetchHeader
    <3>3. CASE Subscribe
      BY <2>2, <3>3 DEF Subscribe, RingInv, CursorsAreFed
    <3>4. CASE CheckCursor
      <4>1. client'.phase = "bounced" \/ UNCHANGED <<cursor, client>>
        BY <2>2, <3>4 DEF CheckCursor, Bounce
      <4>. QED
        BY <4>1 DEF RingInv, CursorsAreFed
    <3>5. CASE Replay
      <4>1. client'.phase \in {"bounced", "live"}
        BY <2>2, <3>5 DEF Replay, Bounce, Deliver
      <4>2. client'.phase = "live" => cursor' \in 1..Fed
        BY <1>0, <2>2, <3>5, DeliverFed
      <4>. QED
        BY <4>1, <4>2
    <3>. QED
      BY <1>14, <3>1, <3>2, <3>3, <3>4, <3>5
  <2>6. CursorsAreFed'
    BY <2>1, <2>3, <2>5 DEF CursorsAreFed, Fed
  <2>. QED
    BY <1>3, <1>5, <2>1, <2>6
<1>. QED
  BY <1>7, <1>8, <1>9, <1>10, <1>11, <1>12, <1>13, <1>14 DEF FeedNext, ServerNext

LEMMA InStepStays ==
    ASSUME OneLoop, FeedTypeOK, OrderInv, OneProjectClock, KnownValues(log), RingInv, [FeedNext]_feedVars,
           client.phase = "live", client'.phase = "live", InStep
    PROVE  InStep'
<1>0. RingTyped /\ ClientTyped /\ client.nodes \in Graph
  BY RingTypedIs DEF OrderInv, FeedTypeOK, ClientTyped
<1>1. cursor \in 1..Fed
  BY DEF RingInv, CursorsAreFed
<1>2. ASSUME UNCHANGED <<client, cursor, log, graph>> PROVE InStep'
  BY <1>2 DEF InStep
<1>3. ASSUME NEW t \in Threads, Emit(t) PROVE InStep'
  <2>1. UNCHANGED <<client, cursor>>
    BY <1>3 DEF Emit, clientVars
  <2>2. PatchedBy(client.nodes, After(log', cursor)) = graph'
    BY <1>0, <1>1, <1>3, EmitFed DEF InStep
  <2>. QED
    BY <2>1, <2>2 DEF InStep
<1>4. ASSUME Replay PROVE InStep'
  <2>1. /\ cursor \in 1..Fed /\ Covers(ring, cursor)
        /\ client'.nodes = PatchedBy(client.nodes, After(ring, cursor))
        /\ cursor' = IF After(ring, cursor) = <<>> THEN cursor ELSE LastTime(ring)
    BY <1>0, <1>4, DeliverFed
  <2>2. log' = log /\ graph' = graph
    BY <1>4 DEF Replay, engineVars
  <2>3. CASE After(ring, cursor) = <<>>
    <3>1. After(ring, cursor) \in Seq(Event) /\ Elems(After(ring, cursor)) = {}
      BY <2>3 DEF Elems
    <3>2. client'.nodes = client.nodes /\ cursor' = cursor
      BY <1>0, <2>1, <2>3, <3>1, PatchedByNone
    <3>. QED
      BY <2>2, <3>2 DEF InStep
  <2>4. CASE After(ring, cursor) # <<>>
    <3>1. cursor' = LastTime(ring)
      BY <2>1, <2>4
    <3>2. PatchedBy(PatchedBy(client.nodes, After(ring, cursor)), After(log, LastTime(ring))) = PatchedBy(client.nodes, After(log, cursor))
      BY <1>0, <2>1 DEF RingInv, RingReplaysLog
    <3>. QED
      BY <2>1, <2>2, <3>1, <3>2 DEF InStep
  <2>. QED
    BY <2>3, <2>4
<1>5. ASSUME FetchNodes \/ FetchHeader \/ Subscribe PROVE FALSE
  BY <1>5 DEF FetchNodes, FetchHeader, Subscribe
<1>6. ASSUME CheckCursor PROVE InStep'
  <2>1. ASSUME NEW c, Bounce(c) PROVE FALSE
    <3>1. client \in [phase : {"away", "fetching", "fetched", "live", "bounced"}, nodes : Graph, at : Nat]
      BY <1>0 DEF ClientTyped
    <3>. QED
      BY <2>1, <3>1 DEF Bounce
  <2>. QED
    BY <1>2, <1>6, <2>1 DEF CheckCursor, engineVars
<1>7. ASSUME NEW t \in Threads, Enter(t) \/ LeaveCritical(t) \/ LeaveFailed(t) PROVE InStep'
  BY <1>2, <1>7 DEF Enter, LeaveCritical, LeaveFailed, clientVars
<1>8. \A t \in Threads : ~SwapEngine(t)
  BY DEF OneLoop, SwapEngine
<1>9. ASSUME NEW t \in Threads, ApplyStep(t) PROVE InStep'
  BY <1>2, <1>9 DEF ApplyStep, ApplyHistory, AppendEvents, PatchStore, StampHeader, ReadStore, ReadHeader,
     PublishCurrent, BumpLatest, engineVars, clientVars
<1>10. ASSUME NEW t \in Threads, RefreshStep(t) PROVE InStep'
  BY <1>2, <1>10 DEF RefreshStep, EnterRefresh, RefreshStore, RefreshHeader, RefreshCurrent, RefreshLatest,
     RefreshRing, engineVars, clientVars
<1>11. UNCHANGED feedVars => InStep'
  BY <1>2 DEF feedVars, engineVars, clientVars
<1>. QED
  BY <1>3, <1>4, <1>5, <1>6, <1>7, <1>8, <1>9, <1>10, <1>11 DEF FeedNext, ServerNext

\* With the runtime loop as the only publisher of one project, a live client that
\* is in step with the engine stays in step.
THEOREM StaysInStepCorrect == ASSUME OneLoop PROVE FeedSpec => StaysInStep
<1> DEFINE Inv == OrderInv /\ OneProjectClock /\ FollowInv /\ RingInv
<1>1. FeedInit => Inv
  BY FeedInvInit, FollowInit, RingInvInit, ThreadsAssumption DEF FeedInv, FeedInit, OneProjectClock
<1>2. FeedTypeOK /\ Inv /\ [FeedNext]_feedVars => Inv'
  <2> SUFFICES ASSUME FeedTypeOK, Inv, [FeedNext]_feedVars PROVE Inv'
    OBVIOUS
  <2>1. OrderInv'
    BY FeedInvStep
  <2>2. OneProjectClock'
    BY OneProjectStep DEF OneLoop
  <2>3. FollowInv'
    BY FollowStep
  <2>4. RingInv'
    BY RingInvStep DEF FollowInv
  <2>. QED
    BY <2>1, <2>2, <2>3, <2>4
<1>3. FeedTypeOK /\ Inv /\ [FeedNext]_feedVars =>
        [client.phase = "live" /\ client'.phase = "live" /\ InStep => InStep']_feedVars
  BY InStepStays DEF FollowInv
<1> HIDE DEF Inv
<1>. QED
  BY <1>1, <1>2, <1>3, FeedTyped, PTL DEF FeedSpec, StaysInStep

=============================================================================
