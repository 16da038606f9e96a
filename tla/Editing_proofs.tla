---------------------------- MODULE Editing_proofs ----------------------------
(***************************************************************************)
(* Two things that edits of many hands must leave right.                     *)
(*                                                                           *)
(* References lead to the node that carries their uuid, and parameters show  *)
(* the warning they were last asked to show, for any references, targets,    *)
(* uuids and messages and any number of requests and batches.  A uuid        *)
(* belongs to one target for good: the graph, and the steps that undo and    *)
(* redo put back, give a target only uuids it owns, and a replacement gets   *)
(* one that is nobody's.  So a pass over the references finds at most one    *)
(* node by uuid (ResolvedRight).                                             *)
(*                                                                           *)
(* The session that intents of the UI open for themselves is open while one  *)
(* of them has it and is closed again, whatever edits others put in between. *)
(* Only intents name that session, so the edits of a batch that are not the  *)
(* boundary in question leave its owner what it was (BatchKeeps).            *)
(***************************************************************************)
EXTENDS References, UiIntents, InductionFacts, FiniteSetTheorems, SequenceTheorems

USE ReferencesAssumption

-----------------------------------------------------------------------------
(* Types.                                                                  *)

Places == {"absent", "inside", "outside"}
Warnings == Messages \cup {Calm}
Looks == [missing : BOOLEAN, warning : Warnings]
Identities == [uuid : Uuids, allowed : BOOLEAN]

Graphs ==
    [place : [Targets -> Places], uuid : [Targets -> Uuids], allowed : [Targets -> BOOLEAN],
     ref : [Refs -> ReferenceValues], missing : [Refs -> BOOLEAN], warning : [Refs -> Warnings]]

\* Who has a uuid, or had it and can get it back.
Owners == [Uuids -> Targets \cup {NoNode}]

OwnedGraphs(own) == {t \in Graphs : \A n \in Targets : own[t.uuid[n]] = n}
OwnedIdentities(own, n) == {s \in Identities : own[s.uuid] = n}

AllEdits ==
    [kind : {"ref"}, on : Refs, new : ReferenceValues]
    \cup [kind : {"place"}, on : Targets, new : Places]
    \cup [kind : {"replace"}, on : Targets, new : Identities]
    \cup Requests \cup {Broken}

OwnedEdits(own) == {e \in AllEdits : e.kind = "replace" => e.new \in OwnedIdentities(own, e.on)}

\* What a step of an edit may put back.
Sides(own, e) ==
    CASE e.kind = "ref" -> ReferenceValues
      [] e.kind = "place" -> Places
      [] e.kind = "replace" -> OwnedIdentities(own, e.on)
      [] OTHER -> Looks

AllSides == ReferenceValues \cup Places \cup Identities \cup Looks

OwnedSteps(own) ==
    {s \in [e : AllEdits \ {Broken}, old : AllSides, new : AllSides] :
        s.old \in Sides(own, s.e) /\ s.new \in Sides(own, s.e)}

Runs(own) == [g : OwnedGraphs(own), steps : Seq(OwnedSteps(own)), dirty : BOOLEAN, failed : BOOLEAN]

-----------------------------------------------------------------------------
(* Resolution.                                                             *)

LEMMA LookupTyped ==
    ASSUME NEW t, NEW u
    PROVE  /\ Lookup(t, u) \in Targets \cup {NoNode}
           /\ Lookup(t, u) # NoNode => Present(t, Lookup(t, u)) /\ t.uuid[Lookup(t, u)] = u
           /\ Lookup(t, u) = NoNode => \A n \in Targets : ~(Present(t, n) /\ t.uuid[n] = u)
<1>1. CASE \E n \in Targets : Present(t, n) /\ t.uuid[n] = u
  <2> DEFINE m == CHOOSE n \in Targets : Present(t, n) /\ t.uuid[n] = u
  <2>1. m \in Targets /\ Present(t, m) /\ t.uuid[m] = u
    BY <1>1
  <2>2. Lookup(t, u) = m
    BY <1>1 DEF Lookup
  <2> HIDE DEF m
  <2>. QED
    BY <2>1, <2>2
<1>2. CASE ~\E n \in Targets : Present(t, n) /\ t.uuid[n] = u
  BY <1>2 DEF Lookup
<1>. QED
  BY <1>1, <1>2

\* A node in the tree is found by its uuid.
LEMMA LookupOwn ==
    ASSUME NEW own \in Owners, NEW t \in OwnedGraphs(own), NEW n \in Targets, Present(t, n)
    PROVE  Lookup(t, t.uuid[n]) = n
<1> DEFINE m == Lookup(t, t.uuid[n])
<1>1. m # NoNode /\ m \in Targets /\ t.uuid[m] = t.uuid[n]
  BY LookupTyped
<1>2. own[t.uuid[m]] = m /\ own[t.uuid[n]] = n
  BY <1>1 DEF OwnedGraphs
<1>. QED
  BY <1>1, <1>2

\* A node that is not in the tree, or nobody, is not found by uuid.
LEMMA LookupNobody ==
    ASSUME NEW own \in Owners, NEW t \in OwnedGraphs(own)
    PROVE  Lookup(t, NoNode) = NoNode
BY DEF Lookup, OwnedGraphs, Graphs

\* What a reference becomes when a pass or an edit renews it.
LEMMA NormalizedIs ==
    ASSUME NEW own \in Owners, NEW t \in OwnedGraphs(own), NEW r \in ReferenceValues
    PROVE  \/ r.uuid = NoNode /\ r.path = NoNode /\ Normalized(t, r) = {Empty}
           \/ \E n \in Targets : CandidateAllowed(t, n) /\ Normalized(t, r) = {Reference(t.uuid[n], n, n)}
           \/ /\ Normalized(t, r) = {}
              /\ r.uuid = NoNode /\ r.path # NoNode => ~CandidateAllowed(t, r.path)
           \/ /\ Normalized(t, r) = {[r EXCEPT !.id = NoNode]}
              /\ r.uuid # NoNode => Lookup(t, r.uuid) = NoNode
              /\ r.uuid = NoNode /\ r.path # NoNode => ~CandidateAllowed(t, r.path)
<1> DEFINE tried == Tried(t, r)
           found == {i \in 1..3 : tried[i] # NoNode}
           good == {i \in found : CandidateAllowed(t, tried[i])}
           target == tried[Min(good)]
<1>1. /\ tried[1] \in Targets \cup {NoNode} /\ tried[2] \in Targets \cup {NoNode}
      /\ tried[3] \in Targets \cup {NoNode}
      /\ tried[2] = IF r.uuid # NoNode THEN Lookup(t, r.uuid) ELSE NoNode
      /\ tried[3] = IF r.uuid = NoNode /\ r.path # NoNode /\ t.place[r.path] = "inside" THEN r.path ELSE NoNode
  BY LookupTyped DEF Tried, ReferenceValues
<1>2. \A i \in 1..3 : tried[i] \in Targets \cup {NoNode}
  BY <1>1
<1>3. Normalized(t, r) = IF r.uuid = NoNode /\ r.path = NoNode THEN {Empty}
                         ELSE IF good # {} THEN {Reference(t.uuid[target], target, target)}
                         ELSE IF found # {} THEN {} ELSE {[r EXCEPT !.id = NoNode]}
  BY DEF Normalized
<1>p. ASSUME good = {}, r.uuid = NoNode, r.path # NoNode PROVE ~CandidateAllowed(t, r.path)
  BY <1>1, <1>p DEF CandidateAllowed
<1> HIDE DEF tried
<1>4. CASE good # {}
  <2>1. Min(good) \in good
    <3>1. good \subseteq 1..3
      OBVIOUS
    <3>2. \E x \in good : \A y \in good : x <= y
      <4>1. CASE 1 \in good
        BY <3>1, <4>1
      <4>2. CASE 1 \notin good /\ 2 \in good
        BY <3>1, <4>2
      <4>3. CASE 1 \notin good /\ 2 \notin good
        BY <1>4, <3>1, <4>3
      <4>. QED
        BY <4>1, <4>2, <4>3
    <3> HIDE DEF good
    <3>. QED
      BY <3>2 DEF Min
  <2>2. target \in Targets /\ CandidateAllowed(t, target)
    BY <1>2, <2>1
  <2> HIDE DEF target, good
  <2>. QED
    BY <1>3, <1>4, <2>2
<1>5. CASE good = {} /\ found # {}
  BY <1>3, <1>5, <1>p
<1>6. CASE good = {} /\ found = {}
  <2>1. tried[2] = NoNode
    BY <1>6
  <2>. QED
    BY <1>1, <1>3, <1>6, <1>p, <2>1
<1>. QED
  BY <1>4, <1>5, <1>6

LEMMA NormalizedTyped ==
    ASSUME NEW own \in Owners, NEW t \in OwnedGraphs(own), NEW r \in ReferenceValues
    PROVE  Normalized(t, r) \subseteq ReferenceValues
<1>1. \A n \in Targets : t.uuid[n] \in Uuids
  BY DEF OwnedGraphs, Graphs
<1>. QED
  BY <1>1, NormalizedIs DEF ReferenceValues, Reference, Empty

\* What the property asks of a reference.
Right(t, r) ==
    /\ r.id = IF r.uuid = NoNode THEN NoNode ELSE Lookup(t, r.uuid)
    /\ r.uuid = NoNode /\ r.path # NoNode => ~CandidateAllowed(t, r.path)

\* A pass leaves a reference as it should be.
LEMMA ResolvedRight ==
    ASSUME NEW own \in Owners, NEW t \in OwnedGraphs(own), NEW r \in ReferenceValues
    PROVE  Resolved(t, r) \in ReferenceValues /\ Right(t, Resolved(t, r))
<1> DEFINE x == Resolved(t, r)
<1>0. Normalized(t, r) \subseteq ReferenceValues
  BY NormalizedTyped
<1>1. CASE Normalized(t, r) = {Empty}
  <2>1. x = Empty
    BY <1>1 DEF Resolved
  <2>. QED
    BY <1>0, <1>1, <2>1 DEF Right, Empty, Reference
<1>2. ASSUME NEW n \in Targets, CandidateAllowed(t, n), Normalized(t, r) = {Reference(t.uuid[n], n, n)}
      PROVE  x \in ReferenceValues /\ Right(t, x)
  <2>1. x = Reference(t.uuid[n], n, n)
    BY <1>2 DEF Resolved
  <2>2. Lookup(t, t.uuid[n]) = n /\ t.uuid[n] # NoNode
    BY <1>2, LookupOwn DEF CandidateAllowed, Present, OwnedGraphs, Graphs
  <2>. QED
    BY <1>0, <1>2, <2>1, <2>2 DEF Right, Reference
<1>3. CASE Normalized(t, r) = {} /\ (r.uuid = NoNode /\ r.path # NoNode => ~CandidateAllowed(t, r.path))
  <2>1. x = [r EXCEPT !.id = Lookup(t, r.uuid)]
    BY <1>3 DEF Resolved
  <2>. QED
    BY <1>3, <2>1, LookupTyped, LookupNobody DEF Right, ReferenceValues
<1>4. CASE /\ Normalized(t, r) = {[r EXCEPT !.id = NoNode]}
           /\ r.uuid # NoNode => Lookup(t, r.uuid) = NoNode
           /\ r.uuid = NoNode /\ r.path # NoNode => ~CandidateAllowed(t, r.path)
  <2>1. x = [r EXCEPT !.id = NoNode]
    BY <1>4 DEF Resolved
  <2>. QED
    BY <1>4, <2>1 DEF Right, ReferenceValues
<1> HIDE DEF x
<1>. QED
  BY <1>1, <1>2, <1>3, <1>4, NormalizedIs DEF x

\* So every reference is right after a pass, its mark with it, and nothing else changed.
RightAt(t, p) == Right(t, t.ref[p]) /\ (t.missing[p] <=> t.ref[p].uuid # NoNode /\ t.ref[p].id = NoNode)

LEMMA RightAlike ==
    ASSUME NEW t, NEW x, x.place = t.place, x.uuid = t.uuid, x.allowed = t.allowed, x.ref = t.ref,
           NEW p, x.missing[p] <=> t.missing[p], RightAt(t, p)
    PROVE  RightAt(x, p)
<1>1. \A u : Lookup(x, u) = Lookup(t, u)
  BY DEF Lookup, Present
<1>2. \A n : CandidateAllowed(x, n) <=> CandidateAllowed(t, n)
  BY DEF CandidateAllowed
<1>. QED
  BY <1>1, <1>2 DEF RightAt, Right

LEMMA SyncedRight ==
    ASSUME NEW own \in Owners, NEW t \in OwnedGraphs(own)
    PROVE  /\ Synced(t) \in OwnedGraphs(own)
           /\ \A p \in Refs : RightAt(Synced(t), p)
           /\ Synced(t).warning = t.warning
<1> DEFINE refs == [p \in Refs |-> Resolved(t, t.ref[p])]
           marks == [p \in Refs |-> refs[p].uuid # NoNode /\ Lookup(t, refs[p].uuid) = NoNode]
           w == Synced(t)
<1>0. t \in Graphs /\ t.ref \in [Refs -> ReferenceValues]
  BY DEF OwnedGraphs, Graphs
<1>1. \A p \in Refs : refs[p] \in ReferenceValues /\ Right(t, refs[p])
  BY <1>0, ResolvedRight
<1>2. refs \in [Refs -> ReferenceValues] /\ marks \in [Refs -> BOOLEAN]
  BY <1>1
<1>3. w = [t EXCEPT !.ref = refs, !.missing = marks]
  BY DEF Synced
<1>m. \A p \in Refs : marks[p] <=> refs[p].uuid # NoNode /\ Lookup(t, refs[p].uuid) = NoNode
  OBVIOUS
<1> HIDE DEF refs, marks, w
<1>4. /\ w \in Graphs /\ w.ref = refs /\ w.missing = marks /\ w.warning = t.warning
      /\ w.place = t.place /\ w.uuid = t.uuid /\ w.allowed = t.allowed
  BY <1>0, <1>2, <1>3 DEF Graphs
<1>5. w \in OwnedGraphs(own)
  BY <1>4 DEF OwnedGraphs
<1>6. \A u : Lookup(w, u) = Lookup(t, u)
  BY <1>4 DEF Lookup, Present
<1>7. \A n : CandidateAllowed(w, n) <=> CandidateAllowed(t, n)
  BY <1>4 DEF CandidateAllowed
<1>8. ASSUME NEW p \in Refs PROVE RightAt(w, p)
  <2>1. Right(w, refs[p])
    BY <1>1, <1>6, <1>7 DEF Right
  <2>2. refs[p].uuid # NoNode => refs[p].id = Lookup(t, refs[p].uuid)
    BY <1>1 DEF Right
  <2>. QED
    BY <1>4, <1>m, <2>1, <2>2 DEF RightAt
<1>. QED
  BY <1>4, <1>5, <1>8 DEF w

-----------------------------------------------------------------------------
(* Edits.                                                                  *)

\* Requests, taken apart.
LEMMA RequestTyped ==
    ASSUME NEW e \in Requests
    PROVE  /\ e.kind \in {"warn", "clear"} /\ e.on \in Refs /\ e.new \in Warnings
           /\ e.kind = "clear" => e.new = Calm
BY DEF Requests, Warn, ClearAll, Warnings

LEMMA EditTyped ==
    ASSUME NEW e \in AllEdits
    PROVE  \/ e.kind = "ref" /\ e.on \in Refs /\ e.new \in ReferenceValues
           \/ e.kind = "place" /\ e.on \in Targets /\ e.new \in Places
           \/ e.kind = "replace" /\ e.on \in Targets /\ e.new \in Identities
           \/ e.kind \in {"warn", "clear"} /\ e.on \in Refs /\ e.new \in Warnings /\ e \in Requests
           \/ e.kind = "broken" /\ e = Broken
<1>1. CASE e \in Requests
  BY <1>1, RequestTyped
<1>2. CASE e \notin Requests
  BY <1>2 DEF AllEdits, Broken
<1>. QED
  BY <1>1, <1>2

\* The part of the graph an edit is about.
LEMMA SideTyped ==
    ASSUME NEW own \in Owners, NEW t \in OwnedGraphs(own), NEW e \in AllEdits, e.kind # "broken"
    PROVE  Side(t, e) \in Sides(own, e)
<1>0. t \in Graphs /\ \A n \in Targets : own[t.uuid[n]] = n
  BY DEF OwnedGraphs
<1>1. CASE e.kind = "ref" /\ e.on \in Refs
  BY <1>0, <1>1 DEF Side, Sides, Graphs
<1>2. CASE e.kind = "place" /\ e.on \in Targets
  BY <1>0, <1>2 DEF Side, Sides, Graphs
<1>3. CASE e.kind = "replace" /\ e.on \in Targets
  BY <1>0, <1>3 DEF Side, Sides, Graphs, OwnedIdentities, Identities
<1>4. CASE e.kind \in {"warn", "clear"} /\ e.on \in Refs
  BY <1>0, <1>4 DEF Side, Sides, Graphs, Shown, Looks
<1>. QED
  BY <1>1, <1>2, <1>3, <1>4, EditTyped

LEMMA AimTyped ==
    ASSUME NEW own \in Owners, NEW t \in OwnedGraphs(own), NEW e \in OwnedEdits(own), e.kind # "broken"
    PROVE  Aim(t, e) \in Sides(own, e)
<1>0. t \in Graphs /\ e \in AllEdits
  BY DEF OwnedGraphs, OwnedEdits
<1>1. CASE e.kind \in {"ref", "place"}
  BY <1>0, <1>1, EditTyped DEF Aim, Sides
<1>2. CASE e.kind = "replace"
  BY <1>0, <1>2, EditTyped DEF Aim, Sides, OwnedEdits
<1>3. CASE e.kind \in {"warn", "clear"}
  <2>1. e.on \in Refs /\ e.new \in Warnings /\ Calm \in Warnings
    BY <1>0, <1>3, EditTyped DEF Warnings
  <2>2. Shown(t, e.on) \in Looks
    BY <1>0, <2>1 DEF Shown, Looks, Graphs
  <2>3. Warned(Shown(t, e.on), e) \in Looks
    BY <2>1, <2>2 DEF Warned, Looks
  <2>. QED
    BY <1>3, <2>3 DEF Aim, Sides
<1>. QED
  BY <1>0, <1>1, <1>2, <1>3, EditTyped

\* Putting a side in place keeps uuids with their owners; edits of warnings
\* leave the references alone.
LEMMA PutOwned ==
    ASSUME NEW own \in Owners, NEW t \in OwnedGraphs(own), NEW e \in AllEdits, e.kind # "broken",
           NEW side \in Sides(own, e), NEW x \in Put(t, e, side)
    PROVE  /\ x \in OwnedGraphs(own)
           /\ e.kind \in {"warn", "clear"} =>
                /\ x = Show(t, e.on, side)
                /\ x.place = t.place /\ x.uuid = t.uuid /\ x.allowed = t.allowed /\ x.ref = t.ref
                /\ x.missing = [t.missing EXCEPT ![e.on] = side.missing]
                /\ x.warning = [t.warning EXCEPT ![e.on] = side.warning]
<1>0. t \in Graphs /\ \A n \in Targets : own[t.uuid[n]] = n
  BY DEF OwnedGraphs
<1>1. CASE e.kind = "ref" /\ e.on \in Refs
  <2>1. side \in ReferenceValues
    BY <1>1 DEF Sides
  <2>2. PICK r \in Normalized(t, side) : x = IF r.uuid = t.ref[e.on].uuid THEN t ELSE [t EXCEPT !.ref[e.on] = r]
    BY <1>1 DEF Put
  <2>3. r \in ReferenceValues
    BY <2>1, <2>2, NormalizedTyped
  <2>4. x \in Graphs /\ x.uuid = t.uuid
    BY <1>0, <1>1, <2>2, <2>3 DEF Graphs
  <2>. QED
    BY <1>0, <1>1, <2>4 DEF OwnedGraphs
<1>2. CASE e.kind = "place" /\ e.on \in Targets
  <2>1. side \in Places
    BY <1>2 DEF Sides
  <2>2. x = [t EXCEPT !.place[e.on] = side]
    BY <1>2 DEF Put
  <2>3. x \in Graphs /\ x.uuid = t.uuid
    BY <1>0, <1>2, <2>1, <2>2 DEF Graphs
  <2>. QED
    BY <1>0, <1>2, <2>3 DEF OwnedGraphs
<1>3. CASE e.kind = "replace" /\ e.on \in Targets
  <2>1. side \in Identities /\ own[side.uuid] = e.on
    BY <1>3 DEF Sides, OwnedIdentities
  <2>2. x = [t EXCEPT !.uuid[e.on] = side.uuid, !.allowed[e.on] = side.allowed]
    BY <1>3 DEF Put
  <2>3. x \in Graphs /\ x.uuid = [t.uuid EXCEPT ![e.on] = side.uuid]
    BY <1>0, <1>3, <2>1, <2>2 DEF Graphs, Identities
  <2>4. \A n \in Targets : own[x.uuid[n]] = n
    BY <1>0, <1>3, <2>1, <2>3 DEF Graphs
  <2>. QED
    BY <1>3, <2>3, <2>4 DEF OwnedGraphs
<1>4. CASE e.kind \in {"warn", "clear"} /\ e.on \in Refs
  <2>1. side \in Looks
    BY <1>4 DEF Sides
  <2>2. x = Show(t, e.on, side)
    BY <1>4 DEF Put
  <2>3. x = [t EXCEPT !.missing[e.on] = side.missing, !.warning[e.on] = side.warning]
    BY <2>2 DEF Show
  <2>4. /\ x \in Graphs /\ x.place = t.place /\ x.uuid = t.uuid /\ x.allowed = t.allowed /\ x.ref = t.ref
        /\ x.missing = [t.missing EXCEPT ![e.on] = side.missing]
        /\ x.warning = [t.warning EXCEPT ![e.on] = side.warning]
    BY <1>0, <1>4, <2>1, <2>3 DEF Graphs, Looks
  <2>. QED
    BY <1>0, <1>4, <2>2, <2>4 DEF OwnedGraphs
<1>. QED
  BY <1>1, <1>2, <1>3, <1>4, EditTyped

\* The other edits leave the warnings alone.
LEMMA PutWarnings ==
    ASSUME NEW own \in Owners, NEW t \in OwnedGraphs(own), NEW e \in AllEdits,
           e.kind \in {"ref", "place", "replace"},
           NEW side \in Sides(own, e), NEW x \in Put(t, e, side)
    PROVE  x.warning = t.warning
<1>0. t \in Graphs
  BY DEF OwnedGraphs
<1>1. CASE e.kind = "ref"
  <2>1. PICK r \in Normalized(t, side) : x = IF r.uuid = t.ref[e.on].uuid THEN t ELSE [t EXCEPT !.ref[e.on] = r]
    BY <1>1 DEF Put
  <2>. QED
    BY <1>0, <2>1 DEF Graphs
<1>2. CASE e.kind = "place"
  BY <1>0, <1>2 DEF Put, Graphs
<1>3. CASE e.kind = "replace"
  BY <1>0, <1>3 DEF Put, Graphs
<1>. QED
  BY <1>1, <1>2, <1>3

\* What edits of warnings leave alone, but for marks they take away.
SameReferences(t, x) ==
    /\ x.place = t.place /\ x.uuid = t.uuid /\ x.allowed = t.allowed /\ x.ref = t.ref
    /\ \A p \in Refs : x.missing[p] => t.missing[p]

\* The graph once a request is met.
Meets(t, e, x) == SameReferences(t, x) /\ x.warning = [t.warning EXCEPT ![e.on] = e.new]

\* A request is never refused, and does what it asks for.
LEMMA RequestPut ==
    ASSUME NEW own \in Owners, NEW t \in OwnedGraphs(own), NEW e \in Requests,
           NEW x \in Put(t, e, Aim(t, e))
    PROVE  x \in OwnedGraphs(own) /\ Meets(t, e, x)
<1>0. e \in AllEdits /\ e \in OwnedEdits(own) /\ e.kind \in {"warn", "clear"} /\ e.on \in Refs
  BY RequestTyped DEF AllEdits, OwnedEdits
<1>1. Aim(t, e) \in Sides(own, e) /\ Aim(t, e) \in Looks
  BY <1>0, AimTyped DEF Sides
<1>2. Aim(t, e) = IF e.kind = "clear" THEN [missing |-> FALSE, warning |-> Calm]
                  ELSE [[missing |-> t.missing[e.on], warning |-> t.warning[e.on]] EXCEPT !.warning = e.new]
  BY <1>0 DEF Aim, Warned, Shown
<1>3. Aim(t, e).warning = e.new /\ (Aim(t, e).missing => t.missing[e.on])
  BY <1>0, <1>2, RequestTyped
<1>4. /\ x \in OwnedGraphs(own)
      /\ x.place = t.place /\ x.uuid = t.uuid /\ x.allowed = t.allowed /\ x.ref = t.ref
      /\ x.missing = [t.missing EXCEPT ![e.on] = Aim(t, e).missing]
      /\ x.warning = [t.warning EXCEPT ![e.on] = Aim(t, e).warning]
  BY <1>0, <1>1, PutOwned
<1>5. t.missing \in [Refs -> BOOLEAN]
  BY DEF OwnedGraphs, Graphs
<1>6. \A p \in Refs : x.missing[p] => t.missing[p]
  BY <1>0, <1>3, <1>4, <1>5
<1>. QED
  BY <1>3, <1>4, <1>6 DEF SameReferences, Meets

LEMMA RequestMet ==
    ASSUME NEW t, NEW e \in Requests
    PROVE  ~Fails(t, e)
<1>1. e.kind \in {"warn", "clear"}
  BY RequestTyped
<1>2. Put(t, e, Aim(t, e)) = {Show(t, e.on, Aim(t, e))}
  BY <1>1 DEF Put
<1>. QED
  BY <1>1, <1>2 DEF Fails

\* One edit of a batch.
LEMMA AppliedOwned ==
    ASSUME NEW own \in Owners, NEW ran \in Runs(own), NEW e \in OwnedEdits(own)
    PROVE  Applied(ran, e) \in Runs(own)
<1>0. /\ ran.g \in OwnedGraphs(own) /\ e \in AllEdits /\ ran.steps \in Seq(OwnedSteps(own))
      /\ ran.dirty \in BOOLEAN /\ ran.failed \in BOOLEAN
  BY DEF Runs, OwnedEdits
<1>1. CASE ran.failed
  BY <1>1 DEF Applied
<1>2. CASE ~ran.failed /\ Fails(ran.g, e)
  <2>1. Applied(ran, e) = [ran EXCEPT !.failed = TRUE, !.dirty = @ \/ e.kind \in {"place", "replace"}]
    BY <1>2 DEF Applied
  <2>. QED
    BY <1>0, <2>1 DEF Runs
<1>3. CASE ~ran.failed /\ ~Fails(ran.g, e)
  <2> DEFINE t == CHOOSE x \in Put(ran.g, e, Aim(ran.g, e)) : TRUE
             step == [e |-> e, old |-> Side(ran.g, e), new |-> Side(t, e)]
  <2>1. e.kind # "broken" /\ Put(ran.g, e, Aim(ran.g, e)) # {}
    BY <1>3 DEF Fails
  <2>2. t \in Put(ran.g, e, Aim(ran.g, e))
    BY <2>1
  <2>3. Applied(ran, e) = IF t = ran.g /\ e.kind \notin {"place", "replace"} THEN ran
             ELSE [ran EXCEPT !.g = t, !.dirty = @ \/ e.kind \in {"ref", "place", "replace"},
                              !.steps = Append(@, step)]
    BY <1>3 DEF Applied
  <2> HIDE DEF t
  <2>4. t \in OwnedGraphs(own)
    BY <1>0, <2>1, <2>2, AimTyped, PutOwned
  <2>5. Side(ran.g, e) \in Sides(own, e) /\ Side(t, e) \in Sides(own, e)
    BY <1>0, <2>1, <2>4, SideTyped
  <2>6. Sides(own, e) \subseteq AllSides
    BY <1>0, <2>1, EditTyped DEF Sides, AllSides, OwnedIdentities
  <2>7. e # Broken
    BY <2>1 DEF Broken
  <2>8. step \in OwnedSteps(own)
    BY <1>0, <2>5, <2>6, <2>7 DEF OwnedSteps
  <2> HIDE DEF step
  <2>9. Append(ran.steps, step) \in Seq(OwnedSteps(own))
    BY <1>0, <2>8
  <2>d. (ran.dirty \/ e.kind \in {"ref", "place", "replace"}) \in BOOLEAN
    OBVIOUS
  <2>10. CASE t = ran.g /\ e.kind \notin {"place", "replace"}
    BY <2>3, <2>10
  <2>11. CASE ~(t = ran.g /\ e.kind \notin {"place", "replace"})
    <3>1. Applied(ran, e) = [ran EXCEPT !.g = t, !.dirty = @ \/ e.kind \in {"ref", "place", "replace"},
                                        !.steps = Append(@, step)]
      BY <2>3, <2>11
    <3>. QED
      BY <1>0, <2>4, <2>9, <2>d, <3>1 DEF Runs
  <2>. QED
    BY <2>10, <2>11
<1>. QED
  BY <1>0, <1>1, <1>2, <1>3

-----------------------------------------------------------------------------
(* A batch.                                                                *)

Start(t) == [g |-> t, steps |-> <<>>, dirty |-> FALSE, failed |-> FALSE]

\* What applying edits one after the other computes.
LEMMA BatchIs ==
    ASSUME NEW own \in Owners, NEW t \in OwnedGraphs(own), NEW es \in Seq(OwnedEdits(own))
    PROVE  \E c \in [0..Len(es) -> Runs(own)] :
              /\ c[0] = Start(t) /\ Batch(t, es) = c[Len(es)]
              /\ \A i \in 1..Len(es) : c[i] = Applied(c[i - 1], es[i])
<1> DEFINE n == Len(es)
           q == Start(t)
           F == [i \in 1..n |-> [a \in Runs(own) |-> Applied(a, es[i])]]
           Sol(c) == c = [i \in 0..n |-> IF i = 0 THEN q ELSE Applied(c[i - 1], es[i])]
           h == CHOOSE c : Sol(c)
<1>1. n \in Nat /\ \A i \in 1..n : es[i] \in OwnedEdits(own)
  OBVIOUS
<1>2. q \in Runs(own)
  BY DEF Start, Runs
<1>3. F \in [1..n -> [Runs(own) -> Runs(own)]]
  BY <1>1, AppliedOwned
<1>4. \A i \in 1..n, a \in Runs(own) : F[i][a] = Applied(a, es[i])
  OBVIOUS
<1>5. Batch(t, es) = h[n]
  BY DEF Batch, Start
<1> HIDE DEF n, F, h, q
<1>6. PICK c \in [0..n -> Runs(own)] : IsRecursion(c, n, q, F)
  BY <1>1, <1>2, <1>3, RecursionExists
<1>7. ASSUME NEW i \in 0..n PROVE c[i] = IF i = 0 THEN q ELSE Applied(c[i - 1], es[i])
  <2>1. i # 0 => i \in 1..n /\ i - 1 \in 0..n
    BY <1>1
  <2>2. c[i] = IF i = 0 THEN q ELSE F[i][c[i - 1]]
    BY <1>6 DEF IsRecursion
  <2>. QED
    BY <1>4, <1>6, <2>1, <2>2
<1>8. Sol(c)
  BY <1>6, <1>7
<1>9. Sol(h)
  BY <1>8 DEF h
<1>10. ASSUME NEW i \in 0..n PROVE h[i] = IF i = 0 THEN q ELSE Applied(h[i - 1], es[i])
  BY <1>9
<1> DEFINE T == {k \in Nat : k <= n => c[k] = h[k]}
<1>11. 0 \in T
  BY <1>1, <1>7, <1>10
<1>12. ASSUME NEW k \in Nat, k \in T PROVE k + 1 \in T
  <2> SUFFICES ASSUME k + 1 <= n PROVE c[k + 1] = h[k + 1]
    OBVIOUS
  <2>1. k + 1 \in 0..n /\ k + 1 # 0 /\ (k + 1) - 1 = k /\ c[k] = h[k]
    BY <1>1, <1>12
  <2>. QED
    BY <1>7, <1>10, <2>1
<1> HIDE DEF T
<1>13. n \in T
  BY <1>1, <1>11, <1>12, NatSetInduction
<1>14. c[0] = q /\ Batch(t, es) = c[n]
  BY <1>1, <1>5, <1>7, <1>13 DEF T
<1>15. \A i \in 1..n : c[i] = Applied(c[i - 1], es[i])
  BY <1>1, <1>7
<1>. QED
  BY <1>6, <1>14, <1>15 DEF n, q

\* Among the numbers up to n there is a last one.
LEMMA LastUpTo ==
    ASSUME NEW n \in Nat, NEW S \in SUBSET (1..n), S # {}
    PROVE  Max(S) \in S /\ \A i \in S : i <= Max(S)
<1> DEFINE U == {k \in Nat : \A R \in SUBSET (1..k) : R # {} => \E x \in R : \A y \in R : x >= y}
<1>1. 0 \in U
  <2>1. 1..0 = {}
    OBVIOUS
  <2>. QED
    BY <2>1
<1>2. ASSUME NEW k \in Nat, k \in U PROVE k + 1 \in U
  <2> SUFFICES ASSUME NEW R \in SUBSET (1..(k + 1)), R # {} PROVE \E x \in R : \A y \in R : x >= y
    OBVIOUS
  <2>1. CASE k + 1 \in R
    BY <2>1
  <2>2. CASE k + 1 \notin R
    <3>1. R \in SUBSET (1..k)
      BY <2>2
    <3>. QED
      BY <1>2, <3>1
  <2>. QED
    BY <2>1, <2>2
<1> HIDE DEF U
<1>3. n \in U
  BY <1>1, <1>2, NatSetInduction
<1>4. \E x \in S : \A y \in S : x >= y
  BY <1>3 DEF U
<1>5. Max(S) \in S /\ \A y \in S : Max(S) >= y
  BY <1>4 DEF Max
<1>. QED
  BY <1>5

\* The last request about a parameter decides.
LEMMA AsksLast ==
    ASSUME NEW w, NEW es \in Seq(Requests), NEW p \in Refs, NEW i \in 1..Len(es), es[i].on = p,
           \A j \in (i + 1)..Len(es) : es[j].on # p
    PROVE  Asks(w, es)[p] = es[i].new
<1> DEFINE about == {j \in DOMAIN es : es[j].on = p}
<1>1. about \in SUBSET (1..Len(es)) /\ i \in about /\ Len(es) \in Nat
  OBVIOUS
<1>2. Max(about) \in about /\ i <= Max(about)
  BY <1>1, LastUpTo
<1>3. Max(about) = i
  BY <1>1, <1>2
<1>4. Asks(w, es)[p] = IF about = {} THEN w[p] ELSE es[Max(about)].new
  BY DEF Asks
<1> HIDE DEF about
<1>. QED
  BY <1>1, <1>3, <1>4

LEMMA LastAbout ==
    ASSUME NEW es \in Seq(Requests), NEW p \in Refs, \E i \in 1..Len(es) : es[i].on = p
    PROVE  \E i \in 1..Len(es) : es[i].on = p /\ \A j \in (i + 1)..Len(es) : es[j].on # p
<1> DEFINE n == Len(es)
           S == {i \in 1..n : es[i].on = p}
<1>1. n \in Nat /\ S \in SUBSET (1..n) /\ S # {}
  OBVIOUS
<1>2. S = {i \in 1..n : es[i].on = p}
  OBVIOUS
<1> HIDE DEF n, S
<1>3. Max(S) \in S /\ \A i \in S : i <= Max(S)
  BY <1>1, LastUpTo
<1>4. Max(S) \in 1..n /\ es[Max(S)].on = p
  BY <1>2, <1>3
<1>5. ASSUME NEW j \in (Max(S) + 1)..n PROVE es[j].on # p
  <2>1. j \in 1..n /\ ~(j <= Max(S))
    BY <1>1, <1>4
  <2>. QED
    BY <1>2, <1>3, <2>1
<1>. QED
  BY <1>4, <1>5 DEF n

\* A parameter nothing is asked of keeps its warning.
LEMMA AsksNothing ==
    ASSUME NEW w, NEW es \in Seq(Requests), NEW p \in Refs, \A i \in 1..Len(es) : es[i].on # p
    PROVE  Asks(w, es)[p] = w[p]
BY DEF Asks

LEMMA AsksOneMore ==
    ASSUME NEW w, NEW es \in Seq(Requests), NEW e \in Requests
    PROVE  Asks(w, Append(es, e)) = [Asks(w, es) EXCEPT ![e.on] = e.new]
<1> DEFINE fs == Append(es, e)
           n == Len(es)
<1>1. /\ fs \in Seq(Requests) /\ Len(fs) = n + 1 /\ n \in Nat /\ fs[n + 1] = e
      /\ \A i \in 1..n : fs[i] = es[i]
  OBVIOUS
<1> HIDE DEF fs, n
<1>2. ASSUME NEW p \in Refs PROVE Asks(w, fs)[p] = IF p = e.on THEN e.new ELSE Asks(w, es)[p]
  <2>1. CASE p = e.on
    <3>1. n + 1 \in 1..Len(fs) /\ fs[n + 1].on = p /\ \A j \in (n + 1 + 1)..Len(fs) : fs[j].on # p
      BY <1>1, <2>1
    <3>2. Asks(w, fs)[p] = fs[n + 1].new
      BY <1>1, <3>1, AsksLast
    <3>. QED
      BY <1>1, <2>1, <3>2
  <2>2. CASE p # e.on /\ \A i \in 1..n : es[i].on # p
    <3>1. \A i \in 1..Len(fs) : fs[i].on # p
      BY <1>1, <2>2
    <3>. QED
      BY <1>1, <2>2, <3>1, AsksNothing DEF n
  <2>3. CASE p # e.on /\ \E i \in 1..n : es[i].on = p
    <3>2. PICK i \in 1..n : es[i].on = p /\ \A j \in (i + 1)..n : es[j].on # p
      BY <2>3, LastAbout DEF n
    <3>3. i \in 1..Len(fs) /\ fs[i] = es[i] /\ fs[i].on = p /\ \A j \in (i + 1)..Len(fs) : fs[j].on # p
      <4>1. i \in 1..(n + 1) /\ fs[i] = es[i]
        BY <1>1, <3>2
      <4>2. ASSUME NEW j \in (i + 1)..(n + 1) PROVE fs[j].on # p
        <5>1. CASE j = n + 1
          BY <1>1, <2>3, <5>1
        <5>2. CASE j # n + 1
          <6>1. j \in (i + 1)..n /\ j \in 1..n
            BY <1>1, <3>2, <5>2
          <6>. QED
            BY <1>1, <3>2, <6>1
        <5>. QED
          BY <5>1, <5>2
      <4>. QED
        BY <1>1, <3>2, <4>1, <4>2
    <3>4. Asks(w, es)[p] = es[i].new
      BY <3>2, AsksLast DEF n
    <3>g. fs \in Seq(Requests)
      BY <1>1
    <3>5. Asks(w, fs)[p] = fs[i].new
      BY <3>g, <3>3, AsksLast
    <3>. QED
      BY <2>3, <3>3, <3>4, <3>5
  <2>. QED
    BY <2>1, <2>2, <2>3
<1>3. \A s : Asks(w, s) = [p \in Refs |-> Asks(w, s)[p]]
  BY DEF Asks
<1>4. e.on \in Refs
  BY RequestTyped
<1>. QED
  BY <1>2, <1>3, <1>4 DEF fs

\* A run after requests only.
AfterRequests(t, ran, es) ==
    /\ ~ran.failed /\ ~ran.dirty
    /\ SameReferences(t, ran.g)
    /\ ran.g.warning = Asks(t.warning, es)

LEMMA AppliedRequest ==
    ASSUME NEW own \in Owners, NEW t \in OwnedGraphs(own), NEW ran \in Runs(own),
           NEW es \in Seq(Requests), AfterRequests(t, ran, es), NEW e \in Requests
    PROVE  AfterRequests(t, Applied(ran, e), Append(es, e))
<1> DEFINE x == CHOOSE x \in Put(ran.g, e, Aim(ran.g, e)) : TRUE
           step == [e |-> e, old |-> Side(ran.g, e), new |-> Side(x, e)]
<1>1. ran.g \in OwnedGraphs(own) /\ ran.dirty = FALSE /\ ran.failed = FALSE
  BY DEF Runs, AfterRequests
<1>2. ~Fails(ran.g, e)
  BY RequestMet
<1>3. Put(ran.g, e, Aim(ran.g, e)) # {}
  BY <1>2 DEF Fails
<1>4. x \in Put(ran.g, e, Aim(ran.g, e))
  BY <1>3
<1>5. Applied(ran, e) = IF x = ran.g /\ e.kind \notin {"place", "replace"} THEN ran
        ELSE [ran EXCEPT !.g = x, !.dirty = @ \/ e.kind \in {"ref", "place", "replace"}, !.steps = Append(@, step)]
  BY <1>1, <1>2 DEF Applied
<1> HIDE DEF x, step
<1>6. /\ SameReferences(ran.g, x)
      /\ x.warning = [ran.g.warning EXCEPT ![e.on] = e.new]
  <2>1. Meets(ran.g, e, x)
    BY <1>1, <1>4, RequestPut
  <2>. QED
    BY <2>1 DEF Meets
<1>7. SameReferences(t, x)
  BY <1>6 DEF AfterRequests, SameReferences
<1>8. x.warning = Asks(t.warning, Append(es, e))
  BY <1>6, AsksOneMore DEF AfterRequests
<1>9. e.kind \in {"warn", "clear"}
  BY RequestTyped
<1>10. CASE x = ran.g
  <2>1. Applied(ran, e) = ran
    BY <1>5, <1>9, <1>10
  <2>. QED
    BY <1>1, <1>7, <1>8, <1>10, <2>1 DEF AfterRequests
<1>11. CASE x # ran.g
  <2>1. Applied(ran, e) = [ran EXCEPT !.g = x, !.dirty = @ \/ e.kind \in {"ref", "place", "replace"}, !.steps = Append(@, step)]
    BY <1>5, <1>11
  <2>2. Applied(ran, e).g = x /\ Applied(ran, e).failed = FALSE /\ Applied(ran, e).dirty = FALSE
    BY <1>1, <1>9, <2>1 DEF Runs
  <2>. QED
    BY <1>7, <1>8, <2>2 DEF AfterRequests
<1>. QED
  BY <1>10, <1>11

\* The queue is met in full before the edit behind it.
LEMMA BatchRight ==
    ASSUME NEW own \in Owners, NEW t \in OwnedGraphs(own), NEW es \in Seq(Requests),
           NEW e \in OwnedEdits(own), e \notin Requests
    PROVE  /\ Batch(t, Append(es, e)) \in Runs(own)
           /\ ~Batch(t, Append(es, e)).failed => Batch(t, Append(es, e)).g.warning = Asks(t.warning, es)
           /\ ~Batch(t, Append(es, e)).dirty => SameReferences(t, Batch(t, Append(es, e)).g)
<1> DEFINE fs == Append(es, e)
           n == Len(es)
           last == Batch(t, fs)
<1>1. Requests \subseteq OwnedEdits(own)
  BY RequestTyped DEF OwnedEdits, AllEdits
<1>2. /\ fs \in Seq(OwnedEdits(own)) /\ n \in Nat /\ Len(fs) = n + 1 /\ fs[n + 1] = e
      /\ \A i \in 1..n : fs[i] = es[i] /\ es[i] \in Requests
  BY <1>1
<1> HIDE DEF fs, n
<1>b. \E c \in [0..Len(fs) -> Runs(own)] :
        /\ c[0] = Start(t) /\ Batch(t, fs) = c[Len(fs)]
        /\ \A i \in 1..Len(fs) : c[i] = Applied(c[i - 1], fs[i])
  BY <1>2, BatchIs
<1>3. PICK c \in [0..(n + 1) -> Runs(own)] :
        /\ c[0] = Start(t) /\ last = c[n + 1]
        /\ \A i \in 1..(n + 1) : c[i] = Applied(c[i - 1], fs[i])
  BY <1>2, <1>b
<1> HIDE DEF last
<1> DEFINE T == {k \in Nat : k <= n => AfterRequests(t, c[k], SubSeq(es, 1, k))}
<1>4. 0 \in T
  <2>1. SubSeq(es, 1, 0) = <<>>
    OBVIOUS
  <2>2. t.warning \in [Refs -> Warnings]
    BY DEF OwnedGraphs, Graphs
  <2>3. Asks(t.warning, <<>>) = t.warning
    BY <2>2 DEF Asks
  <2>4. AfterRequests(t, Start(t), <<>>)
    BY <2>3 DEF AfterRequests, SameReferences, Start
  <2>. QED
    BY <1>3, <2>1, <2>4
<1>5. ASSUME NEW k \in Nat, k \in T PROVE k + 1 \in T
  <2> SUFFICES ASSUME k + 1 <= n PROVE AfterRequests(t, c[k + 1], SubSeq(es, 1, k + 1))
    OBVIOUS
  <2>1. AfterRequests(t, c[k], SubSeq(es, 1, k))
    BY <1>2, <1>5
  <2>2. k + 1 \in 1..n /\ k + 1 \in 1..(n + 1) /\ (k + 1) - 1 = k /\ k \in 0..(n + 1)
    BY <1>2
  <2>3. c[k + 1] = Applied(c[k], es[k + 1]) /\ c[k] \in Runs(own) /\ es[k + 1] \in Requests
    BY <1>2, <1>3, <2>2
  <2>4. SubSeq(es, 1, k + 1) = Append(SubSeq(es, 1, k), es[k + 1]) /\ SubSeq(es, 1, k) \in Seq(Requests)
    BY <2>2 DEF n
  <2>5. AfterRequests(t, Applied(c[k], es[k + 1]), Append(SubSeq(es, 1, k), es[k + 1]))
    BY <2>1, <2>3, <2>4, AppliedRequest, Zenon
  <2>. QED
    BY <2>3, <2>4, <2>5, Zenon
<1> HIDE DEF T
<1>6. n \in T
  BY <1>2, <1>4, <1>5, NatSetInduction
<1>7. AfterRequests(t, c[n], es)
  <2>1. SubSeq(es, 1, n) = es
    BY DEF n
  <2>2. AfterRequests(t, c[n], SubSeq(es, 1, n))
    BY <1>2, <1>6 DEF T
  <2>. QED
    BY <2>1, <2>2, Zenon
<1> DEFINE ran == c[n]
<1>8. n \in 0..(n + 1) /\ n + 1 \in 1..(n + 1) /\ (n + 1) - 1 = n /\ n + 1 \in 0..(n + 1)
  BY <1>2
<1>9. ran \in Runs(own) /\ last \in Runs(own) /\ last = Applied(ran, e)
  BY <1>2, <1>3, <1>8
<1> HIDE DEF ran
<1>10. /\ ran.g \in OwnedGraphs(own) /\ ran.failed = FALSE /\ ran.dirty = FALSE /\ AfterRequests(t, ran, es)
       /\ e \in AllEdits
  BY <1>7, <1>9 DEF AfterRequests, Runs, OwnedEdits, ran
<1>11. CASE Fails(ran.g, e)
  <2>1. last = [ran EXCEPT !.failed = TRUE, !.dirty = @ \/ e.kind \in {"place", "replace"}]
    BY <1>9, <1>10, <1>11 DEF Applied
  <2>2. last.failed /\ last.g = ran.g
    BY <1>9, <2>1 DEF Runs
  <2>. QED
    BY <1>9, <1>10, <2>2 DEF AfterRequests, last, fs
<1>12. CASE ~Fails(ran.g, e)
  <2> DEFINE x == CHOOSE x \in Put(ran.g, e, Aim(ran.g, e)) : TRUE
             step == [e |-> e, old |-> Side(ran.g, e), new |-> Side(x, e)]
  <2>1. e.kind # "broken" /\ Put(ran.g, e, Aim(ran.g, e)) # {}
    BY <1>12 DEF Fails
  <2>2. x \in Put(ran.g, e, Aim(ran.g, e))
    BY <2>1
  <2>3. last = IF x = ran.g /\ e.kind \notin {"place", "replace"} THEN ran
             ELSE [ran EXCEPT !.g = x, !.dirty = @ \/ e.kind \in {"ref", "place", "replace"}, !.steps = Append(@, step)]
    BY <1>9, <1>10, <1>12 DEF Applied
  <2> HIDE DEF x, step
  <2>4. e.kind \in {"ref", "place", "replace"}
    BY <1>10, <2>1, EditTyped
  <2> DEFINE t0 == ran.g
  <2>5. x.warning = ran.g.warning
    <3>1. t0 \in OwnedGraphs(own) /\ x \in Put(t0, e, Aim(t0, e))
      BY <1>10, <2>2
    <3> HIDE DEF t0
    <3>2. Aim(t0, e) \in Sides(own, e)
      BY <2>1, <3>1, AimTyped
    <3> DEFINE a == Aim(t0, e)
    <3>3. x.warning = t0.warning
      <4>1. a \in Sides(own, e) /\ x \in Put(t0, e, a) /\ e \in AllEdits
        BY <1>10, <3>1, <3>2
      <4> HIDE DEF a
      <4>. QED
        BY <2>4, <3>1, <4>1, PutWarnings
    <3>. QED
      BY <3>3 DEF t0
  <2>6. CASE x = ran.g /\ e.kind \notin {"place", "replace"}
    BY <1>9, <1>10, <2>3, <2>6 DEF AfterRequests, last, fs
  <2>7. CASE ~(x = ran.g /\ e.kind \notin {"place", "replace"})
    <3>1. last = [ran EXCEPT !.g = x, !.dirty = @ \/ e.kind \in {"ref", "place", "replace"}, !.steps = Append(@, step)]
      BY <2>3, <2>7
    <3>2. last.g = x /\ last.dirty
      BY <1>9, <2>4, <3>1 DEF Runs
    <3>. QED
      BY <1>9, <1>10, <2>5, <3>2 DEF AfterRequests, last, fs
  <2>. QED
    BY <2>6, <2>7
<1>. QED
  BY <1>11, <1>12

-----------------------------------------------------------------------------
(* Undo and redo.                                                          *)

Sides2 == {"old", "new"}

Replays(own) == [g : OwnedGraphs(own), failed : BOOLEAN]

\* One step put back, or refused.
RestoredStep(ran, s, which) ==
    LET results == Put(ran.g, s.e, s[which])
    IN  IF ran.failed THEN ran
        ELSE IF results = {} THEN [ran EXCEPT !.failed = TRUE]
        ELSE [ran EXCEPT !.g = CHOOSE x \in results : TRUE]

LEMMA RestoredStepOwned ==
    ASSUME NEW own \in Owners, NEW ran \in Replays(own), NEW s \in OwnedSteps(own), NEW which \in Sides2
    PROVE  RestoredStep(ran, s, which) \in Replays(own)
<1> DEFINE results == Put(ran.g, s.e, s[which])
           x == CHOOSE x \in results : TRUE
<1>1. ran.g \in OwnedGraphs(own) /\ ran.failed \in BOOLEAN
  BY DEF Replays
<1>2. s.e \in AllEdits /\ s.e # Broken /\ s[which] \in Sides(own, s.e)
  BY DEF OwnedSteps, Sides2
<1>3. s.e.kind # "broken"
  BY <1>2, EditTyped
<1>4. results \subseteq OwnedGraphs(own)
  BY <1>1, <1>2, <1>3, PutOwned
<1>5. RestoredStep(ran, s, which) = IF ran.failed THEN ran
        ELSE IF results = {} THEN [ran EXCEPT !.failed = TRUE] ELSE [ran EXCEPT !.g = x]
  BY DEF RestoredStep
<1>6. results # {} => x \in results
  OBVIOUS
<1> HIDE DEF results, x
<1>7. CASE ran.failed
  BY <1>5, <1>7
<1>8. CASE ~ran.failed /\ results = {}
  <2>1. RestoredStep(ran, s, which) = [ran EXCEPT !.failed = TRUE]
    BY <1>5, <1>8
  <2>. QED
    BY <1>1, <2>1 DEF Replays
<1>9. CASE ~ran.failed /\ results # {}
  <2>1. RestoredStep(ran, s, which) = [ran EXCEPT !.g = x] /\ x \in OwnedGraphs(own)
    BY <1>4, <1>5, <1>6, <1>9
  <2>. QED
    BY <1>1, <2>1 DEF Replays
<1>. QED
  BY <1>7, <1>8, <1>9

LEMMA RestoredOwned ==
    ASSUME NEW own \in Owners, NEW t \in OwnedGraphs(own), NEW steps \in Seq(OwnedSteps(own)), NEW which \in Sides2
    PROVE  Restored(t, steps, which) \in Replays(own)
<1> DEFINE n == Len(steps)
           q == [g |-> t, failed |-> FALSE]
           F == [i \in 1..n |-> [a \in Replays(own) |-> RestoredStep(a, steps[i], which)]]
           Sol(c) == c = [i \in 0..n |-> IF i = 0 THEN q ELSE RestoredStep(c[i - 1], steps[i], which)]
           h == CHOOSE c : Sol(c)
<1>1. n \in Nat /\ \A i \in 1..n : steps[i] \in OwnedSteps(own)
  OBVIOUS
<1>2. q \in Replays(own)
  BY DEF Replays
<1>3. F \in [1..n -> [Replays(own) -> Replays(own)]]
  BY <1>1, RestoredStepOwned
<1>4. \A i \in 1..n, a \in Replays(own) : F[i][a] = RestoredStep(a, steps[i], which)
  OBVIOUS
<1>5. Restored(t, steps, which) = h[n]
  BY DEF Restored, RestoredStep
<1> HIDE DEF n, F, h, q
<1>6. PICK c \in [0..n -> Replays(own)] : IsRecursion(c, n, q, F)
  BY <1>1, <1>2, <1>3, RecursionExists
<1>7. ASSUME NEW i \in 0..n PROVE c[i] = IF i = 0 THEN q ELSE RestoredStep(c[i - 1], steps[i], which)
  <2>1. i # 0 => i \in 1..n /\ i - 1 \in 0..n
    BY <1>1
  <2>2. c[i] = IF i = 0 THEN q ELSE F[i][c[i - 1]]
    BY <1>6 DEF IsRecursion
  <2>. QED
    BY <1>4, <1>6, <2>1, <2>2
<1>8. Sol(c)
  BY <1>6, <1>7
<1>9. Sol(h)
  BY <1>8 DEF h
<1>10. ASSUME NEW i \in 0..n PROVE h[i] = IF i = 0 THEN q ELSE RestoredStep(h[i - 1], steps[i], which)
  BY <1>9
<1> DEFINE T == {k \in Nat : k <= n => h[k] \in Replays(own)}
<1>11. 0 \in T
  BY <1>1, <1>2, <1>10
<1>12. ASSUME NEW k \in Nat, k \in T PROVE k + 1 \in T
  <2> SUFFICES ASSUME k + 1 <= n PROVE h[k + 1] \in Replays(own)
    OBVIOUS
  <2>1. k + 1 \in 0..n /\ k + 1 \in 1..n /\ k + 1 # 0 /\ (k + 1) - 1 = k /\ h[k] \in Replays(own)
    BY <1>1, <1>12
  <2>2. h[k + 1] = RestoredStep(h[k], steps[k + 1], which)
    BY <1>10, <2>1
  <2>. QED
    BY <1>1, <2>1, <2>2, RestoredStepOwned
<1> HIDE DEF T
<1>13. n \in T
  BY <1>1, <1>11, <1>12, NatSetInduction
<1>. QED
  BY <1>1, <1>5, <1>13 DEF T

\* Undo and redo: every reference is as it should be unless a step was refused.
LEMMA TravelledOwned ==
    ASSUME NEW own \in Owners, NEW t \in OwnedGraphs(own), NEW steps \in Seq(OwnedSteps(own)), NEW which \in Sides2
    PROVE  LET ran == Restored(t, steps, which)
           IN  /\ Travelled(ran) \in OwnedGraphs(own)
               /\ ~ran.failed => \A p \in Refs : RightAt(Travelled(ran), p)
<1> DEFINE ran == Restored(t, steps, which)
<1>1. ran.g \in OwnedGraphs(own)
  BY RestoredOwned DEF Replays
<1> HIDE DEF ran
<1>2. /\ Synced(ran.g) \in OwnedGraphs(own)
      /\ \A p \in Refs : RightAt(Synced(ran.g), p)
  BY <1>1, SyncedRight
<1>3. /\ Travelled(ran) \in OwnedGraphs(own)
      /\ ~ran.failed => \A p \in Refs : RightAt(Travelled(ran), p)
  BY <1>1, <1>2 DEF Travelled
<1>. QED
  BY <1>3 DEF ran

-----------------------------------------------------------------------------
(* Requests.                                                               *)

\* What looking at requests in turn leaves: the graph as it would be, and
\* the requests kept.
Views == [t : Graphs, kept : Seq(Requests)]

SeenStep(acc, e) ==
    LET now == Warned(Shown(acc.t, e.on), e)
    IN  IF now = Shown(acc.t, e.on) THEN acc
        ELSE [t |-> Show(acc.t, e.on, now), kept |-> Append(acc.kept, e)]

LEMMA SeenStepIs ==
    ASSUME NEW acc \in Views, NEW e \in Requests
    PROVE  /\ SeenStep(acc, e) \in Views
           /\ SeenStep(acc, e).t.warning = [acc.t.warning EXCEPT ![e.on] = e.new]
           /\ SeenStep(acc, e).kept \in {acc.kept, Append(acc.kept, e)}
           /\ SeenStep(acc, e).kept = acc.kept => acc.t.warning[e.on] = e.new
<1> DEFINE now == Warned(Shown(acc.t, e.on), e)
           t == acc.t
<1>1. t \in Graphs /\ acc.kept \in Seq(Requests) /\ e.on \in Refs /\ e.new \in Warnings
      /\ acc = [t |-> t, kept |-> acc.kept]
  BY RequestTyped DEF Views
<1>2. t.warning \in [Refs -> Warnings] /\ t.missing \in [Refs -> BOOLEAN]
  BY <1>1 DEF Graphs
<1>3. Shown(t, e.on) = [missing |-> t.missing[e.on], warning |-> t.warning[e.on]]
  BY DEF Shown
<1>4. now = IF e.kind = "clear" THEN [missing |-> FALSE, warning |-> Calm]
            ELSE [[missing |-> t.missing[e.on], warning |-> t.warning[e.on]] EXCEPT !.warning = e.new]
  BY <1>3 DEF Warned
<1>5. now \in Looks /\ now.warning = e.new
  BY <1>1, <1>2, <1>4, RequestTyped DEF Looks
<1>6. SeenStep(acc, e) = IF now = Shown(t, e.on) THEN acc
                         ELSE [t |-> Show(t, e.on, now), kept |-> Append(acc.kept, e)]
  BY DEF SeenStep
<1> HIDE DEF now
<1>7. CASE now = Shown(t, e.on)
  <2>1. t.warning[e.on] = e.new
    BY <1>3, <1>5, <1>7
  <2>2. [t.warning EXCEPT ![e.on] = e.new] = t.warning
    BY <1>1, <1>2, <2>1
  <2>. QED
    BY <1>6, <1>7, <2>1, <2>2
<1>8. CASE now # Shown(t, e.on)
  <2> DEFINE x == [t EXCEPT !.missing[e.on] = now.missing, !.warning[e.on] = now.warning]
  <2>1. SeenStep(acc, e) = [t |-> x, kept |-> Append(acc.kept, e)]
    BY <1>6, <1>8 DEF Show
  <2>2. x \in Graphs /\ x.warning = [t.warning EXCEPT ![e.on] = e.new]
    BY <1>1, <1>5 DEF Graphs, Looks
  <2> HIDE DEF x
  <2>3. Append(acc.kept, e) \in Seq(Requests) /\ Append(acc.kept, e) # acc.kept
    BY <1>1
  <2>. QED
    BY <2>1, <2>2, <2>3 DEF Views
<1>. QED
  BY <1>7, <1>8

\* What Kept computes.
LEMMA KeptIs ==
    ASSUME NEW t \in Graphs, NEW es \in Seq(Requests)
    PROVE  \E c \in [0..Len(es) -> Views] :
              /\ c[0] = [t |-> t, kept |-> <<>>] /\ Kept(t, es) = c[Len(es)].kept
              /\ \A i \in 1..Len(es) : c[i] = SeenStep(c[i - 1], es[i])
<1> DEFINE n == Len(es)
           q == [t |-> t, kept |-> <<>>]
           F == [i \in 1..n |-> [a \in Views |-> SeenStep(a, es[i])]]
           Sol(c) == c = [i \in 0..n |-> IF i = 0 THEN q ELSE SeenStep(c[i - 1], es[i])]
           h == CHOOSE c : Sol(c)
<1>1. n \in Nat /\ \A i \in 1..n : es[i] \in Requests
  OBVIOUS
<1>2. q \in Views
  BY DEF Views
<1>3. F \in [1..n -> [Views -> Views]]
  BY <1>1, SeenStepIs
<1>4. \A i \in 1..n, a \in Views : F[i][a] = SeenStep(a, es[i])
  OBVIOUS
<1>5. Kept(t, es) = h[n].kept
  BY DEF Kept, SeenStep
<1> HIDE DEF n, F, h, q
<1>6. PICK c \in [0..n -> Views] : IsRecursion(c, n, q, F)
  BY <1>1, <1>2, <1>3, RecursionExists
<1>7. ASSUME NEW i \in 0..n PROVE c[i] = IF i = 0 THEN q ELSE SeenStep(c[i - 1], es[i])
  <2>1. i # 0 => i \in 1..n /\ i - 1 \in 0..n
    BY <1>1
  <2>2. c[i] = IF i = 0 THEN q ELSE F[i][c[i - 1]]
    BY <1>6 DEF IsRecursion
  <2>. QED
    BY <1>4, <1>6, <2>1, <2>2
<1>8. Sol(c)
  BY <1>6, <1>7
<1>9. Sol(h)
  BY <1>8 DEF h
<1>10. ASSUME NEW i \in 0..n PROVE h[i] = IF i = 0 THEN q ELSE SeenStep(h[i - 1], es[i])
  BY <1>9
<1> DEFINE T == {k \in Nat : k <= n => c[k] = h[k]}
<1>11. 0 \in T
  BY <1>1, <1>7, <1>10
<1>12. ASSUME NEW k \in Nat, k \in T PROVE k + 1 \in T
  <2> SUFFICES ASSUME k + 1 <= n PROVE c[k + 1] = h[k + 1]
    OBVIOUS
  <2>1. k + 1 \in 0..n /\ k + 1 # 0 /\ (k + 1) - 1 = k /\ c[k] = h[k]
    BY <1>1, <1>12
  <2>. QED
    BY <1>7, <1>10, <2>1
<1> HIDE DEF T
<1>13. n \in T
  BY <1>1, <1>11, <1>12, NatSetInduction
<1>14. c[0] = q /\ Kept(t, es) = c[n].kept
  BY <1>1, <1>5, <1>7, <1>13 DEF T
<1>15. \A i \in 1..n : c[i] = SeenStep(c[i - 1], es[i])
  BY <1>1, <1>7
<1>. QED
  BY <1>6, <1>14, <1>15 DEF n, q

\* The requests kept ask for the same as those looked at, and are all of them
\* unless some are dropped.
Agrees(w, es, v) ==
    /\ v.t.warning = Asks(w, es) /\ v.t.warning = Asks(w, v.kept)
    /\ v.kept = es \/ Len(v.kept) < Len(es)
    /\ \A i \in 1..Len(v.kept) : \E j \in 1..Len(es) : v.kept[i] = es[j]

LEMMA AgreesOneMore ==
    ASSUME NEW w, NEW es \in Seq(Requests), NEW v \in Views, Agrees(w, es, v), NEW e \in Requests
    PROVE  Agrees(w, Append(es, e), SeenStep(v, e))
<1> DEFINE x == SeenStep(v, e)
           fs == Append(es, e)
           n == Len(es)
<1>1. /\ n \in Nat /\ Len(fs) = n + 1 /\ fs[n + 1] = e /\ \A i \in 1..n : fs[i] = es[i]
  OBVIOUS
<1>2. v.kept \in Seq(Requests) /\ v.t.warning \in [Refs -> Warnings] /\ e.on \in Refs
  BY RequestTyped DEF Views, Graphs
<1>3. /\ x.t.warning = [v.t.warning EXCEPT ![e.on] = e.new]
      /\ x.kept = v.kept \/ x.kept = Append(v.kept, e)
      /\ x.kept = v.kept => v.t.warning[e.on] = e.new
  BY SeenStepIs
<1>4. /\ v.t.warning = Asks(w, es) /\ v.t.warning = Asks(w, v.kept)
      /\ v.kept = es \/ Len(v.kept) < n
      /\ \A i \in 1..Len(v.kept) : \E j \in 1..n : v.kept[i] = es[j]
  BY DEF Agrees
<1>5. Asks(w, fs) = [Asks(w, es) EXCEPT ![e.on] = e.new]
  BY AsksOneMore
<1> HIDE DEF x
<1>6. x.t.warning = Asks(w, fs)
  BY <1>3, <1>4, <1>5
<1>7. Len(v.kept) \in Nat /\ Len(v.kept) <= n
  BY <1>1, <1>2, <1>4
<1>8. ASSUME NEW i \in 1..Len(v.kept) PROVE \E j \in 1..Len(fs) : v.kept[i] = fs[j]
  <2>1. PICK j \in 1..n : v.kept[i] = es[j]
    BY <1>4
  <2>. QED
    BY <1>1, <2>1
<1> HIDE DEF fs, n
<1>9. CASE x.kept = v.kept
  <2>1. x.t.warning = v.t.warning
    <3> DEFINE f == v.t.warning
    <3>1. f \in [Refs -> Warnings] /\ f[e.on] = e.new /\ x.t.warning = [f EXCEPT ![e.on] = e.new]
      BY <1>2, <1>3, <1>9
    <3> HIDE DEF f
    <3>2. [f EXCEPT ![e.on] = e.new] = f
      BY <1>2, <3>1
    <3>. QED
      BY <3>1, <3>2 DEF f
  <2>2. x.t.warning = Asks(w, x.kept)
    BY <1>4, <1>9, <2>1
  <2>3. Len(x.kept) < Len(fs)
    BY <1>1, <1>7, <1>9
  <2>4. \A i \in 1..Len(x.kept) : \E j \in 1..Len(fs) : x.kept[i] = fs[j]
    BY <1>8, <1>9
  <2>. QED
    BY <1>6, <2>2, <2>3, <2>4 DEF Agrees, x, fs
<1>10. CASE x.kept = Append(v.kept, e)
  <2>1. x.t.warning = Asks(w, x.kept)
    <3>1. Asks(w, x.kept) = [Asks(w, v.kept) EXCEPT ![e.on] = e.new]
      BY <1>2, <1>10, AsksOneMore
    <3>. QED
      BY <1>3, <1>4, <3>1
  <2>2. Len(x.kept) = Len(v.kept) + 1
    BY <1>2, <1>10
  <2>3. x.kept = fs \/ Len(x.kept) < Len(fs)
    <3>1. CASE v.kept = es
      BY <1>10, <3>1 DEF fs
    <3>2. CASE Len(v.kept) < n
      BY <1>1, <1>7, <2>2, <3>2
    <3>. QED
      BY <1>4, <3>1, <3>2
  <2>4. ASSUME NEW i \in 1..Len(x.kept) PROVE \E j \in 1..Len(fs) : x.kept[i] = fs[j]
    <3>1. CASE i \in 1..Len(v.kept)
      <4>1. x.kept[i] = v.kept[i]
        BY <1>2, <1>10, <3>1
      <4>. QED
        BY <1>8, <3>1, <4>1
    <3>2. CASE i \notin 1..Len(v.kept)
      <4>1. i = Len(v.kept) + 1
        BY <1>7, <2>2, <3>2
      <4>2. x.kept[i] = e
        BY <1>2, <1>10, <4>1
      <4>3. n + 1 \in 1..Len(fs)
        BY <1>1
      <4>. QED
        BY <1>1, <4>2, <4>3
    <3>. QED
      BY <3>1, <3>2
  <2>. QED
    BY <1>6, <2>1, <2>3, <2>4 DEF Agrees, x, fs
<1>. QED
  BY <1>3, <1>9, <1>10

LEMMA KeptRight ==
    ASSUME NEW t \in Graphs, NEW es \in Seq(Requests)
    PROVE  /\ Kept(t, es) \in Seq(Requests)
           /\ Asks(t.warning, Kept(t, es)) = Asks(t.warning, es)
           /\ Kept(t, es) = es \/ Len(Kept(t, es)) < Len(es)
           /\ \A i \in 1..Len(Kept(t, es)) : \E j \in 1..Len(es) : Kept(t, es)[i] = es[j]
<1> DEFINE n == Len(es)
<1>1. n \in Nat /\ \A i \in 1..n : es[i] \in Requests
  OBVIOUS
<1>2. PICK c \in [0..n -> Views] :
        /\ c[0] = [t |-> t, kept |-> <<>>] /\ Kept(t, es) = c[n].kept
        /\ \A i \in 1..n : c[i] = SeenStep(c[i - 1], es[i])
  BY KeptIs
<1> DEFINE w == t.warning
           T == {k \in Nat : k <= n => Agrees(w, SubSeq(es, 1, k), c[k])}
<1>3. 0 \in T
  <2>1. SubSeq(es, 1, 0) = <<>>
    OBVIOUS
  <2>2. w \in [Refs -> Warnings]
    BY DEF Graphs
  <2>3. Asks(w, <<>>) = w
    BY <2>2 DEF Asks
  <2>4. Agrees(w, <<>>, [t |-> t, kept |-> <<>>])
    BY <2>3 DEF Agrees
  <2>. QED
    BY <1>2, <2>1, <2>4
<1> HIDE DEF w
<1>4. ASSUME NEW k \in Nat, k \in T PROVE k + 1 \in T
  <2> SUFFICES ASSUME k + 1 <= n PROVE Agrees(w, SubSeq(es, 1, k + 1), c[k + 1])
    OBVIOUS
  <2>1. k + 1 \in 1..n /\ (k + 1) - 1 = k /\ k \in 0..n /\ k <= n
    BY <1>1
  <2>2. c[k] \in Views /\ es[k + 1] \in Requests /\ c[k + 1] = SeenStep(c[k], es[k + 1])
    BY <1>1, <1>2, <2>1
  <2>3. Agrees(w, SubSeq(es, 1, k), c[k])
    BY <1>4, <2>1
  <2>4. SubSeq(es, 1, k + 1) = Append(SubSeq(es, 1, k), es[k + 1]) /\ SubSeq(es, 1, k) \in Seq(Requests)
    BY <2>1
  <2>5. Agrees(w, Append(SubSeq(es, 1, k), es[k + 1]), SeenStep(c[k], es[k + 1]))
    BY <2>2, <2>3, <2>4, AgreesOneMore, Zenon
  <2>. QED
    BY <2>2, <2>4, <2>5, Zenon
<1> HIDE DEF T
<1>5. n \in T
  BY <1>1, <1>3, <1>4, NatSetInduction
<1>6. Agrees(w, SubSeq(es, 1, n), c[n])
  BY <1>1, <1>5 DEF T
<1>7. SubSeq(es, 1, n) = es
  OBVIOUS
<1>8. c[n] \in Views
  BY <1>1, <1>2
<1>9. c[n].kept \in Seq(Requests)
  BY <1>8 DEF Views
<1>10. Agrees(w, es, c[n])
  BY <1>6, <1>7, Zenon
<1>. QED
  BY <1>2, <1>9, <1>10 DEF Agrees, w

\* Asking for more after other requests.
LEMMA AsksMore ==
    ASSUME NEW w, NEW es \in Seq(Requests), NEW fs \in Seq(Requests)
    PROVE  Asks(w, es \o fs) = Asks(Asks(w, es), fs)
<1> DEFINE gs == es \o fs
           m == Len(es)
           n == Len(fs)
<1>1. /\ gs \in Seq(Requests) /\ Len(gs) = m + n /\ m \in Nat /\ n \in Nat
      /\ \A i \in 1..m : gs[i] = es[i]
      /\ \A i \in 1..n : gs[m + i] = fs[i]
  OBVIOUS
<1>g. gs \in Seq(Requests)
  BY <1>1
<1> HIDE DEF gs
<1>2. ASSUME NEW p \in Refs PROVE Asks(w, gs)[p] = Asks(Asks(w, es), fs)[p]
  <2>1. CASE \E i \in 1..n : fs[i].on = p
    <3>2. PICK i \in 1..n : fs[i].on = p /\ \A j \in (i + 1)..n : fs[j].on # p
      BY <2>1, LastAbout
    <3>3. Asks(Asks(w, es), fs)[p] = fs[i].new
      BY <3>2, AsksLast
    <3>4. m + i \in 1..Len(gs) /\ gs[m + i] = fs[i] /\ gs[m + i].on = p
      BY <1>1, <3>2
    <3>5. ASSUME NEW j \in (m + i + 1)..Len(gs) PROVE gs[j].on # p
      <4>1. j - m \in (i + 1)..n /\ j - m \in 1..n /\ m + (j - m) = j
        BY <1>1, <3>2
      <4>2. gs[m + (j - m)] = fs[j - m]
        BY <1>1, <4>1
      <4>. QED
        BY <3>2, <4>1, <4>2
    <3>6. Asks(w, gs)[p] = gs[m + i].new
      BY <1>g, <3>4, <3>5, AsksLast
    <3>. QED
      BY <3>3, <3>4, <3>6
  <2>2. CASE \A i \in 1..n : fs[i].on # p
    <3>1. Asks(Asks(w, es), fs)[p] = Asks(w, es)[p]
      BY <2>2, AsksNothing
    <3>n. ASSUME NEW j \in (m + 1)..Len(gs) PROVE gs[j].on # p
      <4>1. j - m \in 1..n /\ m + (j - m) = j
        BY <1>1
      <4>2. gs[m + (j - m)] = fs[j - m]
        BY <1>1, <4>1
      <4>. QED
        BY <2>2, <4>1, <4>2
    <3>2. CASE \E i \in 1..m : es[i].on = p
      <4>2. PICK i \in 1..m : es[i].on = p /\ \A j \in (i + 1)..m : es[j].on # p
        BY <3>2, LastAbout
      <4>3. Asks(w, es)[p] = es[i].new
        BY <4>2, AsksLast
      <4>4. i \in 1..Len(gs) /\ gs[i] = es[i] /\ gs[i].on = p
        BY <1>1, <4>2
      <4>5. ASSUME NEW j \in (i + 1)..Len(gs) PROVE gs[j].on # p
        <5>1. CASE j \in (m + 1)..Len(gs)
          BY <3>n, <5>1
        <5>2. CASE j \notin (m + 1)..Len(gs)
          <6>1. j \in (i + 1)..m /\ j \in 1..m
            BY <1>1, <4>2, <5>2
          <6>. QED
            BY <1>1, <4>2, <6>1
        <5>. QED
          BY <5>1, <5>2
      <4>6. Asks(w, gs)[p] = gs[i].new
        BY <1>g, <4>4, <4>5, AsksLast
      <4>. QED
        BY <3>1, <4>3, <4>4, <4>6
    <3>3. CASE \A i \in 1..m : es[i].on # p
      <4>1. Asks(w, es)[p] = w[p]
        BY <3>3, AsksNothing
      <4>2. ASSUME NEW j \in 1..Len(gs) PROVE gs[j].on # p
        <5>1. CASE j \in (m + 1)..Len(gs)
          BY <3>n, <5>1
        <5>2. CASE j \notin (m + 1)..Len(gs)
          <6>1. j \in 1..m
            BY <1>1, <5>2
          <6>. QED
            BY <1>1, <3>3, <6>1
        <5>. QED
          BY <5>1, <5>2
      <4>3. Asks(w, gs)[p] = w[p]
        BY <1>1, <4>2, AsksNothing
      <4>. QED
        BY <3>1, <4>1, <4>3
    <3>. QED
      BY <3>2, <3>3
  <2>. QED
    BY <2>1, <2>2
<1>3. \A v, s : Asks(v, s) = [p \in Refs |-> Asks(v, s)[p]]
  BY DEF Asks
<1>. QED
  BY <1>2, <1>3 DEF gs

LEMMA AsksTyped ==
    ASSUME NEW w \in [Refs -> Warnings], NEW es \in Seq(Requests)
    PROVE  Asks(w, es) \in [Refs -> Warnings]
<1>1. ASSUME NEW p \in Refs PROVE Asks(w, es)[p] \in Warnings
  <2>1. CASE \A i \in 1..Len(es) : es[i].on # p
    BY <2>1, AsksNothing
  <2>2. CASE \E i \in 1..Len(es) : es[i].on = p
    <3>2. PICK i \in 1..Len(es) : es[i].on = p /\ \A j \in (i + 1)..Len(es) : es[j].on # p
      BY <2>2, LastAbout
    <3>3. Asks(w, es)[p] = es[i].new
      BY <3>2, AsksLast
    <3>4. es[i] \in Requests
      BY <3>2
    <3>. QED
      BY <3>3, <3>4, RequestTyped
  <2>. QED
    BY <2>1, <2>2
<1>2. Asks(w, es) = [p \in Refs |-> Asks(w, es)[p]]
  BY DEF Asks
<1>. QED
  BY <1>1, <1>2

\* Where nothing queued is about what is asked now, the requests dropped make no difference.
LEMMA DroppedRight ==
    ASSUME NEW t \in Graphs, NEW es \in Seq(Requests), NEW before \in Seq(Requests),
           \A i \in 1..Len(before), j \in 1..Len(es) : before[i].on # es[j].on
    PROVE  Asks(Asks(t.warning, before), es) = Asks(Asks(t.warning, before), Kept(t, es))
<1> DEFINE w == t.warning
           v == Asks(w, before)
           kept == Kept(t, es)
<1>1. /\ kept \in Seq(Requests) /\ Asks(w, kept) = Asks(w, es)
      /\ \A i \in 1..Len(kept) : \E j \in 1..Len(es) : kept[i] = es[j]
  BY KeptRight
<1>2. ASSUME NEW p \in Refs, w[p] = v[p], NEW s PROVE Asks(v, s)[p] = Asks(w, s)[p]
  BY <1>2 DEF Asks
<1> HIDE DEF kept, w
<1>3. ASSUME NEW p \in Refs PROVE Asks(v, es)[p] = Asks(v, kept)[p]
  <2>1. CASE \E j \in 1..Len(es) : es[j].on = p
    <3>1. \A i \in 1..Len(before) : before[i].on # p
      BY <2>1
    <3>2. v[p] = w[p]
      BY <3>1, AsksNothing
    <3> HIDE DEF v
    <3>. QED
      BY <1>1, <1>2, <3>2
  <2>2. CASE \A j \in 1..Len(es) : es[j].on # p
    <3>1. \A i \in 1..Len(kept) : kept[i].on # p
      BY <1>1, <2>2
    <3> HIDE DEF v
    <3>. QED
      BY <1>1, <2>2, <3>1, AsksNothing
  <2>. QED
    BY <2>1, <2>2
<1>4. \A x, s : Asks(x, s) = [p \in Refs |-> Asks(x, s)[p]]
  BY DEF Asks
<1> HIDE DEF v
<1>5. Asks(v, es) = Asks(v, kept)
  BY <1>3, <1>4
<1>. QED
  BY <1>5 DEF v, kept, w

-----------------------------------------------------------------------------
(* The invariant.                                                          *)

ReferencesTyped ==
    /\ g \in Graphs
    /\ queue \in Seq(Requests)
    /\ used \in SUBSET Uuids
    /\ outdated \in SUBSET Refs
    /\ asked \in [Refs -> Warnings]
    /\ overtaken \in BOOLEAN
    /\ requests \in 0..MaxRequests
    /\ batches \in 0..MaxBatches

\* The graph and the history stick to the owners of uuids; a uuid somebody owns is used.
Owned(own) ==
    /\ g \in OwnedGraphs(own)
    /\ past \in Seq(Seq(OwnedSteps(own))) /\ future \in Seq(Seq(OwnedSteps(own)))
    /\ \A u \in Uuids : own[u] # NoNode => u \in used

UuidsOwned == \E own \in Owners : Owned(own)

ReferencesRight == \A p \in Refs \ outdated : RightAt(g, p)

\* The requests that wait lead to what was asked for.
WarningsTracked == ~overtaken => asked = Asks(g.warning, queue)

ReferencesInv == ReferencesTyped /\ UuidsOwned /\ ReferencesRight /\ WarningsTracked

LEMMA OwnersGrow ==
    ASSUME NEW own \in Owners, NEW own2 \in Owners,
           \A u \in Uuids : own[u] # NoNode => own2[u] = own[u]
    PROVE  /\ OwnedGraphs(own) \subseteq OwnedGraphs(own2)
           /\ Seq(Seq(OwnedSteps(own))) \subseteq Seq(Seq(OwnedSteps(own2)))
<1>1. ASSUME NEW t \in OwnedGraphs(own) PROVE t \in OwnedGraphs(own2)
  <2>1. ASSUME NEW n \in Targets PROVE own2[t.uuid[n]] = n
    <3>1. t.uuid[n] \in Uuids /\ own[t.uuid[n]] = n /\ n # NoNode
      BY DEF OwnedGraphs, Graphs
    <3>. QED
      BY <3>1
  <2>. QED
    BY <2>1 DEF OwnedGraphs
<1>2. ASSUME NEW n \in Targets PROVE OwnedIdentities(own, n) \subseteq OwnedIdentities(own2, n)
  <2>1. n # NoNode
    OBVIOUS
  <2>. QED
    BY <2>1 DEF OwnedIdentities, Identities
<1>3. ASSUME NEW s \in OwnedSteps(own) PROVE s \in OwnedSteps(own2)
  <2>1. /\ s \in [e : AllEdits \ {Broken}, old : AllSides, new : AllSides]
        /\ s.old \in Sides(own, s.e) /\ s.new \in Sides(own, s.e)
    BY DEF OwnedSteps
  <2>2. s.e \in AllEdits
    BY <2>1
  <2>3. Sides(own, s.e) \subseteq Sides(own2, s.e)
    <3>1. CASE s.e.kind = "replace"
      <4>1. s.e.on \in Targets
        BY <2>2, <3>1, EditTyped
      <4>2. Sides(own, s.e) = OwnedIdentities(own, s.e.on) /\ Sides(own2, s.e) = OwnedIdentities(own2, s.e.on)
        BY <3>1 DEF Sides
      <4>. QED
        BY <1>2, <4>1, <4>2
    <3>2. CASE s.e.kind # "replace"
      BY <3>2 DEF Sides
    <3>. QED
      BY <3>1, <3>2
  <2>. QED
    BY <2>1, <2>3 DEF OwnedSteps
<1>4. OwnedSteps(own) \subseteq OwnedSteps(own2)
  BY <1>3
<1> DEFINE A == OwnedSteps(own)
           B == OwnedSteps(own2)
<1>5. Seq(A) \subseteq Seq(B)
  <2>1. A \subseteq B
    BY <1>4
  <2> HIDE DEF A, B
  <2>. QED
    BY <2>1
<1>6. Seq(Seq(A)) \subseteq Seq(Seq(B))
  <2> DEFINE AA == Seq(A)
             BB == Seq(B)
  <2>1. AA \subseteq BB
    BY <1>5
  <2> HIDE DEF AA, BB
  <2>2. Seq(AA) \subseteq Seq(BB)
    BY <2>1
  <2>. QED
    BY <2>2 DEF AA, BB
<1>. QED
  BY <1>1, <1>6

LEMMA InitRight ==
    ASSUME ReferencesInit
    PROVE  ReferencesInv
<1>1. PICK where \in [Targets -> {"absent", "inside"}], r \in [Refs -> Filed] :
        /\ used = {AtStart[n] : n \in Targets}
        /\ g = Synced([place |-> where, uuid |-> AtStart, allowed |-> [n \in Targets |-> TRUE], ref |-> r,
                       missing |-> [p \in Refs |-> FALSE], warning |-> [p \in Refs |-> Calm]])
  BY DEF ReferencesInit
<1>2. AtStart \in [Targets -> Uuids] /\ \A m, n \in Targets : AtStart[m] = AtStart[n] => m = n
  <2> DEFINE Q(u) == \A m, n \in Targets : u[m] = u[n] => m = n
  <2>1. \E u \in [Targets -> Uuids] : Q(u)
    BY DEF ReferencesAssumption
  <2>2. AtStart = CHOOSE u \in [Targets -> Uuids] : Q(u)
    BY DEF AtStart
  <2> HIDE DEF Q
  <2>3. AtStart \in [Targets -> Uuids] /\ Q(AtStart)
    BY <2>1, <2>2, Zenon
  <2>. QED
    BY <2>3 DEF Q
<1> DEFINE t == [place |-> where, uuid |-> AtStart, allowed |-> [n \in Targets |-> TRUE], ref |-> r,
                 missing |-> [p \in Refs |-> FALSE], warning |-> [p \in Refs |-> Calm]]
           holder(u) == IF \E n \in Targets : AtStart[n] = u
                        THEN CHOOSE n \in Targets : AtStart[n] = u ELSE NoNode
           own == [u \in Uuids |-> holder(u)]
<1>3. \A u \in Uuids : /\ holder(u) \in Targets \cup {NoNode}
                       /\ holder(u) # NoNode => \E n \in Targets : AtStart[n] = u
  OBVIOUS
<1>4. \A n \in Targets : holder(AtStart[n]) = n
  <2> SUFFICES ASSUME NEW n \in Targets PROVE holder(AtStart[n]) = n
    OBVIOUS
  <2> DEFINE m == CHOOSE m \in Targets : AtStart[m] = AtStart[n]
  <2>1. m \in Targets /\ AtStart[m] = AtStart[n]
    OBVIOUS
  <2>2. holder(AtStart[n]) = m
    OBVIOUS
  <2> HIDE DEF m, holder
  <2>. QED
    BY <1>2, <2>1, <2>2
<1> HIDE DEF holder
<1>5. own \in Owners
  BY <1>3 DEF Owners
<1>6. \A n \in Targets : own[AtStart[n]] = n
  BY <1>2, <1>4
<1>7. t \in Graphs
  BY <1>1, <1>2 DEF Graphs, Places, Warnings, ReferencesAssumption
<1>8. \A u \in Uuids : own[u] # NoNode => u \in used
  BY <1>1, <1>3
<1> HIDE DEF own
<1>9. t \in OwnedGraphs(own)
  BY <1>6, <1>7 DEF OwnedGraphs
<1>10. g = Synced(t) /\ t.warning = [p \in Refs |-> Calm]
  BY <1>1
<1> HIDE DEF t
<1>11. g \in OwnedGraphs(own) /\ (\A p \in Refs : RightAt(g, p)) /\ g.warning = t.warning
  BY <1>5, <1>9, <1>10, SyncedRight
<1>12. /\ queue = <<>> /\ past = <<>> /\ future = <<>> /\ outdated = {} /\ asked = [p \in Refs |-> Calm]
       /\ overtaken = FALSE /\ requests = 0 /\ batches = 0
  BY DEF ReferencesInit
<1>13. Asks(g.warning, <<>>) = [p \in Refs |-> Calm]
  BY <1>10, <1>11 DEF Asks
<1>14. ReferencesTyped
  <2>1. g \in Graphs
    BY <1>11 DEF OwnedGraphs
  <2>2. used \in SUBSET Uuids
    BY <1>1, <1>2
  <2>3. asked \in [Refs -> Warnings]
    BY <1>12 DEF Warnings
  <2>q. <<>> \in Seq(Requests)
    OBVIOUS
  <2>4. queue \in Seq(Requests) /\ outdated \in SUBSET Refs /\ overtaken \in BOOLEAN
    BY <1>12, <2>q
  <2>5. requests \in 0..MaxRequests /\ batches \in 0..MaxBatches
    BY <1>12 DEF ReferencesAssumption
  <2>. QED
    BY <2>1, <2>2, <2>3, <2>4, <2>5 DEF ReferencesTyped
<1>15. UuidsOwned
  BY <1>5, <1>8, <1>11, <1>12 DEF UuidsOwned, Owned
<1>16. ReferencesRight /\ WarningsTracked
  BY <1>11, <1>12, <1>13 DEF ReferencesRight, WarningsTracked
<1>. QED
  BY <1>14, <1>15, <1>16 DEF ReferencesInv

LEMMA AbsorbRight ==
    ASSUME ReferencesInv, NEW es \in Seq(Requests), AbsorbRequests(es)
    PROVE  ReferencesInv'
<1> DEFINE kept == Kept(g, es)
<1>1. /\ requests + Len(es) <= MaxRequests
      /\ queue' = queue \o kept
      /\ asked' = Asks(asked, es)
      /\ overtaken' = (overtaken \/
           (Len(kept) < Len(es) /\ \E i \in DOMAIN queue, j \in DOMAIN es : queue[i].on = es[j].on))
      /\ requests' = requests + Len(es)
      /\ UNCHANGED <<g, past, future, used, outdated, batches>>
  BY DEF AbsorbRequests
<1>2. ReferencesTyped
  BY DEF ReferencesInv
<1>3. g \in Graphs /\ queue \in Seq(Requests) /\ asked \in [Refs -> Warnings] /\ overtaken \in BOOLEAN
  BY <1>2 DEF ReferencesTyped
<1>4. kept \in Seq(Requests) /\ (kept = es \/ Len(kept) < Len(es))
  BY <1>3, KeptRight
<1> HIDE DEF kept
<1>5. ReferencesTyped'
  <2>1. queue' \in Seq(Requests)
    BY <1>1, <1>3, <1>4
  <2>2. asked' \in [Refs -> Warnings]
    BY <1>1, <1>3, AsksTyped
  <2>3. requests' \in 0..MaxRequests
    BY <1>1, <1>2 DEF ReferencesTyped, ReferencesAssumption
  <2>4. overtaken' \in BOOLEAN
    BY <1>1
  <2>. QED
    BY <1>1, <1>2, <2>1, <2>2, <2>3, <2>4 DEF ReferencesTyped
<1>6. UuidsOwned'
  BY <1>1 DEF ReferencesInv, UuidsOwned, Owned
<1>7. ReferencesRight'
  BY <1>1 DEF ReferencesInv, ReferencesRight, RightAt, Right, Lookup, Present, CandidateAllowed
<1>8. WarningsTracked'
  <2> SUFFICES ASSUME ~overtaken' PROVE asked' = Asks(g.warning, queue \o kept)
    BY <1>1 DEF WarningsTracked
  <2>1. asked = Asks(g.warning, queue)
    BY <1>1 DEF ReferencesInv, WarningsTracked
  <2>2. Asks(Asks(g.warning, queue), es) = Asks(Asks(g.warning, queue), kept)
    <3>1. CASE kept = es
      BY <3>1
    <3>2. CASE Len(kept) < Len(es)
      <4>1. \A i \in 1..Len(queue), j \in 1..Len(es) : queue[i].on # es[j].on
        <5>1. ~\E i \in DOMAIN queue, j \in DOMAIN es : queue[i].on = es[j].on
          BY <1>1, <3>2, Zenon
        <5>2. DOMAIN queue = 1..Len(queue) /\ DOMAIN es = 1..Len(es)
          BY <1>3
        <5>. QED
          BY <5>1, <5>2
      <4>. QED
        BY <1>3, <4>1, DroppedRight DEF kept
    <3>. QED
      BY <1>4, <3>1, <3>2
  <2>3. Asks(g.warning, queue \o kept) = Asks(Asks(g.warning, queue), kept)
    BY <1>3, <1>4, AsksMore
  <2>. QED
    BY <1>1, <2>1, <2>2, <2>3
<1>. QED
  BY <1>5, <1>6, <1>7, <1>8 DEF ReferencesInv

\* What an edit of a batch is.
LEMMA BatchEdit ==
    ASSUME NEW e \in Edits
    PROVE  e \in AllEdits /\ e \notin Requests /\ e.kind \in {"ref", "place", "replace", "broken"}
<1>1. Given \subseteq ReferenceValues
  BY DEF Given, Empty, Reference, ReferenceValues, ReferencesAssumption
<1>2. CASE \E p \in Refs, r \in Given : e = SetRef(p, r)
  <2>1. PICK p \in Refs, r \in Given : e = SetRef(p, r)
    BY <1>2
  <2>2. e \in [kind : {"ref"}, on : Refs, new : ReferenceValues] /\ e.kind = "ref"
    BY <1>1, <2>1 DEF SetRef
  <2>. QED
    BY <2>2, RequestTyped DEF AllEdits
<1>3. CASE \E n \in Targets, w \in {"absent", "inside", "outside"} : e = Place(n, w)
  <2>1. e \in [kind : {"place"}, on : Targets, new : Places] /\ e.kind = "place"
    BY <1>3 DEF Place, Places
  <2>. QED
    BY <2>1, RequestTyped DEF AllEdits
<1>4. CASE \E n \in Targets, u \in Uuids, ok \in BOOLEAN : e = Replace(n, u, ok)
  <2>1. e \in [kind : {"replace"}, on : Targets, new : Identities] /\ e.kind = "replace"
    BY <1>4 DEF Replace, Identities
  <2>. QED
    BY <2>1, RequestTyped DEF AllEdits
<1>5. CASE e = Broken
  <2>1. e.kind = "broken"
    BY <1>5 DEF Broken
  <2>. QED
    BY <1>5, <2>1, RequestTyped DEF AllEdits
<1>. QED
  BY <1>2, <1>3, <1>4, <1>5 DEF Edits

LEMMA ApplyRight ==
    ASSUME ReferencesInv, NEW e \in Edits, NEW recorded \in BOOLEAN, ApplyEdits(e, recorded)
    PROVE  ReferencesInv'
<1> DEFINE ran == Batch(g, Append(queue, e))
           after == IF ran.dirty /\ ~ran.failed THEN Synced(ran.g) ELSE ran.g
           grows == recorded /\ ran.steps # <<>>
<1>1. /\ batches < MaxBatches
      /\ e.kind = "replace" => FreshUuid(e.new.uuid)
      /\ g' = after
      /\ queue' = <<>>
      /\ past' = IF grows THEN Append(past, ran.steps) ELSE past
      /\ future' = IF grows THEN <<>> ELSE future
      /\ used' = IF e.kind = "replace" THEN used \cup {e.new.uuid} ELSE used
      /\ outdated' = IF ran.dirty /\ ~ran.failed THEN {}
                     ELSE outdated \cup Unmarked(g, ran) \cup (IF ran.dirty THEN Refs ELSE {})
      /\ asked' = IF ran.failed \/ overtaken THEN after.warning ELSE asked
      /\ overtaken' = FALSE
      /\ batches' = batches + 1
      /\ requests' = requests
  BY DEF ApplyEdits
<1>2. /\ g \in Graphs /\ queue \in Seq(Requests) /\ used \in SUBSET Uuids /\ outdated \in SUBSET Refs
      /\ asked \in [Refs -> Warnings] /\ overtaken \in BOOLEAN
      /\ requests \in 0..MaxRequests /\ batches \in 0..MaxBatches
  BY DEF ReferencesInv, ReferencesTyped
<1>3. PICK own \in Owners : Owned(own)
  BY DEF ReferencesInv, UuidsOwned
<1>4. e \in AllEdits /\ e \notin Requests
  BY BatchEdit
<1> DEFINE own2 == IF e.kind = "replace" THEN [own EXCEPT ![e.new.uuid] = e.on] ELSE own
<1>5. e.kind = "replace" => e.new \in Identities /\ e.on \in Targets /\ e.new.uuid \in Uuids \ used
                            /\ own[e.new.uuid] = NoNode
  <2> SUFFICES ASSUME e.kind = "replace"
               PROVE  e.new \in Identities /\ e.on \in Targets /\ e.new.uuid \in Uuids \ used
                      /\ own[e.new.uuid] = NoNode
    OBVIOUS
  <2>1. e.new \in Identities /\ e.on \in Targets
    BY <1>4, EditTyped
  <2>2. e.new.uuid \in Uuids \ used
    BY <1>1 DEF FreshUuid
  <2>. QED
    BY <1>3, <2>1, <2>2 DEF Owned
<1>6. own2 \in Owners /\ e \in OwnedEdits(own2)
  <2>1. CASE e.kind = "replace"
    <3>1. own2 \in Owners /\ own2[e.new.uuid] = e.on
      BY <1>5, <2>1 DEF Owners
    <3>. QED
      BY <1>4, <1>5, <2>1, <3>1 DEF OwnedEdits, OwnedIdentities
  <2>2. CASE e.kind # "replace"
    BY <1>4, <2>2 DEF OwnedEdits
  <2>. QED
    BY <2>1, <2>2
<1>7. \A u \in Uuids : own[u] # NoNode => own2[u] = own[u]
  BY <1>5 DEF Owners
<1>8. \A u \in Uuids : own2[u] # NoNode => u \in used'
  <2> SUFFICES ASSUME NEW u \in Uuids, own2[u] # NoNode PROVE u \in used'
    OBVIOUS
  <2>1. CASE e.kind = "replace" /\ u = e.new.uuid
    BY <1>1, <2>1
  <2>2. CASE ~(e.kind = "replace" /\ u = e.new.uuid)
    <3>1. own2[u] = own[u]
      BY <1>5, <2>2 DEF Owners
    <3>2. u \in used
      BY <1>3, <3>1 DEF Owned
    <3>. QED
      BY <1>1, <3>2
  <2>. QED
    BY <2>1, <2>2
<1> HIDE DEF own2
<1>9. /\ g \in OwnedGraphs(own2)
      /\ past \in Seq(Seq(OwnedSteps(own2))) /\ future \in Seq(Seq(OwnedSteps(own2)))
  BY <1>3, <1>6, <1>7, OwnersGrow DEF Owned
<1>10. /\ ran \in Runs(own2)
       /\ ~ran.failed => ran.g.warning = Asks(g.warning, queue)
       /\ ~ran.dirty => SameReferences(g, ran.g)
  BY <1>2, <1>4, <1>6, <1>9, BatchRight
<1> HIDE DEF ran
<1>11. ran.g \in OwnedGraphs(own2) /\ ran.steps \in Seq(OwnedSteps(own2))
       /\ ran.dirty \in BOOLEAN /\ ran.failed \in BOOLEAN
  BY <1>10 DEF Runs
<1>12. /\ Synced(ran.g) \in OwnedGraphs(own2)
       /\ \A p \in Refs : RightAt(Synced(ran.g), p)
       /\ Synced(ran.g).warning = ran.g.warning
  BY <1>6, <1>11, SyncedRight
<1>13. after \in OwnedGraphs(own2) /\ after.warning = ran.g.warning
  BY <1>11, <1>12
<1>14. after.warning \in [Refs -> Warnings] /\ after \in Graphs
  BY <1>13 DEF OwnedGraphs, Graphs
<1>15. past' \in Seq(Seq(OwnedSteps(own2))) /\ future' \in Seq(Seq(OwnedSteps(own2)))
  <2> DEFINE A == Seq(OwnedSteps(own2))
  <2>1. past \in Seq(A) /\ future \in Seq(A) /\ ran.steps \in A
    BY <1>9, <1>11
  <2> HIDE DEF A, grows
  <2>2. past' \in Seq(A) /\ future' \in Seq(A)
    BY <1>1, <2>1
  <2>. QED
    BY <2>2 DEF A
<1>16. ReferencesTyped'
  <2>1. g' \in Graphs /\ asked' \in [Refs -> Warnings]
    BY <1>1, <1>2, <1>14
  <2>2. used' \in SUBSET Uuids
    BY <1>1, <1>2, <1>5
  <2>3. outdated' \in SUBSET Refs
    BY <1>1, <1>2 DEF Unmarked
  <2>4. requests' \in 0..MaxRequests /\ batches' \in 0..MaxBatches
    BY <1>1, <1>2 DEF ReferencesAssumption
  <2>q. <<>> \in Seq(Requests)
    OBVIOUS
  <2>5. queue' \in Seq(Requests) /\ overtaken' \in BOOLEAN
    BY <1>1, <2>q
  <2>. QED
    BY <2>1, <2>2, <2>3, <2>4, <2>5 DEF ReferencesTyped
<1>17. UuidsOwned'
  <2>1. Owned(own2)'
    BY <1>1, <1>8, <1>13, <1>15 DEF Owned
  <2>. QED
    BY <1>6, <2>1 DEF UuidsOwned
<1>18. ReferencesRight'
  <2> SUFFICES ASSUME NEW p \in Refs, p \notin outdated' PROVE RightAt(g', p)
    BY DEF ReferencesRight, RightAt, Right, Lookup, Present, CandidateAllowed
  <2>0. g' = after
    BY <1>1
  <2> SUFFICES RightAt(after, p)
    BY <2>0
  <2>1. CASE ran.dirty /\ ~ran.failed
    BY <1>12, <2>1
  <2>2. CASE ~(ran.dirty /\ ~ran.failed)
    <3>1. p \notin outdated /\ p \notin Unmarked(g, ran) /\ ~ran.dirty
      BY <1>1, <2>2
    <3>2. after = ran.g /\ SameReferences(g, ran.g)
      BY <1>10, <2>2, <3>1
    <3>3. RightAt(g, p)
      BY <3>1 DEF ReferencesInv, ReferencesRight
    <3>4. ran.g.missing[p] <=> g.missing[p]
      BY <3>1, <3>2 DEF Unmarked, SameReferences
    <3>. QED
      BY <3>2, <3>3, <3>4, RightAlike DEF SameReferences
  <2>. QED
    BY <2>1, <2>2
<1>19. WarningsTracked'
  <2>1. asked' = after.warning
    <3>1. CASE ran.failed \/ overtaken
      BY <1>1, <3>1
    <3>2. CASE ~(ran.failed \/ overtaken)
      <4>1. asked = Asks(g.warning, queue)
        BY <3>2 DEF ReferencesInv, WarningsTracked
      <4>. QED
        BY <1>1, <1>10, <1>13, <3>2, <4>1
    <3>. QED
      BY <3>1, <3>2
  <2>2. Asks(after.warning, <<>>) = after.warning
    BY <1>14 DEF Asks
  <2>3. asked' = Asks(g'.warning, queue')
    BY <1>1, <2>1, <2>2
  <2>. QED
    BY <2>3 DEF WarningsTracked
<1>. QED
  BY <1>16, <1>17, <1>18, <1>19 DEF ReferencesInv

LEMMA TravelRight ==
    ASSUME ReferencesInv, NEW own \in Owners, Owned(own), NEW steps \in Seq(OwnedSteps(own)), NEW which \in Sides2,
           queue = <<>>,
           LET ran == Restored(g, steps, which)
           IN  /\ g' = Travelled(ran)
               /\ outdated' = (IF ran.failed THEN Refs ELSE {})
               /\ asked' = g'.warning
               /\ UNCHANGED <<queue, used, overtaken, requests, batches>>,
           past' \in Seq(Seq(OwnedSteps(own))), future' \in Seq(Seq(OwnedSteps(own)))
    PROVE  ReferencesInv'
<1> DEFINE ran == Restored(g, steps, which)
<1>1. /\ g' = Travelled(ran)
      /\ outdated' = (IF ran.failed THEN Refs ELSE {})
      /\ asked' = g'.warning
      /\ UNCHANGED <<queue, used, overtaken, requests, batches>>
  OBVIOUS
<1>2. ReferencesTyped /\ g \in OwnedGraphs(own)
  BY DEF ReferencesInv, Owned
<1>3. /\ Travelled(ran) \in OwnedGraphs(own)
      /\ ~ran.failed => \A p \in Refs : RightAt(Travelled(ran), p)
  BY <1>2, TravelledOwned
<1> HIDE DEF ran
<1>4. g' \in OwnedGraphs(own) /\ g' \in Graphs /\ g'.warning \in [Refs -> Warnings]
  BY <1>1, <1>3 DEF OwnedGraphs, Graphs
<1>5. ReferencesTyped'
  BY <1>1, <1>2, <1>4 DEF ReferencesTyped
<1>6. UuidsOwned'
  BY <1>1, <1>4 DEF UuidsOwned, Owned
<1>7. ReferencesRight'
  <2> SUFFICES ASSUME NEW p \in Refs, p \notin outdated' PROVE RightAt(g', p)
    BY DEF ReferencesRight, RightAt, Right, Lookup, Present, CandidateAllowed
  <2>. QED
    BY <1>1, <1>3
<1>8. WarningsTracked'
  <2>1. Asks(g'.warning, <<>>) = g'.warning
    BY <1>4 DEF Asks
  <2>2. asked' = Asks(g'.warning, queue')
    BY <1>1, <2>1
  <2>. QED
    BY <2>2 DEF WarningsTracked
<1>. QED
  BY <1>5, <1>6, <1>7, <1>8 DEF ReferencesInv

LEMMA UndoRight ==
    ASSUME ReferencesInv, UndoEdit
    PROVE  ReferencesInv'
<1>1. PICK own \in Owners : Owned(own)
  BY DEF ReferencesInv, UuidsOwned
<1> DEFINE S == OwnedSteps(own)
           A == Seq(S)
           top == Last(past)
           steps == Reverse(top)
<1>2. past \in Seq(A) /\ future \in Seq(A) /\ past # <<>> /\ queue = <<>>
  BY <1>1 DEF Owned, UndoEdit
<1>3. top \in A /\ Front(past) \in Seq(A)
  <2> HIDE DEF A
  <2>. QED
    BY <1>2 DEF Front, Last
<1>4. steps \in A
  <2> HIDE DEF S, top
  <2>. QED
    BY <1>3 DEF Reverse
<1> DEFINE ran == Restored(g, steps, "old")
<1>5. /\ g' = Travelled(ran)
      /\ future' = IF ran.failed THEN future ELSE Append(future, top)
      /\ past' = Front(past)
      /\ outdated' = IF ran.failed THEN Refs ELSE {}
      /\ asked' = g'.warning
      /\ UNCHANGED <<queue, used, overtaken, requests, batches>>
  BY DEF UndoEdit, Travel
<1>6. past' \in Seq(A) /\ future' \in Seq(A)
  <2> HIDE DEF A, ran, top
  <2>. QED
    BY <1>2, <1>3, <1>5
<1> HIDE DEF steps, top
<1>. QED
  BY <1>1, <1>2, <1>4, <1>5, <1>6, TravelRight DEF Sides2

LEMMA RedoRight ==
    ASSUME ReferencesInv, RedoEdit
    PROVE  ReferencesInv'
<1>1. PICK own \in Owners : Owned(own)
  BY DEF ReferencesInv, UuidsOwned
<1> DEFINE A == Seq(OwnedSteps(own))
           steps == Last(future)
<1>2. past \in Seq(A) /\ future \in Seq(A) /\ future # <<>> /\ queue = <<>>
  BY <1>1 DEF Owned, RedoEdit
<1>3. steps \in A /\ Front(future) \in Seq(A)
  <2> HIDE DEF A
  <2>. QED
    BY <1>2 DEF Front, Last
<1> DEFINE ran == Restored(g, steps, "new")
<1>5. /\ g' = Travelled(ran)
      /\ past' = IF ran.failed THEN past ELSE Append(past, steps)
      /\ future' = Front(future)
      /\ outdated' = IF ran.failed THEN Refs ELSE {}
      /\ asked' = g'.warning
      /\ UNCHANGED <<queue, used, overtaken, requests, batches>>
  BY DEF RedoEdit, Travel
<1>6. past' \in Seq(A) /\ future' \in Seq(A)
  <2> HIDE DEF A, ran, steps
  <2>. QED
    BY <1>2, <1>3, <1>5
<1> HIDE DEF steps
<1>. QED
  BY <1>1, <1>2, <1>3, <1>5, <1>6, TravelRight DEF Sides2

LEMMA StepRight ==
    ASSUME ReferencesInv, [ReferencesNext]_referenceVars
    PROVE  ReferencesInv'
<1>1. ASSUME NEW a \in Requests, AbsorbRequests(<<a>>) PROVE ReferencesInv'
  <2>1. <<a>> \in Seq(Requests)
    OBVIOUS
  <2>. QED
    BY <1>1, <2>1, AbsorbRight
<1>2. ASSUME NEW a \in Requests, NEW b \in Requests, AbsorbRequests(<<a, b>>) PROVE ReferencesInv'
  <2>1. <<a, b>> \in Seq(Requests)
    OBVIOUS
  <2>. QED
    BY <1>2, <2>1, AbsorbRight
<1>3. ASSUME NEW e \in Edits, NEW recorded \in BOOLEAN, ApplyEdits(e, recorded) PROVE ReferencesInv'
  BY <1>3, ApplyRight
<1>4. CASE UndoEdit
  BY <1>4, UndoRight
<1>5. CASE RedoEdit
  BY <1>5, RedoRight
<1>6. CASE UNCHANGED referenceVars
  <2>1. ReferencesTyped'
    BY <1>6 DEF referenceVars, ReferencesInv, ReferencesTyped
  <2>2. UuidsOwned'
    BY <1>6 DEF referenceVars, ReferencesInv, UuidsOwned, Owned
  <2>3. ReferencesRight'
    BY <1>6 DEF referenceVars, ReferencesInv, ReferencesRight, RightAt, Right, Lookup, Present, CandidateAllowed
  <2>4. WarningsTracked'
    <3>1. overtaken' = overtaken /\ asked' = asked /\ g' = g /\ queue' = queue
      BY <1>6 DEF referenceVars
    <3>2. ~overtaken' => asked' = Asks(g'.warning, queue')
      BY <3>1 DEF ReferencesInv, WarningsTracked
    <3>. QED
      BY <3>2 DEF WarningsTracked
  <2>. QED
    BY <2>1, <2>2, <2>3, <2>4 DEF ReferencesInv
<1>. QED
  BY <1>1, <1>2, <1>3, <1>4, <1>5, <1>6 DEF ReferencesNext

-----------------------------------------------------------------------------
(* Theorems.                                                               *)

\* Uuids stay with their owners, references no change has overtaken are right,
\* and the requests that wait lead to what was asked for.
THEOREM ReferencesTracked == ReferencesSpec => []ReferencesInv
<1>1. ReferencesInit => ReferencesInv
  BY InitRight
<1>2. ReferencesInv /\ [ReferencesNext]_referenceVars => ReferencesInv'
  BY StepRight
<1>. QED
  BY <1>1, <1>2, PTL DEF ReferencesSpec

\* A reference leads to the node that carries its uuid, wherever that node was
\* moved and whatever replaced it, and is marked as missing its target if and
\* only if there is no such node (engine/refs.rs).
THEOREM ReferencesResolveCorrect == ReferencesSpec => []ReferencesResolve
<1>1. ReferencesInv => ReferencesResolve
  BY DEF ReferencesInv, ReferencesRight, RightAt, Right, ReferencesResolve
<1>. QED
  BY <1>1, ReferencesTracked, PTL

\* With nothing waiting, parameters show the warnings they were last asked to
\* show, although requests that would change nothing are dropped
\* (engine/mod.rs, absorb_edit_requests).
THEOREM WarningsAsAskedCorrect == ReferencesSpec => []WarningsAsAsked
<1>1. ReferencesInv => WarningsAsAsked
  <2> SUFFICES ASSUME ReferencesInv, queue = <<>>, ~overtaken PROVE g.warning = asked
    BY DEF WarningsAsAsked
  <2>1. asked = Asks(g.warning, <<>>)
    BY DEF ReferencesInv, WarningsTracked
  <2>2. g.warning \in [Refs -> Warnings]
    BY DEF ReferencesInv, ReferencesTyped, Graphs
  <2>. QED
    BY <2>1, <2>2 DEF Asks
<1>. QED
  BY <1>1, ReferencesTracked, PTL

-----------------------------------------------------------------------------
(* The sessions of intents.  Queues of edits.                               *)

\* An edit that does not begin or end a session in the name of intents.
OfOthers(e) == e.op \in {"begin", "end"} => e.c \notin {Own, Nobody}

IsQueue(q) == \E X : q \in Seq(X)

AllOfOthers(q) == IsQueue(q) /\ \A i \in 1..Len(q) : OfOthers(q[i])

\* Edits of others with e behind them.
EndsWith(q, e) ==
    /\ IsQueue(q) /\ Len(q) >= 1 /\ q[Len(q)] = e
    /\ \A i \in 1..Len(q) : i < Len(q) => OfOthers(q[i])

LEMMA QueueIs == ASSUME NEW q, IsQueue(q) PROVE Len(q) \in Nat /\ DOMAIN q = 1..Len(q)
<1>1. PICK X : q \in Seq(X)
  BY DEF IsQueue
<1>. QED
  BY <1>1

LEMMA JoinIs ==
    ASSUME NEW p, NEW q, IsQueue(p), IsQueue(q)
    PROVE  /\ IsQueue(p \o q) /\ Len(p \o q) = Len(p) + Len(q)
           /\ \A i \in 1..Len(p) : (p \o q)[i] = p[i]
           /\ \A i \in 1..Len(q) : (p \o q)[Len(p) + i] = q[i]
           /\ \A i \in 1..Len(p \o q) : i \in 1..Len(p) \/ (i - Len(p) \in 1..Len(q) /\ i = Len(p) + (i - Len(p)))
<1>1. PICK X : p \in Seq(X)
  BY DEF IsQueue
<1>2. PICK Y : q \in Seq(Y)
  BY DEF IsQueue
<1>3. p \in Seq(X \cup Y) /\ q \in Seq(X \cup Y)
  BY <1>1, <1>2, SeqMonotonic
<1>4. /\ p \o q \in Seq(X \cup Y) /\ Len(p \o q) = Len(p) + Len(q)
      /\ \A i \in 1..Len(p) + Len(q) : (p \o q)[i] = IF i <= Len(p) THEN p[i] ELSE q[i - Len(p)]
  BY <1>3, ConcatProperties
<1>5. Len(p) \in Nat /\ Len(q) \in Nat
  BY QueueIs
<1>6. IsQueue(p \o q)
  BY <1>4 DEF IsQueue
<1>. QED
  BY <1>4, <1>5, <1>6

LEMMA JoinOfOthers == ASSUME NEW p, NEW q, AllOfOthers(p), AllOfOthers(q) PROVE AllOfOthers(p \o q)
<1>1. IsQueue(p) /\ IsQueue(q)
  BY DEF AllOfOthers
<1>2. ASSUME NEW i \in 1..Len(p \o q) PROVE OfOthers((p \o q)[i])
  <2>1. CASE i \in 1..Len(p)
    BY <1>1, <2>1, JoinIs DEF AllOfOthers
  <2>2. CASE i - Len(p) \in 1..Len(q) /\ i = Len(p) + (i - Len(p))
    BY <1>1, <2>2, JoinIs DEF AllOfOthers
  <2>. QED
    BY <1>1, <1>2, <2>1, <2>2, JoinIs
<1>. QED
  BY <1>1, <1>2, JoinIs DEF AllOfOthers

LEMMA SingleIs == ASSUME NEW e PROVE IsQueue(<<e>>) /\ Len(<<e>>) = 1 /\ <<e>>[1] = e
<1>1. <<e>> \in Seq({e})
  OBVIOUS
<1>. QED
  BY <1>1 DEF IsQueue

LEMMA AppendIs ==
    ASSUME NEW q, NEW e, IsQueue(q)
    PROVE  /\ IsQueue(Append(q, e)) /\ Len(Append(q, e)) = Len(q) + 1 /\ Append(q, e)[Len(q) + 1] = e
           /\ \A i \in 1..Len(q) : Append(q, e)[i] = q[i]
<1>1. PICK X : q \in Seq(X)
  BY DEF IsQueue
<1>2. q \in Seq(X \cup {e}) /\ e \in X \cup {e}
  BY <1>1, SeqMonotonic
<1>3. Append(q, e) \in Seq(X \cup {e})
  BY <1>2
<1>4. Len(q) \in Nat /\ Len(Append(q, e)) = Len(q) + 1 /\ Append(q, e)[Len(q) + 1] = e
  BY <1>2
<1>5. \A i \in 1..Len(q) : Append(q, e)[i] = q[i]
  BY <1>2
<1>. QED
  BY <1>3, <1>4, <1>5 DEF IsQueue

LEMMA AppendEnds == ASSUME NEW q, NEW e, AllOfOthers(q) PROVE EndsWith(Append(q, e), e)
<1>1. IsQueue(q) /\ Len(q) \in Nat
  BY QueueIs DEF AllOfOthers
<1>2. \A i \in 1..(Len(q) + 1) : i < Len(q) + 1 => i \in 1..Len(q)
  BY <1>1
<1>. QED
  BY <1>1, <1>2, AppendIs DEF AllOfOthers, EndsWith

LEMMA JoinEnds == ASSUME NEW q, NEW e, AllOfOthers(q) PROVE EndsWith(q \o <<e>>, e)
<1>1. IsQueue(q) /\ Len(q) \in Nat
  BY QueueIs DEF AllOfOthers
<1>2. IsQueue(<<e>>) /\ Len(<<e>>) = 1 /\ <<e>>[1] = e
  BY SingleIs
<1>3. /\ IsQueue(q \o <<e>>) /\ Len(q \o <<e>>) = Len(q) + 1 /\ (q \o <<e>>)[Len(q) + 1] = e
      /\ \A i \in 1..Len(q) : (q \o <<e>>)[i] = q[i]
  <2>1. 1 \in 1..Len(<<e>>)
    BY <1>2
  <2>. QED
    BY <1>1, <1>2, <2>1, JoinIs
<1>4. \A i \in 1..(Len(q) + 1) : i < Len(q) + 1 => i \in 1..Len(q)
  BY <1>1
<1>. QED
  BY <1>1, <1>3, <1>4 DEF AllOfOthers, EndsWith

LEMMA AppendOfOthers == ASSUME NEW q, NEW e, AllOfOthers(q), OfOthers(e) PROVE AllOfOthers(Append(q, e))
<1>1. IsQueue(q) /\ Len(q) \in Nat
  BY QueueIs DEF AllOfOthers
<1>2. \A i \in 1..(Len(q) + 1) : i \in 1..Len(q) \/ i = Len(q) + 1
  BY <1>1
<1>. QED
  BY <1>1, <1>2, AppendIs DEF AllOfOthers

LEMMA NoneOfOthers == AllOfOthers(<<>>)
<1>1. <<>> \in Seq({}) /\ Len(<<>>) = 0
  BY EmptySeq
<1>. QED
  BY <1>1 DEF AllOfOthers, IsQueue

-----------------------------------------------------------------------------
(* One edit, then a batch of them.                                          *)

\* What a batch works on, as far as sessions go.
Shaped(s) ==
    /\ DOMAIN s = {"g", "session", "undo", "redo", "inbox", "txn", "ok", "kept"} /\ s.ok \in BOOLEAN
    /\ DOMAIN s.session = {"id", "steps"} /\ (s.session.id = Nobody => s.session = NoSession)

NamesSomebody(e) == e.op = "begin" => e.c # Nobody

LEMMA BoundedIs ==
    ASSUME NEW s, NEW e, Shaped(s), s.ok, NamesSomebody(e), Own # Nobody, e.op \in {"begin", "end"}
    PROVE  /\ Shaped(Bounded(s, e))
           /\ OfOthers(e) => (Bounded(s, e).session.id = Own <=> s.session.id = Own)
           /\ e = Begin(Own) /\ Bounded(s, e).ok => Bounded(s, e).session.id = Own
           /\ e = End(Own) /\ s.session.id = Own => Bounded(s, e).session.id # Own
<1>. DEFINE t == Bounded(s, e)
<1>0. DOMAIN NoSession = {"id", "steps"} /\ NoSession.id = Nobody
  BY DEF NoSession
<1>1. CASE e.op = "begin" /\ s.session = NoSession
  <2>1. t = [s EXCEPT !.session = [s.session EXCEPT !.id = e.c]]
    BY <1>1 DEF Bounded
  <2>2. DOMAIN t = DOMAIN s /\ t.ok = s.ok /\ t.session = [s.session EXCEPT !.id = e.c]
    BY <2>1 DEF Shaped
  <2> HIDE DEF t
  <2>3. DOMAIN t.session = {"id", "steps"} /\ t.session.id = e.c
    BY <2>2 DEF Shaped
  <2>4. Shaped(t)
    BY <1>1, <2>2, <2>3 DEF Shaped, NamesSomebody
  <2>5. OfOthers(e) => (t.session.id = Own <=> s.session.id = Own)
    BY <1>0, <1>1, <2>3 DEF OfOthers
  <2>6. e = Begin(Own) => t.session.id = Own
    BY <2>3 DEF Begin
  <2>7. e # End(Own)
    BY <1>1 DEF End
  <2>. QED
    BY <2>4, <2>5, <2>6, <2>7 DEF t
<1>2. CASE e.op = "end" /\ s.session.id = e.c
  <2>1. PICK u : t = [s EXCEPT !.session = NoSession, !.undo = u]
    <3>1. t = [s EXCEPT !.session = NoSession,
                        !.undo = IF s.session.steps = <<>> THEN @ ELSE Append(@, s.session.steps)]
      BY <1>2 DEF Bounded
    <3>. QED
      BY <3>1
  <2>2. DOMAIN t = DOMAIN s /\ t.ok = s.ok /\ t.session = NoSession
    BY <2>1 DEF Shaped
  <2> HIDE DEF t
  <2>3. Shaped(t) /\ t.session.id = Nobody
    BY <1>0, <2>2 DEF Shaped
  <2>4. e # Begin(Own)
    BY <1>2 DEF Begin
  <2>5. OfOthers(e) => s.session.id # Own
    BY <1>2 DEF OfOthers
  <2>. QED
    BY <2>3, <2>4, <2>5 DEF t
<1>3. CASE ~(e.op = "begin" /\ s.session = NoSession) /\ ~(e.op = "end" /\ s.session.id = e.c)
  <2>1. t = [s EXCEPT !.ok = FALSE, !.kept = TRUE]
    BY <1>3 DEF Bounded
  <2>2. DOMAIN t = DOMAIN s /\ t.ok = FALSE /\ t.session = s.session
    BY <2>1 DEF Shaped
  <2> HIDE DEF t
  <2>3. Shaped(t)
    BY <2>2 DEF Shaped
  <2>4. ~(e = End(Own) /\ s.session.id = Own)
    BY <1>3 DEF End
  <2>. QED
    BY <2>2, <2>3, <2>4 DEF t
<1>. QED
  BY <1>1, <1>2, <1>3

LEMMA ChangedIs ==
    ASSUME NEW s, NEW e, NEW capture, Shaped(s), Own # Nobody
    PROVE  /\ Shaped(Changed(s, e, capture))
           /\ Changed(s, e, capture).session.id = Own <=> s.session.id = Own
<1>. DEFINE Like(t) == /\ DOMAIN t = DOMAIN s /\ t.ok \in BOOLEAN /\ DOMAIN t.session = {"id", "steps"}
                       /\ t.session.id = s.session.id /\ (t.session.id = Nobody => t.session = s.session)
<1>1. \A t : Like(t) => Shaped(t) /\ (t.session.id = Own <=> s.session.id = Own)
  BY DEF Shaped
<1>2. Like(s)
  BY DEF Shaped
<1>3. ASSUME NEW t, Like(t), NEW step PROVE Like(Remembered(t, step))
  <2>1. CASE t.session # NoSession
    <3>1. Remembered(t, step) = [t EXCEPT !.session.steps = Append(@, step)]
      BY <2>1 DEF Remembered
    <3>2. PICK x : Remembered(t, step) = [t EXCEPT !.session = [t.session EXCEPT !.steps = x]]
      BY <3>1
    <3> DEFINE r == Remembered(t, step)
    <3>3. DOMAIN r = DOMAIN s /\ r.ok = t.ok /\ r.session = [t.session EXCEPT !.steps = x]
      BY <1>3, <3>2 DEF Shaped
    <3> HIDE DEF r
    <3>4. DOMAIN r.session = {"id", "steps"} /\ r.session.id = t.session.id
      BY <1>3, <3>3
    <3>5. t.session.id # Nobody
      BY <1>3, <2>1 DEF Shaped
    <3>6. Like(r)
      BY <1>3, <3>3, <3>4, <3>5
    <3>. QED
      BY <3>6 DEF r
  <2>2. CASE t.session = NoSession
    <3>1. PICK x : Remembered(t, step) = [t EXCEPT !.txn = x]
      <4>1. Remembered(t, step) = [t EXCEPT !.txn = Append(@, step)]
        BY <2>2 DEF Remembered
      <4>. QED
        BY <4>1
    <3>. QED
      BY <1>3, <3>1 DEF Shaped
  <2>. QED
    BY <2>1, <2>2
<1>4. ASSUME NEW t, Like(t), NEW x, NEW y PROVE Like([t EXCEPT !.g = x, !.inbox = y])
  BY <1>4 DEF Shaped
<1>5. Like([s EXCEPT !.redo = <<>>]) /\ Like([s EXCEPT !.ok = FALSE])
  BY <1>2 DEF Shaped
<1> HIDE DEF Like
<1> DEFINE t == IF capture THEN Remembered([s EXCEPT !.redo = <<>>], StepOf(s.g, e)) ELSE s
<1>6. Like(t)
  BY <1>2, <1>3, <1>5
<1>7. Changed(s, e, capture) = CASE e.op = "set" /\ s.g.value[e.p] = e.v -> s
          [] ~Possible(s.g, e) -> [s EXCEPT !.ok = FALSE]
          [] OTHER -> [t EXCEPT !.g = Done(s.g, e), !.inbox = @ \cup Tells(e)]
  BY DEF Changed
<1> HIDE DEF t
<1>8. Like([t EXCEPT !.g = Done(s.g, e), !.inbox = @ \cup Tells(e)])
  BY <1>4, <1>6
<1>9. Like(Changed(s, e, capture))
  BY <1>2, <1>5, <1>7, <1>8
<1>. QED
  BY <1>1, <1>9

\* Two sessions that are the intents' own, or neither.
SameOwner(x, y) == x.id = Own <=> y.id = Own

LEMMA Apply1Is ==
    ASSUME NEW s, NEW e, NEW capture, Shaped(s), NamesSomebody(e), Own # Nobody
    PROVE  LET t == Apply1(s, e, capture)
           IN  /\ Shaped(t) /\ (t.ok => s.ok) /\ (~s.ok => t = s)
               /\ OfOthers(e) => SameOwner(t.session, s.session)
               /\ e = Begin(Own) /\ t.ok => t.session.id = Own
               /\ e = End(Own) /\ s.session.id = Own /\ s.ok => t.session.id # Own
<1>1. CASE ~s.ok
  <2>1. Apply1(s, e, capture) = s
    BY <1>1 DEF Apply1
  <2>. QED
    BY <1>1, <2>1 DEF SameOwner
<1>2. CASE s.ok /\ e.op \in {"begin", "end"}
  <2>1. Apply1(s, e, capture) = Bounded(s, e)
    BY <1>2 DEF Apply1
  <2>. QED
    BY <1>2, <2>1, BoundedIs DEF SameOwner
<1>3. CASE s.ok /\ e.op \notin {"begin", "end"}
  <2>1. Apply1(s, e, capture) = Changed(s, e, capture)
    BY <1>3 DEF Apply1
  <2>2. e # Begin(Own) /\ e # End(Own)
    BY <1>3 DEF Begin, End
  <2>. QED
    BY <1>3, <2>1, <2>2, ChangedIs DEF SameOwner
<1>. QED
  BY <1>1, <1>2, <1>3

\* What a batch is after each of its edits.
Unfolds(c, q, capture) == c[0] = Untouched /\ \A k \in 1..Len(q) : c[k] = Apply1(c[k - 1], q[k], capture)

LEMMA BatchExists ==
    ASSUME NEW q, IsQueue(q), NEW capture
    PROVE  \E c : Unfolds(c, q, capture) /\ LET s == c[Len(q)] IN Apply(q, capture) =
              [s EXCEPT !.undo = IF s.txn # <<>> /\ (s.ok \/ s.kept) THEN Append(@, s.txn) ELSE @]
<1> DEFINE n == Len(q)
           Sol(c, m) == c = [k \in 0..m |-> IF k = 0 THEN Untouched ELSE Apply1(c[k - 1], q[k], capture)]
           h == CHOOSE c : Sol(c, n)
           s == h[n]
           T == {m \in Nat : \E c : Sol(c, m)}
<1>1. n \in Nat
  BY QueueIs
<1>2. Apply(q, capture) =
          [s EXCEPT !.undo = IF s.txn # <<>> /\ (s.ok \/ s.kept) THEN Append(@, s.txn) ELSE @]
  BY DEF Apply
<1>3. 0 \in T
  <2> DEFINE c == [k \in 0..0 |-> Untouched]
  <2>1. Sol(c, 0)
    <3>1. [k \in 0..0 |-> IF k = 0 THEN Untouched ELSE Apply1(c[k - 1], q[k], capture)] = c
      OBVIOUS
    <3>. QED
      BY <3>1
  <2> HIDE DEF c, Sol
  <2>. QED
    BY <2>1
<1>4. ASSUME NEW m \in Nat, m \in T PROVE m + 1 \in T
  <2>1. PICK c : Sol(c, m)
    BY <1>4
  <2> DEFINE d == [k \in 0..(m + 1) |-> IF k = m + 1 THEN Apply1(c[m], q[m + 1], capture) ELSE c[k]]
  <2>2. \A k \in 0..m : c[k] = IF k = 0 THEN Untouched ELSE Apply1(c[k - 1], q[k], capture)
    BY <2>1
  <2>3. \A k \in 0..m : d[k] = c[k]
    OBVIOUS
  <2>4. d[m + 1] = Apply1(c[m], q[m + 1], capture)
    OBVIOUS
  <2>5. DOMAIN d = 0..(m + 1) /\ d = [k \in 0..(m + 1) |-> d[k]]
    OBVIOUS
  <2> HIDE DEF d
  <2>6. ASSUME NEW k \in 0..(m + 1)
        PROVE d[k] = IF k = 0 THEN Untouched ELSE Apply1(d[k - 1], q[k], capture)
    <3>1. CASE k = m + 1
      <4>1. k # 0 /\ k - 1 = m /\ m \in 0..m
        BY <3>1
      <4>2. d[k] = Apply1(c[m], q[k], capture) /\ d[k - 1] = c[m]
        BY <2>3, <2>4, <3>1, <4>1
      <4>. QED
        BY <4>1, <4>2
    <3>2. CASE k # m + 1
      <4>1. k \in 0..m /\ (k # 0 => k - 1 \in 0..m)
        BY <3>2
      <4>. QED
        BY <2>2, <2>3, <4>1
    <3>. QED
      BY <3>1, <3>2
  <2>7. Sol(d, m + 1)
    BY <2>5, <2>6
  <2> HIDE DEF Sol
  <2>. QED
    BY <2>7
<1> HIDE DEF h, Sol
<1>5. \E c : Sol(c, n)
  <2> HIDE DEF T
  <2>1. n \in T
    BY <1>1, <1>3, <1>4, NatSetInduction
  <2>. QED
    BY <2>1 DEF T
<1>6. Sol(h, n)
  BY <1>5 DEF h
<1>7. \A k \in 0..n : h[k] = IF k = 0 THEN Untouched ELSE Apply1(h[k - 1], q[k], capture)
  BY <1>6 DEF Sol
<1>8. 0 \in 0..n /\ \A k \in 1..n : k \in 0..n /\ k # 0
  BY <1>1
<1>9. Unfolds(h, q, capture)
  BY <1>7, <1>8 DEF Unfolds
<1>. QED
  BY <1>2, <1>9

LEMMA UntouchedIs ==
    ASSUME DOMAIN session = {"id", "steps"}, session.id = Nobody => session = NoSession
    PROVE  Shaped(Untouched) /\ Untouched.ok /\ Untouched.session = session
  BY DEF Untouched, Shaped

\* A stretch of a batch in which others' edits alone are applied.
LEMMA BatchKeeps ==
    ASSUME NEW q, IsQueue(q), NEW capture, NEW c, Unfolds(c, q, capture), Shaped(Untouched), Own # Nobody,
           \A k \in 1..Len(q) : NamesSomebody(q[k])
    PROVE  /\ \A k \in 0..Len(q) : Shaped(c[k])
           /\ \A a \in 0..Len(q) : \A b \in a..Len(q) :
                 /\ c[b].ok => c[a].ok
                 /\ ~c[a].ok => c[b] = c[a]
                 /\ (\A k \in (a + 1)..b : OfOthers(q[k])) => SameOwner(c[b].session, c[a].session)
<1> DEFINE n == Len(q)
           S == {k \in Nat : k <= n => Shaped(c[k])}
<1>1. n \in Nat
  BY QueueIs
<1>2. \A k \in 1..n : c[k] = Apply1(c[k - 1], q[k], capture)
  BY DEF Unfolds
<1>3. 0 \in S
  BY DEF Unfolds
<1>4. ASSUME NEW k \in Nat, k \in S PROVE k + 1 \in S
  <2> SUFFICES ASSUME k + 1 <= n PROVE Shaped(c[k + 1])
    OBVIOUS
  <2>1. k + 1 \in 1..n /\ (k + 1) - 1 = k /\ Shaped(c[k])
    BY <1>4
  <2>. QED
    BY <1>2, <2>1, Apply1Is
<1>5. \A k \in 0..n : Shaped(c[k])
  <2> HIDE DEF S
  <2>1. Nat \subseteq S
    BY <1>3, <1>4, NatSetInduction
  <2>. QED
    BY <2>1 DEF S
<1> HIDE DEF n
<1> DEFINE Follows(a, b) ==
        /\ c[b].ok => c[a].ok
        /\ ~c[a].ok => c[b] = c[a]
        /\ (\A k \in (a + 1)..b : OfOthers(q[k])) => SameOwner(c[b].session, c[a].session)
<1>6. ASSUME NEW a \in 0..n PROVE \A b \in a..n : Follows(a, b)
  <2> DEFINE T == {k \in Nat : a + k <= n => Follows(a, a + k)}
  <2>1. 0 \in T
    <3>1. a + 0 = a
      BY <1>1
    <3>2. Follows(a, a)
      BY DEF SameOwner
    <3>. QED
      BY <3>1, <3>2
  <2>2. ASSUME NEW k \in Nat, k \in T PROVE k + 1 \in T
    <3> DEFINE b == a + k
    <3> SUFFICES ASSUME b + 1 <= n PROVE Follows(a, b + 1)
      BY <1>1
    <3>1. b \in Nat /\ b + 1 \in 1..n /\ (b + 1) - 1 = b /\ b \in 0..n
      BY <1>1
    <3>2. Follows(a, b)
      BY <2>2, <3>1
    <3>3. Shaped(c[b]) /\ c[b + 1] = Apply1(c[b], q[b + 1], capture) /\ NamesSomebody(q[b + 1])
      BY <1>2, <1>5, <3>1 DEF n
    <3>4. /\ c[b + 1].ok => c[b].ok
          /\ ~c[b].ok => c[b + 1] = c[b]
          /\ OfOthers(q[b + 1]) => SameOwner(c[b + 1].session, c[b].session)
      BY <3>3, Apply1Is
    <3>5. ASSUME \A j \in (a + 1)..(b + 1) : OfOthers(q[j])
          PROVE OfOthers(q[b + 1]) /\ \A j \in (a + 1)..b : OfOthers(q[j])
      <4>1. b + 1 \in (a + 1)..(b + 1) /\ \A j \in (a + 1)..b : j \in (a + 1)..(b + 1)
        BY <3>1
      <4>. QED
        BY <3>5, <4>1
    <3> HIDE DEF b
    <3>. QED
      BY <3>2, <3>4, <3>5 DEF SameOwner
  <2> HIDE DEF T, Follows
  <2>3. Nat \subseteq T
    BY <2>1, <2>2, NatSetInduction
  <2>4. ASSUME NEW b \in a..n PROVE Follows(a, b)
    <3>1. b - a \in Nat /\ a + (b - a) = b
      BY <1>1
    <3>2. b - a \in T
      BY <2>3, <3>1
    <3>. QED
      BY <3>1, <3>2 DEF T
  <2>. QED
    BY <2>4
<1>. QED
  BY <1>5, <1>6 DEF n

SessionShaped == DOMAIN session = {"id", "steps"} /\ (session.id = Nobody => session = NoSession)

\* What applying a queue leaves of the session.
LEMMA ApplyLeaves ==
    ASSUME NEW q, IsQueue(q), NEW capture, SessionShaped, Own # Nobody, \A k \in 1..Len(q) : NamesSomebody(q[k])
    PROVE  \E c : /\ Unfolds(c, q, capture) /\ Shaped(Untouched)
                  /\ Shaped(c[Len(q)]) /\ Apply(q, capture).ok = c[Len(q)].ok
                  /\ Apply(q, capture).session = c[Len(q)].session
<1> DEFINE n == Len(q)
<1>1. n \in Nat /\ n \in 0..n
  BY QueueIs
<1>2. Shaped(Untouched)
  BY UntouchedIs DEF SessionShaped
<1>3. PICK c : Unfolds(c, q, capture) /\ LET s == c[n] IN Apply(q, capture) =
                  [s EXCEPT !.undo = IF s.txn # <<>> /\ (s.ok \/ s.kept) THEN Append(@, s.txn) ELSE @]
  BY BatchExists
<1>4. Shaped(c[n])
  BY <1>1, <1>2, <1>3, BatchKeeps
<1>5. PICK u : Apply(q, capture) = [c[n] EXCEPT !.undo = u]
  BY <1>3
<1> HIDE DEF n
<1>6. Apply(q, capture).ok = c[n].ok /\ Apply(q, capture).session = c[n].session
  BY <1>4, <1>5 DEF Shaped
<1>. QED
  BY <1>2, <1>3, <1>4, <1>6 DEF n

LEMMA OthersNameSomebody == \A e : OfOthers(e) => NamesSomebody(e)
  BY DEF OfOthers, NamesSomebody

LEMMA ApplyOthers ==
    ASSUME NEW q, AllOfOthers(q), NEW capture, SessionShaped, Own # Nobody
    PROVE  LET s == Apply(q, capture)
           IN  /\ DOMAIN s.session = {"id", "steps"} /\ (s.session.id = Nobody => s.session = NoSession)
               /\ s.ok \in BOOLEAN /\ SameOwner(s.session, session)
<1> DEFINE n == Len(q)
<1>1. IsQueue(q) /\ n \in Nat /\ 0 \in 0..n /\ n \in 0..n /\ \A k \in 1..n : OfOthers(q[k])
  BY QueueIs DEF AllOfOthers
<1>2. \A k \in 1..n : NamesSomebody(q[k])
  BY <1>1, OthersNameSomebody
<1>3. PICK c : /\ Unfolds(c, q, capture) /\ Shaped(Untouched)
               /\ Shaped(c[n]) /\ Apply(q, capture).ok = c[n].ok
               /\ Apply(q, capture).session = c[n].session
  BY <1>1, <1>2, ApplyLeaves
<1>4. \A a \in 0..n : \A b \in a..n :
          (\A k \in (a + 1)..b : OfOthers(q[k])) => SameOwner(c[b].session, c[a].session)
  BY <1>1, <1>2, <1>3, BatchKeeps
<1>5. SameOwner(c[n].session, c[0].session)
  <2>1. \A k \in (0 + 1)..n : OfOthers(q[k])
    BY <1>1
  <2>2. n \in 0..n
    BY <1>1
  <2>. QED
    BY <1>1, <1>4, <2>1, <2>2
<1>6. c[0].session = session
  BY <1>3 DEF Unfolds, Untouched
<1>. QED
  BY <1>3, <1>5, <1>6 DEF Shaped

\* A batch with a boundary of an intent's own session in it: where it stands.
LEMMA BoundaryAt ==
    ASSUME NEW p, NEW more, NEW e \in {Begin(Own), End(Own)}, EndsWith(p, e), AllOfOthers(more), Own # Nobody
    PROVE  LET q == p \o more  m == Len(p)
           IN  /\ IsQueue(q) /\ Len(q) \in Nat /\ m \in 1..Len(q) /\ q[m] = e
               /\ \A k \in 1..Len(q) : NamesSomebody(q[k]) /\ (k # m => OfOthers(q[k]))
<1> DEFINE q == p \o more
           m == Len(p)
<1>1. IsQueue(p) /\ IsQueue(more) /\ m \in Nat /\ Len(more) \in Nat /\ m >= 1
  BY QueueIs DEF EndsWith, AllOfOthers
<1>2. /\ IsQueue(q) /\ Len(q) = m + Len(more)
      /\ \A i \in 1..m : q[i] = p[i]
      /\ \A i \in 1..Len(more) : q[m + i] = more[i]
      /\ \A i \in 1..Len(q) : i \in 1..m \/ (i - m \in 1..Len(more) /\ i = m + (i - m))
  BY <1>1, JoinIs
<1>3. NamesSomebody(e)
  BY DEF NamesSomebody, Begin, End
<1>4. m \in 1..Len(q) /\ m \in 1..m /\ q[m] = e
  BY <1>1, <1>2 DEF EndsWith
<1>5. ASSUME NEW k \in 1..Len(q), k # m PROVE OfOthers(q[k])
  <2>1. CASE k \in 1..m
    <3>1. k < m
      BY <1>1, <1>5, <2>1
    <3>. QED
      BY <1>2, <2>1, <3>1 DEF EndsWith
  <2>2. CASE k - m \in 1..Len(more) /\ k = m + (k - m)
    <3>1. q[k] = more[k - m]
      BY <1>2, <2>2
    <3>. QED
      BY <2>2, <3>1 DEF AllOfOthers
  <2>. QED
    BY <1>2, <2>1, <2>2
<1> HIDE DEF q, m
<1>6. \A k \in 1..Len(q) : NamesSomebody(q[k]) /\ (k # m => OfOthers(q[k]))
  BY <1>3, <1>4, <1>5, OthersNameSomebody
<1>. QED
  BY <1>1, <1>2, <1>4, <1>6 DEF q, m

LEMMA ApplyOpens ==
    ASSUME NEW p, NEW more, EndsWith(p, Begin(Own)), AllOfOthers(more), NEW capture, SessionShaped, Own # Nobody
    PROVE  LET s == Apply(p \o more, capture)
           IN  /\ DOMAIN s.session = {"id", "steps"} /\ (s.session.id = Nobody => s.session = NoSession)
               /\ s.ok \in BOOLEAN /\ (s.ok => s.session.id = Own)
<1> DEFINE q == p \o more
           n == Len(q)
           m == Len(p)
<1>1. /\ IsQueue(q) /\ n \in Nat /\ m \in 1..n /\ q[m] = Begin(Own)
      /\ \A k \in 1..n : NamesSomebody(q[k]) /\ (k # m => OfOthers(q[k]))
  BY BoundaryAt
<1> HIDE DEF q, m
<1>2. PICK c : /\ Unfolds(c, q, capture) /\ Shaped(Untouched)
               /\ Shaped(c[n]) /\ Apply(q, capture).ok = c[n].ok
               /\ Apply(q, capture).session = c[n].session
  BY <1>1, ApplyLeaves
<1>3. /\ \A k \in 0..n : Shaped(c[k])
      /\ \A a \in 0..n : \A b \in a..n :
            /\ c[b].ok => c[a].ok
            /\ (\A k \in (a + 1)..b : OfOthers(q[k])) => SameOwner(c[b].session, c[a].session)
  BY <1>1, <1>2, BatchKeeps
<1>4. m - 1 \in 0..n /\ m \in 0..n /\ n \in m..n /\ \A k \in (m + 1)..n : k \in 1..n /\ k # m
  BY <1>1
<1>5. c[m] = Apply1(c[m - 1], Begin(Own), capture)
  BY <1>1, <1>2 DEF Unfolds
<1>6. c[m].ok => c[m].session.id = Own
  BY <1>1, <1>3, <1>4, <1>5, Apply1Is
<1>7. (c[n].ok => c[m].ok) /\ SameOwner(c[n].session, c[m].session)
  BY <1>1, <1>3, <1>4
<1>. QED
  BY <1>2, <1>6, <1>7 DEF Shaped, SameOwner, q

LEMMA ApplyCloses ==
    ASSUME NEW p, NEW more, EndsWith(p, End(Own)), AllOfOthers(more), NEW capture, SessionShaped,
           session.id = Own, Own # Nobody
    PROVE  LET s == Apply(p \o more, capture)
           IN  /\ DOMAIN s.session = {"id", "steps"} /\ (s.session.id = Nobody => s.session = NoSession)
               /\ s.ok \in BOOLEAN
               /\ s.session.id = Own => ~s.ok /\ p # <<End(Own)>>
<1> DEFINE q == p \o more
           n == Len(q)
           m == Len(p)
<1>1. /\ IsQueue(q) /\ n \in Nat /\ m \in 1..n /\ q[m] = End(Own)
      /\ \A k \in 1..n : NamesSomebody(q[k]) /\ (k # m => OfOthers(q[k]))
  BY BoundaryAt
<1>a. p = <<End(Own)>> => m = 1
  BY SingleIs
<1> HIDE DEF q, m
<1>2. PICK c : /\ Unfolds(c, q, capture) /\ Shaped(Untouched)
               /\ Shaped(c[n]) /\ Apply(q, capture).ok = c[n].ok
               /\ Apply(q, capture).session = c[n].session
  BY <1>1, ApplyLeaves
<1>3. /\ \A k \in 0..n : Shaped(c[k])
      /\ \A a \in 0..n : \A b \in a..n :
            /\ c[b].ok => c[a].ok
            /\ ~c[a].ok => c[b] = c[a]
            /\ (\A k \in (a + 1)..b : OfOthers(q[k])) => SameOwner(c[b].session, c[a].session)
  BY <1>1, <1>2, BatchKeeps
<1>4. /\ 0 \in 0..n /\ m - 1 \in 0..n /\ m \in 0..n /\ n \in m..n /\ n \in (m - 1)..n
      /\ \A k \in (m + 1)..n : k \in 1..n /\ k # m
      /\ \A k \in (0 + 1)..(m - 1) : k \in 1..n /\ k # m
  BY <1>1
<1>5. c[m] = Apply1(c[m - 1], End(Own), capture)
  BY <1>1, <1>2 DEF Unfolds
<1>6. c[0].session = session /\ c[0].ok
  BY <1>2 DEF Unfolds, Untouched
<1>7. c[m - 1].session.id = Own
  <2>1. \A k \in (0 + 1)..(m - 1) : OfOthers(q[k])
    BY <1>1, <1>4
  <2>2. SameOwner(c[m - 1].session, c[0].session)
    BY <1>3, <1>4, <2>1
  <2>. QED
    BY <1>6, <2>2 DEF SameOwner
<1>8. SameOwner(c[n].session, c[m].session)
  BY <1>1, <1>3, <1>4
<1>9. CASE c[m - 1].ok
  <2>1. c[m].session.id # Own
    BY <1>1, <1>3, <1>4, <1>5, <1>7, <1>9, Apply1Is
  <2>2. c[n].session.id # Own
    BY <1>8, <2>1 DEF SameOwner
  <2>. QED
    BY <1>2, <2>2 DEF Shaped, q
<1>10. CASE ~c[m - 1].ok
  <2>1. c[n] = c[m - 1]
    BY <1>3, <1>4, <1>10
  <2>2. m # 1
    BY <1>6, <1>10
  <2>. QED
    BY <1>2, <1>10, <1>a, <2>1, <2>2 DEF Shaped, q
<1>. QED
  BY <1>9, <1>10

-----------------------------------------------------------------------------
(* Phases.                                                                  *)

\* A phase of an intent, not the opening or the closing of its own session.
Ordinary(p) == AllOfOthers(p.edits) /\ p.how \in {"apply", "settle", "init"}

Ordinaries(ps) == IsQueue(ps) /\ Len(ps) >= 1 /\ \A i \in 1..Len(ps) : Ordinary(ps[i])

LEMMA OneOfOthers == ASSUME NEW e, OfOthers(e) PROVE AllOfOthers(<<e>>)
<1>1. \A i \in 1..1 : i = 1
  OBVIOUS
<1>. QED
  BY <1>1, SingleIs DEF AllOfOthers

LEMMA SequenceIs ==
    ASSUME NEW S, IsFiniteSet(S)
    PROVE  SetToSeq(S) \in Seq(S)
<1>1. Cardinality(S) \in Nat /\ ExistsBijection(1..Cardinality(S), S)
  BY FS_CardinalityType
<1>2. \E f \in [1..Cardinality(S) -> S] : IsInjective(f)
  BY <1>1 DEF ExistsBijection, Bijection, Injection
<1>3. SetToSeq(S) \in [1..Cardinality(S) -> S]
  BY <1>2 DEF SetToSeq
<1>. QED
  BY <1>1, <1>3

LEMMA AnswersAre == AllOfOthers(Answers)
<1> DEFINE copies == SetToSeq({c \in Copies : c[1] \in inbox})
           swings == SetToSeq(Swings \cap inbox)
           Back1(i) == Set(copies[i][2], value[copies[i][1]])
           Again(i) == Set(swings[i], CHOOSE v \in Values : v # value[swings[i]])
           first == [i \in 1..Len(copies) |-> Back1(i)]
           second == [i \in 1..Len(swings) |-> Again(i)]
<1>1. IsFiniteSet(Params \X Params)
  BY IntentsAssumption, FS_Product
<1>2. IsFiniteSet({c \in Copies : c[1] \in inbox}) /\ IsFiniteSet(Swings \cap inbox)
  <2>1. {c \in Copies : c[1] \in inbox} \subseteq Params \X Params /\ Swings \cap inbox \subseteq Params
    BY IntentsAssumption
  <2>. QED
    BY <1>1, <2>1, IntentsAssumption, FS_Subset
<1>3. Len(copies) \in Nat /\ Len(swings) \in Nat
  BY <1>2, SequenceIs, LenProperties
<1>4. Answers = first \o second
  BY DEF Answers
<1>5. \A i : OfOthers(Back1(i)) /\ OfOthers(Again(i))
  BY DEF Set, OfOthers
<1> HIDE DEF copies, swings, Back1, Again
<1>6. AllOfOthers(first)
  <2>1. first \in [1..Len(copies) -> {Back1(i) : i \in 1..Len(copies)}]
    OBVIOUS
  <2>2. first \in Seq({Back1(i) : i \in 1..Len(copies)}) /\ Len(first) = Len(copies)
    BY <1>3, <2>1
  <2>3. \A i \in 1..Len(first) : OfOthers(first[i])
    BY <1>5, <2>2
  <2>. QED
    BY <2>2, <2>3 DEF AllOfOthers, IsQueue
<1>7. AllOfOthers(second)
  <2>1. second \in [1..Len(swings) -> {Again(i) : i \in 1..Len(swings)}]
    OBVIOUS
  <2>2. second \in Seq({Again(i) : i \in 1..Len(swings)}) /\ Len(second) = Len(swings)
    BY <1>3, <2>1
  <2>3. \A i \in 1..Len(second) : OfOthers(second[i])
    BY <1>5, <2>2
  <2>. QED
    BY <2>2, <2>3 DEF AllOfOthers, IsQueue
<1> HIDE DEF first, second
<1>. QED
  BY <1>4, <1>6, <1>7, JoinOfOthers

LEMMA RepliesAre == \A answers \in Replies : AllOfOthers(answers)
<1>1. \A e \in Extras : OfOthers(e)
  BY SessionsAssumption DEF OfOthers
<1>2. ASSUME NEW answers \in Replies PROVE AllOfOthers(answers)
  <2>1. CASE answers = Answers
    BY <2>1, AnswersAre
  <2>2. CASE \E e \in Extras : answers = Append(Answers, e)
    BY <1>1, <2>2, AnswersAre, AppendOfOthers
  <2>. QED
    BY <2>1, <2>2 DEF Replies
<1>. QED
  BY <1>2

LEMMA OnePhase == ASSUME NEW p, Ordinary(p) PROVE Ordinaries(<<p>>)
<1>1. \A i \in 1..1 : i = 1
  OBVIOUS
<1>. QED
  BY <1>1, SingleIs DEF Ordinaries

LEMMA TwoPhases == ASSUME NEW p, NEW r, Ordinary(p), Ordinary(r) PROVE Ordinaries(<<p, r>>)
<1> DEFINE ps == <<p, r>>
<1>1. ps \in Seq({p, r}) /\ Len(ps) = 2 /\ ps[1] = p /\ ps[2] = r
  OBVIOUS
<1>2. \A i \in 1..2 : i = 1 \/ i = 2
  OBVIOUS
<1> HIDE DEF ps
<1>3. IsQueue(ps) /\ \A i \in 1..Len(ps) : Ordinary(ps[i])
  BY <1>1, <1>2 DEF IsQueue
<1>4. Ordinaries(ps)
  BY <1>1, <1>3 DEF Ordinaries
<1>. QED
  BY <1>4 DEF ps

\* What the phases of an intent queue are edits of others.
LEMMA ProgramIs == \A kind \in Gestures : \A program \in Program(kind) : Ordinaries(program)
<1> SUFFICES ASSUME NEW kind \in Gestures, NEW program \in Program(kind) PROVE Ordinaries(program)
  OBVIOUS
<1>1. \A how, e : how \in {"apply", "settle", "init"} /\ OfOthers(e) => Ordinary(Phase(how, <<e>>))
  BY OneOfOthers DEF Ordinary, Phase
<1>2. /\ \A p, v : OfOthers(Set(p, v))
      /\ \A n, to : OfOthers(Add(n, to)) /\ OfOthers(Move(n, to))
      /\ \A n : OfOthers(Remove_(n))
  BY DEF OfOthers, Set, Add, Move, Remove_
<1>3. \A c \in Clients : OfOthers(Begin(c)) /\ OfOthers(End(c))
  BY SessionsAssumption DEF OfOthers, Begin, End
<1>4. CASE kind = "begin"
  <2>1. PICK c \in Clients : program = <<Phase("apply", <<Begin(c)>>)>>
    BY <1>4 DEF Program
  <2>. QED
    BY <1>1, <1>3, <2>1, OnePhase
<1>5. CASE kind = "end"
  <2>1. PICK c \in Clients : program = <<Phase("apply", <<End(c)>>)>>
    BY <1>5 DEF Program
  <2>. QED
    BY <1>1, <1>3, <2>1, OnePhase
<1>6. CASE kind = "setParam"
  <2>1. PICK p \in Params, v \in Values : program = <<Phase("settle", <<Set(p, v)>>)>>
    BY <1>6 DEF Program
  <2>. QED
    BY <1>1, <1>2, <2>1, OnePhase
<1>7. CASE kind = "moveNode"
  <2>1. PICK w \in Widgets, t \in Nodes \cup {Root} : program = <<Phase("apply", <<Move(w, t)>>)>>
    BY <1>7 DEF Program
  <2>. QED
    BY <1>1, <1>2, <2>1, OnePhase
<1>8. CASE kind = "removeNodes"
  <2>0. Program(kind) = {<<Phase("settle", [i \in DOMAIN q |-> Remove_(q[i])])>> :
                             q \in {SetToSeq(S) : S \in SUBSET Widgets \ {{}}}}
    BY <1>8 DEF Program
  <2>a. PICK q \in {SetToSeq(S) : S \in SUBSET Widgets \ {{}}} :
            program = <<Phase("settle", [i \in DOMAIN q |-> Remove_(q[i])])>>
    BY <2>0
  <2>1. PICK S \in SUBSET Widgets :
            program = <<Phase("settle", [i \in DOMAIN SetToSeq(S) |-> Remove_(SetToSeq(S)[i])])>>
    BY <2>a
  <2>2. IsFiniteSet(S)
    BY IntentsAssumption, FS_Subset
  <2> DEFINE ws == SetToSeq(S)
             X == {Remove_(ws[i]) : i \in 1..Len(ws)}
             es == [i \in DOMAIN ws |-> Remove_(ws[i])]
  <2>3. Len(ws) \in Nat /\ DOMAIN ws = 1..Len(ws)
    BY <2>2, SequenceIs, LenProperties
  <2> HIDE DEF ws
  <2>4. es \in [1..Len(ws) -> X]
    BY <2>3
  <2>5. es \in Seq(X) /\ Len(es) = Len(ws)
    BY <2>3, <2>4
  <2>6. \A i \in 1..Len(es) : OfOthers(es[i])
    BY <1>2, <2>3, <2>5
  <2>7. AllOfOthers(es)
    BY <2>5, <2>6 DEF AllOfOthers, IsQueue
  <2>8. Ordinary(Phase("settle", es))
    BY <2>7 DEF Ordinary, Phase
  <2>. QED
    BY <2>1, <2>8, OnePhase DEF ws
<1>9. CASE kind = "create"
  <2>1. PICK n \in NextId, p \in Params, v \in Values :
            program = <<Phase("settle", <<Add(n, Root)>>), Phase("init", <<Set(p, v)>>)>>
    BY <1>9 DEF Program
  <2>. QED
    BY <1>1, <1>2, <2>1, TwoPhases
<1>10. CASE kind = "bind"
  <2>1. PICK p \in Params, v \in Values : program = <<Phase("init", <<Set(p, v)>>)>>
    BY <1>10 DEF Program
  <2>. QED
    BY <1>1, <1>2, <2>1, OnePhase
<1>11. CASE kind = "wrap"
  <2>1. PICK n \in NextId, w \in Widgets \cap store :
            program = <<Phase("settle", <<Add(n, home[w])>>), Phase("init", <<Move(w, n)>>)>>
    BY <1>11 DEF Program
  <2>. QED
    BY <1>1, <1>2, <2>1, TwoPhases
<1>. QED
  BY <1>4, <1>5, <1>6, <1>7, <1>8, <1>9, <1>10, <1>11, IntentsAssumption

-----------------------------------------------------------------------------
(* The invariant.                                                           *)

Fields == {"kind", "phases", "stage", "pass", "own", "failed"}

\* An intent under way has a phase in hand; those behind it are ordinary.
RunIs ==
    /\ DOMAIN run = Fields /\ run.own \in BOOLEAN /\ run.failed \in BOOLEAN
    /\ run.own => run # Idle
    /\ run # Idle =>
          /\ IsQueue(run.phases) /\ Len(run.phases) >= 1
          /\ \A i \in 2..Len(run.phases) : Ordinary(run.phases[i])
          /\ \/ Ordinary(run.phases[1])
             \/ run.own /\ How = "open"
             \/ run.own /\ How = "close" /\ Len(run.phases) = 1

\* What is pending is an intent's own boundary behind edits of others, or such edits alone.
PendingIs ==
    IF run.own /\ How = "open" THEN EndsWith(pending, Begin(Own))
    ELSE IF run.own /\ How = "close" THEN EndsWith(pending, End(Own))
    ELSE AllOfOthers(pending)

\* The session of the intents is open while an intent has it, and when it was left open.
OwnedIs ==
    /\ stranded \in BOOLEAN /\ (run.own => ~stranded)
    /\ session.id = Own <=> stranded \/ (run.own /\ How # "open")

OwnInv == SessionShaped /\ RunIs /\ PendingIs /\ OwnedIs /\ AllOfOthers(external)

LEMMA IdleIs == DOMAIN Idle = Fields /\ Idle.own = FALSE /\ Idle.failed = FALSE /\ Idle.phases = <<>>
  BY DEF Idle, Fields

LEMMA OwnInvInit == IntentsInit => OwnInv
<1> SUFFICES ASSUME IntentsInit PROVE OwnInv
  OBVIOUS
<1>1. run = Idle /\ session = NoSession /\ pending = <<>> /\ external = <<>> /\ stranded = FALSE
  BY DEF IntentsInit
<1>2. SessionShaped /\ session.id = Nobody
  BY <1>1 DEF SessionShaped, NoSession
<1>3. RunIs /\ PendingIs /\ AllOfOthers(external)
  BY <1>1, IdleIs, NoneOfOthers DEF RunIs, PendingIs
<1>4. OwnedIs
  BY <1>1, <1>2, IdleIs, SessionsAssumption DEF OwnedIs
<1>. QED
  BY <1>2, <1>3, <1>4 DEF OwnInv

LEMMA TailIs ==
    ASSUME NEW q, IsQueue(q), Len(q) >= 1
    PROVE  /\ IsQueue(Tail(q)) /\ Len(Tail(q)) = Len(q) - 1 /\ (Tail(q) # <<>> => Len(Tail(q)) >= 1)
           /\ \A i \in 1..Len(Tail(q)) : Tail(q)[i] = q[i + 1] /\ i + 1 \in 2..Len(q)
<1>1. PICK X : q \in Seq(X)
  BY DEF IsQueue
<1>2. q # <<>>
  BY <1>1
<1>3. Tail(q) \in Seq(X) /\ Len(Tail(q)) = Len(q) - 1 /\ \A i \in 1..(Len(q) - 1) : Tail(q)[i] = q[i + 1]
  BY <1>1, <1>2
<1>4. Tail(q) # <<>> => Len(Tail(q)) >= 1
  BY <1>3, EmptySeq
<1>5. Len(q) \in Nat /\ \A i \in 1..(Len(q) - 1) : i + 1 \in 2..Len(q)
  BY <1>1
<1>. QED
  BY <1>3, <1>4, <1>5 DEF IsQueue

\* What a run of phases may be continued from.
CanContinue(r) ==
    /\ DOMAIN r = Fields /\ r.own \in BOOLEAN /\ r.failed \in BOOLEAN
    /\ IsQueue(r.phases) /\ Len(r.phases) >= 1 /\ \A i \in 2..Len(r.phases) : Ordinary(r.phases[i])

LEMMA ContinueKeeps ==
    ASSUME NEW r, CanContinue(r), NEW left, AllOfOthers(left), Continue(r, left)
    PROVE  RunIs' /\ PendingIs' /\ run'.own = r.own /\ (run'.own => How' # "open")
<1> DEFINE rest == IF r.failed THEN <<>> ELSE Tail(r.phases)
<1>1. CASE rest # <<>>
  <2>1. rest = Tail(r.phases) /\ run' = [r EXCEPT !.phases = rest, !.pass = 0, !.stage = "apply"]
    BY <1>1 DEF Continue
  <2>2. pending' = left \o rest[1].edits
    BY <1>1 DEF Continue
  <2>3. /\ IsQueue(rest) /\ Len(rest) >= 1 /\ \A i \in 1..Len(rest) : Ordinary(rest[i])
    BY <1>1, <2>1, TailIs DEF CanContinue
  <2> HIDE DEF rest
  <2>4. DOMAIN run' = Fields /\ run'.own = r.own /\ run'.failed = r.failed /\ run'.phases = rest
    BY <2>1 DEF CanContinue, Fields
  <2>5. run' # Idle
    BY <1>1, <2>4, IdleIs
  <2>6. Len(rest) \in Nat /\ 1 \in 1..Len(rest) /\ \A i \in 2..Len(rest) : i \in 1..Len(rest)
    BY <2>3, QueueIs
  <2>7. RunIs'
    BY <2>3, <2>4, <2>5, <2>6 DEF RunIs, CanContinue
  <2>8. How' = rest[1].how /\ How' \in {"apply", "settle", "init"}
    BY <2>3, <2>4, <2>6 DEF How, Ordinary
  <2>9. AllOfOthers(pending')
    BY <2>2, <2>3, <2>6, JoinOfOthers DEF Ordinary
  <2>10. PendingIs'
    BY <2>8, <2>9 DEF PendingIs
  <2>. QED
    BY <2>4, <2>7, <2>8, <2>10
<1>2. CASE rest = <<>> /\ r.own
  <2> DEFINE close == Phase("close", <<>>)
  <2>1. run' = [r EXCEPT !.phases = <<close>>] /\ pending' = Append(left, End(Own))
    BY <1>2 DEF Continue
  <2>2. DOMAIN run' = Fields /\ run'.own = r.own /\ run'.failed = r.failed /\ run'.phases = <<close>>
    BY <2>1 DEF CanContinue, Fields
  <2>3. IsQueue(run'.phases) /\ Len(run'.phases) = 1 /\ run'.phases[1].how = "close"
    BY <2>2, SingleIs DEF Phase
  <2>4. How' = "close"
    BY <2>3 DEF How
  <2>5. run' # Idle
    BY <1>2, <2>2, IdleIs
  <2>6. RunIs'
    BY <1>2, <2>2, <2>3, <2>4, <2>5 DEF RunIs, CanContinue
  <2>7. PendingIs'
    BY <1>2, <2>1, <2>2, <2>4, AppendEnds DEF PendingIs
  <2>. QED
    BY <2>2, <2>4, <2>6, <2>7
<1>3. CASE rest = <<>> /\ ~r.own
  <2>1. run' = Idle /\ pending' = left
    BY <1>3 DEF Continue
  <2>2. RunIs' /\ PendingIs'
    BY <2>1, IdleIs DEF RunIs, PendingIs
  <2>. QED
    BY <1>3, <2>1, <2>2, IdleIs DEF CanContinue
<1>. QED
  BY <1>1, <1>2, <1>3

\* Another pass of the same phase.
LEMMA PassKeeps ==
    ASSUME RunIs, run # Idle, Ordinary(run.phases[1]), AllOfOthers(pending'),
           run' \in {[run EXCEPT !.stage = "dispatch"], [run EXCEPT !.stage = "apply", !.pass = @ + 1]}
    PROVE  RunIs' /\ PendingIs' /\ run'.own = run.own /\ (run'.own => How' # "open")
<1>1. /\ DOMAIN run' = Fields /\ run'.own = run.own /\ run'.failed = run.failed
      /\ run'.phases = run.phases
  <2>1. CASE run' = [run EXCEPT !.stage = "dispatch"]
    BY <2>1 DEF RunIs, Fields
  <2>2. CASE run' = [run EXCEPT !.stage = "apply", !.pass = @ + 1]
    BY <2>2 DEF RunIs, Fields
  <2>. QED
    BY <2>1, <2>2
<1>2. run' # Idle
  <2>1. Len(run.phases) >= 1 /\ Len(<<>>) = 0
    BY DEF RunIs
  <2>. QED
    BY <1>1, <2>1, IdleIs
<1>3. How' \in {"apply", "settle", "init"}
  BY <1>1 DEF How, Ordinary
<1>4. RunIs'
  BY <1>1, <1>2 DEF RunIs
<1>. QED
  BY <1>1, <1>3, <1>4 DEF PendingIs

-----------------------------------------------------------------------------
(* Each action keeps it.                                                    *)

LEMMA BeginsKeeps == ASSUME OwnInv, IntentBegins PROVE OwnInv'
<1>0. PICK kind \in Gestures : \E program \in Program(kind) :
          LET own == Implicit(kind) /\ session = NoSession
          IN  /\ run' = [Idle EXCEPT !.kind = kind, !.own = own, !.phases =
                         IF own THEN <<Phase("open", <<Begin(Own)>>)>> \o program ELSE program]
              /\ pending' = pending \o run'.phases[1].edits
  BY DEF IntentBegins
<1>1. PICK program \in Program(kind) :
          LET own == Implicit(kind) /\ session = NoSession
          IN  /\ run' = [Idle EXCEPT !.kind = kind, !.own = own, !.phases =
                         IF own THEN <<Phase("open", <<Begin(Own)>>)>> \o program ELSE program]
              /\ pending' = pending \o run'.phases[1].edits
  BY <1>0
<1>2. run = Idle /\ session' = session /\ external' = external /\ stranded' = stranded
  BY DEF IntentBegins, history
<1>3. Ordinaries(program)
  BY ProgramIs
<1>4. AllOfOthers(pending) /\ (session.id = Own <=> stranded)
  BY <1>2, IdleIs DEF OwnInv, PendingIs, OwnedIs
<1>5. CASE Implicit(kind) /\ session = NoSession
  <2> DEFINE open == Phase("open", <<Begin(Own)>>)
  <2>1. run' = [Idle EXCEPT !.kind = kind, !.own = TRUE, !.phases = <<open>> \o program]
    BY <1>1, <1>5
  <2>2. /\ DOMAIN run' = Fields /\ run'.own = TRUE /\ run'.failed = FALSE
        /\ run'.phases = <<open>> \o program
    BY <2>1 DEF Idle, Fields
  <2>3. IsQueue(<<open>>) /\ Len(<<open>>) = 1 /\ <<open>>[1] = open /\ 1 \in 1..Len(<<open>>)
    BY SingleIs
  <2>4. IsQueue(program) /\ Len(program) \in Nat /\ \A i \in 1..Len(program) : Ordinary(program[i])
    BY <1>3, QueueIs DEF Ordinaries
  <2>5. /\ IsQueue(run'.phases) /\ Len(run'.phases) = 1 + Len(program)
        /\ run'.phases[1] = open
        /\ \A i \in 1..Len(program) : run'.phases[1 + i] = program[i]
    BY <2>2, <2>3, <2>4, JoinIs
  <2>6. \A i \in 2..Len(run'.phases) : Ordinary(run'.phases[i])
    <3>1. \A i \in 2..(1 + Len(program)) : i - 1 \in 1..Len(program) /\ 1 + (i - 1) = i
      BY <2>4
    <3>. QED
      BY <2>4, <2>5, <3>1
  <2>7. How' = "open" /\ run'.phases[1].edits = <<Begin(Own)>>
    BY <2>5 DEF How, Phase
  <2>8. run' # Idle
    BY <2>2, IdleIs
  <2>9. RunIs'
    <3>1. Len(run'.phases) >= 1
      BY <2>4, <2>5
    <3>2. run'.own \in BOOLEAN /\ run'.failed \in BOOLEAN
      BY <2>2
    <3>. QED
      BY <2>2, <2>5, <2>6, <2>7, <2>8, <3>1, <3>2 DEF RunIs
  <2>10. PendingIs'
    BY <1>1, <1>4, <2>2, <2>7, JoinEnds DEF PendingIs
  <2>11. session.id # Own
    BY <1>5, SessionsAssumption DEF NoSession
  <2>12. OwnedIs'
    BY <1>2, <1>4, <2>2, <2>7, <2>11 DEF OwnedIs, OwnInv
  <2>. QED
    BY <1>2, <2>9, <2>10, <2>12 DEF OwnInv, SessionShaped
<1>6. CASE ~(Implicit(kind) /\ session = NoSession)
  <2>1. run' = [Idle EXCEPT !.kind = kind, !.own = FALSE, !.phases = program]
    BY <1>1, <1>6
  <2>2. DOMAIN run' = Fields /\ run'.own = FALSE /\ run'.failed = FALSE /\ run'.phases = program
    BY <2>1 DEF Idle, Fields
  <2>3. /\ IsQueue(program) /\ Len(program) >= 1 /\ 1 \in 1..Len(program)
        /\ \A i \in 1..Len(program) : Ordinary(program[i])
        /\ \A i \in 2..Len(program) : i \in 1..Len(program)
    BY <1>3, QueueIs DEF Ordinaries
  <2>4. RunIs'
    BY <2>2, <2>3 DEF RunIs
  <2>5. AllOfOthers(pending')
    BY <1>1, <1>4, <2>2, <2>3, JoinOfOthers DEF Ordinary
  <2>6. PendingIs' /\ OwnedIs'
    BY <1>2, <1>4, <2>2, <2>5 DEF PendingIs, OwnedIs, OwnInv
  <2>. QED
    BY <1>2, <2>4, <2>6 DEF OwnInv, SessionShaped
<1>. QED
  BY <1>5, <1>6

LEMMA RunContinues ==
    ASSUME RunIs, run # Idle, NEW own \in BOOLEAN, NEW failed \in BOOLEAN
    PROVE  CanContinue([run EXCEPT !.failed = failed, !.own = own])
  BY DEF RunIs, CanContinue, Fields

LEMMA ApplyOnceKeeps == ASSUME OwnInv, ApplyOnce PROVE OwnInv'
<1> DEFINE s == Apply(pending \o external, TRUE)
           own == run.own /\ How # "close" /\ (How = "open" => s.ok)
           failed == run.failed \/ ~s.ok
           r == [run EXCEPT !.failed = failed, !.own = own]
<1>1. /\ run # Idle /\ How \in {"open", "apply", "close"}
      /\ session' = s.session /\ external' = <<>> /\ Continue(r, <<>>)
      /\ stranded' = (stranded \/ (LeftOpen /\ ~s.ok /\ s.session.id = Own))
  BY DEF ApplyOnce, Becomes
<1>2. RunIs /\ SessionShaped /\ AllOfOthers(external) /\ Own # Nobody /\ run.own \in BOOLEAN /\ run.failed \in BOOLEAN
  BY SessionsAssumption DEF OwnInv, RunIs
<1> HIDE DEF s
<1>3. CanContinue(r) /\ r.own = own
  <2>1. own \in BOOLEAN /\ failed \in BOOLEAN
    BY <1>2
  <2>2. r.own = own
    BY <1>2 DEF RunIs, Fields
  <2> HIDE DEF own, failed
  <2>. QED
    BY <1>1, <1>2, <2>1, <2>2, RunContinues
<1> HIDE DEF r
<1>4. RunIs' /\ PendingIs' /\ run'.own = own /\ (run'.own => How' # "open")
  BY <1>1, <1>3, NoneOfOthers, ContinueKeeps
<1>5. AllOfOthers(external')
  BY <1>1, NoneOfOthers
<1> DEFINE Sound == /\ DOMAIN s.session = {"id", "steps"} /\ (s.session.id = Nobody => s.session = NoSession)
                    /\ s.ok \in BOOLEAN
<1>6. ASSUME Sound, own => ~stranded', s.session.id = Own <=> stranded' \/ own, stranded' \in BOOLEAN
      PROVE OwnInv'
  <2>1. SessionShaped'
    BY <1>1, <1>6 DEF SessionShaped
  <2>2. OwnedIs'
    BY <1>1, <1>4, <1>6 DEF OwnedIs
  <2>. QED
    BY <1>4, <1>5, <2>1, <2>2 DEF OwnInv
<1>7. stranded' \in BOOLEAN
  BY <1>1
<1>8. CASE How = "open"
  <2>1. run.own /\ ~stranded /\ LeftOpen /\ EndsWith(pending, Begin(Own))
    BY <1>1, <1>2, <1>8 DEF OwnInv, OwnedIs, PendingIs, RunIs, Ordinary, How, LeftOpen
  <2>a. SessionShaped /\ Own # Nobody /\ AllOfOthers(external) /\ EndsWith(pending, Begin(Own))
    BY <1>2, <2>1
  <2>b. LET t == Apply(pending \o external, TRUE)
        IN  /\ DOMAIN t.session = {"id", "steps"} /\ (t.session.id = Nobody => t.session = NoSession)
            /\ t.ok \in BOOLEAN /\ (t.ok => t.session.id = Own)
    BY <2>a, ApplyOpens, Zenon
  <2>2. Sound /\ (s.ok => s.session.id = Own)
    BY <2>b DEF s
  <2>. QED
    BY <1>1, <1>6, <1>7, <1>8, <2>1, <2>2
<1>9. CASE How = "close"
  <2>1. run.own /\ ~stranded /\ EndsWith(pending, End(Own)) /\ session.id = Own
    BY <1>1, <1>2, <1>9 DEF OwnInv, OwnedIs, PendingIs, RunIs, Ordinary, How
  <2>a. SessionShaped /\ Own # Nobody /\ AllOfOthers(external) /\ EndsWith(pending, End(Own)) /\ session.id = Own
    BY <1>2, <2>1
  <2>b. LET t == Apply(pending \o external, TRUE)
        IN  /\ DOMAIN t.session = {"id", "steps"} /\ (t.session.id = Nobody => t.session = NoSession)
            /\ t.ok \in BOOLEAN
            /\ t.session.id = Own => ~t.ok /\ pending # <<End(Own)>>
    BY <2>a, ApplyCloses, Zenon
  <2>2. Sound /\ (s.session.id = Own => ~s.ok /\ pending # <<End(Own)>>)
    BY <2>b DEF s
  <2>3. stranded' <=> s.session.id = Own
    BY <1>1, <1>9, <2>1, <2>2 DEF LeftOpen
  <2>. QED
    BY <1>6, <1>7, <1>9, <2>2, <2>3
<1>10. CASE How = "apply"
  <2>1. AllOfOthers(pending) /\ own = run.own /\ (run.own => ~stranded)
        /\ (session.id = Own <=> stranded \/ run.own) /\ stranded \in BOOLEAN
    BY <1>2, <1>10 DEF OwnInv, OwnedIs, PendingIs
  <2>2. Sound /\ SameOwner(s.session, session)
    BY <1>2, <2>1, JoinOfOthers, ApplyOthers DEF s
  <2>3. stranded' = stranded
    BY <1>1, <1>10, <2>1 DEF LeftOpen
  <2>. QED
    BY <1>6, <1>7, <2>1, <2>2, <2>3 DEF SameOwner
<1>. QED
  BY <1>1, <1>8, <1>9, <1>10

\* In an ordinary phase, an intent that goes on or is over says who owns the session.
LEMMA OrdinaryStep ==
    ASSUME OwnInv, run # Idle, How \in {"apply", "settle", "init"}, UNCHANGED stranded,
           RunIs', PendingIs', run'.own = run.own, run'.own => How' # "open",
           SessionShaped', SameOwner(session', session), AllOfOthers(external')
    PROVE  OwnInv'
<1>1. OwnedIs'
  BY DEF OwnInv, OwnedIs, SameOwner
<1>. QED
  BY <1>1 DEF OwnInv

LEMMA OrdinaryPhase ==
    ASSUME OwnInv, run # Idle, How \in {"apply", "settle", "init"}
    PROVE  Ordinary(run.phases[1]) /\ AllOfOthers(pending) /\ CanContinue(run)
  BY DEF OwnInv, RunIs, PendingIs, How, CanContinue

LEMMA PassAppliesKeeps == ASSUME OwnInv, PassApplies PROVE OwnInv'
<1>1. run # Idle /\ How \in {"apply", "settle", "init"} /\ UNCHANGED stranded
  BY DEF PassApplies
<1>2. Ordinary(run.phases[1]) /\ AllOfOthers(pending) /\ CanContinue(run)
  BY <1>1, OrdinaryPhase
<1>3. RunIs /\ SessionShaped /\ AllOfOthers(external) /\ Own # Nobody /\ run.own \in BOOLEAN /\ run.failed \in BOOLEAN
  BY SessionsAssumption DEF OwnInv, RunIs
<1>4. CASE pending = <<>>
  <2>1. run' = [run EXCEPT !.stage = "dispatch"] /\ UNCHANGED <<session, pending, external>>
    BY <1>4 DEF PassApplies, history
  <2>2. RunIs' /\ PendingIs' /\ run'.own = run.own /\ (run'.own => How' # "open")
    BY <1>1, <1>2, <1>3, <2>1, PassKeeps
  <2>3. SessionShaped' /\ SameOwner(session', session) /\ AllOfOthers(external')
    BY <1>3, <2>1 DEF SessionShaped, SameOwner
  <2>. QED
    BY <1>1, <2>2, <2>3, OrdinaryStep
<1>5. CASE pending # <<>>
  <2> DEFINE s == Apply(pending \o external, How = "settle")
  <2>1. /\ session' = s.session /\ external' = <<>>
        /\ IF s.ok THEN run' = [run EXCEPT !.stage = "dispatch"] /\ pending' = <<>>
           ELSE Continue([run EXCEPT !.failed = TRUE], <<>>)
    BY <1>5 DEF PassApplies, Becomes
  <2>2. /\ DOMAIN s.session = {"id", "steps"} /\ (s.session.id = Nobody => s.session = NoSession)
        /\ SameOwner(s.session, session)
    BY <1>2, <1>3, JoinOfOthers, ApplyOthers
  <2> HIDE DEF s
  <2>3. SessionShaped' /\ SameOwner(session', session) /\ AllOfOthers(external')
    BY <2>1, <2>2, NoneOfOthers DEF SessionShaped
  <2>4. RunIs' /\ PendingIs' /\ run'.own = run.own /\ (run'.own => How' # "open")
    <3>1. CASE s.ok
      BY <1>1, <1>2, <1>3, <2>1, <3>1, NoneOfOthers, PassKeeps
    <3>2. CASE ~s.ok
      <4> DEFINE r == [run EXCEPT !.failed = TRUE]
      <4>1. CanContinue(r) /\ r.own = run.own
        BY <1>2 DEF CanContinue, Fields
      <4>2. Continue(r, <<>>)
        BY <2>1, <3>2
      <4> HIDE DEF r
      <4>. QED
        BY <4>1, <4>2, NoneOfOthers, ContinueKeeps
    <3>. QED
      BY <3>1, <3>2
  <2>. QED
    BY <1>1, <2>3, <2>4, OrdinaryStep
<1>. QED
  BY <1>4, <1>5

LEMMA PassDispatchesKeeps == ASSUME OwnInv, PassDispatches PROVE OwnInv'
<1>1. run # Idle /\ How \in {"apply", "settle", "init"} /\ UNCHANGED <<stranded, session, external>>
  BY DEF PassDispatches, history
<1>2. Ordinary(run.phases[1]) /\ AllOfOthers(pending) /\ CanContinue(run)
  BY <1>1, OrdinaryPhase
<1>3. PICK answers \in Replies :
          IF answers = <<>> THEN Continue(run, <<>>)
          ELSE IF run.pass + 1 < MaxPasses
          THEN run' = [run EXCEPT !.stage = "apply", !.pass = @ + 1] /\ pending' = answers
          ELSE Continue([run EXCEPT !.failed = TRUE], answers)
  BY DEF PassDispatches
<1>4. AllOfOthers(answers) /\ RunIs
  BY RepliesAre DEF OwnInv
<1>5. SessionShaped' /\ SameOwner(session', session) /\ AllOfOthers(external')
  BY <1>1 DEF OwnInv, SessionShaped, SameOwner
<1>6. RunIs' /\ PendingIs' /\ run'.own = run.own /\ (run'.own => How' # "open")
  <2>1. CASE answers = <<>>
    BY <1>2, <1>3, <2>1, NoneOfOthers, ContinueKeeps
  <2>2. CASE answers # <<>> /\ run.pass + 1 < MaxPasses
    BY <1>1, <1>2, <1>3, <1>4, <2>2, PassKeeps
  <2>3. CASE answers # <<>> /\ ~(run.pass + 1 < MaxPasses)
    <3> DEFINE r == [run EXCEPT !.failed = TRUE]
    <3>1. CanContinue(r) /\ r.own = run.own
      BY <1>2 DEF CanContinue, Fields
    <3>2. Continue(r, answers)
      BY <1>3, <2>3
    <3> HIDE DEF r
    <3>. QED
      BY <1>4, <3>1, <3>2, ContinueKeeps
  <2>. QED
    BY <2>1, <2>2, <2>3
<1>. QED
  BY <1>1, <1>5, <1>6, OrdinaryStep

LEMMA StayKeeps ==
    ASSUME OwnInv, UNCHANGED <<run, pending, external, stranded>>, SessionShaped', session'.id = session.id
    PROVE  OwnInv'
  BY DEF OwnInv, RunIs, PendingIs, OwnedIs, How

\* Between intents only edits of others are pending, and the session tells whether it was left open.
LEMMA IdleKeeps ==
    ASSUME OwnInv, run = Idle, run' = Idle, AllOfOthers(pending'), AllOfOthers(external'), SessionShaped',
           stranded' \in BOOLEAN, session'.id = Own <=> stranded'
    PROVE  OwnInv'
<1>1. RunIs' /\ PendingIs' /\ OwnedIs'
  BY IdleIs DEF RunIs, PendingIs, OwnedIs
<1>. QED
  BY <1>1 DEF OwnInv

LEMMA OthersKeep ==
    ASSUME OwnInv, IntentUndo \/ IntentRedo \/ IntentDirect \/ Send \/ TickApplies \/ TickDispatches \/ Disconnect
    PROVE  OwnInv'
<1>1. SessionShaped /\ AllOfOthers(external) /\ Own # Nobody
  BY SessionsAssumption DEF OwnInv
<1>2. ASSUME run = Idle PROVE AllOfOthers(pending) /\ (session.id = Own <=> stranded) /\ stranded \in BOOLEAN
  BY <1>2, IdleIs DEF OwnInv, PendingIs, OwnedIs
<1>3. CASE IntentUndo \/ IntentRedo
  <2>1. UNCHANGED <<session, run, pending, external, stranded>>
    BY <1>3 DEF IntentUndo, IntentRedo
  <2>. QED
    BY <1>1, <2>1, StayKeeps DEF SessionShaped
<1>4. CASE IntentDirect
  <2>1. /\ UNCHANGED <<run, pending, external, stranded>>
        /\ session' = session \/ (session # NoSession /\ \E x : session' = [session EXCEPT !.steps = x])
    <3>0. PICK p \in Params : \E v \in Values \ {value[p]} :
              IF session = NoSession THEN UNCHANGED session
              ELSE session' = [session EXCEPT !.steps = Append(@, StepOf(Graph, Set(p, v)))]
      BY <1>4 DEF IntentDirect
    <3>1. PICK v \in Values \ {value[p]} :
              IF session = NoSession THEN session' = session
              ELSE session' = [session EXCEPT !.steps = Append(session.steps, StepOf(Graph, Set(p, v)))]
      BY <3>0
    <3> DEFINE x == Append(session.steps, StepOf(Graph, Set(p, v)))
    <3>2. UNCHANGED <<run, pending, external, stranded>>
      BY <1>4 DEF IntentDirect
    <3>3. session # NoSession => session' = [session EXCEPT !.steps = x]
      BY <3>1
    <3>4. session = NoSession => session' = session
      BY <3>1
    <3> HIDE DEF x
    <3>. QED
      BY <3>2, <3>3, <3>4
  <2>2. SessionShaped' /\ session'.id = session.id
    BY <1>1, <2>1 DEF SessionShaped
  <2>. QED
    BY <2>1, <2>2, StayKeeps
<1>5. CASE Send
  <2>1. PICK e \in Foreign : external' = Append(external, e)
    BY <1>5 DEF Send
  <2>2. UNCHANGED <<session, run, pending, stranded>>
    BY <1>5 DEF Send, history
  <2>3. AllOfOthers(external')
    <3>1. OfOthers(e)
      BY SessionsAssumption DEF OfOthers
    <3>. QED
      BY <1>1, <2>1, <3>1, AppendOfOthers
  <2>. QED
    BY <2>2, <2>3 DEF OwnInv, RunIs, PendingIs, OwnedIs, How, SessionShaped
<1>6. CASE TickApplies
  <2> DEFINE s == Apply(pending \o external, FALSE)
  <2>1. run = Idle /\ session' = s.session /\ external' = <<>> /\ pending' = <<>> /\ UNCHANGED <<run, stranded>>
    BY <1>6 DEF TickApplies, Becomes
  <2>2. /\ DOMAIN s.session = {"id", "steps"} /\ (s.session.id = Nobody => s.session = NoSession)
        /\ SameOwner(s.session, session)
    BY <1>1, <1>2, <2>1, JoinOfOthers, ApplyOthers
  <2> HIDE DEF s
  <2>3. SessionShaped' /\ (session'.id = Own <=> stranded')
    BY <1>2, <2>1, <2>2 DEF SessionShaped, SameOwner
  <2>. QED
    BY <1>2, <2>1, <2>3, NoneOfOthers, IdleKeeps
<1>7. CASE TickDispatches
  <2>1. PICK answers \in Replies : pending' = pending \o answers
    BY <1>7 DEF TickDispatches
  <2>2. run = Idle /\ UNCHANGED <<session, external, run, stranded>>
    BY <1>7 DEF TickDispatches, history
  <2>3. AllOfOthers(pending')
    BY <1>2, <2>1, <2>2, RepliesAre, JoinOfOthers
  <2>4. SessionShaped'
    BY <1>1, <2>2 DEF SessionShaped
  <2>. QED
    BY <1>1, <1>2, <2>2, <2>3, <2>4, IdleKeeps
<1>8. CASE Disconnect
  <2>1. run = Idle /\ session' = NoSession /\ stranded' = FALSE /\ UNCHANGED <<pending, external, run>>
    BY <1>8 DEF Disconnect
  <2>2. SessionShaped' /\ session'.id = Nobody
    BY <2>1 DEF SessionShaped, NoSession
  <2>. QED
    BY <1>1, <1>2, <2>1, <2>2, IdleKeeps
<1>. QED
  BY <1>3, <1>4, <1>5, <1>6, <1>7, <1>8

LEMMA OwnInvStep == OwnInv /\ [IntentsNext]_intentVars => OwnInv'
<1> SUFFICES ASSUME OwnInv, [IntentsNext]_intentVars PROVE OwnInv'
  OBVIOUS
<1>1. CASE UNCHANGED intentVars
  BY <1>1, StayKeeps DEF intentVars, history, OwnInv, SessionShaped
<1>2. CASE IntentsNext
  BY <1>2, BeginsKeeps, ApplyOnceKeeps, PassAppliesKeeps, PassDispatchesKeeps, OthersKeep DEF IntentsNext
<1>. QED
  BY <1>1, <1>2

\* The session that intents open for themselves is open exactly while an intent has it, and after
\* one whose opening or closing batch failed, until its client is gone (apply_implicit_ui_edit_session).
THEOREM OwnSessionsTracked == IntentsSpec => []OwnedIs
<1>1. IntentsInit => OwnInv
  BY OwnInvInit
<1>2. OwnInv /\ [IntentsNext]_intentVars => OwnInv'
  BY OwnInvStep
<1>3. OwnInv => OwnedIs
  BY DEF OwnInv
<1>. QED
  BY <1>1, <1>2, <1>3, PTL DEF IntentsSpec

\* A session an intent opened for itself is closed when the intent is over, failed or not, unless an
\* edit of another thread, or one that callbacks went on asking for, failed in the batch at its ends.
THEOREM OwnSessionsCloseCorrect == IntentsSpec => []OwnSessionsClose
<1>1. IntentsInit => OwnInv
  BY OwnInvInit
<1>2. OwnInv /\ [IntentsNext]_intentVars => OwnInv'
  BY OwnInvStep
<1>3. OwnInv => OwnSessionsClose
  BY IdleIs DEF OwnInv, OwnedIs, OwnSessionsClose
<1>. QED
  BY <1>1, <1>2, <1>3, PTL DEF IntentsSpec
=============================================================================
