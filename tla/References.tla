------------------------------ MODULE References ------------------------------
(***************************************************************************)
(* Reference parameters and the warnings shown on nodes (engine/refs.rs,   *)
(* engine/mod.rs, engine/apply_param.rs).                                  *)
(*                                                                         *)
(* A reference names its target by uuid; the id of the node and the path   *)
(* to it are hints.  After a batch, an undo or a redo the engine brings    *)
(* the hints of every reference up to date, and the warning that says its  *)
(* target is missing.  Warnings are also asked for by nodes while they     *)
(* run: a request that would change nothing is dropped, the others wait in *)
(* the queue of edits until the next batch.                                *)
(*                                                                         *)
(* A target is inside the subtree the constraints allow, outside it or not *)
(* in the tree, and of an allowed type or of another; its path is named by *)
(* its id.                                                                 *)
(***************************************************************************)
EXTENDS Naturals, Sequences, SequencesExt

CONSTANTS
    Refs,         \* the reference parameters
    Targets,      \* ids of the nodes they may refer to
    Uuids,        \* uuids
    Hinted,       \* the uuids that are given with an id, which may be another node's
    Filed,        \* the references a project file may hold
    NoNode,       \* no uuid, no id, no path
    Messages,     \* texts of the warning nodes set on the parameters
    Calm,         \* no warning
    MaxRequests,  \* bounds the requests
    MaxBatches    \* bounds the batches

ReferenceValues == [uuid : Uuids \cup {NoNode}, id : Targets \cup {NoNode}, path : Targets \cup {NoNode}]

\* There is a uuid for every target.
ASSUME ReferencesAssumption ==
    /\ NoNode \notin Targets \cup Uuids
    /\ Hinted \subseteq Uuids \X Targets /\ Filed \subseteq ReferenceValues
    /\ \E u \in [Targets -> Uuids] : \A m, n \in Targets : u[m] = u[n] => m = n
    /\ MaxRequests \in Nat /\ MaxBatches \in Nat

VARIABLES
    g,          \* the graph: see Graphs below
    queue,      \* edits waiting for the next batch
    past, future,   \* undo and redo stacks: sequences of sequences of steps
    used,       \* uuids given to a node so far
    outdated,   \* references no pass has looked at since a change that calls for one
    asked,      \* the warnings the requests so far add up to
    overtaken,  \* a request was dropped for the sake of a state about to change
    requests, batches   \* requests and batches so far

referenceVars == <<g, queue, past, future, used, outdated, asked, overtaken, requests, batches>>

Reference(uuid, id, path) == [uuid |-> uuid, id |-> id, path |-> path]
Empty == Reference(NoNode, NoNode, NoNode)

\* place and uuid of each target, whether its type is allowed, the value of
\* each reference parameter, whether it is marked as missing its target, and
\* the warning its nodes set on it.
Present(t, n) == t.place[n] # "absent"

Lookup(t, u) ==
    IF \E n \in Targets : Present(t, n) /\ t.uuid[n] = u
    THEN CHOOSE n \in Targets : Present(t, n) /\ t.uuid[n] = u ELSE NoNode

-----------------------------------------------------------------------------
(* Resolution.                                                             *)

CandidateAllowed(t, n) == t.place[n] = "inside" /\ t.allowed[n]

\* The nodes tried, in their order: the id, the uuid and, without a uuid, the
\* path.
Tried(t, r) ==
    <<IF r.id # NoNode /\ Present(t, r.id) THEN r.id ELSE NoNode,
      IF r.uuid # NoNode THEN Lookup(t, r.uuid) ELSE NoNode,
      IF r.uuid = NoNode /\ r.path # NoNode /\ t.place[r.path] = "inside" THEN r.path ELSE NoNode>>

\* The reference with its hints renewed: it follows the first node tried that
\* is allowed, and takes that node's uuid.  It is rejected when there are only
\* nodes that are not allowed, and keeps waiting when there is none.
Normalized(t, r) ==
    LET tried == Tried(t, r)
        found == {i \in 1..3 : tried[i] # NoNode}
        good == {i \in found : CandidateAllowed(t, tried[i])}
        target == tried[Min(good)]
    IN  IF r.uuid = NoNode /\ r.path = NoNode THEN {Empty}
        ELSE IF good # {} THEN {Reference(t.uuid[target], target, target)}
        ELSE IF found # {} THEN {} ELSE {[r EXCEPT !.id = NoNode]}

\* A reference that is rejected is resolved by its uuid alone, whatever the
\* constraints say.
Resolved(t, r) ==
    IF Normalized(t, r) # {} THEN CHOOSE x \in Normalized(t, r) : TRUE
    ELSE [r EXCEPT !.id = Lookup(t, r.uuid)]

\* Every reference is resolved, and marked when no node has its uuid.
Synced(t) ==
    LET refs == [p \in Refs |-> Resolved(t, t.ref[p])]
    IN  [t EXCEPT !.ref = refs,
                  !.missing = [p \in Refs |-> refs[p].uuid # NoNode /\ Lookup(t, refs[p].uuid) = NoNode]]

-----------------------------------------------------------------------------
(* Edits.  A step of the history holds the sides of what an edit changed.  *)

SetRef(p, r) == [kind |-> "ref", on |-> p, new |-> r]
Place(n, where) == [kind |-> "place", on |-> n, new |-> where]
Replace(n, u, ok) == [kind |-> "replace", on |-> n, new |-> [uuid |-> u, allowed |-> ok]]
Warn(p, m) == [kind |-> "warn", on |-> p, new |-> m]
ClearAll(p) == [kind |-> "clear", on |-> p, new |-> Calm]
Broken == [kind |-> "broken", on |-> NoNode, new |-> NoNode]

Shown(t, p) == [missing |-> t.missing[p], warning |-> t.warning[p]]

Show(t, p, s) == [t EXCEPT !.missing[p] = s.missing, !.warning[p] = s.warning]

\* What is shown on a parameter once a warning is set or cleared.
Warned(s, e) ==
    IF e.kind = "clear" THEN [missing |-> FALSE, warning |-> Calm] ELSE [s EXCEPT !.warning = e.new]

\* The part of the graph an edit is about.
Side(t, e) ==
    CASE e.kind = "ref" -> t.ref[e.on]
      [] e.kind = "place" -> t.place[e.on]
      [] e.kind = "replace" -> [uuid |-> t.uuid[e.on], allowed |-> t.allowed[e.on]]
      [] OTHER -> Shown(t, e.on)

\* The graph with that part set to a value; the set of results is empty when
\* the edit fails.  A reference equal to the one there but for its hints is
\* not stored.
Put(t, e, side) ==
    CASE e.kind = "ref" ->
           {IF r.uuid = t.ref[e.on].uuid THEN t ELSE [t EXCEPT !.ref[e.on] = r] : r \in Normalized(t, side)}
      [] e.kind = "place" -> {[t EXCEPT !.place[e.on] = side]}
      [] e.kind = "replace" -> {[t EXCEPT !.uuid[e.on] = side.uuid, !.allowed[e.on] = side.allowed]}
      [] OTHER -> {Show(t, e.on, side)}

Aim(t, e) ==
    CASE e.kind \in {"warn", "clear"} -> Warned(Shown(t, e.on), e)
      [] OTHER -> e.new

\* An edit of the batch, unless one before it failed; what changed is a step.
\* A target that is not in the tree cannot be replaced or moved out of it.
Fails(t, e) ==
    \/ e.kind = "broken"
    \/ e.kind = "replace" /\ ~Present(t, e.on)
    \/ e.kind = "place" /\ e.new = "absent" /\ ~Present(t, e.on)
    \/ Put(t, e, Aim(t, e)) = {}

Applied(run, e) ==
    IF run.failed THEN run
    ELSE IF Fails(run.g, e) THEN [run EXCEPT !.failed = TRUE, !.dirty = @ \/ e.kind \in {"place", "replace"}]
    ELSE LET t == CHOOSE x \in Put(run.g, e, Aim(run.g, e)) : TRUE
         IN  IF t = run.g /\ e.kind \notin {"place", "replace"} THEN run
             ELSE [run EXCEPT
                     !.g = t,
                     !.dirty = @ \/ e.kind \in {"ref", "place", "replace"},
                     !.steps = Append(@, [e |-> e, old |-> Side(run.g, e), new |-> Side(t, e)])]

Batch(t, es) ==
    LET run[n \in 0..Len(es)] ==
            IF n = 0 THEN [g |-> t, steps |-> <<>>, dirty |-> FALSE, failed |-> FALSE]
            ELSE Applied(run[n - 1], es[n])
    IN  run[Len(es)]

-----------------------------------------------------------------------------
(* Requests.                                                               *)

\* Mutant: the requests of one call are compared with the graph only.
Kept_unstaged(t, es) == SelectSeq(es, LAMBDA e : Warned(Shown(t, e.on), e) # Shown(t, e.on))

\* The requests of one call that change what the ones before them left; the
\* edits of earlier calls that still wait in the queue are not looked at.
Kept(t, es) ==
    LET seen[n \in 0..Len(es)] ==
            IF n = 0 THEN [t |-> t, kept |-> <<>>]
            ELSE LET acc == seen[n - 1]
                     now == Warned(Shown(acc.t, es[n].on), es[n])
                 IN  IF now = Shown(acc.t, es[n].on) THEN acc
                     ELSE [t |-> Show(acc.t, es[n].on, now), kept |-> Append(acc.kept, es[n])]
    IN  seen[Len(es)].kept

Requests == {Warn(p, m) : p \in Refs, m \in Messages} \cup {ClearAll(p) : p \in Refs}

\* The warnings w once the requests are met: the last on each parameter counts.
Asks(w, es) ==
    [p \in Refs |-> LET about == {i \in DOMAIN es : es[i].on = p}
                    IN  IF about = {} THEN w[p] ELSE es[Max(about)].new]

\* A node's run, or a direct call, asks for warnings.
AbsorbRequests(es) ==
    /\ requests + Len(es) <= MaxRequests
    /\ queue' = queue \o Kept(g, es)
    /\ asked' = Asks(asked, es)
    /\ overtaken' = (overtaken \/
         (Len(Kept(g, es)) < Len(es) /\ \E i \in DOMAIN queue, j \in DOMAIN es : queue[i].on = es[j].on))
    /\ requests' = requests + Len(es)
    /\ UNCHANGED <<g, past, future, used, outdated, batches>>

-----------------------------------------------------------------------------
(* Batches.                                                                *)

\* Which of the uuids a new node gets makes no difference.
FreshUuid(u) == Uuids \ used # {} /\ u = CHOOSE x \in Uuids \ used : TRUE

\* What the code of a node, a script or the UI hands over as a reference.
Given ==
    {Empty} \cup {Reference(u, NoNode, NoNode) : u \in Uuids} \cup {Reference(NoNode, NoNode, n) : n \in Targets}
    \cup {Reference(h[1], h[2], NoNode) : h \in Hinted}

Edits ==
    {SetRef(p, r) : p \in Refs, r \in Given}
    \cup {Place(n, w) : n \in Targets, w \in {"absent", "inside", "outside"}}
    \cup {Replace(n, u, ok) : n \in Targets, u \in Uuids, ok \in BOOLEAN}
    \cup {Broken}

\* Clearing all the warnings of a parameter takes the mark away with them.
Unmarked(t, run) == {p \in Refs : t.missing[p] /\ ~run.g.missing[p]}

\* The queue and one more edit are applied.  The pass over the references
\* follows a batch that calls for it and did not fail; what a failing batch
\* did stays, and is recorded.
ApplyEdits(e, recorded) ==
    LET run == Batch(g, Append(queue, e))
        after == IF run.dirty /\ ~run.failed THEN Synced(run.g) ELSE run.g
    IN  /\ batches < MaxBatches
        /\ e.kind = "replace" => FreshUuid(e.new.uuid)
        /\ e.kind = "place" => g.place[e.on] # e.new
        /\ g' = after
        /\ queue' = <<>>
        /\ past' = IF recorded /\ run.steps # <<>> THEN Append(past, run.steps) ELSE past
        /\ future' = IF recorded /\ run.steps # <<>> THEN <<>> ELSE future
        /\ used' = IF e.kind = "replace" THEN used \cup {e.new.uuid} ELSE used
        /\ outdated' = IF run.dirty /\ ~run.failed THEN {}
                       ELSE outdated \cup Unmarked(g, run) \cup (IF run.dirty THEN Refs ELSE {})
        /\ asked' = IF run.failed \/ overtaken THEN after.warning ELSE asked
        /\ overtaken' = FALSE
        /\ batches' = batches + 1
        /\ UNCHANGED requests

\* Steps put back one after the other, each through the operation that makes
\* such a change; none if one is refused, which leaves what came before it.
Restored(t, steps, which) ==
    LET run[n \in 0..Len(steps)] ==
            IF n = 0 THEN [g |-> t, failed |-> FALSE]
            ELSE LET results == Put(run[n - 1].g, steps[n].e, steps[n][which])
                 IN  IF run[n - 1].failed THEN run[n - 1]
                     ELSE IF results = {} THEN [run[n - 1] EXCEPT !.failed = TRUE]
                     ELSE [run[n - 1] EXCEPT !.g = CHOOSE x \in results : TRUE]
    IN  run[Len(steps)]

\* Mutant: no pass follows an undo or a redo.
Travelled_unsynced(run) == run.g

Travelled(run) == IF run.failed THEN run.g ELSE Synced(run.g)

\* The entry leaves its stack first; one that fails is on neither.
Travel(from, to, steps, which) ==
    LET run == Restored(g, steps, which)
    IN  /\ g' = Travelled(run)
        /\ to' = IF run.failed THEN to ELSE Append(to, Last(from))
        /\ from' = Front(from)
        /\ outdated' = IF run.failed THEN Refs ELSE {}
        /\ asked' = g'.warning
        /\ UNCHANGED <<queue, used, overtaken, requests, batches>>

UndoEdit == past # <<>> /\ queue = <<>> /\ Travel(past, future, Reverse(Last(past)), "old")
RedoEdit == future # <<>> /\ queue = <<>> /\ Travel(future, past, Last(future), "new")

-----------------------------------------------------------------------------
AtStart == CHOOSE u \in [Targets -> Uuids] : \A m, n \in Targets : u[m] = u[n] => m = n

\* A loaded project: references of the file, synced once it is complete.
ReferencesInit ==
    /\ \E where \in [Targets -> {"absent", "inside"}], r \in [Refs -> Filed] :
        /\ used = {AtStart[n] : n \in Targets}
        /\ g = Synced([place |-> where, uuid |-> AtStart, allowed |-> [n \in Targets |-> TRUE], ref |-> r,
                       missing |-> [p \in Refs |-> FALSE], warning |-> [p \in Refs |-> Calm]])
    /\ queue = <<>> /\ past = <<>> /\ future = <<>>
    /\ outdated = {}
    /\ asked = [p \in Refs |-> Calm]
    /\ overtaken = FALSE
    /\ requests = 0 /\ batches = 0

ReferencesNext ==
    \/ \E a \in Requests : AbsorbRequests(<<a>>)
    \/ \E a, b \in Requests : AbsorbRequests(<<a, b>>)
    \/ \E e \in Edits, recorded \in BOOLEAN : ApplyEdits(e, recorded)
    \/ UndoEdit
    \/ RedoEdit

ReferencesSpec == ReferencesInit /\ [][ReferencesNext]_referenceVars

-----------------------------------------------------------------------------
(* Properties.                                                             *)

\* Once the last batch, undo or redo went through, a reference leads to the
\* node that carries its uuid wherever that node was moved and whatever
\* replaced it, one without such a node is marked as missing it, and no other
\* is; a reference that only has a path is bound as soon as the path leads to
\* a node it may refer to (engine/refs.rs:52-302).
ReferencesResolve ==
    \A p \in Refs \ outdated :
        LET r == g.ref[p]
        IN  /\ r.id = IF r.uuid = NoNode THEN NoNode ELSE Lookup(g, r.uuid)
            /\ g.missing[p] <=> r.uuid # NoNode /\ r.id = NoNode
            /\ r.uuid = NoNode /\ r.path # NoNode => ~CandidateAllowed(g, r.path)

\* Once the queue is applied every parameter shows the warning it was last
\* asked to show, although requests that would change nothing are dropped and
\* later ones of the same call are compared with what the earlier ones leave;
\* except when a request came while edits of an earlier call were waiting
\* (engine/mod.rs:584-650).
WarningsAsAsked == queue = <<>> /\ ~overtaken => g.warning = asked
=============================================================================
