------------------------------- MODULE CurveKeys ------------------------------
(***************************************************************************)
(* The nodes of an animation curve (node/curve/curve.rs): a curve owns key *)
(* nodes and one range node.  It reacts to the events of its subtree: keys *)
(* are moved inside an enabled range and put in the order of their         *)
(* positions, and a missing range node is made again.                      *)
(*                                                                         *)
(* While the UI applies an intent every edit of the curve is applied at    *)
(* once.  In a tick the curve sees its events only while the tick          *)
(* stabilizes, and there the edits that change the tree wait for the next  *)
(* tick; edits of others happen in between.                                *)
(*                                                                         *)
(* Positions are small integers; the values of the keys go the way of the  *)
(* positions and are left out, and so are curves whose range the program   *)
(* fixes, where the constraints of the parameters hold the keys.           *)
(***************************************************************************)
EXTENDS Integers, Sequences, SequencesExt

CONSTANTS
    KeyNodes, Ranges,  \* ids of key nodes and of range nodes
    NoKey,         \* no node, no range
    Positions,     \* positions given to keys
    Borders,       \* pairs given to a range node, in either order
    Initial,       \* the border of a new range node
    Loaded,        \* trees of the curve as it is loaded
    MaxCurveEdits  \* bounds the edits of others

ASSUME CurveAssumption == Positions \subseteq Int /\ MaxCurveEdits \in Nat

VARIABLES
    tree,           \* kids: the children; pos of keys; on, border of ranges
    bound,          \* range_node: the range node the curve knows
    heard,          \* events nobody has seen
    waiting,        \* edits of the curve, or of the intent, to apply next
    later,       \* changes of the tree that wait for the next tick
    offered,       \* edits of others that wait to be absorbed
    doing,          \* "nothing", "intent" or "tick"
    passes,         \* passes of the loop that runs, or that ran last
    undo,           \* what the last intent can be undone to, when it removed a node
    others          \* edits of others so far

curveVars == <<tree, bound, heard, waiting, later, offered, doing, passes, undo, others>>

KidsOf(t, S) == SelectSeq(t.kids, LAMBDA n : n \in S)
Has(t, n) == Contains(t.kids, n)
PlaceAfter(kids, n) == CHOOSE i \in DOMAIN kids : kids[i] = n
ClampTo(x, border) ==
    CASE x < border[1] -> border[1] [] x > border[2] -> border[2] [] OTHER -> x

\* The range a range node stands for: none when it is off or spans nothing.
Span(on, border) ==
    CASE ~on \/ border = NoKey -> NoKey
      [] border[1] = border[2] -> NoKey
      [] border[1] < border[2] -> border
      [] OTHER -> <<border[2], border[1]>>

SpanOf(t, g) == IF g # NoKey /\ Has(t, g) THEN Span(t.on[g], t.border[g]) ELSE NoKey

\* The range node the curve goes by.
Tracked(t, b) ==
    IF b # NoKey THEN b ELSE IF KidsOf(t, Ranges) = <<>> THEN NoKey ELSE KidsOf(t, Ranges)[1]

-----------------------------------------------------------------------------
(* Edits and the events they cause.                                        *)

Set(k, p) == [op |-> "set", n |-> k, p |-> p]
Redraw(g, border) == [op |-> "border", n |-> g, border |-> border]
TurnOn(g, on) == [op |-> "on", n |-> g, on |-> on]
AddKey(k, p) == [op |-> "addKey", n |-> k, p |-> p]
AddRange(g) == [op |-> "addRange", n |-> g]
Remove_(n) == [op |-> "remove", n |-> n]
MoveKey(n, after) == [op |-> "move", n |-> n, after |-> after]

ChangesTree(e) == e.op \in {"addKey", "addRange", "remove", "move"}

\* EditQueue::push.
Enqueue(q, e) ==
    CASE e.op = "set" -> Append(SelectSeq(q, LAMBDA x : x.op # "set" \/ x.n # e.n), e)
      [] e.op = "remove" -> IF Contains(q, e) THEN q ELSE Append(q, e)
      [] OTHER -> Append(q, e)

PushAll(q, es) == FoldLeft(Enqueue, q, es)

Without(kids, n) == SelectSeq(kids, LAMBDA x : x # n)
PutAfter(kids, n, after) ==
    InsertAt(kids, IF after = NoKey THEN 1 ELSE PlaceAfter(kids, after) + 1, n)

\* A move looks at the sibling after it has taken the node out: a sibling
\* that is gone leaves the node without a parent.
Changed(t, e) ==
    CASE e.op = "set" -> [t EXCEPT !.pos[e.n] = e.p]
      [] e.op = "border" -> [t EXCEPT !.border[e.n] = e.border]
      [] e.op = "on" -> [t EXCEPT !.on[e.n] = e.on]
      [] e.op = "addKey" -> [t EXCEPT !.kids = Append(@, e.n), !.pos[e.n] = e.p]
      [] e.op = "addRange" ->
            [t EXCEPT !.kids = Append(@, e.n), !.on[e.n] = FALSE, !.border[e.n] = Initial]
      [] e.op = "remove" -> [t EXCEPT !.kids = Without(@, e.n)]
      [] OTHER -> [t EXCEPT !.kids = IF e.after # NoKey /\ ~Has(t, e.after) THEN Without(@, e.n)
                                     ELSE PutAfter(Without(@, e.n), e.n, e.after)]

Rejected(t, e) ==
    \/ e.op \notin {"addKey", "addRange"} /\ ~Has(t, e.n)
    \/ e.op = "move" /\ e.after # NoKey /\ ~Has(t, e.after)

Told(t, e) ==
    CASE e.op = "set" -> IF t.pos[e.n] = e.p THEN <<>> ELSE <<e>>
      [] e.op = "border" -> IF t.border[e.n] = e.border THEN <<>> ELSE <<e>>
      [] e.op = "on" -> IF t.on[e.n] = e.on THEN <<>> ELSE <<e>>
      [] OTHER -> <<e>>

\* Engine::apply_edits: the first edit that fails ends the batch.
ApplyOne(s, e) ==
    IF s.failed THEN s
    ELSE IF Rejected(s.tree, e)
         THEN [s EXCEPT !.failed = TRUE, !.tree = IF Has(@, e.n) THEN Changed(@, e) ELSE @]
         ELSE [s EXCEPT !.tree = Changed(@, e), !.events = @ \o Told(s.tree, e)]

CurveApplied(es) == FoldLeft(ApplyOne, [tree |-> tree, events |-> heard, failed |-> FALSE], es)

-----------------------------------------------------------------------------
(* CurveNode::collect_key_reorder_moves_by_position.                       *)

\* The keys in the order of their positions; keys at one position stay in
\* the order they have.
SortedKeys(t) ==
    SetToSortSeq(ToSet(KidsOf(t, KeyNodes)),
                 LAMBDA k, l : \/ t.pos[k] < t.pos[l]
                               \/ t.pos[k] = t.pos[l] /\ PlaceAfter(t.kids, k) < PlaceAfter(t.kids, l))

\* Sorted keys take the places of keys; what is no key keeps its place.
Desired(t) ==
    [i \in DOMAIN t.kids |->
        IF t.kids[i] \in KeyNodes THEN SortedKeys(t)[Len(KidsOf([kids |-> SubSeq(t.kids, 1, i)], KeyNodes))]
        ELSE t.kids[i]]

Moves(t) ==
    LET want == Desired(t)
        One(s, i) ==
            IF want[i] \notin KeyNodes \/ s.kids[i] = want[i] THEN s
            ELSE LET kids == InsertAt(Without(s.kids, want[i]), i, want[i])
                 IN  [kids |-> kids,
                      moves |-> Append(s.moves, MoveKey(want[i], IF i = 1 THEN NoKey ELSE kids[i - 1]))]
    IN  FoldLeft(One, [kids |-> t.kids, moves |-> <<>>], [i \in DOMAIN t.kids |-> i]).moves

\* Keys of the tree whose position in "at" is outside the span.
OutOfRange(t, at, span) ==
    {k \in ToSet(KidsOf(t, KeyNodes)) : span # NoKey /\ at[k] # NoKey /\ ClampTo(at[k], span) # at[k]}

-----------------------------------------------------------------------------
(* CurveNode::engine_preprocess_inbox: the curve follows its events over a *)
(* picture of the tree as it is after all of them.                         *)

\* g, on, border: the range as the events so far leave it.  seen: positions
\* the events told; clamp: positions to set.
Watch(t, b) ==
    LET g == Tracked(t, b)
    IN  [bound |-> b, g |-> g, on |-> g # NoKey /\ Has(t, g) /\ t.on[g],
         border |-> IF g # NoKey /\ Has(t, g) THEN t.border[g] ELSE NoKey,
         drop |-> <<>>, add |-> FALSE, enforce |-> FALSE, order |-> FALSE,
         seen |-> [k \in KeyNodes |-> NoKey], clamp |-> [k \in KeyNodes |-> NoKey]]

SeeRange(t, r, g) ==
    IF r.bound \notin {NoKey, g} THEN [r EXCEPT !.drop = Append(@, g)]
    ELSE [r EXCEPT !.bound = g, !.g = g, !.on = Has(t, g) /\ t.on[g],
                   !.border = IF Has(t, g) THEN t.border[g] ELSE NoKey,
                   !.enforce = TRUE, !.order = TRUE]

SeeRemoved(r, n) ==
    [r EXCEPT !.bound = IF @ = n THEN NoKey ELSE @,
              !.g = IF r.bound = n THEN NoKey ELSE @, !.on = @ /\ r.bound # n,
              !.border = IF r.bound = n THEN NoKey ELSE @,
              !.add = @ \/ r.bound = n, !.enforce = TRUE, !.order = TRUE]

\* A change of a key that has left the tree is not looked at.
SeePosition(t, r, k, p) ==
    LET span == Span(r.on, r.border)
    IN  IF ~Has(t, k) THEN r
        ELSE [r EXCEPT !.seen[k] = p, !.order = TRUE,
                       !.clamp[k] = IF span # NoKey /\ ClampTo(p, span) # p THEN ClampTo(p, span) ELSE @]

See(t, r, e) ==
    CASE e.op = "addRange" -> SeeRange(t, r, e.n)
      [] e.op = "remove" -> SeeRemoved(r, e.n)
      [] e.op = "set" -> SeePosition(t, r, e.n, e.p)
      [] e.op = "border" ->
            IF e.n = r.g /\ Has(t, e.n) THEN [r EXCEPT !.border = e.border, !.enforce = TRUE] ELSE r
      [] e.op = "on" -> IF e.n = r.g THEN [r EXCEPT !.on = e.on, !.enforce = TRUE] ELSE r
      [] OTHER -> [r EXCEPT !.enforce = TRUE, !.order = TRUE]

\* Mutant: only the keys whose positions changed are brought inside.
Clamped_told(t, r) ==
    LET span == IF r.enforce THEN Span(r.on, r.border) ELSE NoKey
    IN  [k \in KeyNodes |-> IF k \in OutOfRange(t, r.seen, span) THEN ClampTo(r.seen[k], span) ELSE r.clamp[k]]

\* The positions to set in the end: every key is brought inside the last
\* range, and a position an event told counts before the one the key has.
Clamped(t, r) ==
    LET span == IF r.enforce THEN Span(r.on, r.border) ELSE NoKey
        near == OutOfRange(t, t.pos, span)
        told == OutOfRange(t, r.seen, span)
    IN  [k \in KeyNodes |-> IF k \in told THEN ClampTo(r.seen[k], span)
                        ELSE IF k \in near THEN ClampTo(t.pos[k], span) ELSE r.clamp[k]]

Sets(clamp) ==
    LET ks == SelectSeq(SetToSeq(KeyNodes), LAMBDA k : clamp[k] # NoKey)
    IN  [i \in DOMAIN ks |-> Set(ks[i], clamp[ks[i]])]

RemoveAll(ns) == [i \in DOMAIN ns |-> Remove_(ns[i])]

\* An id is new when neither the curve nor an edit or an event names it.
New(n) ==
    /\ ~Has(tree, n) /\ bound # n
    /\ \A q \in {heard, waiting, later, offered} : \A i \in DOMAIN q : q[i].n # n

\* on_child_added_decl, on_child_removed, after the same events: a range node
\* that is added is bound whatever range node was bound before.
Rebound(b, es) ==
    FoldLeft(LAMBDA x, e : CASE e.op = "addRange" -> e.n
                             [] e.op = "remove" /\ x = e.n -> NoKey [] OTHER -> x, b, es)

Seen == FoldLeft(LAMBDA r, e : See(tree, r, e), Watch(tree, bound), heard)

Reaction ==
    RemoveAll(Seen.drop) \o (IF Seen.add THEN <<AddRange(CHOOSE g \in Ranges : New(g))>> ELSE <<>>)
    \o Sets(Clamped(tree, Seen)) \o (IF Seen.order THEN Moves(tree) ELSE <<>>)

-----------------------------------------------------------------------------
(* The loops.                                                              *)

\* sync_keys_and_clamp_to_active_range, when the curve is attached.
Sync(t) ==
    LET ranges == KidsOf(t, Ranges)
        span == IF ranges = <<>> THEN NoKey ELSE SpanOf(t, ranges[1])
        two == CHOOSE s \in KeyNodes \X KeyNodes : s[1] # s[2]
        fit == [k \in KeyNodes |-> IF k \in OutOfRange(t, t.pos, span) THEN ClampTo(t.pos[k], span) ELSE NoKey]
    IN  RemoveAll(SubSeq(ranges, 2, Len(ranges)))
        \o (IF ranges = <<>> THEN <<AddRange(CHOOSE g \in Ranges : TRUE)>> ELSE <<>>)
        \o (IF KidsOf(t, KeyNodes) = <<>> THEN <<AddKey(two[1], 0), AddKey(two[2], 1)>> ELSE <<>>)
        \o Sets(fit) \o Moves(t)

CurveInit ==
    /\ tree \in Loaded
    /\ bound = Tracked(tree, NoKey)
    /\ waiting = Sync(tree)
    /\ heard = <<>> /\ later = <<>> /\ offered = <<>>
    /\ doing = "intent" /\ passes = 0 /\ undo = NoKey /\ others = 0

\* What users and other nodes ask for.
Asked ==
    {Set(k, p) : k \in ToSet(KidsOf(tree, KeyNodes)), p \in Positions}
    \cup {Redraw(g, b) : g \in ToSet(KidsOf(tree, Ranges)), b \in Borders}
    \cup {TurnOn(g, on) : g \in ToSet(KidsOf(tree, Ranges)), on \in BOOLEAN}
    \cup {AddKey(k, p) : k \in {k \in KeyNodes : New(k)}, p \in Positions}
    \cup {Remove_(n) : n \in ToSet(tree.kids)}
    \cup {MoveKey(n, m) : n, m \in ToSet(KidsOf(tree, KeyNodes))}

CountCall == others < MaxCurveEdits /\ others' = others + 1

\* An intent of the UI: apply and dispatch until nothing is left
\* (apply_ui_stabilization_to_fixed_point).
Intend(e) ==
    /\ doing = "nothing" /\ e \in Asked /\ (e.op = "move" => e.n # e.after)
    /\ CountCall
    /\ doing' = "intent" /\ passes' = 0
    /\ waiting' = <<e>>
    /\ undo' = IF e.op = "remove" /\ later = <<>> /\ offered = <<>>
               THEN [tree |-> tree, n |-> e.n] ELSE NoKey
    /\ UNCHANGED <<tree, bound, heard, later, offered>>

\* Undo of an intent that removed a node, with the range node it made the
\* curve add; the events wait for the next tick.
UndoIntent ==
    LET made == ToSet(tree.kids) \ ToSet(undo.tree.kids)
    IN  /\ doing = "nothing" /\ undo # NoKey
        /\ CountCall
        /\ tree' = undo.tree
        /\ heard' = heard \o RemoveAll(SetToSeq(made))
                          \o <<IF undo.n \in Ranges THEN AddRange(undo.n) ELSE AddKey(undo.n, tree.pos[undo.n])>>
        /\ undo' = NoKey
        /\ UNCHANGED <<bound, waiting, later, offered, doing, passes>>

FailEdit(s) ==
    /\ doing' = "nothing" /\ waiting' = <<>>
    /\ tree' = s.tree /\ heard' = s.events

IntentPass ==
    /\ doing = "intent" /\ (waiting # <<>> \/ heard # <<>>)
    /\ waiting = <<>> \/ heard = <<>>
    /\ IF waiting # <<>>
       THEN LET s == CurveApplied(PushAll(waiting, offered))
            IN  /\ offered' = <<>>
                /\ passes' = passes + 1
                /\ IF s.failed THEN FailEdit(s) /\ UNCHANGED bound
                   ELSE /\ tree' = s.tree /\ heard' = s.events
                        /\ waiting' = <<>>
                        /\ UNCHANGED <<bound, doing>>
       ELSE /\ waiting' = PushAll(<<>>, Reaction)
            /\ bound' = Rebound(Seen.bound, heard)
            /\ heard' = <<>>
            /\ UNCHANGED <<tree, offered, doing, passes>>
    /\ UNCHANGED <<later, undo, others>>

IntentDone ==
    /\ doing = "intent" /\ waiting = <<>> /\ heard = <<>>
    /\ doing' = "nothing"
    /\ UNCHANGED <<tree, bound, heard, waiting, later, offered, passes, undo, others>>

\* An edit of a script or of another node.
PutExternal(e) ==
    /\ doing = "nothing" /\ e \in Asked /\ e.op # "move"
    /\ CountCall
    /\ offered' = Append(offered, e)
    /\ undo' = NoKey
    /\ UNCHANGED <<tree, bound, heard, waiting, later, doing, passes>>

\* run_tick up to its stabilization: what was deferred comes first.
CurveTick ==
    /\ doing = "nothing"
    /\ heard # <<>> \/ later # <<>> \/ offered # <<>>
    /\ later' = <<>> /\ offered' = <<>>
    /\ LET s == CurveApplied(PushAll(PushAll(<<>>, later), offered))
       IN  IF s.failed THEN FailEdit(s)
           ELSE /\ doing' = "tick"
                /\ tree' = s.tree /\ heard' = s.events
                /\ UNCHANGED waiting
    /\ passes' = 0
    /\ UNCHANGED <<bound, undo, others>>

\* A pass of run_stabilization_rounds.
TickPass ==
    /\ doing = "tick" /\ heard # <<>>
    /\ LET asks == PushAll(<<>>, Reaction)
           s == FoldLeft(ApplyOne, [tree |-> tree, events |-> <<>>, failed |-> FALSE],
                         SelectSeq(asks, LAMBDA e : ~ChangesTree(e)))
       IN  /\ later' = later \o SelectSeq(asks, ChangesTree)
           /\ tree' = s.tree /\ heard' = s.events
    /\ bound' = Rebound(Seen.bound, heard)
    /\ passes' = passes + 1
    /\ UNCHANGED <<waiting, offered, doing, undo, others>>

TickDone ==
    /\ doing = "tick" /\ heard = <<>>
    /\ doing' = "nothing"
    /\ UNCHANGED <<tree, bound, heard, waiting, later, offered, passes, undo, others>>

CurveNext ==
    \/ \E e \in Asked : Intend(e) \/ PutExternal(e)
    \/ UndoIntent \/ IntentPass \/ IntentDone \/ CurveTick \/ TickPass \/ TickDone

CurveSpec == CurveInit /\ [][CurveNext]_curveVars

-----------------------------------------------------------------------------
(* Properties.                                                             *)

Keyed == KidsOf(tree, KeyNodes)

\* Once a curve has nothing left to do, neighbouring keys stand in the order
\* of their positions, every key is inside the range that is switched on, and
\* the range node the curve knows is one of its children, whatever edits came
\* between two ticks; and every intent and every tick comes to its end within
\* a few passes.
CurveSettles ==
    /\ passes <= 3
    /\ (doing = "nothing" /\ heard = <<>> /\ later = <<>> /\ offered = <<>>) =>
          /\ \A i \in 1 .. Len(Keyed) - 1 : tree.pos[Keyed[i]] <= tree.pos[Keyed[i + 1]]
          /\ OutOfRange(tree, tree.pos, SpanOf(tree, Tracked(tree, bound))) = {}
          /\ bound # NoKey /\ Has(tree, bound)

\* What the code does not keep, and no run checks.  Without the removal of a
\* key nobody loses it: a move put off to the next tick takes its key out of
\* the tree when an intent has removed the key it was to follow.
KeysStay ==
    [][\A k \in KeyNodes : Has(tree, k) /\ ~Has(tree, k)' =>
          \E q \in {later, offered, waiting} : Contains(q, Remove_(k))]_curveVars

\* A curve at rest has one range node: undoing the removal of a range node
\* makes the curve add and drop another one, and it then takes the dropping
\* of that one for the loss of its own.
OneRangeNode ==
    (doing = "nothing" /\ heard = <<>> /\ later = <<>> /\ offered = <<>>) => Len(KidsOf(tree, Ranges)) = 1
=============================================================================
