----------------------------- MODULE Contexts ------------------------------
(* User contexts: a scope node under an owner holds parameters, and any node  *)
(* below the owner may look one up by symbol.  The engine keeps a registry of *)
(* the scopes and a cache of lookups, both derived from the tree; it derives  *)
(* them again at the end of a batch of edits, and after an undo or a redo,    *)
(* unless it failed on the way.                                               *)
(* UI intents may also edit the registry directly.                            *)
(* Abstracted: the multiplex lists (Multiplex), the candidates listed for a   *)
(* UI (they walk the registry as a lookup does), and nodes nested in a scope. *)
EXTENDS Naturals, Sequences, SequencesExt, FiniteSets, FiniteSetsExt

CONSTANTS Symbols,   \* declared names of context parameters
          Types,     \* value types
          AnyType,   \* lookup that expects no type
          Consumers, \* nodes that look symbols up
          Wants,     \* the types they expect
          Missing,    \* no such node, no such entry
          Host, Scope, Entry, \* kinds of nodes
          Seconds,   \* nodes the second edit of a batch removes
          MaxNode,   \* bound on node ids: ids are given in order and kept
          MaxBatches, \* bound on batches and direct edits of the registry
          MaxCached  \* bound on the lookups cached at a time

VARIABLES tree,    \* [live, kind, up, sym, ty, kids]: the nodes in the store, and of each
                   \* its kind, parent, symbol, type and children; a node taken out keeps them
          nextNode, \* the next node id
          registry, \* per owner: its scope, a map from symbol to [param, ty]
          cache,    \* per [at, sym, want] looked up: the answer
          undone, done, \* redo and undo stack of transactions
          batches,
          stale,    \* ghost: a batch, an undo or a redo failed after changing the tree
          broken,   \* ghost: an undo or a redo of a move damaged the links
          manual    \* ghost: the registry was edited directly
contextVars == <<tree, nextNode, registry, cache, undone, done, batches, stale, broken, manual>>

NodeIds == 0..MaxNode

KidsIn(g, p) == Range(g.kids[p])
PlaceOf(g, n) == CHOOSE i \in DOMAIN g.kids[g.up[n]] : g.kids[g.up[n]][i] = n

\* n, its parent, its grandparent, ... up to the root.
Ancestry(g, n) ==
    LET f[m \in g.live, d \in 0..MaxNode] ==
            IF d = 0 \/ g.up[m] = Missing THEN <<m>> ELSE <<m>> \o f[g.up[m], d - 1]
    IN  f[n, MaxNode]

Beneath(g, n) == {m \in g.live : n \in Range(Ancestry(g, m))}

-----------------------------------------------------------------------------
(* The registry derived from the tree.                                       *)

ScopesOf(g) == {n \in g.live : g.kind[n] = Scope}

\* A scope stands for its parent, for itself while it has none.
OwnerIn(g, scope) == IF g.up[scope] = Missing THEN scope ELSE g.up[scope]

\* In one scope the first parameter of a symbol stands for it.
FirstOf(g, scope, s) ==
    LET named == {e \in KidsIn(g, scope) : g.kind[e] = Entry /\ g.sym[e] = s}
    IN  CHOOSE e \in named : \A x \in named : PlaceOf(g, e) <= PlaceOf(g, x)

\* Scopes are taken in the order of their ids; a later one replaces the
\* symbols an earlier one of the same owner gave.
Rebuilt(g) ==
    [o \in {OwnerIn(g, sc) : sc \in ScopesOf(g)} |->
        LET own == {sc \in ScopesOf(g) : OwnerIn(g, sc) = o}
            giving(s) == {sc \in own : \E e \in KidsIn(g, sc) : g.kind[e] = Entry /\ g.sym[e] = s}
        IN  [s \in {x \in Symbols : giving(x) # {}} |->
                LET e == FirstOf(g, Max(giving(s)), s)
                IN  [param |-> e, ty |-> g.ty[e]]]]

\* The root 0 with a host 1, its consumer 4, and a scope in either (5 and 2)
\* with an entry each, of the same symbol.
ContextsInit ==
    /\ tree = [live |-> 0..6,
               kind |-> [n \in NodeIds |-> CASE n \in {0, 1, 4} -> Host [] n \in {2, 5} -> Scope
                                          [] n \in {3, 6} -> Entry [] OTHER -> Missing],
                up |-> [n \in NodeIds |-> CASE n \in {1, 5} -> 0 [] n \in {2, 4} -> 1 [] n = 3 -> 2
                                        [] n = 6 -> 5 [] OTHER -> Missing],
                sym |-> [n \in NodeIds |-> IF n \in {3, 6} THEN CHOOSE s \in Symbols : TRUE ELSE Missing],
                ty |-> [n \in NodeIds |-> IF n \in {3, 6} THEN CHOOSE t \in Types : TRUE ELSE Missing],
                kids |-> [n \in NodeIds |-> CASE n = 0 -> <<1, 5>> [] n = 1 -> <<2, 4>> [] n = 2 -> <<3>>
                                          [] n = 5 -> <<6>> [] OTHER -> <<>>]]
    /\ nextNode = 7
    /\ registry = Rebuilt(tree)
    /\ cache = <<>> /\ undone = <<>> /\ done = <<>> /\ batches = 0
    /\ stale = FALSE /\ broken = FALSE /\ manual = FALSE

-----------------------------------------------------------------------------
(* Edits.  One that fails is answered by Missing.                            *)

HasPlace(g, n) == n \in g.live /\ g.up[n] # Missing

Unlink(g, n) == [g EXCEPT !.kids[g.up[n]] = SelectSeq(@, LAMBDA m : m # n), !.up[n] = Missing]
LinkAt(g, n, p, i) == [g EXCEPT !.kids[p] = InsertAt(@, i, n), !.up[n] = p]
CutOff(g, n) == [Unlink(g, n) EXCEPT !.live = @ \ Beneath(g, n)]

\* An added node is the last child, a moved one the first.
AddTo(g, n, k, p, s, t) ==
    IF p \notin g.live THEN Missing
    ELSE LinkAt([g EXCEPT !.live = @ \cup {n}, !.kind[n] = k, !.sym[n] = s, !.ty[n] = t],
                n, p, Len(g.kids[p]) + 1)

RemoveFrom(g, n) == IF HasPlace(g, n) THEN CutOff(g, n) ELSE Missing

MoveTo(g, n, p) ==
    IF ~HasPlace(g, n) \/ p \notin g.live \/ p \in Beneath(g, n) THEN Missing
    ELSE LinkAt(Unlink(g, n), n, p, 1)

Retype(g, n, t) ==
    IF n \notin g.live THEN Missing ELSE [g EXCEPT !.ty[n] = t]

InScope(g, n) == \E a \in Range(Ancestry(g, n)) : g.kind[a] = Scope

\* Mutant of Dirties: a move does not count.
Dirties_notMoves(before, after, edit) ==
    edit.op # "move" /\ (edit.op = "type" => before.ty[edit.n] # edit.t)

\* Every edit of the tree changes the scopes; a new value does when its type
\* is another one and the parameter is in a scope.
Dirties(before, after, edit) ==
    edit.op = "type" => before.ty[edit.n] # edit.t /\ InScope(after, edit.n)

\* Where a node is: its parent and its neighbours.
Spot(g, n) ==
    LET kids == g.kids[g.up[n]]
        i == PlaceOf(g, n)
    IN  [up |-> g.up[n], prev |-> IF i = 1 THEN Missing ELSE kids[i - 1],
         next |-> IF i = Len(kids) THEN Missing ELSE kids[i + 1]]

\* What history keeps of an edit: an added or removed node with the nodes it
\* holds while they are out of the store, the two places of a moved one, the
\* two types of a retyped one; nothing of a value set again.
StepsOf(before, after, edit, new) ==
    CASE edit.op \in {"scope", "entry"} ->
             <<[op |-> "add", n |-> new, held |-> {}, at |-> Spot(after, new)]>>
      [] edit.op = "remove" ->
             <<[op |-> "remove", n |-> edit.n, held |-> Beneath(before, edit.n), at |-> Spot(before, edit.n)]>>
      [] edit.op = "move" ->
             <<[op |-> "move", n |-> edit.n, old |-> Spot(before, edit.n), new |-> Spot(after, edit.n),
                moved |-> TRUE]>>
      [] edit.op = "type" ->
             IF before = after THEN <<>>
             ELSE <<[op |-> "type", n |-> edit.n, old |-> before.ty[edit.n], new |-> edit.t]>>

\* One edit on [g, next, steps, dirty, ok].
ApplyTreeEdit(b, edit) ==
    LET g == CASE edit.op = "scope"  -> AddTo(b.g, b.next, Scope, edit.p, Missing, Missing)
               [] edit.op = "entry"  -> AddTo(b.g, b.next, Entry, edit.p, edit.s, edit.t)
               [] edit.op = "remove" -> RemoveFrom(b.g, edit.n)
               [] edit.op = "move"   -> MoveTo(b.g, edit.n, edit.p)
               [] edit.op = "type"   -> Retype(b.g, edit.n, edit.t)
    IN  IF g = Missing THEN [b EXCEPT !.ok = FALSE]
        ELSE [b EXCEPT !.g = g,
                       !.next = IF edit.op \in {"scope", "entry"} THEN @ + 1 ELSE @,
                       !.steps = @ \o StepsOf(b.g, g, edit, b.next),
                       !.dirty = @ \/ Dirties(b.g, g, edit)]

ApplyEdits(edits) ==
    FoldLeft(LAMBDA b, edit : IF b.ok THEN ApplyTreeEdit(b, edit) ELSE b,
             [g |-> tree, next |-> nextNode, steps |-> <<>>, dirty |-> FALSE, ok |-> TRUE], edits)

\* The registry and the lookups follow the tree.
Refresh(g) ==
    /\ registry' = Rebuilt(g) /\ cache' = <<>>
    /\ stale' = FALSE /\ manual' = FALSE

\* Or they stay, whatever happened to it.
LeaveBehind(changed) ==
    /\ stale' = (stale \/ changed)
    /\ UNCHANGED <<registry, cache, manual>>

\* A batch, of the user (recorded) or of the running engine (apply_edits and
\* apply_edits_without_history).  One that fails stops there and returns at
\* once: what it did stays, but nothing of it is recorded or followed up.
ApplyBatch(edits, recorded) ==
    /\ batches < MaxBatches
    /\ batches' = batches + 1
    /\ \E b \in {ApplyEdits(edits)} :
           /\ tree' = b.g /\ nextNode' = b.next
           /\ undone' = IF recorded /\ b.steps # <<>> THEN <<>> ELSE undone
           /\ done' = IF recorded /\ b.steps # <<>> /\ b.ok THEN Append(done, b.steps) ELSE done
           /\ IF b.ok /\ b.dirty THEN Refresh(b.g) ELSE LeaveBehind(b.dirty)
    /\ UNCHANGED broken

-----------------------------------------------------------------------------
(* Undo and redo.  A replayed step is answered by the tree, the step as it    *)
(* is kept for the way back, and whether it succeeded.                        *)

Outcome(g, step, ok) == [g |-> g, step |-> step, ok |-> ok, sound |-> TRUE]

\* attach_node_for_history: behind the sibling it was behind, else before the
\* one it was before, else last.
AttachAgain(g, step) ==
    LET p == step.at.up
        whole == [g EXCEPT !.live = @ \cup step.held]
        there(m) == m \in g.live /\ g.up[m] = p
        i == IF there(step.at.prev) THEN PlaceOf(g, step.at.prev) + 1
             ELSE IF there(step.at.next) THEN PlaceOf(g, step.at.next)
             ELSE Len(g.kids[p]) + 1
        kept == [step EXCEPT !.held = {}]
    IN  IF step.held = {} THEN Outcome(g, step, TRUE)
        ELSE IF p \notin g.live THEN Outcome(whole, kept, FALSE)
        ELSE Outcome(LinkAt(whole, step.n, p, i), kept, TRUE)

\* Taking back an addition passes over a node that is gone, removing again does not.
CutAgain(g, step) ==
    IF step.held # {} \/ (step.op = "add" /\ step.n \notin g.live) THEN Outcome(g, step, TRUE)
    ELSE IF ~HasPlace(g, step.n) THEN Outcome(g, step, FALSE)
    ELSE Outcome(CutOff(g, step.n),
                 [step EXCEPT !.held = Beneath(g, step.n), !.at = Spot(g, step.n)], TRUE)

\* A move goes exactly between the neighbours it remembers.  They must be
\* children there, but nobody checks that they are neighbours, nor that the
\* parent is not below the node: the links are damaged then.
MoveBetween(g, step, back) ==
    LET off == Unlink(g, step.n)
        spot == IF back THEN step.old ELSE step.new
        p == spot.up
        i == IF spot.prev = Missing THEN 1 ELSE PlaceOf(off, spot.prev) + 1
        neighbour == IF i <= Len(off.kids[p]) THEN off.kids[p][i] ELSE Missing
    IN  IF step.moved # back THEN Outcome(g, step, TRUE)
        ELSE IF ~HasPlace(g, step.n) THEN Outcome(g, step, FALSE)
        ELSE IF \/ p \notin off.live
                \/ \E m \in {spot.prev, spot.next} \ {Missing} : m \notin off.live \/ off.up[m] # p
             THEN Outcome(off, step, FALSE)
        ELSE IF neighbour # spot.next \/ p \in Beneath(off, step.n)
             THEN [Outcome(g, step, FALSE) EXCEPT !.sound = FALSE]
        ELSE Outcome(LinkAt(off, step.n, p, i), [step EXCEPT !.moved = ~@], TRUE)

ReplayStep(g, step, back) ==
    CASE step.op = "type" ->
             LET new == Retype(g, step.n, IF back THEN step.old ELSE step.new)
             IN  IF new = Missing THEN Outcome(g, step, FALSE) ELSE Outcome(new, step, TRUE)
      [] step.op = "move" -> MoveBetween(g, step, back)
      [] step.op \in {"add", "remove"} ->
             IF (step.op = "remove") = back THEN AttachAgain(g, step) ELSE CutAgain(g, step)

\* A transaction, undone last step first: [g, steps, ok, sound].
Replay(steps, back) ==
    LET one(r, step) ==
            LET o == ReplayStep(r.g, step, back)
            IN  [g |-> o.g, steps |-> IF back THEN <<o.step>> \o r.steps ELSE Append(r.steps, o.step),
                 ok |-> o.ok, sound |-> o.sound]
    IN  FoldLeft(LAMBDA r, step : IF r.ok THEN one(r, step) ELSE r,
                 [g |-> tree, steps |-> <<>>, ok |-> TRUE, sound |-> TRUE],
                 IF back THEN Reverse(steps) ELSE steps)

\* The registry is derived again whatever the steps changed, but an undo or
\* redo that fails returns before that: the steps before stay replayed, and
\* the transaction is lost.
Travel(r) ==
    /\ tree' = r.g
    /\ broken' = ~r.sound
    /\ IF r.ok THEN Refresh(r.g) ELSE LeaveBehind(r.g # tree)
    /\ UNCHANGED <<nextNode, batches>>

UndoTree ==
    /\ done # <<>>
    /\ \E r \in {Replay(Last(done), TRUE)} :
           /\ Travel(r)
           /\ done' = Front(done)
           /\ undone' = IF r.ok THEN Append(undone, r.steps) ELSE undone

RedoTree ==
    /\ undone # <<>>
    /\ \E r \in {Replay(Last(undone), FALSE)} :
           /\ Travel(r)
           /\ undone' = Front(undone)
           /\ done' = IF r.ok THEN Append(done, r.steps) ELSE done

-----------------------------------------------------------------------------
(* Direct edits of the registry: they drop the cache when they change it.    *)

\* A scope node stands for its owner; one without a parent is refused.
OwnerOf(n) == IF tree.kind[n] = Scope THEN tree.up[n] ELSE n
HasOwner(n) == n \in tree.live /\ OwnerOf(n) # Missing

SetRegistry(next) ==
    /\ batches < MaxBatches
    /\ batches' = batches + 1
    /\ registry' = next
    /\ IF next = registry THEN UNCHANGED <<cache, manual>> ELSE cache' = <<>> /\ manual' = TRUE
    /\ UNCHANGED <<tree, nextNode, undone, done, stale, broken>>

EnsureScope(n) ==
    LET o == OwnerOf(n)
    IN  SetRegistry([x \in DOMAIN registry \cup {o} |->
                        IF x \in DOMAIN registry THEN registry[x] ELSE <<>>])

RemoveScope(n) ==
    SetRegistry([x \in DOMAIN registry \ {OwnerOf(n)} |-> registry[x]])

\* The parameter must be in a scope of the owner's.
UpsertEntry(n, s, e) ==
    LET o == OwnerOf(n)
    IN  /\ tree.kind[e] = Entry /\ HasPlace(tree, e) /\ OwnerIn(tree, tree.up[e]) = o
        /\ o \in DOMAIN registry
        /\ SetRegistry([registry EXCEPT ![o] =
               [x \in DOMAIN @ \cup {s} |->
                   IF x = s THEN [param |-> e, ty |-> tree.ty[e]] ELSE @[x]]])

RemoveEntry(n, s) ==
    LET o == OwnerOf(n)
    IN  /\ o \in DOMAIN registry
        /\ SetRegistry([registry EXCEPT ![o] = [x \in DOMAIN @ \ {s} |-> @[x]]])

-----------------------------------------------------------------------------
(* Lookups.                                                                  *)

Answer(entry, want, owner) ==
    [param |-> entry.param, owner |-> owner, fits |-> want \in {AnyType, entry.ty}]

\* The nearest registered scope with the symbol answers, whether or not its
\* entry has the expected type.
Walk(n, s, want) ==
    LET path == Ancestry(tree, n)
        hits == {i \in DOMAIN path : path[i] \in DOMAIN registry /\ s \in DOMAIN registry[path[i]]}
    IN  IF hits = {} THEN Missing
        ELSE LET o == path[Min(hits)] IN Answer(registry[o][s], want, o)

Lookup(n, s, want) ==
    LET key == [at |-> n, sym |-> s, want |-> want]
    IN  /\ n \in tree.live
        /\ key \notin DOMAIN cache /\ Cardinality(DOMAIN cache) < MaxCached
        /\ cache' = [k \in DOMAIN cache \cup {key} |->
                        IF k = key THEN Walk(n, s, want) ELSE cache[k]]
        /\ UNCHANGED <<tree, nextNode, registry, undone, done, batches, stale, broken, manual>>

Of(k) == {n \in tree.live : tree.kind[n] = k}
Move(ns, ps) == [op : {"move"}, n : ns \ {0}, p : ps]

\* What the program offers: scopes and hosts under hosts, entries in scopes.
Additions == [op : {"scope"}, p : Of(Host)] \cup [op : {"entry"}, p : Of(Scope), s : Symbols, t : Types]
Edits ==
    (IF nextNode <= MaxNode THEN Additions ELSE {})
    \cup [op : {"remove"}, n : tree.live \ {0}]
    \cup Move(Of(Host), Of(Host)) \cup Move(Of(Scope), Of(Host)) \cup Move(Of(Entry), Of(Scope))
    \cup [op : {"type"}, n : Of(Entry), t : Types]

\* What follows a damaged tree is left to GraphHistory.
ContextsNext ==
    /\ ~broken
    /\ \/ \E a \in Edits, recorded \in BOOLEAN :
              \/ ApplyBatch(<<a>>, recorded)
              \/ \E n \in Seconds : ApplyBatch(<<a, [op |-> "remove", n |-> n]>>, recorded)
       \/ UndoTree \/ RedoTree
       \/ \E n \in tree.live :
              /\ HasOwner(n)
              /\ \/ EnsureScope(n) \/ RemoveScope(n)
                 \/ \E s \in Symbols : RemoveEntry(n, s) \/ \E e \in tree.live : UpsertEntry(n, s, e)
       \/ \E n \in Consumers, s \in Symbols, want \in Wants : Lookup(n, s, want)

ContextsSpec == ContextsInit /\ [][ContextsNext]_contextVars

-----------------------------------------------------------------------------
\* What a lookup must find in the tree itself: the nearest owner above with a
\* scope that names the symbol.
Promised(n, s, want) ==
    LET gives(o, e) == /\ tree.kind[e] = Entry /\ tree.sym[e] = s /\ HasPlace(tree, e)
                       /\ tree.kind[tree.up[e]] = Scope /\ OwnerIn(tree, tree.up[e]) = o
        path == Ancestry(tree, n)
        near == {i \in DOMAIN path : \E e \in tree.live : gives(path[i], e)}
    IN  IF near = {} THEN Missing
        ELSE LET o == path[Min(near)]
                 all == {e \in tree.live : gives(o, e)}
                 best == CHOOSE e \in all : \A x \in all :
                             \/ tree.up[x] < tree.up[e]
                             \/ tree.up[x] = tree.up[e] /\ PlaceOf(tree, e) <= PlaceOf(tree, x)
             IN  [param |-> best, owner |-> o, fits |-> want \in {AnyType, tree.ty[best]}]

\* A lookup answers by the tree as it is, from the cache or not: whatever was
\* moved, added, removed or retyped, by the user or by the engine, and undone
\* or redone since it was cached.  An answer from the cache is the one a new
\* walk of the registry would give, also after direct edits of the registry.
\* The exceptions are named: a batch that failed halfway, and an undo or redo
\* that did, leave both behind the tree until the next one succeeds; and an
\* undo or redo may damage the links themselves.
LookupsAreCurrent ==
    ~stale /\ ~broken =>
        \A k \in [at : Consumers \cap tree.live, sym : Symbols, want : Wants] :
            LET answer == IF k \in DOMAIN cache THEN cache[k] ELSE Walk(k.at, k.sym, k.want)
            IN  IF manual THEN answer = Walk(k.at, k.sym, k.want)
                ELSE answer = Promised(k.at, k.sym, k.want)

=============================================================================
