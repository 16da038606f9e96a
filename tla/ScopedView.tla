------------------------------- MODULE ScopedView -------------------------------
(* A client that follows one subtree of the graph to a bounded depth           *)
(* (ui_read_model.rs: snapshot_for_scope, replay, event_for_scope; the events   *)
(* and their node records come from ui_sync.rs).  Whether an event is in the    *)
(* scope is decided when it is replayed, by the snapshot of that moment, and    *)
(* not by the graph the event was about.                                        *)
(*                                                                              *)
(* The engine changes the graph and hands over what changed as a batch; the     *)
(* batch is appended to the retained events first, and the snapshot is rebuilt  *)
(* after that, only for a change of structure.  The order of siblings and the   *)
(* fields of a node other than one value are left out.  The client is not in    *)
(* the repository; it keeps the records it is sent and patches them.            *)
EXTENDS Naturals, Sequences, SequencesExt, FiniteSets

CONSTANTS Nodes,        \* ids of nodes
          Top,          \* the root of the graph
          Scope,        \* the root of the subscription
          MaxDepth,     \* its depth
          ScopeValues,  \* values of a node
          NotThere,     \* the value of a node that is not there
          Planted,      \* the graphs to begin with
          RingCap,      \* events that are retained
          MaxTime,      \* bound: changes of the graph
          MaxBatch      \* bound: changes handed over at once

ASSUME ScopeAssumption ==
    /\ {Top, Scope} \subseteq Nodes /\ NotThere \notin ScopeValues
    /\ MaxDepth \in Nat /\ RingCap \in Nat \ {0} /\ MaxTime \in Nat /\ MaxBatch \in Nat

VARIABLES
    nodes,    \* the live graph: kids and value of every node
    usedIds,  \* ids given out so far
    removed,  \* the subtree an undo would put back, with its parent
    time,     \* stamp of the last event
    batch,    \* events not handed over yet
    rebuilt,  \* FALSE while the snapshot lags behind the events
    current,  \* the snapshot, with its time
    ring,     \* retained events
    client,   \* following or not, up to when, and the records it keeps
    stayed,   \* ghost: nodes that never left the scope since the client knows them
    blinded   \* ghost: a replay found events the snapshot did not show yet

scopeVars == <<nodes, usedIds, removed, time, batch, rebuilt, current, ring, client, stayed, blinded>>

-----------------------------------------------------------------------------
(* Trees.                                                                  *)

Nothing == [kids |-> [n \in Nodes |-> {}], value |-> [n \in Nodes |-> NotThere]]

Parents(t, n) == {p \in Nodes : n \in t.kids[p]}

\* The nodes at most depth levels under a node, collect_subtree_nodes.
Levels(t, root, depth) ==
    LET level[d \in 0..depth] ==
            IF d = 0 THEN IF t.value[root] = NotThere THEN {} ELSE {root}
            ELSE level[d - 1] \cup {n \in UNION {t.kids[p] : p \in level[d - 1]} : t.value[n] # NotThere}
    IN  level[depth]

Branch(t, root) == Levels(t, root, Cardinality(Nodes))
InScope(t) == Levels(t, Scope, MaxDepth)

\* snapshot_node_within_subtree climbs from the node; it looks for no record
\* of the root itself.
Within(t, n) == n = Scope \/ n \in Levels([t EXCEPT !.value[Scope] = "any"], Scope, MaxDepth)

\* The records of the nodes of a set.
Records(t, ns) ==
    [kids |-> [n \in Nodes |-> IF n \in ns THEN t.kids[n] ELSE {}],
     value |-> [n \in Nodes |-> IF n \in ns THEN t.value[n] ELSE NotThere]]

\* Records laid over others, removed nodes taken out, lists of children
\* replaced where the parent has a record.
Laid(t, records, out, lists) ==
    LET over == {n \in Nodes : records.value[n] # NotThere}
        kept == [n \in Nodes |-> IF n \in over THEN records.value[n] ELSE IF n \in out THEN NotThere ELSE t.value[n]]
    IN  [kids |-> [n \in Nodes |-> IF kept[n] = NotThere THEN {}
                                   ELSE IF n \in DOMAIN lists THEN lists[n]
                                   ELSE IF n \in over THEN records.kids[n] ELSE t.kids[n]],
         value |-> kept]

-----------------------------------------------------------------------------
(* Changes of the graph and their events.                                  *)

Event(op, node, records, out, lists) ==
    [time |-> time + 1, op |-> op, node |-> node, records |-> records, out |-> out, lists |-> lists]

Patched(t, e) == Laid(t, e.records, e.out, e.lists)

\* A new leaf, or a subtree that an undo puts back.
Inserts(p, root, records) ==
    Event("insert", root, records, {}, [x \in {p} |-> nodes.kids[p] \cup {root}])

TakenOut(n) ==
    Event("remove", n, Nothing, Branch(nodes, n), [x \in Parents(nodes, n) |-> nodes.kids[x] \ {n}])

MovedTo(n, p) ==
    Event("move", n, Nothing, {},
          [x \in Parents(nodes, n) \cup {p} |-> IF x = p THEN nodes.kids[x] \cup {n} ELSE nodes.kids[x] \ {n}])

SetValue(n, v) ==
    Event("set", n, [Nothing EXCEPT !.kids = nodes.kids, !.value[n] = v], {}, [x \in {} |-> {}])

Reshapes(e) == e.op # "set"

Leaf(n) == [Nothing EXCEPT !.value[n] = CHOOSE v \in ScopeValues : TRUE]

\* What the engine can do, with what an undo could put back after it.
Changes ==
    {<<Inserts(p, n, Leaf(n)), removed>> : p \in Branch(nodes, Top), n \in Nodes \ usedIds}
    \cup {<<TakenOut(n), {<<Records(nodes, Branch(nodes, n)), n, p>> : p \in Parents(nodes, n)}>> :
              n \in Branch(nodes, Top) \ {Top}}
    \cup {<<Inserts(r[3], r[2], r[1]), {}>> : r \in {x \in removed : nodes.value[x[3]] # NotThere}}
    \cup UNION {{<<MovedTo(n, p), removed>> : p \in Branch(nodes, Top) \ (Branch(nodes, n) \cup Parents(nodes, n))} :
                   n \in Branch(nodes, Top) \ {Top}}
    \cup UNION {{<<SetValue(n, v), removed>> : v \in ScopeValues \ {nodes.value[n]}} : n \in Branch(nodes, Top)}

Change ==
    /\ rebuilt /\ time < MaxTime /\ Len(batch) < MaxBatch
    /\ \E c \in Changes :
        LET after == Patched(nodes, c[1])
        IN  /\ nodes' = after
            /\ removed' = c[2]
            /\ usedIds' = usedIds \cup {n \in Nodes : after.value[n] # NotThere}
            /\ batch' = Append(batch, c[1])
            /\ stayed' = InScope(after) \cap (stayed \cup
                   {n \in Nodes : client.following /\ c[1].op = "insert" /\ c[1].records.value[n] # NotThere})
    /\ time' = time + 1
    /\ UNCHANGED <<rebuilt, current, ring, client, blinded>>

-----------------------------------------------------------------------------
(* The read model.                                                         *)

\* append_retained_ui_event: a value takes the place of the one before it
\* when nothing but values came in between.
Retained(events, e) ==
    LET last == CHOOSE i \in 0..Len(events) :
                    /\ \A j \in (i + 1)..Len(events) : ~Reshapes(events[j])
                    /\ i > 0 => Reshapes(events[i])
    IN  IF Reshapes(e) THEN Append(events, e)
        ELSE SubSeq(events, 1, last) \o SelectSeq(SubSeq(events, last + 1, Len(events)), LAMBDA x : x.node # e.node)
             \o <<e>>

Newest(events) == SubSeq(events, IF Len(events) > RingCap THEN Len(events) - RingCap + 1 ELSE 1, Len(events))

\* apply_event_capture: first the events, then the snapshot, for a change of
\* structure.
AppendEvents ==
    /\ rebuilt /\ batch # <<>>
    /\ ring' = FoldLeft(LAMBDA events, e : Newest(Retained(events, e)), ring, batch)
    /\ rebuilt' = ~\E i \in DOMAIN batch : Reshapes(batch[i])
    /\ batch' = <<>>
    /\ UNCHANGED <<nodes, usedIds, removed, time, current, client, stayed, blinded>>

Rebuild ==
    /\ ~rebuilt
    /\ current' = [tree |-> nodes, at |-> time]
    /\ rebuilt' = TRUE
    /\ UNCHANGED <<nodes, usedIds, removed, time, batch, ring, client, stayed, blinded>>

-----------------------------------------------------------------------------
(* The scope.                                                              *)

\* Mutant: a move is in the scope when the node that moved is.
Matches_nodeOnly(t, e) ==
    CASE e.op = "insert" -> \E n \in DOMAIN e.lists \cup {x \in Nodes : e.records.value[x] # NotThere} : Within(t, n)
      [] e.op = "remove" -> Scope \in e.out \/ \E n \in DOMAIN e.lists : Within(t, n)
      [] OTHER -> Within(t, e.node)

\* graph_op_matches_subtree, event_matches_scope.
Matches(t, e) ==
    CASE e.op = "insert" -> \E n \in DOMAIN e.lists \cup {x \in Nodes : e.records.value[x] # NotThere} : Within(t, n)
      [] e.op = "remove" -> Scope \in e.out \/ \E n \in DOMAIN e.lists : Within(t, n)
      [] e.op = "move" -> \E n \in DOMAIN e.lists \cup {e.node} : Within(t, n)
      [] e.op = "set" -> Within(t, e.node)

Replayed(from) == SelectSeq(ring, LAMBDA e : e.time > from /\ Matches(current.tree, e))
OutOfWindow(from) == ring # <<>> /\ from < ring[1].time

\* The client fetches a snapshot of its scope and follows from its time.
Fetch ==
    /\ ~client.following
    /\ client' = [following |-> TRUE, cursor |-> current.at,
                  tree |-> Records(current.tree, InScope(current.tree))]
    /\ stayed' = InScope(current.tree) \cap InScope(nodes)
    /\ blinded' = FALSE
    /\ UNCHANGED <<nodes, usedIds, removed, time, batch, rebuilt, current, ring>>

\* A value is for a node the client has a record of, and leaves its list of
\* children alone.
Received(t, e) ==
    IF e.op # "set" THEN Patched(t, e)
    ELSE IF t.value[e.node] = NotThere THEN t
    ELSE Patched(t, [e EXCEPT !.records.kids = t.kids])

\* It is replayed what it missed, or told to fetch again.
Replay ==
    /\ client.following
    /\ OutOfWindow(client.cursor) \/ Replayed(client.cursor) # <<>>
    /\ LET events == Replayed(client.cursor)
       IN  IF OutOfWindow(client.cursor)
           THEN client' = [following |-> FALSE, cursor |-> 0, tree |-> Nothing] /\ stayed' = {} /\ UNCHANGED blinded
           ELSE /\ client' = [client EXCEPT !.cursor = Last(events).time, !.tree = FoldLeft(Received, @, events)]
                /\ blinded' = (blinded \/ ~rebuilt)
                /\ UNCHANGED stayed
    /\ UNCHANGED <<nodes, usedIds, removed, time, batch, rebuilt, current, ring>>

-----------------------------------------------------------------------------
ScopeInit ==
    /\ nodes \in Planted
    /\ usedIds = {n \in Nodes : nodes.value[n] # NotThere}
    /\ removed = {} /\ time = 0 /\ batch = <<>> /\ rebuilt = TRUE
    /\ current = [tree |-> nodes, at |-> 0]
    /\ ring = <<>>
    /\ client = [following |-> FALSE, cursor |-> 0, tree |-> Nothing]
    /\ stayed = {} /\ blinded = FALSE

ScopeNext == Change \/ AppendEvents \/ Rebuild \/ Fetch \/ Replay

ScopeSpec == ScopeInit /\ [][ScopeNext]_scopeVars

-----------------------------------------------------------------------------
(* Properties.                                                             *)

CaughtUp ==
    /\ client.following /\ rebuilt /\ batch = <<>>
    /\ ~OutOfWindow(client.cursor) /\ Replayed(client.cursor) = <<>>

\* A client that was replayed everything has, for every node that stayed in
\* its scope since it knows it, the children and the value the graph has,
\* although events are judged by a later snapshot than their own and the
\* cursor moves past events of other scopes; and what it reaches from the
\* root within the depth is there in the graph too.  Except when a replay
\* came between the events of a batch and the snapshot.
ScopeAgrees ==
    CaughtUp /\ ~blinded =>
        /\ \A n \in stayed : client.tree.value[n] = nodes.value[n] /\ client.tree.kids[n] = nodes.kids[n]
        /\ InScope(client.tree) \subseteq InScope(nodes)

\* The same without the exception.
ScopeAlwaysAgrees ==
    CaughtUp => \A n \in stayed : client.tree.value[n] = nodes.value[n] /\ client.tree.kids[n] = nodes.kids[n]
=============================================================================
