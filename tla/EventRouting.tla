---------------------------- MODULE EventRouting ----------------------------
(***************************************************************************)
(* Who hears of an event (engine/dispatch.rs, engine/listener_index.rs):     *)
(* events bubble from their origin towards the root as far as the nodes on  *)
(* the way carry them, and reach the subscribers of every ancestor within   *)
(* their depth.  The buffered events are routed together, one frame per      *)
(* node, and the frames are delivered one after the other; a delivery whose *)
(* edits are refused ends the dispatch and keeps the buffer.                *)
(*                                                                          *)
(* The tree is fixed, nodes are removed and restored.  What a node answers   *)
(* about events (interest, bubble depth, propagation) is its kind.          *)
(***************************************************************************)
EXTENDS Naturals, Sequences, SequencesExt, FiniteSetsExt

CONSTANTS
    Hearers,     \* node ids
    Above,       \* node -> its parent, Nowhere for the root
    Nowhere,     \* Option::None
    Kindings,    \* what the nodes answer: node -> [interest, bubble, propagation]
    Asks,        \* subscriptions that may be asked for: <<subscriber, origin, max_depth>>
    MaxEvents,   \* bound on the events of a behaviour
    MaxChanges   \* bound on its subscriptions, removals and restorations

VARIABLES
    kind,        \* child_event_interest_depth, bubble_event_depth, event_propagation
    alive,       \* NodeStore
    bySubscriber, \* ListenerIndex: subscriber -> sequence of <<origin, depth>>
    byOrigin,     \*   origin -> sequence of <<subscriber, depth>>
    buffer,       \* buffered events: [id, origin]
    frames,      \* the precomputed dispatch: sequence of [node, events]
    asked,       \* for the properties only: subscriptions asked for and still standing
    due,         \*   per event, who was to hear of it when it was routed
    heard,       \*   per node, the ids of the events it was called with
    emitted,     \*   events so far
    changes,     \*   changes so far
    again        \*   was a dispatch cut short, its events routed again?

routeVars == <<kind, alive, bySubscriber, byOrigin, buffer, frames>>
routeGhosts == <<asked, due, heard, emitted, again>>
routingVars == <<routeVars, routeGhosts, changes>>

RoutingInit ==
    /\ kind \in Kindings
    /\ alive = Hearers
    /\ bySubscriber = [n \in Hearers |-> <<>>] /\ byOrigin = [n \in Hearers |-> <<>>]
    /\ buffer = <<>> /\ frames = <<>>
    /\ asked = {} /\ due = [i \in 1..MaxEvents |-> [must |-> {}, may |-> {}]]
    /\ heard = [n \in Hearers |-> <<>>] /\ emitted = 0 /\ again = FALSE /\ changes = 0

-----------------------------------------------------------------------------
(* ListenerIndex.  Entries of one node are unordered after swap_remove.     *)
AddListener(s, o, d) ==
    /\ s \in alive /\ o \in alive
    /\ IF <<o, d>> \in ToSet(bySubscriber[s])
       THEN UNCHANGED <<bySubscriber, byOrigin>>
       ELSE /\ bySubscriber' = [bySubscriber EXCEPT ![s] = Append(@, <<o, d>>)]
            /\ byOrigin' = [byOrigin EXCEPT ![o] = Append(@, <<s, d>>)]
    /\ asked' = asked \cup {<<s, o, d>>}
    /\ UNCHANGED <<kind, alive, buffer, frames, due, heard, emitted, again>>

RemoveListener(s, o, d) ==
    /\ <<s, o, d>> \in asked
    /\ bySubscriber' = [bySubscriber EXCEPT ![s] = Remove(@, <<o, d>>)]
    /\ byOrigin' = [byOrigin EXCEPT ![o] = Remove(@, <<s, d>>)]
    /\ asked' = asked \ {<<s, o, d>>}
    /\ UNCHANGED <<kind, alive, buffer, frames, due, heard, emitted, again>>

\* purge_for_node: first in its role as a subscriber, then as an origin.
AsSubscriber(n, idx) ==
    LET origins == {x[1] : x \in ToSet(idx.sub[n])}
    IN  [sub |-> [idx.sub EXCEPT ![n] = <<>>],
         org |-> [o \in Hearers |-> IF o \in origins
                                    THEN SelectSeq(idx.org[o], LAMBDA y : y[1] # n)
                                    ELSE idx.org[o]]]

\* Mutant: listeners of the removed node keep their side of the subscription.
AsOrigin_oneSide(n, idx) == [idx EXCEPT !.org = [idx.org EXCEPT ![n] = <<>>]]

AsOrigin(n, idx) ==
    LET listeners == {x[1] : x \in ToSet(idx.org[n])}
    IN  [sub |-> [s \in Hearers |-> IF s \in listeners
                                    THEN SelectSeq(idx.sub[s], LAMBDA y : y[1] # n)
                                    ELSE idx.sub[s]],
         org |-> [idx.org EXCEPT ![n] = <<>>]]

PurgeHearer(n, idx) == AsOrigin(n, AsSubscriber(n, idx))

-----------------------------------------------------------------------------
(* route_event_recipients_into.                                             *)

\* origin_ancestry_depths_into: the origin and its ancestors, by depth.
Path(n) ==
    LET up[m \in Hearers] == <<m>> \o (IF Above[m] = Nowhere THEN <<>> ELSE up[Above[m]])
    IN  up[n]

Interested(n, depth) == depth = 0 \/ kind[n].interest >= depth
Takes(n, depth) == Interested(n, depth) /\ kind[n].propagation \in {"Notify", "Stop"}

\* collect_bubbling_recipients: what is left of the bubble depth after each node
\* of the path, 0 and the end of the way if nobody carries the event further.
Carried(path) ==
    LET left[i \in 1..Len(path)] ==
          LET before == IF i = 1 THEN 0 ELSE left[i - 1].budget
              sum == before + kind[path[i]].bubble
              onward == /\ kind[path[i]].propagation # "Stop" /\ i < Len(path)
                        /\ sum > 0 \/ Interested(path[i + 1], i)
          IN  [budget |-> IF sum > 0 THEN sum - 1 ELSE 0,
               onward |-> onward /\ (i = 1 \/ left[i - 1].onward)]
    IN  left

Bubbled(path) ==
    LET left == Carried(path)
        visited == {i \in DOMAIN path : i = 1 \/ left[i - 1].onward}
    IN  SelectSeq(path, LAMBDA n : \E i \in visited : path[i] = n /\ Takes(n, i - 1))

\* Mutant: a subscription ends one level early.
Subscribed_short(path, taken) ==
    LET at(i) == SelectSeq(byOrigin[path[i]], LAMBDA x :
                    i <= x[2] /\ x[1] \in alive /\ kind[x[1]].propagation # "PassOn")
        new(acc, x) == IF x[1] \in ToSet(acc) THEN acc ELSE Append(acc, x[1])
    IN  FoldLeft(new, taken, FlattenSeq([i \in DOMAIN path |-> at(i)]))

\* collect_subscription_recipients: in the order of a hash map, here that of the
\* path; a node that is already among the recipients is passed over.
Subscribed(path, taken) ==
    LET at(i) == SelectSeq(byOrigin[path[i]], LAMBDA x :
                    i - 1 <= x[2] /\ x[1] \in alive /\ kind[x[1]].propagation # "PassOn")
        new(acc, x) == IF x[1] \in ToSet(acc) THEN acc ELSE Append(acc, x[1])
    IN  FoldLeft(new, taken, FlattenSeq([i \in DOMAIN path |-> at(i)]))

Recipients(origin) ==
    IF origin \notin alive THEN <<>>
    ELSE Subscribed(Path(origin), Bubbled(Path(origin)))

\* precompute_inbox_dispatch: nodes in first-seen order, each with its events in
\* the order they were emitted.
Deliver(acc, event, node) ==
    IF \E i \in DOMAIN acc : acc[i].node = node
    THEN [i \in DOMAIN acc |-> IF acc[i].node = node
                               THEN [acc[i] EXCEPT !.events = Append(@, event.id)] ELSE acc[i]]
    ELSE Append(acc, [node |-> node, events |-> <<event.id>>])

Frames ==
    FoldLeft(LAMBDA acc, event :
                FoldLeft(LAMBDA a, node : Deliver(a, event, node), acc, Recipients(event.origin)),
             <<>>, buffer)

-----------------------------------------------------------------------------
(* Events, removals and the dispatch.                                       *)
Emit(origin) ==
    /\ emitted < MaxEvents /\ frames = <<>> /\ origin \in alive
    /\ emitted' = emitted + 1
    /\ buffer' = Append(buffer, [id |-> emitted + 1, origin |-> origin])
    /\ UNCHANGED <<kind, alive, bySubscriber, byOrigin, frames, asked, due, heard, again>>

\* A removed leaf: NodeDeleted purges the index (apply_event_side_effects).
DeleteHearer(n) ==
    /\ n \in alive /\ Above[n] # Nowhere /\ \A m \in alive : Above[m] # n
    /\ alive' = alive \ {n}
    /\ LET idx == PurgeHearer(n, [sub |-> bySubscriber, org |-> byOrigin])
       IN  bySubscriber' = idx.sub /\ byOrigin' = idx.org
    /\ asked' = {a \in asked : a[1] # n /\ a[2] # n}
    /\ due' = [i \in 1..MaxEvents |-> [due[i] EXCEPT !.must = @ \ {n}]]
    /\ UNCHANGED <<kind, buffer, frames, heard, emitted, again>>

RestoreHearer(n) ==
    /\ n \notin alive /\ Above[n] \in alive
    /\ alive' = alive \cup {n}
    /\ UNCHANGED <<kind, bySubscriber, byOrigin, buffer, frames, routeGhosts>>

\* What a dispatch is held to, for the properties only: a subscriber whose depth
\* reaches the origin hears, and so does an ancestor within its interest if the
\* nodes in between are interested too or all carry the event; nobody hears who
\* passes events on, or above a node that stops them, or beyond its interest.
Depth(n, path) == (CHOOSE i \in DOMAIN path : path[i] = n) - 1

Listeners(path) ==
    {n \in alive : /\ kind[n].propagation # "PassOn"
                   /\ \E a \in asked : a[1] = n /\ a[2] \in ToSet(path) /\ Depth(a[2], path) <= a[3]}

Ancestors(path) ==
    {n \in ToSet(path) : /\ Takes(n, Depth(n, path))
                         /\ \A i \in 1..Depth(n, path) : kind[path[i]].propagation # "Stop"}

Reached(path) ==
    {n \in Ancestors(path) : \/ \A i \in 1..Depth(n, path) : Interested(path[i], i - 1)
                             \/ \A i \in 1..Depth(n, path) : kind[path[i]].bubble > 0}

Promise(event) ==
    IF event.origin \notin alive THEN [must |-> {}, may |-> {}]
    ELSE LET path == Path(event.origin)
         IN  [must |-> Listeners(path) \cup Reached(path), may |-> Listeners(path) \cup Ancestors(path)]

Route ==
    /\ buffer # <<>> /\ frames = <<>>
    /\ frames' = Frames
    /\ due' = [i \in 1..MaxEvents |->
                 LET here == {e \in ToSet(buffer) : e.id = i}
                 IN  IF here = {} THEN due[i] ELSE Promise(CHOOSE e \in here : TRUE)]
    /\ buffer' = IF Frames = <<>> THEN <<>> ELSE buffer
    /\ UNCHANGED <<kind, alive, bySubscriber, byOrigin, asked, heard, emitted, again>>

\* One node's callback.  A node that is gone by now is passed over.
Call ==
    /\ frames # <<>>
    /\ LET f == Head(frames)
       IN  heard' = IF f.node \in alive THEN [heard EXCEPT ![f.node] = @ \o f.events] ELSE heard
    /\ frames' = Tail(frames)
    /\ buffer' = IF Len(frames) = 1 THEN <<>> ELSE buffer
    /\ UNCHANGED <<kind, alive, bySubscriber, byOrigin, asked, due, emitted, again>>

\* absorb_edits refuses what the callback asked for: the dispatch ends.
CallRefused ==
    /\ frames # <<>> /\ Head(frames).node \in alive /\ ~again
    /\ heard' = [heard EXCEPT ![Head(frames).node] = @ \o Head(frames).events]
    /\ frames' = <<>> /\ again' = TRUE
    /\ UNCHANGED <<kind, alive, bySubscriber, byOrigin, buffer, asked, due, emitted>>

Change ==
    \/ \E a \in Asks : AddListener(a[1], a[2], a[3])
    \/ \E a \in Asks : RemoveListener(a[1], a[2], a[3])
    \/ \E n \in Hearers : DeleteHearer(n)
    \/ \E n \in Hearers : RestoreHearer(n)

RoutingNext ==
    \/ changes < MaxChanges /\ Change /\ changes' = changes + 1
    \/ (\E n \in Hearers : Emit(n)) /\ UNCHANGED changes
    \/ Route /\ UNCHANGED changes
    \/ Call /\ UNCHANGED changes
    \/ CallRefused /\ UNCHANGED changes

RoutingSpec == RoutingInit /\ [][RoutingNext]_routingVars

-----------------------------------------------------------------------------
(* Properties.                                                              *)

\* Both sides of the index hold exactly the subscriptions that were asked for and
\* not given up, each once, whatever was added twice, removed or restored.
IndexAsAsked ==
    \A n \in Hearers :
        /\ ToSet(bySubscriber[n]) = {<<a[2], a[3]>> : a \in {x \in asked : x[1] = n}}
        /\ ToSet(byOrigin[n]) = {<<a[1], a[3]>> : a \in {x \in asked : x[2] = n}}
        /\ IsInjective(bySubscriber[n]) /\ IsInjective(byOrigin[n])

\* Once the buffer is dispatched, every event was heard by those it had to reach
\* and by nobody it was not meant for; each node heard events in the order they
\* were emitted, and once, unless a refused edit made them be dispatched again.
HeardAsPromised ==
    /\ IndexAsAsked
    /\ buffer = <<>> =>
           /\ \A i \in 1..emitted :
                LET by == {n \in Hearers : i \in ToSet(heard[n])}
                IN  due[i].must \subseteq by /\ (~again => by \subseteq due[i].may)
           /\ ~again => \A n \in Hearers : \A i, j \in DOMAIN heard[n] : i < j => heard[n][i] < heard[n][j]
=============================================================================
