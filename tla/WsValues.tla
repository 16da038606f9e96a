------------------------------ MODULE WsValues ------------------------------
(***************************************************************************)
(* What the WebSocket hub sends its clients (ui_server.rs, ws_hub_loop): a  *)
(* thread of its own takes commands from one channel and dispatches the     *)
(* retained events to every subscription; it hides a client's own events    *)
(* from it when the client asked so, sends structure at once, and holds     *)
(* values back in a queue per subscription that a timer flushes.            *)
(*                                                                          *)
(* The read model is one step here: an event is in the ring, the store and  *)
(* the snapshot at once (UiFeed takes that apart).  Scopes are the whole    *)
(* graph; runtime statistics are left out.  Clients are not in the          *)
(* repository: one shows what it was sent and, at once, what it asked for.  *)
(***************************************************************************)
EXTENDS EventRing

CONSTANTS
    Conns,     \* connected clients
    Senders,   \* those of them that send intents
    Capacity,  \* DEFAULT_UI_READ_MODEL_EVENT_CAPACITY
    MaxStamp,  \* bound on the engine clock
    MaxJoins,  \* bound on the subscriptions of a sender; others subscribe once
    MaxOrders  \* bound on the intents waiting for the hub

VARIABLES
    stamp,    \* engine time: the stamp of the next event
    live,     \* the graph
    retained, \* UiReadModel.events
    snapshot, \* UiReadModel.current: rebuilt by structural events only
    orders,   \* the commands of clients the hub has still to handle
    sub,      \* the subscription of each client
    origins,  \* who caused the events of which stamps
    flushDue, \* value_flush_interval has passed since the last flush
    wire,     \* messages sent and not yet received
    ui        \* what each client shows, and the nodes it hides its events of

engineSide == <<stamp, live, retained, snapshot>>
valueVars == <<engineSide, orders, sub, origins, flushDue, wire, ui>>

StartTime == 1
NoSub == [id |-> 0, cursor |-> NoTime, queue |-> <<>>]

ValuesInit ==
    /\ stamp = StartTime + 1
    /\ live \in [Nodes -> Values \cup {Gone}]
    /\ \E n \in Nodes :  \* the graph's last event so far
          retained = <<[time |-> StartTime, kind |-> IF live[n] = Gone THEN "remove" ELSE "create",
                        node |-> n, value |-> live[n]]>>
    /\ snapshot = [nodes |-> live, at |-> StartTime]
    /\ orders = <<>>
    /\ sub = [c \in Conns |-> NoSub]
    /\ origins = {}
    /\ flushDue = FALSE
    /\ wire = [c \in Conns |-> <<>>]
    /\ ui = [c \in Conns |-> [id |-> 0, live |-> FALSE, nodes |-> live, own |-> {}]]

-----------------------------------------------------------------------------
(* Events of the engine, as they reach the read model.                      *)

\* Does the change make a difference to graph g, and so an event?
Changes(g, kind, n, v) ==
    \/ kind = "create" /\ g[n] = Gone /\ v # Gone
    \/ kind = "remove" /\ g[n] # Gone /\ v = Gone
    \/ kind = "set" /\ g[n] \notin {Gone, v} /\ v # Gone

\* capture and apply_event_capture.
Publish(kind, n, v) ==
    LET e == [time |-> stamp, kind |-> kind, node |-> n, value |-> v]
    IN  /\ stamp < MaxStamp
        /\ stamp' = stamp + 1
        /\ live' = Patched(live, e)
        /\ retained' = Trim(Push(retained, live', e), Capacity)
        /\ snapshot' = IF Structural(e) THEN [nodes |-> live', at |-> stamp] ELSE snapshot

\* The runtime loop, or a request over HTTP.
EngineChange(kind, n, v) ==
    /\ Changes(live, kind, n, v)
    /\ Publish(kind, n, v)
    /\ UNCHANGED <<orders, sub, origins, flushDue, wire, ui>>

-----------------------------------------------------------------------------
(* Clients.                                                                 *)

\* Fetch a snapshot and subscribe from its time, under a fresh id.
Join(c) ==
    /\ ~ui[c].live /\ ui[c].id < (IF c \in Senders THEN MaxJoins ELSE 1)
    /\ ui' = [ui EXCEPT ![c] = [@ EXCEPT !.id = @ + 1, !.live = TRUE, !.nodes = snapshot.nodes]]
    /\ orders' = Append(orders, [kind |-> "subscribe", conn |-> c, id |-> ui[c].id + 1, from |-> snapshot.at])
    /\ UNCHANGED <<engineSide, sub, origins, flushDue, wire>>

\* Change a node, and show a new value at once; "echo" is include_self_events.
Ask(c, kind, n, v, echo) ==
    LET e == [time |-> NoTime, kind |-> kind, node |-> n, value |-> v]
    IN  /\ c \in Senders /\ ui[c].live /\ Len(orders) < MaxOrders
        /\ Changes(ui[c].nodes, kind, n, v)
        /\ ui' = [ui EXCEPT ![c].nodes = IF kind = "set" THEN Patched(@, e) ELSE @,
                            ![c].own = IF echo THEN @ ELSE @ \cup {n}]
        /\ orders' = Append(orders, [kind |-> "intent", conn |-> c, id |-> 0, from |-> NoTime,
                                     edit |-> e, echo |-> echo])
        /\ UNCHANGED <<engineSide, sub, origins, flushDue, wire>>

\* Messages of a subscription the client has given up are ignored.
Receive(c) ==
    /\ wire[c] # <<>>
    /\ wire' = [wire EXCEPT ![c] = Tail(@)]
    /\ LET m == Head(wire[c]) IN
       IF m.id # ui[c].id THEN UNCHANGED ui
       ELSE IF m.kind = "resync" THEN ui' = [ui EXCEPT ![c].live = FALSE]
       ELSE ui' = [ui EXCEPT ![c].nodes = PatchedBy(@, m.events)]
    /\ UNCHANGED <<engineSide, orders, sub, origins, flushDue>>

-----------------------------------------------------------------------------
(* The hub's commands.                                                      *)

\* A subscription under the same name replaces the one before, queue and all.
HandleSubscribe ==
    /\ orders # <<>> /\ Head(orders).kind = "subscribe"
    /\ LET o == Head(orders) IN
       sub' = [sub EXCEPT ![o.conn] = [id |-> o.id, cursor |-> o.from, queue |-> <<>>]]
    /\ orders' = Tail(orders)
    /\ UNCHANGED <<engineSide, origins, flushDue, wire, ui>>

\* The intent is applied, its events published and its origin noted before the
\* hub dispatches again.  (The acknowledgement changes nothing a client shows.)
HandleIntent ==
    /\ orders # <<>> /\ Head(orders).kind = "intent"
    /\ LET o == Head(orders)
           e == o.edit
       IN  IF Changes(live, e.kind, e.node, e.value)
           THEN /\ Publish(e.kind, e.node, e.value)
                /\ origins' = origins \cup {[time |-> stamp, conn |-> o.conn, echo |-> o.echo]}
           ELSE UNCHANGED <<engineSide, origins>>
    /\ orders' = Tail(orders)
    /\ UNCHANGED <<sub, flushDue, wire, ui>>

-----------------------------------------------------------------------------
(* dispatch_ws_batches.                                                     *)

Hidden(c, e) == \E o \in origins : o.time = e.time /\ o.conn = c /\ ~o.echo

\* replay and what is left of it for the client, conflated between barriers.
Visible(c) ==
    FoldLeft(LAMBDA s, e : Push(s, live, e), <<>>,
             SelectSeq(After(retained, sub[c].cursor), LAMBDA e : ~Hidden(c, e)))

\* queue_value_events: a later value of a parameter replaces the queued one.
Queued(queue, events) ==
    FoldLeft(LAMBDA q, e : Append(SelectSeq(q, LAMBDA x : x.node # e.node), e), queue, events)

Batch(c, events) == [kind |-> "batch", id |-> sub[c].id, events |-> events]
Resync(c) == [kind |-> "resync", id |-> sub[c].id, events |-> <<>>]

\* Seeded fault: the queued values stay queued when structure is sent.
Structure_keepsQueue(c, events) ==
    [queue |-> sub[c].queue, out |-> <<Batch(c, events)>>, flushed |-> FALSE]

\* Queued values go before the structure they precede.
Structure(c, events) ==
    [queue |-> <<>>,
     out |-> (IF sub[c].queue = <<>> THEN <<>> ELSE <<Batch(c, sub[c].queue)>>) \o <<Batch(c, events)>>,
     flushed |-> sub[c].queue # <<>>]

\* The events of one subscription: structure with everything around it at once,
\* values only into the queue.
Delivered(c) ==
    LET events == Visible(c)
    IN  IF \E i \in 1..Len(events) : ~Coalescable(events[i], live)
        THEN Structure(c, events)
        ELSE [queue |-> Queued(sub[c].queue, events), out |-> <<>>, flushed |-> FALSE]

\* A due timer sends every queue that is left.
Flushed(c, d) ==
    IF flushDue /\ d.queue # <<>>
    THEN [queue |-> <<>>, out |-> Append(d.out, Batch(c, d.queue)), flushed |-> TRUE]
    ELSE d

\* (No cursor is ahead of the server: the project is not replaced here.)
MissedBy(c) == retained # <<>> /\ sub[c].cursor < Head(retained).time

Bounced(c) ==
    [sub |-> [sub[c] EXCEPT !.cursor = Head(retained).time, !.queue = <<>>],
     out |-> <<Resync(c)>>, flushed |-> FALSE]

Served(c) ==
    IF sub[c] = NoSub THEN [sub |-> NoSub, out |-> <<>>, flushed |-> FALSE]
    ELSE IF MissedBy(c) THEN Bounced(c)
    ELSE LET replayed == After(retained, sub[c].cursor)
             d == Flushed(c, Delivered(c))
         IN  [sub |-> [sub[c] EXCEPT !.queue = d.queue,
                             !.cursor = IF replayed = <<>> THEN @ ELSE LastTime(replayed)],
              out |-> d.out, flushed |-> d.flushed]

\* The channel was drained; every subscription is served, stale origins go.
Dispatch ==
    /\ orders = <<>>
    /\ LET served == [c \in Conns |-> Served(c)]
       IN  /\ sub' = [c \in Conns |-> served[c].sub]
           /\ wire' = [c \in Conns |-> wire[c] \o served[c].out]
           /\ flushDue' = (flushDue /\ \A c \in Conns : ~served[c].flushed)
    /\ origins' = IF retained = <<>> THEN {} ELSE {o \in origins : o.time >= Head(retained).time}
    /\ UNCHANGED <<engineSide, orders, ui>>

FlushTimer ==
    /\ ~flushDue
    /\ flushDue' = TRUE
    /\ UNCHANGED <<engineSide, orders, sub, origins, wire, ui>>

-----------------------------------------------------------------------------
ValuesNext ==
    \/ \E kind \in {"create", "remove", "set"}, n \in Nodes, v \in Values \cup {Gone} :
        \/ EngineChange(kind, n, v)
        \/ \E c \in Conns, echo \in BOOLEAN : Ask(c, kind, n, v, echo)
    \/ \E c \in Conns : Join(c) \/ Receive(c)
    \/ HandleSubscribe \/ HandleIntent \/ Dispatch \/ FlushTimer

-----------------------------------------------------------------------------
(* What is still on its way to a client, in the order it will show it.      *)
ToCome(c) ==
    FoldLeft(LAMBDA s, m : IF m.id = ui[c].id THEN s \o m.events ELSE s, <<>>, wire[c])
      \o sub[c].queue
      \o SelectSeq(After(retained, sub[c].cursor), LAMBDA e : ~Hidden(c, e))

Subscribed(c) ==
    /\ ui[c].live /\ sub[c].id = ui[c].id /\ ~MissedBy(c)
    /\ \A i \in 1..Len(wire[c]) : wire[c][i].kind = "resync" => wire[c][i].id # ui[c].id

AsksAbout(c, n) ==
    \E i \in 1..Len(orders) :
        orders[i].kind = "intent" /\ orders[i].conn = c /\ orders[i].edit.node = n

(* With what is still to come, every subscribed client shows the graph:      *)
(* hiding, conflation, the value queue and its two flushes, eviction and     *)
(* resubscription neither lose an event, nor let an older value overtake a   *)
(* newer one.  Exempt are nodes a client has an unhandled intent for, and    *)
(* nodes it changed without wanting to be told: a value queued before its    *)
(* own change is flushed after it, and a fresh snapshot, only as new as the  *)
(* last structural event, takes its own change back while the event that     *)
(* carries it stays hidden.                                                  *)
ClientsInStep ==
    \A c \in Conns : Subscribed(c) =>
        \A n \in Nodes \ ui[c].own :
            AsksAbout(c, n) \/ PatchedBy(ui[c].nodes, ToCome(c))[n] = live[n]

=============================================================================
