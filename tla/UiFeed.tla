------------------------------- MODULE UiFeed -------------------------------
(***************************************************************************)
(* How engine changes reach a UI: threads that change the engine under its  *)
(* mutex, capture the events they caused and, after releasing it, apply the *)
(* capture to the shared read model lock by lock; a WebSocket hub that      *)
(* replays the read model's ring to a subscription; a client that fetches a *)
(* snapshot and subscribes from its time.                                   *)
(*                                                                          *)
(* Threads are the runtime loop (Tick) and the connection threads that      *)
(* apply intents or replace the project.  One action is one critical        *)
(* section: everything a thread does between taking and releasing one lock. *)
(* The client is not in the repository; it is modelled from the protocol    *)
(* (snapshot, Subscribe {from}, Batch, ResyncRequired).                     *)
(***************************************************************************)
EXTENDS EventRing, TLC

CONSTANTS
    Threads,   \* threads that publish engine changes
    Tick,      \* the runtime loop, one of them
    Failing,   \* threads whose engine call may return an error (only ticks drop their capture)
    Loaders,   \* threads that may replace the project
    NoThread,  \* nobody holds the engine mutex
    LogCap,    \* DEFAULT_UI_EVENT_LOG_CAPACITY
    RingCap,   \* DEFAULT_UI_READ_MODEL_EVENT_CAPACITY
    MaxTime    \* bound on the engine clock

ASSUME ThreadsAssumption ==
    /\ Tick \in Threads /\ Failing \subseteq Threads /\ Loaders \subseteq Threads
    /\ NoThread \notin Threads
    /\ LogCap \in Nat \ {0} /\ RingCap \in Nat \ {0} /\ MaxTime \in Nat

VARIABLES
    \* The engine, guarded by its mutex.
    holder,   \* the thread in the critical section
    clock,    \* engine.time: the stamp of the next event
    graph,    \* the live graph
    log,      \* engine.ui_event_log
    epoch,    \* how often the project was replaced
    dropped,  \* for the properties only: stamps of the events of failed ticks
    \* The read model, one lock each.
    ring,     \* UiReadModel.events
    store,    \* UiReadModel.node_store
    header,   \* UiReadModel.snapshot_header
    current,  \* UiReadModel.current
    latest,   \* UiReadModel.latest_event_time
    \* The threads.
    pc,       \* what each thread does next
    before,   \* last logged time when the thread entered the engine
    capture,  \* UiEventCapture the thread carries
    kept,     \* what the thread read while it assembles a snapshot
    \* The hub and the client.
    cursor,   \* WsSubscriptionState.cursor
    checked,  \* dispatch_ws_batches has checked the cursor and will replay
    client    \* the client: its phase, its copy of the graph, its snapshot's time

engineVars == <<holder, clock, graph, log, epoch, dropped>>
modelVars  == <<ring, store, header, current, latest>>
threadVars == <<pc, before, capture, kept>>
clientVars == <<cursor, checked, client>>
feedVars == <<engineVars, modelVars, threadVars, clientVars>>

NoCapture  == [events |-> <<>>, history |-> NoTime]
NoSnapshot == [nodes |-> [n \in Nodes |-> Gone], at |-> NoTime]

MaxOf(a, b) == IF a > b THEN a ELSE b

(* UiReadModel::from_engine on a fresh engine.                              *)
FeedInit ==
    /\ holder = NoThread /\ clock = 1 /\ log = <<>> /\ epoch = 0 /\ dropped = {}
    /\ graph = [n \in Nodes |-> Gone]
    /\ ring = <<>> /\ store = graph /\ latest = NoTime
    /\ header = [at |-> clock, history |-> clock]
    /\ current = [nodes |-> graph, at |-> clock]
    /\ pc = [t \in Threads |-> "idle"]
    /\ before = [t \in Threads |-> NoTime]
    /\ capture = [t \in Threads |-> NoCapture]
    /\ kept = [t \in Threads |-> NoSnapshot]
    /\ cursor = NoTime /\ checked = FALSE
    /\ client = [phase |-> "away", nodes |-> graph, at |-> NoTime]

-----------------------------------------------------------------------------
(* Inside the engine mutex.                                                 *)

(* A thread enters the engine.  A tick advances the clock first.            *)
Enter(t) ==
    /\ pc[t] = "idle" /\ holder = NoThread
    /\ holder' = t
    /\ before' = [before EXCEPT ![t] = LastTime(log)]
    /\ IF t = Tick THEN clock < MaxTime /\ clock' = clock + 1 ELSE UNCHANGED clock
    /\ pc' = [pc EXCEPT ![t] = "inside"]
    /\ UNCHANGED <<graph, log, epoch, dropped, modelVars, capture, kept, clientVars>>

(* The events a change of the graph can cause.                              *)
Differs ==
    [kind: {"create"}, node: {n \in Nodes : graph[n] = Gone}, value: Values]
    \cup [kind: {"remove"}, node: {n \in Nodes : graph[n] # Gone}, value: {Gone}]
    \cup [kind: {"note"}, node: {Gone}, value: {Gone}]
    \cup UNION { [kind: {"set"}, node: {n}, value: Values \ {graph[n]}] :
                    n \in {m \in Nodes : graph[m] # Gone} }

Stamped(change) ==
    [time |-> clock, kind |-> change.kind, node |-> change.node, value |-> change.value]

(* The engine changes and logs the change with the current stamp.           *)
Emit(t) ==
    /\ pc[t] = "inside" /\ clock < MaxTime
    /\ \E change \in Differs :
        /\ graph' = Patched(graph, change)
        /\ log' = Trim(Push(log, graph', Stamped(change)), LogCap)
    /\ clock' = clock + 1
    /\ UNCHANGED <<holder, epoch, dropped, modelVars, threadVars, clientVars>>

(* Captured_skipsFirst: starts one event too late.                          *)
Captured_skipsFirst(since) == [events |-> After(log, since + 1), history |-> clock]

(* ui_event_batch since the last event logged before the thread entered.    *)
Captured(since) == [events |-> After(log, since), history |-> clock]

(* The thread collects its events and leaves the engine.                    *)
LeaveCritical(t) ==
    /\ pc[t] = "inside"
    /\ capture' = [capture EXCEPT ![t] = Captured(before[t])]
    /\ before' = [before EXCEPT ![t] = NoTime]
    /\ holder' = NoThread
    /\ pc' = [pc EXCEPT ![t] = "history"]
    /\ UNCHANGED <<clock, graph, log, epoch, dropped, modelVars, kept, clientVars>>

(* A failed tick leaves no capture behind (a release build goes on).        *)
LeaveFailed(t) ==
    /\ pc[t] = "inside" /\ t \in Failing
    /\ dropped' = dropped \cup Times(After(log, before[t]))
    /\ before' = [before EXCEPT ![t] = NoTime]
    /\ holder' = NoThread
    /\ pc' = [pc EXCEPT ![t] = "idle"]
    /\ UNCHANGED <<clock, graph, log, epoch, modelVars, capture, kept, clientVars>>

-----------------------------------------------------------------------------
(* apply_event_capture: one action per lock it takes.                       *)

Goto(t, where) == pc' = [pc EXCEPT ![t] = where]

(* The last step: the capture is spent, and the engine is released by a     *)
(* thread that published from inside it.                                    *)
Done(t) ==
    /\ Goto(t, "idle")
    /\ capture' = [capture EXCEPT ![t] = NoCapture]
    /\ kept' = [kept EXCEPT ![t] = NoSnapshot]
    /\ holder' = IF holder = t THEN NoThread ELSE holder

ApplyHistory(t) ==
    /\ pc[t] = "history"
    /\ header' = [header EXCEPT !.history = capture[t].history]
    /\ IF capture[t].events = <<>>
       THEN Done(t)
       ELSE Goto(t, "append") /\ UNCHANGED <<holder, capture, kept>>
    /\ UNCHANGED <<clock, graph, log, epoch, dropped, ring, store, current, latest, before, clientVars>>

(* append_events: coalesces against the node store as it is now.            *)
Appended(r, events) ==
    LET appended[k \in 0..Len(events)] ==
            IF k = 0 THEN r ELSE Trim(Push(appended[k - 1], store, events[k]), RingCap)
    IN  appended[Len(events)]

AppendEvents(t) ==
    /\ pc[t] = "append"
    /\ ring' = Appended(ring, capture[t].events)
    /\ Goto(t, "patch")
    /\ UNCHANGED <<engineVars, store, header, current, latest, before, capture, kept, clientVars>>

(* PatchStore_structuralOnly: values reach the store with the next rebuild. *)
PatchStore_structuralOnly(t) ==
    /\ pc[t] = "patch"
    /\ store' = PatchedBy(store, SelectSeq(capture[t].events, Structural))
    /\ Goto(t, IF \E i \in 1..Len(capture[t].events) : Structural(capture[t].events[i])
               THEN "stamp" ELSE "latest")
    /\ UNCHANGED <<engineVars, ring, header, current, latest, before, capture, kept, clientVars>>

PatchStore(t) ==
    /\ pc[t] = "patch"
    /\ store' = PatchedBy(store, capture[t].events)
    /\ Goto(t, IF \E i \in 1..Len(capture[t].events) : Structural(capture[t].events[i])
               THEN "stamp" ELSE "latest")
    /\ UNCHANGED <<engineVars, ring, header, current, latest, before, capture, kept, clientVars>>

StampHeader(t) ==
    /\ pc[t] = "stamp"
    /\ header' = [header EXCEPT !.at = LastTime(capture[t].events)]
    /\ Goto(t, "nodes")
    /\ UNCHANGED <<engineVars, ring, store, current, latest, before, capture, kept, clientVars>>

(* rebuild_current_from_store: the nodes, then the header, then publish.    *)
ReadStore(t) ==
    /\ pc[t] = "nodes"
    /\ kept' = [kept EXCEPT ![t].nodes = store]
    /\ Goto(t, "header")
    /\ UNCHANGED <<engineVars, modelVars, before, capture, clientVars>>

ReadHeader(t) ==
    /\ pc[t] = "header"
    /\ kept' = [kept EXCEPT ![t].at = header.at]
    /\ Goto(t, "publish")
    /\ UNCHANGED <<engineVars, modelVars, before, capture, clientVars>>

PublishCurrent(t) ==
    /\ pc[t] = "publish"
    /\ current' = kept[t]
    /\ Goto(t, "latest")
    /\ UNCHANGED <<engineVars, ring, store, header, latest, before, capture, kept, clientVars>>

(* BumpLatest_overwrites: the last writer wins.                             *)
BumpLatest_overwrites(t) ==
    /\ pc[t] = "latest"
    /\ latest' = LastTime(capture[t].events)
    /\ Done(t)
    /\ UNCHANGED <<clock, graph, log, epoch, dropped, ring, store, header, current, before, clientVars>>

(* Only ever forward: the rebuilt snapshot's time, or the batch's last.     *)
BumpLatest(t) ==
    /\ pc[t] = "latest"
    /\ latest' = MaxOf(latest, IF kept[t].at # NoTime THEN kept[t].at
                               ELSE LastTime(capture[t].events))
    /\ Done(t)
    /\ UNCHANGED <<clock, graph, log, epoch, dropped, ring, store, header, current, before, clientVars>>

ApplyStep(t) ==
    \/ ApplyHistory(t) \/ AppendEvents(t) \/ PatchStore(t) \/ StampHeader(t)
    \/ ReadStore(t) \/ ReadHeader(t) \/ PublishCurrent(t) \/ BumpLatest(t)

-----------------------------------------------------------------------------
(* Replacing the project: swap the engine, release it, take it again and    *)
(* rebuild every layer of the read model.                                   *)

(* replace_live_engine: the new engine's clock starts over; its log holds   *)
(* only the resync event.                                                   *)
SwapEngine(t) ==
    /\ pc[t] = "idle" /\ holder = NoThread /\ t \in Loaders /\ epoch = 0
    /\ epoch' = 1
    /\ dropped' = {}
    /\ graph' \in Graph
    /\ \E stamp \in 1..2 :
        /\ log' = <<[time |-> stamp, kind |-> "resync", node |-> Gone, value |-> Gone]>>
        /\ clock' = stamp + 1
    /\ Goto(t, "swapped")
    /\ UNCHANGED <<holder, modelVars, before, capture, kept, clientVars>>

(* refresh_read_model_after_project_replace takes the engine again.         *)
EnterRefresh(t) ==
    /\ pc[t] = "swapped" /\ holder = NoThread
    /\ holder' = t
    /\ kept' = [kept EXCEPT ![t] = [nodes |-> graph, at |-> clock]]
    /\ Goto(t, "r.store")
    /\ UNCHANGED <<clock, graph, log, epoch, dropped, modelVars, before, capture, clientVars>>

(* replace_from_engine, layer by layer.                                     *)
RefreshStore(t) ==
    /\ pc[t] = "r.store"
    /\ store' = kept[t].nodes
    /\ Goto(t, "r.header")
    /\ UNCHANGED <<engineVars, ring, header, current, latest, before, capture, kept, clientVars>>

RefreshHeader(t) ==
    /\ pc[t] = "r.header"
    /\ header' = [at |-> kept[t].at, history |-> clock]
    /\ Goto(t, "r.current")
    /\ UNCHANGED <<engineVars, ring, store, current, latest, before, capture, kept, clientVars>>

RefreshCurrent(t) ==
    /\ pc[t] = "r.current"
    /\ current' = kept[t]
    /\ Goto(t, "r.latest")
    /\ UNCHANGED <<engineVars, ring, store, header, latest, before, capture, kept, clientVars>>

RefreshLatest(t) ==
    /\ pc[t] = "r.latest"
    /\ latest' = LastTime(log)
    /\ Goto(t, "r.ring")
    /\ UNCHANGED <<engineVars, ring, store, header, current, before, capture, kept, clientVars>>

(* The ring is cleared and the new log published while the engine is held.  *)
RefreshRing(t) ==
    /\ pc[t] = "r.ring"
    /\ ring' = <<>>
    /\ capture' = [capture EXCEPT ![t] = Captured(NoTime)]
    /\ kept' = [kept EXCEPT ![t] = NoSnapshot]
    /\ Goto(t, "history")
    /\ UNCHANGED <<engineVars, store, header, current, latest, before, clientVars>>

RefreshStep(t) ==
    \/ EnterRefresh(t) \/ RefreshStore(t) \/ RefreshHeader(t)
    \/ RefreshCurrent(t) \/ RefreshLatest(t) \/ RefreshRing(t)

-----------------------------------------------------------------------------
(* The client's snapshot (snapshot_for_scope): the nodes of current, then   *)
(* the header's time, each under its own lock.                              *)
FetchNodes ==
    /\ client.phase \in {"away", "bounced"}
    /\ client' = [phase |-> "fetching", nodes |-> current.nodes, at |-> NoTime]
    /\ UNCHANGED <<engineVars, modelVars, threadVars, cursor, checked>>

FetchHeader ==
    /\ client.phase = "fetching"
    /\ client' = [client EXCEPT !.phase = "fetched", !.at = header.at]
    /\ UNCHANGED <<engineVars, modelVars, threadVars, cursor, checked>>

(* The hub handles Subscribe {from}: the cursor is the snapshot's time.     *)
Subscribe ==
    /\ client.phase = "fetched"
    /\ client' = [client EXCEPT !.phase = "live"]
    /\ cursor' = client.at
    /\ checked' = FALSE
    /\ UNCHANGED <<engineVars, modelVars, threadVars>>

(* dispatch_ws_batches.  First the cursor is compared with the head of the  *)
(* feed and with the oldest retained event ...                              *)
ServerTime == IF latest # NoTime THEN latest ELSE current.at

Bounce(newCursor) ==
    /\ cursor' = newCursor
    /\ client' = [client EXCEPT !.phase = "bounced"]
    /\ checked' = FALSE

Ahead   == cursor > ServerTime
Evicted == cursor # NoTime /\ ring # <<>> /\ cursor < Head(ring).time

CheckCursor ==
    /\ client.phase = "live" /\ ~checked
    /\ IF Ahead THEN Bounce(NoTime)
       ELSE IF Evicted THEN Bounce(Head(ring).time)
       ELSE checked' = TRUE /\ UNCHANGED <<cursor, client>>
    /\ UNCHANGED <<engineVars, modelVars, threadVars>>

(* Deliver_toHead: advances the cursor to the head of the feed.             *)
Deliver_toHead(events) ==
    /\ client' = [client EXCEPT !.nodes = PatchedBy(client.nodes, events)]
    /\ cursor' = clock

(* Deliver_holdsValues: value events wait for a structural one to go with.  *)
Deliver_holdsValues(events) ==
    /\ \E i \in 1..Len(events) : Structural(events[i])
    /\ client' = [client EXCEPT !.nodes = PatchedBy(client.nodes, events)]
    /\ cursor' = LastTime(events)

(* ... then UiReadModel::replay compares again and delivers what is newer.  *)
(* A resync event sends the client back to fetch a snapshot.                *)
Deliver(events) ==
    /\ client' = [client EXCEPT
            !.nodes = PatchedBy(client.nodes, events),
            !.phase = IF \E i \in 1..Len(events) : events[i].kind = "resync"
                      THEN "bounced" ELSE "live"]
    /\ cursor' = IF events = <<>> THEN cursor ELSE LastTime(events)

Replay ==
    /\ client.phase = "live" /\ checked
    /\ checked' = FALSE
    /\ IF Ahead \/ Evicted
       THEN Bounce(ServerTime)
       ELSE Deliver(After(ring, cursor))
    /\ UNCHANGED <<engineVars, modelVars, threadVars>>

-----------------------------------------------------------------------------
ServerNext ==
    \E t \in Threads :
        \/ Enter(t) \/ Emit(t) \/ LeaveCritical(t) \/ LeaveFailed(t)
        \/ ApplyStep(t) \/ SwapEngine(t) \/ RefreshStep(t)

FeedNext ==
    \/ ServerNext
    \/ FetchNodes \/ FetchHeader \/ Subscribe \/ CheckCursor \/ Replay

FeedSpec == FeedInit /\ [][FeedNext]_feedVars

(* A thread that entered the engine leaves it and applies its capture       *)
(* (every lock is held for a bounded time), the hub loop dispatches on      *)
(* every pass.                                                              *)
FeedFairness ==
    /\ \A t \in Threads : WF_feedVars(LeaveCritical(t)) /\ WF_feedVars(ApplyStep(t)) /\ WF_feedVars(RefreshStep(t))
    /\ WF_feedVars(CheckCursor) /\ WF_feedVars(Replay)

Quiet == \A t \in Threads : pc[t] = "idle"

(* The read model's node store is the live graph whenever no thread has     *)
(* changes under way: nothing the engine did is missed, applied twice or    *)
(* applied in another order.                                                *)
StoreFollowsEngine == Quiet => store = graph

(* The retained ring is in stamp order, so a replay never shows a value of  *)
(* a node before the transaction that creates it.                           *)
RingInOrder == \A i, j \in 1..Len(ring) : i < j => ring[i].time < ring[j].time

(* Every transaction and custom event the engine logged is in the ring once *)
(* nothing is under way: captures of several threads neither overlap nor    *)
(* leave gaps, whatever order they are applied in.  Only what a failed tick *)
(* logged is lost with its capture.  And no event of a project is ever      *)
(* published twice.                                                         *)
PublishedOnce ==
    /\ Quiet => \A i \in 1..Len(log) :
                  log[i].kind # "set" => log[i].time \in Times(ring) \cup dropped
    /\ epoch = 0 => \A i, j \in 1..Len(ring) : ring[i].time = ring[j].time => i = j

(* The head of the feed never moves backwards, whatever captures race, save  *)
(* where replacing the project rewinds it.                                  *)
HeadOnlyAdvances == [][latest' < latest => \E t \in Threads : pc[t] = "r.latest"]_latest

(* What the client shows, with the logged events it has still to receive,   *)
(* is the live graph.                                                       *)
InStep == PatchedBy(client.nodes, After(log, cursor)) = graph

(* A live client in step with the engine stays in step: no dispatch,        *)
(* coalescing, eviction or publication loses, repeats or reorders an event  *)
(* it has still to receive.                                                 *)
StaysInStep ==
    [][client.phase = "live" /\ client'.phase = "live" /\ InStep => InStep']_feedVars

(* A live client in step comes to show the live graph, or is sent back for  *)
(* a snapshot.  It may be sent back again and again: a snapshot is only as  *)
(* new as the last structural event, and value and custom events after it   *)
(* can push the ring's first event past its time.                           *)
ClientCatchesUp ==
    (client.phase = "live" /\ InStep) ~> (client.nodes = graph \/ client.phase # "live")
=============================================================================
