# Formal model of golden_core

TLA+ modules, TLC runs and TLAPS proofs kept beside the engine of `golden_core`
(Rust): the node graph and its edits, undo and redo, the runtime tick and its
scheduler, parameters and what they follow, scripts, project files and hosts,
and the publication of engine changes to user interfaces. Line numbers are those
of the sources under `src/`; `PROJECT.json` maps every definition to the lines it
translates and lists the hazards at the line where they bite.

## The system

A project is a tree of *nodes*; a parameter is a node that holds a value. An
`Engine` owns the tree. Everything that changes it is an *edit*: user interfaces
send *intents* (edits with undo), node callbacks and scripts queue edits, other
threads send edits through a channel. A runtime thread calls `run_tick`; a
transport server runs that thread, the connection threads, and a WebSocket hub,
which share the engine behind one mutex and a read model behind many.

| component (sources under `crates/`) | state it keeps | operations | what makes it correct |
|---|---|---|---|
| Node graph (`core/src/engine/node_store.rs`, `apply_tree/`, `apply_param.rs`) | slot map of nodes with parent, first/last child and previous/next sibling links, uuid index, cached `effective_enabled`, parameter value cache | add, add a tree, remove, move, replace, patch metadata | the five links describe one forest; the caches agree with the nodes; a rejected edit leaves no node behind |
| Undo/redo of structure (`engine/history.rs`) | undo and redo stack of transactions; each step holds the detached nodes it may bring back | record, undo, redo, dispose, clear | undo restores the content; a node is held by one step at most; a key is released when no step holds it |
| Edit transactions (`engine/apply.rs`, `edit.rs`, `history.rs`) | open session, coalescing with the previous entry, content state id | batch, begin/end/cancel session, undo, redo | an id names one content for ever; entries form a line of contents |
| References and warnings (`engine/refs.rs`, `engine/mod.rs`) | uuid, cached id and path per reference; presentation per node | set, synchronize, request a warning | references lead to the node with their uuid; a missing one is marked |
| Tick and stabilization (`engine/runtime/`) | pending, deferred and external edit queues, inbox of events, engine time | preprocess, control pass, update, rounds of dispatch and apply | no edit lost or applied twice; stamps increase; deferral of structure |
| Scheduler (`engine/runtime/scheduler.rs`, `scheduled_updates.rs`) | rules, topological order, rate buckets with accumulators, last update times | resolve, collect due nodes, hand out delta times | dependencies first; no time lost or given twice; a turn for every interval |
| Event dispatch (`engine/dispatch.rs`, `listener_index.rs`) | two-way listener index, inboxes, buffered events | subscribe, purge, bubble, deliver | everyone hears what was promised, once, in order |
| UI intents (`core/src/ui_sync.rs`) | sessions of their own | each `UiIntent`, fixed points after it | one intent is one history entry; its session closes |
| Parameters (`core/src/parameter/`) | values, constraints | coerce, set, convert, project | values satisfy their constraints, conversions settle |
| Parameter controls (`engine/controls.rs`, `parameter/animation_control.rs`) | modes, dependency index, evaluation order, children of an animation | evaluate, detect cycles, follow a waveform | what is evaluated incrementally is what a full evaluation gives |
| Contexts, multiplexes (`engine/contexts.rs`) | registry of scopes, lookup cache, lists of entries | rebuild, look up, resize | lookups answer by the tree as it is |
| Persistence (`core/src/app.rs`, `engine/persistence.rs`) | project file | save sparsely, load over defaults, copy | uuids and references survive |
| Project host, application lifecycle (`transport_server/src/project_host.rs`, `core/src/app.rs`) | the live engine, paths, preferences file | create, load, upload, save, recover, restart | requests that race end with one project and one view |
| Curves (`core/src/node/curve/`) | key list, range nodes, cursor of the last sample | clamp, sort, sample, fit | keys in order and in range; cursor and search agree |
| Scripts (`core/src/script/mod.rs`) | configuration, runtime, listeners, declared children, schedule | load, poll, reload, tear down | the engine keeps what the source declares |
| Read model (`core/src/ui_read_model.rs`, `engine/ui.rs`) | engine event log; retained ring, node store, header, snapshot, head, each with its own lock | capture, apply, replay, snapshot | the store follows the engine; a cursor misses nothing or is told to resync |
| Transport server (`transport_server/src/ui_server.rs`) | threads, connections, instances, subscriptions, origins, value queues | runtime loop, intents, hub passes | order and completeness of what a client gets; sessions end with their client |
| Dashboard, handles, node behaviour, logger, desktop host, facade, protocol, macros | widget declarations, cached ids, trait defaults, a bounded log, windows, generated code | | |

How they interact: intents and ticks drain edits through `apply_edits_internal`,
which calls the edit handlers of the node graph and the history; every handler
emits events with the engine time; events go to the inbox (delivered by
dispatch in the same or the next round) and to the UI log. A thread that leaves the
engine has captured the part of the log it caused and applies it to the read
model after it has released the engine's mutex. The hub replays the read
model's ring to subscriptions by a cursor in engine time. A structural edit marks the schedule
dirty; the next tick resolves it.

What is hard: child lists kept in five link fields per node and edited from
several handlers; edits without history between edits with history; a replay or a batch
that fails in the middle; transactions that coalesce; caches (references, lookups, listeners,
control orders, flags) that every path of a change must bring up to date; captures of
several threads that are published after the mutex is released; readers that
take several locks one after another; cursors into sequences from which events
are removed by coalescing and eviction; edits that wait in three queues; rates,
accumulators and catch-up; requests on threads of their own that read, swap and write in separate steps.

## Modules

| module | models |
|---|---|
| `SiblingLinks` | the links as functions and the pure operators attach, detach, ancestors, subtree (`apply_tree/structure.rs`) |
| `NodeGraph` | the store with one action per edit handler (`EXTENDS SiblingLinks`) |
| `GraphHistory` | recording, undo, redo, disposal and failure of structural steps (`EXTENDS NodeGraph`) |
| `LinearHistory` | abstract: what undo and redo promise, a line of contents |
| `EditHistory` | batches, sessions, coalescing, state ids over values; implements `LinearHistory` by a refinement mapping (`Line`) |
| `References` | reference parameters with their caches, missing marks and requested warnings |
| `TickLoop` | phases of `run_tick`, edit queues, stabilization, stamps |
| `Scheduler` | resolve, buckets, catch-up, turns and delta times |
| `EventRouting` | listener index, purge, bubbling, frames and their delivery |
| `UiIntents` | the phases of each kind of intent, their sessions, edits of other threads and answers of callbacks in between |
| `ValueConversions`, `ParamValues` | values, conversions and projections as pure operators; a parameter under constraints, edits and undo |
| `ParamControls` | proxies, bindings and expressions, evaluated incrementally |
| `AnimationControl` | the children of an animated parameter |
| `Contexts`, `Multiplex` | the context registry and its cache; lists kept at a count |
| `Persistence` | sparse saving, loading over defaults, copying |
| `ProjectHost` | concurrent project requests, preferences, crashes and restarts |
| `CurveKeys`, `CurveSampling` | the nodes of a curve; the curve as data |
| `Scripts` | one script node |
| `EventRing` | pure: the event log and ring with coalescing, eviction and replay |
| `UiFeed` | engine threads, captures, read model, hub and one client (`EXTENDS EventRing`) |
| `ScopedView` | a client of a subtree of bounded depth |
| `WsSessions` | connection threads, client instances and the edit session they own |
| `WsValues` | subscriptions, origins, value queue and flush timer for several clients (`EXTENDS EventRing`) |
| `NodeGraph_proofs`, `GraphHistory_proofs`, `EditHistory_proofs`, `EngineLoop_proofs` (`TickLoop` and `Scheduler`), `Editing_proofs` (`References` and `UiIntents`), `UiFeed_proofs`, `Services_proofs` (`WsSessions`, `ProjectHost` and `Scripts`), `InductionFacts` | theorems and their lemmas |
| `MCNodeGraph`, `MCGraphHistory`, `MCScheduler`, `MCUiFeed`, `MCEngine`, `MCProject`, `MCServices`, `MCValues`, `MCFeedAndHub` | instances for TLC |

Several instances hold parts that share no variables. A behaviour of such an instance
runs one part, chosen at the start (`part`), and leaves the others alone, so that its state space
is the sum and not the product of theirs. The parts interact in the code where a module abstracts its
neighbour: `EditHistory` and `UiIntents` see the graph as values, `TickLoop` sees an edit as an event it
emits, `Scheduler` sees an edit as a change of one rule.

Correspondence of state. `NodeGraph.links` are the link fields of `NodeData`;
`slot` is the state of a slot-map key (`free`, `live`, `detached`: taken out
and held by history, `removed`); `gen` stands for the object behind a key, so a uuid is a
key with a generation, and a cached parameter value is the generation it was read
from. In `GraphHistory`, `mode` is the call that is under way, `tx` the transaction being recorded or
replayed with `at` its next step; `before` and `after` of a transaction are ghosts, the content at its ends.
`EditHistory.value` is what the graph holds per key, `named` and `slipped` are
ghosts. `UiFeed` has one action per critical section, that is all that happens
between taking and releasing one lock; `pc`, `before`, `capture` and `kept` say what each thread carries
from one lock to the next. `TickLoop.pc` is the phase of the engine, `taken`
the drained batch, and each phase that runs callbacks may queue an edit; `applied`, `replaced` and `failed` are ghosts.
`Scheduler` counts time in units; a rate is named by its interval. `ProjectHost.req` says where each request
stands between two of its steps. Other ghosts name the situations a property exempts: `stranded`, `outdated`, `adrift`,
`halfway`, `stale`, `broken`, `lost`, `missed`, `blinded`, `torn`, `unseen`, `strayed`, `overtaken`.

## Runs

All runs finish with the whole state space explored, in at most four minutes with two workers. `CHECK_DEADLOCK FALSE`
stands in every configuration because the bounds on edits, ticks or time stop the
model, not the program.

| run | question | bounds and why they are enough |
|---|---|---|
| `node_graph` | do links, flags and membership stay consistent under every sequence of edits? | four ids (root and three): first, last, only and middle child, a chain of three, moves between them; no bound on the number of edits; a stale sibling may be named; one replacement per id |
| `project` | five parts. History: does undo bring back what it promises, and is each detached key held once? Routing: who hears an event? Contexts: are lookups current? File: do nodes and references come through saving, loading and copying? Script: does the engine follow the source? | a loaded tree of root and two children and one free id, two recorded edits, any undo and redo between and after them, replacements allowed; four nodes with twelve combinations of interest, bubbling and propagation, two events and two changes; two types, one cached lookup, two batches of edits, recorded or not, that may fail in between, and any undo and redo, which may fail too; two bins and two items, three edits and one save, load or copy after another; two source texts, one of which ticks, two moves of the file or the configuration |
| `services` | six parts. History: what survives unrecorded edits, stale siblings and failing replays? References and warnings, project host, animation, samples, scoped view: see the properties | the same tree with runtime edits and failures and without replacements; one reference, two targets, three uuids, two batches and two requests; two overlapping requests, one edit of a preference, one crash; three waveforms set four times; four keys on five positions, two of them closer than the epsilon allows; a tree of five nodes, depth one, a ring of three |
| `engine` | tick: no edit lost or doubled, structure deferred? history: does a state id name one content, and does the history implement a line of contents? curve: does it settle? | two ticks, three edits from any source, two stabilization passes: an edit can wait over a failed tick, be deferred and meet a second one; two keys, two values, two clients, both coalescing behaviours, four edits, batches of two, one tick: coalescing needs two edits of one key and one of another in between, and a session's Begin and End fit between two edits of one queue; three keys on two positions, two ranges, three edits of others |
| `values` | controls: does incremental evaluation lose nothing? intents: is one intent one entry? value: does it fit its rule? binding: does it settle? | three parameters in a row, each in up to three modes with any wiring, one action between two evaluations; two intents of eight kinds, one edit of another thread or one refused edit of a callback, three passes; seven rules and five starts with three settings; every convertible pair of 26 values of ten kinds under every projection |
| `scheduler` | dependencies first, no time lost, every turn paid? | three nodes, intervals one and two, ticks of up to three units, catch-up limit two (so that the limit bites), one rule change during the run |
| `ui_feed` | does the read model follow the engine, and does a client in step stay in step and catch up? | one thread, two nodes, a ring of two events and six stamps: evictions, coalescing and resyncs all happen |
| `feed_and_hub` | what survives two publishing threads, failed ticks and project replacement? can an open session always be cancelled? do several clients end up with the graph? | a tick and a connection thread, one node, four stamps: a tick takes a stamp as it enters, so that two threads carry events of one project at a time, in either order of collecting and of publishing, and a capture is under way across a replacement; no client, which nothing in these parts depends on; two connections and instances with three messages in all: a reconnect, a rebind and a lost connection around a session; two clients of which one edits and subscribes twice, one node, two values, a ring of two: a queued value, a structural event, and one after it |
| `graph_history_panic` | (violation) undo, redo and disposal never panic | as the history of `project`, one property |
| `ui_feed_order` | (violation) the ring is in stamp order | two threads, five stamps |
| `multiplex_count` | (violation) every list has as many entries as the count says | two lists, three writes |
| `sparse_values` | (violation) a parameter has the value it was saved with | as the file of `project`, four edits |

### What the properties say

*Node graph.* `LinksConsistent`: a first child has no previous sibling, a last child no next one,
neighbours agree, both ends have the parent that lists them, and sibling chains do not loop. `NoParentCycle`.
`StoreClosed`: live nodes link to live nodes. `EffectiveAgrees`: the cached flag is the conjunction of
the chain's flags, except below an object that was just replaced. `IndexesAgree`: uuid index and value cache name the live objects.
`EveryNodeInTree`: only the two handlers that fail
after a detach or a store insertion can put a live node outside the tree.

*History.* `UndoRestores`: the content at rest is the one recorded with the
entry on top of each stack. `KeysAccountedFor`: no key is held by two steps (`HeldByOneStep`) and every
detached key is held by one. `NeverPanics` under unrecorded edits and failing replays.
`IdsNameContents`: a content id names the content the graph holds and never two
contents; `LineOfContents`: the history is a refinement of `LinearHistory`.

*References.* `ReferencesResolve`, `WarningsAsAsked`: what is shown is what the uuid leads to and what was asked last.

*Runtime.* `EachEditOnce`, `DispatchedStructureWaits`; `CatchUpIsExact` (order, time and turns of the scheduler).
`HeardAsPromised`: who had to hear an event heard it, once and in order.

*Parameters.* `ControlsSettle`, `BindingsSettle`, `ValueFitsRule`, `TravelRestores` (undo and redo of values and constraints),
`WaveFollowed`, `CurveSettles`, `SamplesAgree`.

*Intents, contexts, files, host, scripts.* `OneEntryPerGesture`, `OwnSessionsClose`; `LookupsAreCurrent`: a lookup, cached or not, answers by the tree, unless a batch, undo or redo failed halfway since the last that did not, or a replayed move damaged the links; `NodesKeepApart`
(no two nodes with one uuid, references point to the same node after saving, loading and copying); `HostSettles`, `PreferencesKept`;
`FollowsSource`, `UpkeepAgrees`.

*Feed and hub.* `StoreFollowsEngine`, `StaysInStep`, the liveness property `ClientCatchesUp`; `PublishedOnce`;
`ScopeAgrees`; `ConnectionsKeepTheirOwn`: the connection that opened a session is
registered under the instance the session belongs to, and the hub's two
maps agree; `ClientsInStep`: what a client shows, patched with all that is still to
come for it, is the graph.

Every property has a mutant of the code in `PROJECT.json`, a change a programmer might make, that violates it under the same configuration.

### Fairness

Only `UiFeed.FeedFairness` states fairness, and only for `ui_feed`. A thread that has entered
the engine leaves it and applies its capture (weak fairness of `LeaveCritical`,
`ApplyStep`, `RefreshStep`): every critical section in the code is a bounded
computation and takes one lock at a time. The hub checks the cursor and
replays (weak fairness of `CheckCursor`, `Replay`): its loop does so on every
pass and sleeps a fixed time between passes. Nothing is assumed of clients or of the engine's
activity: a client need not come back, edits need not stop.

## Proofs

TLAPS checks every theorem below for every value of the constants. The proofs assume what the
modules assume of their constants: `Nil` is no id and no object, the root is an id, the bounds are natural
numbers, the flags are Booleans, there is a value to hold, `Nobody` is neither a connection nor an instance,
targets start with uuids of their own, as random uuids do, the scheduler's node store is finite, its intervals are positive and
a bucket may fire at least once a tick. No other theorem needs the
set of ids, of connections, of instances, of references or of uuids to be finite.

| module | theorem | states |
|---|---|---|
| `NodeGraph_proofs` | `TypeCorrect` | `TypeOK` |
| | `LinksStayConsistent`, `TreeStaysAcyclic`, `StoreStaysClosed` | `LinksConsistent`, `NoParentCycle`, `StoreClosed` |
| | `IndexesStayRight` | `IndexesAgree` |
| | `EditsKeepTheTreeWhole` | `EveryNodeInTree`, an action property |
| | `CachedFlagsStayRight` | `EffectiveAgrees` |
| `GraphHistory_proofs` | `HistoryTypeCorrect` | `HistoryTypeOK` |
| | `KeysHeldOnceCorrect` | `HeldByOneStep`, the first part of `KeysAccountedFor` |
| | `NeverPanicsCorrect` | `NeverPanics`, without replacements |
| | `UndoRestoresCorrect` | `UndoRestores`, when every edit is recorded and none fails |
| | `KeysAccountedForCorrect` | `KeysAccountedFor`, when every edit is recorded and none fails |
| `EditHistory_proofs` | `HistoryTracks` | `HistoryInv`: its types, `Phases` and `Placed` |
| | `LineOfContentsCorrect` | `LineOfContents`, the refinement of `LinearHistory` |
| | `IdsNameContentsCorrect` | `IdsNameContents` |
| `EngineLoop_proofs` | `ClockCorrect`, `TimeIncreases` | `Clock`; `StampsIncrease`, an action property |
| | `AccountCorrect`, `EachEditOnceCorrect` | `Account`; `EachEditOnce` |
| | `DispatchedStructureWaitsCorrect` | `DispatchedStructureWaits` |
| | `ScheduleTracked` | `SchedulerInv`: types, `ScheduleSorted`, `OwedIsKnown` |
| | `CatchUpIsExactCorrect` | `CatchUpIsExact` |
| `Services_proofs` | `ConnectionsKeepTheirOwnCorrect` | `ConnectionsKeepTheirOwn` |
| | `HostTyped` | `HostTypeOK` and `HostInv` |
| | `HostSettlesCorrect`, `PreferencesKeptCorrect` | `HostSettles`, `PreferencesKept` |
| | `ScriptKept` | `ScriptTyped`, `FollowInv` and `UpkeepInv` |
| | `FollowsSourceCorrect`, `UpkeepAgreesCorrect` | `FollowsSource`, `UpkeepAgrees` |
| `UiFeed_proofs` | `FeedTyped` | `FeedTypeOK`: types of the log, the ring, the captures and the client |
| | `NeverPublishedTwice` | no stamp twice in the ring while a project lasts |
| | `PublishedOnceCorrect`, `RoomForOneProject` | `PublishedOnce`, when every capture fits in the ring; when that is so |
| | `HeadOnlyAdvancesCorrect` | `HeadOnlyAdvances`, an action property no run checks |
| | `StoreFollowsEngineCorrect` | `StoreFollowsEngine`, when the tick is the only writer |
| | `StaysInStepCorrect` | `StaysInStep`, an action property, when the tick is the only writer |
| `Editing_proofs` | `ReferencesTracked` | `ReferencesInv`: types, `UuidsOwned`, `ReferencesRight` and `WarningsTracked` |
| | `ReferencesResolveCorrect`, `WarningsAsAskedCorrect` | `ReferencesResolve`, `WarningsAsAsked` |
| | `OwnSessionsTracked` | `OwnedIs`: when the session that intents open for themselves is open |
| | `OwnSessionsCloseCorrect` | `OwnSessionsClose` |

**Node graph.** The links and the acyclicity are proved together (`TreeInv`). That the links agree is
not inductive alone: attaching a node keeps the lists well formed only
if the node was detached first, and detaching needs the end and chain conditions
together; that moving a node makes no cycle needs that the new parent is outside
the moved subtree, which the code checks by walking up the parents. A chain
without a ring is stated without recursion: there is no non-empty set of nodes closed under
*next* (under *parent* for acyclicity), so that an induction over data is
not needed; `NotOwnAncestor` relates that to the ancestor walk. `StoreClosed` rests
on both: a removed subtree takes everything that links into it along.
The first half of `NodeGraph_proofs` has one lemma per operator of `SiblingLinks` and conjunct (`AttachBetweenEnds`,
`AttachBetweenChain`, `AttachBetweenNoRing`, `DetachEndsChain`, `DetachNoRing`, ...), so a step
of the specification is two or three citations.

`IndexesAgree` speaks of the tree, and is not inductive: a node that a rejected move left outside
can come back with a later move. `CachesRight` asks the same of every node that has a parent.
`EveryNodeInTree` follows from what attach and detach do to the set of descendants.
`EffectiveAgrees` is proved in terms of the chain of a node, the nodes above it and itself (`UpChain`, `FlagRight`), instead of the
parent walk the code makes: what is above a node changes only below a node that moved, and there it is the new parent's chain and the
part inside the moved subtree, which is how the handler computes the flag from the parent's cached one.

**History.** A step of a transaction *holds* keys. That reattaching finds a detached key needs, of every step of every transaction on
either stack or in work, that what it holds is out of the store (`StepSound`) and that no two steps hold
the same key, since replaying one puts back what the other relies on (`KeysHeldOnce`). A recorded edit keeps this
because it takes what it holds from the live nodes; a replayed step trades what it holds for what it takes out; disposal drops
the steps it releases. The invariant stands for all settings: failures, stale siblings, unrecorded edits and replacements. Only the
last step, that disposal releases a key that is still reserved, needs that nothing was put behind a key twice:
`NeverPanicsCorrect` is proved for `MayReplace = FALSE` and the run `graph_history_panic` shows that it is false
otherwise, so replacement is the only cause of that panic.

**Undo and redo.** `UndoRestores` compares the content of now with what the entries on top of the stacks recorded, so nothing about it is inductive.
`UndoInv` says of every entry of both stacks that there is a chain of *snapshots*, one before and one after each of its steps, that begins and ends
with the contents the entry was recorded between; that each step tells how its two snapshots differ (`StepFact`); and that the chains of neighbouring
entries meet, the two stacks at the content of now. A step that holds detached nodes says besides that their fields are still those of the snapshot
that has them (`StoredAs`): no edit writes a field of a node that is out of the store (`EditsLeaveStored`), and no other step of the history holds
it (`KeysHeldOnce`). Three lemmas about the links carry the replay. Linking a node between the neighbours it was unlinked from gives back the same links
(`Relink`), and the neighbours that `HistoricalBounds` looks for are those (`BoundsFound`). Links that agree on the store agree
after the same rewrite (`DetachAgrees`, `AttachAgrees`), so what dangles outside the store does not matter. And a move is undone at a place that is not below the
moved node, though the code does not check it (`MoveTarget`, `DetachBelow`). `ReplayRight` concludes that a replayed step neither fails
nor finds itself already undone, and `ReplayedRight` that the store moves one snapshot along the chain. Both theorems assume that nothing
is edited unrecorded and that no batch fails half-way: without that the contents do not line up, as the failing replays of
`services` show. Replacements, stale siblings and disposal in every order are included; a purge that panics ends the behaviour, so nothing is claimed after it.
The theorems start from an empty project; the loaded one the runs start from is reached from it by two insertions and `clear_history`.

**Edit history.** `LineOfContents` maps the stacks to contents by replaying them, and is shown step by step. `HistoryInv` says of
the state what those replays need (`Placed`): there are contents such that every undo entry *leads* from one to the next, the last one to the base, the
uncommitted steps from the base to the graph, and every redo entry on from there; that each entry's two ids, and the current one, are given out and
name those contents; and that nothing can be redone while a step is uncommitted. `Leads` asks for a chain of contents in which every step finds its old value
and leaves its new one, so that undoing gives back exactly where it began (`LeadsBack`) and redoing where it ended (`LeadsOn`); with that
the three replays of the mapping are the contents of the invariant (`BehindIs`, `AheadIs`, `PlacedNow`), before and after
every step. A session may begin and end inside a queue; what the queue has recorded in front of a Begin is on no stack while its session takes steps, which is a slip, so without one never both hold uncommitted steps. The hard part is coalescing. Writing a newer value into a step keeps its entry a chain if no later step of the entry has the same key (`LeadsMerged`);
an entry that absorbs all of another then leads to where that one led, one that absorbs nothing is unchanged (`AbsorbAll`, `AbsorbTyped`), and
`Misplaced` is exactly what is left over, so a pushed transaction is a new entry or amends the one before (`PushedRight`). Ids are never reused because `next`
only grows (`NextNamed`, `IdsStay`). After a slip nothing is claimed until `clear_history`, which finds the graph again (`ClearFinds`, `SlipLasts`). The
recursions of the model are functions, so what they compute follows from `RecursionExists` and induction over the naturals.

**Tick.** `EachEditOnce` counts sequences; its inductive form `Account` says that each queue has no id twice, that what was
taken was sent before what still waits (`QueuesInOrder`, queue by queue from the applied edits to the channel), that edits of other
threads are in `deferred` never and in `pending` only where an apply follows (`EngineOnly`, otherwise an edit set aside could be overtaken by a later one), and that the queues, the replaced and the
failed edits make up the ids given out. What a filter or a coalescing push does to a sequence is recursive; it is proved with
`InductionFacts` (`NatSetInduction`, `RecursionExists`), which state induction and recursion over the naturals by sets and functions,
as the provers can use them. `DispatchedStructureWaits` needs `Waits`: in a round nothing structural of this tick stands in the queue that
is applied next. Stamps increase because a micro step is never ahead of the coming pass (`Clock`), so the start of a pass always moves the time on.

**Scheduler.** `CatchUpIsExact` has three parts. The order of turns is decided when the due nodes are collected and needs what the last resolve left: buckets
are picked from one topological order (`Picked`, `PickedPicks`), so each keeps that order and no node is in two (`ScheduleSorted`,
`RebuiltRight`). A round of the merge is followed one node at a time: what is out so far is in topological order and ahead of everything still in a
bucket (`Partial`, `TakeFirstRight`), so taking the head that comes first keeps it so and a round holds every node of the firing
buckets once (`MergedIs`). Round by round, the k-th turn of a node is in the k-th round (`RoundsRight`, `RoundMore`), which makes the order hold
across buckets that fire a different number of times. Time given is exact because what a node is owed and its last update add up to the clock until it skips
a turn, and its last turn takes all that is left (`OwedIsKnown`, `TurnsToComeIs`). A bucket's account is the equation the property states; a collect
adds as many turns to it as intervals it takes from the accumulator (`FiresIs`, `PaidMore`). That a failed resolve empties the buckets, and that an edit in the
apply phases makes the order stale, are the reasons why the order is only promised while the schedule is not dirty.
TLC checked `SchedulerInv` on the values of `scheduler` before it was proved.

**UI feed.** `PublishedOnce` says twice that events do not get lost and once that they do not come again, and neither is inductive. `OrderInv` follows the stamps:
the log is in order and below the clock, one thread is inside the engine, and a thread that is has entered before what it is going to capture; so every
capture is in order, starts after all captures before it, and no stamp is in two of them or in one and the ring (`NothingTwice`). `NothingMissed` says of every event
nothing can supersede where it is now: in the ring, in a capture on its way there, still to be captured by the thread inside, or evicted. Evicting needs care: a capture
longer than the ring would push out its own first events before a client can see them, which is why `PublishedOnce` is claimed when every
capture fits (`CapturesFit`). For one project that needs no capture to be bounded: stamps are below the clock and the ring and the captures have
none in common, so a ring that is larger than the number of stamps is enough (`StampsFit`, a pigeonhole argument). With projects loaded, or
another limit of the ring, it stays an assumption. `NeverPublishedTwice` and `HeadOnlyAdvances` need none.
The hard part of `StoreFollowsEngine` is that the log is not the list of changes: a newer value of a parameter takes the event of the older one out
of the middle. `RemoveReplay` and `PushReplay` show that this never changes what
replaying the log computes, from whatever graph and stamp: what is between the two events may do anything to the node, but a value that is
set again leaves nothing of the first (`SetSettles`). `StoreLagsBehind` then says that the store, and what the capture under way adds to it, is the
graph of the engine. It assumes `OneLoop` (one writer, one project, a log that is never cut), and it must: captures of two threads are applied in any order, as the run `ui_feed_order` shows.
`StaysInStep` compares a client with the log, but a client is fed from the ring, which coalesces against the store instead of the live graph, evicts, and is filled
later. `RingReplaysLog` bridges the two: from every stamp up to where the ring has been filled, and that the ring's first event does not exceed, replaying the ring and then the rest of the
log does what replaying the log does. It holds for every graph and not only the client's, so that it survives each append by itself (`AppendedReplay`: pushing
event by event is `PushReplay` again, and what eviction removes is older than any stamp the ring still covers, `TrimAfter`). `RingLagsBehind` says that what the ring lacks
is what the loop is about to append; `CursorsAreFed`, that no client starts from a stamp beyond that, which `Replay` needs because it would otherwise skip what is appended later.
TLC checked `OrderInv` and `NothingMissed` with three threads, and `RingInv` on the values of `ui_feed`, before they were proved.

**Sessions.** `ConnectionsKeepTheirOwn` names the connection that opened a session, and is not inductive: the commands
of a connection wait in the hub's channel while the connection's thread goes on. `SessionsInv` adds what the channel may hold, that a
connection's Register is the first command the hub reads of it and that nothing of it is known before (`RegisterFirst`), and that the
connection of a tab is bound to that tab unless the hub has forgotten it (`TabsNameClients`).

**Project host.** `HostSettles` speaks of the moment when nothing is under way. `HostInv` says what holds in between. The part about
the engine holds however requests overlap: if the clients are shown another engine than the live one, some request that replaced it is
still going to tell them (`EngineShown`), since telling reads the engine again under its lock. The part about path and file is about a request
that met no other (`AloneIsAlone`, `AdriftCounts`), and says step by step what it has settled so far: a replacement finds its file as it read it,
then is the live engine, then is on the path, then saw that path (`LoneReplacement`); a save writes the project it read
under the lock, into the file, and then becomes where the project comes from (`LoneSave`); `PathTold` is what is left when none of
them is under way. `PreferencesKept` needs that the preferences file is cut off only while the lock is held (`LockedWhileCutOff`) and that every
request that is about to replace the engine carries the choice or is marked as overtaken (`ChoiceKept`); that the tree is whole
(`PrefsComplete`) follows because the sections that `ensure_preferences_tree` can leave are three sets, closed under completing.

**References.** `ReferencesResolve` says that a pass finds *the* node with a uuid, so at most one node of the tree may carry it. That is a property of the
history as much as of the graph: undo brings back the uuid a replacement took away. `UuidsOwned` therefore says that there is a table of owners, one
target for each uuid, that the graph and every step undo and redo may put back keep to; a uuid somebody owns counts as used, so a
replacement's fresh one is nobody's and the table grows (`OwnersGrow`). Under it renewing a reference keeps its shape whichever of the three nodes it is
tried on (`NormalizedIs`), and a pass over any graph leaves every reference right (`ResolvedRight`). A batch that calls for no pass changes nothing that
references depend on, but can take marks away, and those are exactly what `outdated` gains; a batch that fails, or a replay that stops, outdates all of them.
`WarningsAsAsked` speaks of an empty queue; `WarningsTracked` says the same of a queue that waits: what was asked is what the waiting requests make
of the warnings shown, unless a request was dropped because of a state about to change. A dropped request
is one that the requests kept before it already meet (`Kept`, compared step by step with what all of them ask for).
TLC checked `ReferencesInv` on the values of `services` before it was proved.

**Intents.** `OwnSessionsClose` speaks of the moment when no intent is under way. `OwnInv` says what holds in between. Who owns the session (`OwnedIs`): it is the intents' own
exactly while an intent that opened it is past its opening phase, and after one that had to leave it open (`stranded`), so the exemption is never wider than the session
that causes it. What the phases in hand and those behind them may queue (`RunIs`), and that the pending edits are an intent's boundary behind edits of others or such edits alone (`PendingIs`);
this is what tells the batch that opens or closes the session from all other batches. A batch is the fold of one edit at a time: `BatchKeeps` shows by induction over the queue that edits
which do not name the intents' own session, were they begins and ends of other sessions, leave its owner what it was, and that after a failure nothing more happens. `ApplyOpens` and `ApplyCloses` cut a
batch at the boundary. Assumed (`SessionsAssumption`): other threads, callbacks and clients never begin or end a session by an intent's own id, which in the code are fixed names that start with `__ui-`;
and the sets of parameters and widgets are finite. TLC checked `OwnInv` on the values of `values` before it was proved.

**Scripts.** `FollowsSource` needs what each of stamp, runtime and schedule knows of the source (`FollowInv`): the stamp is of the text the runtime was loaded from, a stamp
whose file time is unchanged is of the file as it is, and a node that is not polled runs the text of its configuration. `UpkeepAgrees` speaks of an empty queue;
`UpkeepInv` says the same of a queue that waits. `Lasting` is what a queue makes of a fact that one kind of edit establishes and another ends: it holds afterwards if
the last of these edits establishes it, or if it held and none ends it. For every target that was not removed the queue leads from the engine's listeners to the level on record (`HeardOf`), and for every
child without an exemption from the tree to the last load (`There`). Every host call keeps the first whatever is queued already (`ListenKeeps`, `UnlistenKeeps`, `ClearKeeps`: giving up the old level before asking for the new one is
what makes the levels exclusive), and a load makes the second what its source declares (`SettleIs`, `LoadRight`), by the tree as it was before. The batch is followed edit by edit (`Fits`, `OneApplied`): after each of its edits
the rest of the queue still leads to the record, except for what was dropped. A child that a move leaves detached needs two homes: a queue of moves is `Linked`, each goes behind
the child the edit before it moved, which was in the tree and so still is (`HomesDiffer`). Assumed (`ScriptsAssumption`): a text declares a sequence of keys, `None` is no text, key or level, and keys and targets are
finite. TLC checked the three invariants on the values of `project` before they were proved.

**What stays with TLC.** Liveness (`ClientCatchesUp`) and everything about `ENABLED`. What a recursive definition returns for every
input: `SelectSeq` and the folds of the community modules take an operator, which the provers can not
instantiate, so the modules built on them (`WsValues`, `EventRouting`, `Contexts`,
`CurveKeys`, `CurveSampling`, `ParamControls`, `AnimationControl`, `ScopedView`) are checked only, and so is `OneEntryPerGesture` of `UiIntents`, which replays an entry with a fold; `Persistence`,
`ValueConversions` and `ParamValues` declare `RECURSIVE` operators besides. The lemmas of `EngineLoop_proofs` on filters and on `Picked` and of `UiFeed_proofs` on `After` show the way: a filter
that is written out as a recursive function can be reasoned about.

## Where code and text disagree

Four are runs that TLC must find violated:

* `graph_history_panic`: a `ReplaceNode` step keeps the replaced object under its id. When the same node is removed
  later in the history, disposing of the two steps releases the id twice; the second time it is not detached
  any more and the store panics (`engine/history.rs:794`, `node_store.rs:56`).
* `ui_feed_order`: the comment at `ui_server.rs:691` says publishing happens in
  order, but captures are applied after the engine's mutex is released (711).
* `multiplex_count`: resizing edits are computed when they are queued (`engine/contexts.rs:256`); a list that is added in the
  batch that changes the count, or while they wait, keeps another number of entries (`engine/tests.rs:3663`, 3670).
* `sparse_values`: a save compares with other defaults than the load lays its records over (`app.rs:591`, 602), so a value can
  come back as the default.

Others met while modelling; the properties either name the situation they exempt or do not speak of it. The names in
parentheses are definitions that state what the text says; no run checks them, because TLC finds them false.

* Undo and redo of a move check no descendants (`history.rs:312`): after
  unrecorded edits they can build a cycle and child lists that disagree
  (`error.rs:178`, `structure.rs:77` say they cannot); they and replays of metadata
  patches leave `effective_enabled` as it was (`metadata.rs:232`); so does a replacement.
* A move or add rejected by its attach leaves a live node outside the tree (`move.rs:62`, `insert.rs:14`).
* The content id (`engine/mod.rs:163`) names another content after a partly
  absorbed transaction (`history.rs:75`), coalescing around a later step of the
  same parameter (59), undo inside a session (1369), a cancelled session (1295),
  a batch that fails half way (`apply.rs:118`) or a queue that records steps before a Begin and in
  its session (`apply.rs:53`, 64, 334): the earlier steps are pushed last and get the later ids.
* A batch, undo or redo that fails after it changed the tree leaves the context registry and its cached lookups behind
  (`apply.rs:118`, `history.rs:1378`, 1397).
* A snapshot takes nodes and time under two locks (`ui_read_model.rs:293`) and may be torn; the
  ring can be ahead of the head (76, 234); a failed tick's events never
  reach the read model (`ui_server.rs:701`); an engine log overflow inside
  one capture loses events (`engine/ui.rs:162`); a late capture of a replaced project enters
  the new ring (138, 170).
* A snapshot is only as new as the last structural event (`ui_read_model.rs:224`). Once value and
  custom events have filled the ring, a client that subscribes from a fetched
  snapshot is told to resync, again and again, until the next structural event.
  A client is also told to resync when nothing it needs was evicted (`ui_server.rs:1136`).
* A client of a subtree loses events that are replayed between their batch and the rebuilt snapshot
  (`ui_read_model.rs:773`; `ScopeAlwaysAgrees`).
* The session an intent opens for itself stays open after an edit of another thread failed behind its begin (`ui_sync.rs:3107`), or edits that callbacks still
  asked for after the last pass failed in front of its end (3110); "one undo/redo boundary" (`edit.rs`) then takes in what comes after.
* An edit session is stranded when the hub forgets a connection after a failed send
  before it reads its end (`ui_server.rs:1263`, 1292), when a connection
  binds to another instance (867), or when intents of a forgotten connection are applied for nobody (962).
* A client that hides its own events can be left with an older value: one queued
  before its change is flushed after it (`ui_server.rs:1165`, 1223), and a snapshot older
  than its change takes the change back. One subscription's structural flush
  restarts the timer for the queues of the others (818).
* Stabilization's comment (`stabilization.rs:5`) says structural edits are forbidden in rounds; those of other
  threads and of callbacks of applied edits are applied there.
* A dependency cycle, a missing dependency or a zero rate stops the clock and the
  ticks (`tick.rs:60`); a rebuild starts the accumulators over, so steady
  edits starve slow rates (`scheduler.rs:30`); after a budget failure a node is given the
  same time again (`scheduled_updates.rs:107`).
* A proxy can keep another value than its target's (`ProxyReadsTarget`), a ring of three bindings gets no
  diagnostic (`BindingRingsRejected`), and an expression can stay in error for what it mentioned before (`ExpressionsRun`;
  all of `docs/parameters_control_modes.md`).
* Taking an entry back can take a widget of the project away (`UndoKeepsWidgets`, `docs/dashboard_system.md`).
* A curve's key can be lost by a move put off to the next tick (`KeysStay`); undoing the removal of a range
  node leaves two (`OneRangeNode`); a control in curve mode can have an amplitude (`NoAmplitudeInCurveMode`, `engine/tests.rs:9233`).
* Two projects run at the same time while one replaces the other (`OneProjectRuns`, `project_host.rs:145`).
* A requested reload is left to the script's next update; a script that is not scheduled has none (`RequestedReloadComes`, `script/mod.rs:3499`).

## Not modelled

Dashboard (declarations of parameters), handles (ids and values that are read anew before every callback), node
behaviour and policies (trait defaults), the logger (a bounded sequence behind one lock), the desktop host (windows and command line), and
facade, protocol and macros (generated code). Of the modelled parts: the numeric side of curves and controls
(floating point), the JavaScript runtime, HTTP framing, the file format, labels and acknowledgements. `PROJECT.json` gives the
reason, and what is left out, for each component.

## Next

1. The project host: who may have replaced what between two steps of a request.
2. What is left out of modelled parts: acknowledgements of intents, labels, gradients.
