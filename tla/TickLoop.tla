------------------------------ MODULE TickLoop ------------------------------
(***************************************************************************)
(* One engine tick and what happens between ticks (runtime/tick.rs,         *)
(* runtime/stabilization.rs): the phases of run_tick, the queues an edit    *)
(* waits in (the channel of other threads, edits.pending,                   *)
(* deferred_structural_edits), the batch an apply drains, the inbox of      *)
(* events and the engine time that stamps them.                             *)
(*                                                                          *)
(* Callbacks are abstracted to the edits they queue: each phase that runs   *)
(* callbacks may queue one.  What an edit does to the graph is NodeGraph's  *)
(* subject; here it emits an event, may queue another edit, or fails.       *)
(***************************************************************************)
EXTENDS Naturals, SequencesExt

CONSTANTS
    MaxTicks,  \* bound on the ticks
    MaxIssued,  \* bound on the edits issued
    MaxPasses  \* max_stabilization_passes_per_tick

ASSUME TickLoopAssumption == MaxTicks \in Nat /\ MaxIssued \in Nat /\ MaxPasses \in Nat

VARIABLES
    external,  \* the channel external edits arrive in
    pending,   \* edits.pending
    deferred,  \* deferred_structural_edits
    taken,     \* edits an apply has drained and not yet applied
    then,      \* where the engine goes on when the batch is done
    inbox,     \* are there buffered events?
    time,      \* engine time
    unresolved,     \* runtime_resolve_pending
    pass,      \* stabilization pass
    pc,        \* the engine's phase
    \* For the properties only.
    issued,    \* number of edits issued
    applied,   \* edits that were applied, in that order
    replaced,  \* sets dropped for a later set of the same parameter
    failed     \* edits dropped by an error

queues == <<external, pending, deferred, taken>>
ghosts == <<replaced, failed>>
tickVars == <<queues, then, inbox, time, unresolved, pass, pc, issued, applied, ghosts>>

(* "set" is a coalescing SetParam (of one parameter), "tree" a structural    *)
(* edit, "other" any other edit.  bornIn is the tick whose stabilization     *)
(* dispatch issued the edit, 0 for all others; from tells thread from        *)
(* engine.                                                                  *)
Edit(kind, from, tick) == [id |-> issued + 1, kind |-> kind, from |-> from, bornIn |-> tick]

EditKinds == {"set", "tree", "other"}

IsStructural(e) == e.kind = "tree"

\* The edits of a queue that are of one of these kinds.
OfKind(q, kinds) ==
    LET kept[n \in 0..Len(q)] ==
            IF n = 0 THEN <<>>
            ELSE IF q[n].kind \in kinds THEN Append(kept[n - 1], q[n]) ELSE kept[n - 1]
    IN  kept[Len(q)]

EditIds(s) == {s[i].id : i \in 1..Len(s)}

Less(s, t) ==
    \/ s.tick < t.tick
    \/ s.tick = t.tick /\ s.micro < t.micro
    \/ s.tick = t.tick /\ s.micro = t.micro /\ s.seq < t.seq

TickInit ==
    /\ external = <<>> /\ pending = <<>> /\ deferred = <<>> /\ taken = <<>>
    /\ then = "idle" /\ inbox = FALSE /\ unresolved = TRUE /\ pass = 0 /\ pc = "idle"
    /\ time = [tick |-> 0, micro |-> 0, seq |-> 1]
    /\ issued = 0 /\ applied = <<>> /\ replaced = {} /\ failed = {}

-----------------------------------------------------------------------------
(* Push_inPlace: a coalescing set takes the place of the one it replaces.    *)
PushEdit_inPlace(q, e) ==
    IF e.kind = "set" /\ \E i \in 1..Len(q) : q[i].kind = "set"
    THEN [i \in 1..Len(q) |-> IF q[i].kind = "set" THEN e ELSE q[i]]
    ELSE Append(q, e)

(* EditQueue::push: a coalescing set removes the one that is queued and      *)
(* goes to the end.                                                         *)
PushEdit(q, e) ==
    Append(IF e.kind = "set" THEN OfKind(q, EditKinds \ {"set"}) ELSE q, e)

QueuedAll(q, es) ==
    LET queue[n \in 0..Len(es)] == IF n = 0 THEN q ELSE PushEdit(queue[n - 1], es[n])
    IN  queue[Len(es)]

(* What pushing es to the queue drops.                                      *)
Dropped(es) == (EditIds(pending) \cup EditIds(es)) \ EditIds(QueuedAll(pending, es))

Queue(es) ==
    /\ pending' = QueuedAll(pending, es)
    /\ replaced' = replaced \cup Dropped(es)

(* Behind es, callbacks queue one edit or none.                             *)
Callbacks(es, tick, kinds) ==
    \/ Queue(es) /\ UNCHANGED issued
    \/ /\ issued < MaxIssued /\ issued' = issued + 1
       /\ \E k \in kinds : Queue(Append(es, Edit(k, "engine", tick)))

(* The tick or the intent returns an error: everything queued stays queued.  *)
Fail == pc' = "idle" /\ pass' = 0

(* Another thread sends an edit, at any time.                               *)
Send ==
    /\ issued < MaxIssued /\ issued' = issued + 1
    /\ \E k \in EditKinds : external' = Append(external, Edit(k, "thread", 0))
    /\ UNCHANGED <<pending, deferred, taken, then, inbox, time, unresolved, pass, pc,
                   applied, ghosts>>

-----------------------------------------------------------------------------
(* absorb_external_edits of a node of the wrong type: nothing of what was    *)
(* drained from the channel is queued.                                      *)
AbsorbFails ==
    /\ \E i \in 1..Len(external) : IsStructural(external[i])
    /\ external' = <<>>
    /\ failed' = failed \cup EditIds(external)
    /\ Fail
    /\ UNCHANGED <<pending, deferred, taken, then, replaced>>

(* apply_edits_internal begins: absorb, then drain the whole queue.         *)
BeginApply(next) ==
    \/ /\ external' = <<>> /\ pending' = <<>>
       /\ taken' = QueuedAll(pending, external)
       /\ replaced' = replaced \cup Dropped(external)
       /\ then' = next
       /\ pc' = "apply"
       /\ UNCHANGED <<deferred, failed, pass>>
    \/ AbsorbFails

(* Where the engine applies what a phase has queued, and goes on.           *)
AfterApply ==
    [intent |-> "idle", absorb |-> "preprocess", preprocessed |-> "control",
     controlled |-> "update", settled |-> "test", deferred |-> "round"]

(* Applies the queue if there is anything in it.  Only the start of a tick   *)
(* looks into the channel first.                                            *)
ApplyPending ==
    /\ pc \in DOMAIN AfterApply
    /\ IF pending = <<>> /\ (pc = "absorb" => external = <<>>)
       THEN pc' = AfterApply[pc] /\ UNCHANGED <<queues, then, ghosts, pass>>
       ELSE BeginApply(AfterApply[pc])
    /\ UNCHANGED <<inbox, time, unresolved, issued, applied>>

EmitEvent ==
    /\ inbox' = TRUE
    /\ time' = [time EXCEPT !.seq = @ + 1]

(* One edit of the batch: it emits an event, and its callbacks may queue an  *)
(* edit for later.                                                          *)
ApplyEdit ==
    /\ pc = "apply" /\ taken # <<>>
    /\ taken' = Tail(taken)
    /\ applied' = Append(applied, Head(taken))
    /\ unresolved' = (unresolved \/ IsStructural(Head(taken)))
    /\ EmitEvent
    /\ Callbacks(<<>>, 0, EditKinds)
    /\ UNCHANGED <<external, deferred, then, pass, pc, failed>>

(* An edit fails: the rest of the batch is dropped with it.                 *)
EditFails ==
    /\ pc = "apply" /\ taken # <<>>
    /\ taken' = <<>>
    /\ failed' = failed \cup EditIds(taken)
    /\ Fail
    /\ UNCHANGED <<external, pending, deferred, then, inbox, time, unresolved, issued, applied,
                   replaced>>

(* Within a tick every apply is followed by resolve_if_needed, which may     *)
(* fail and leave the schedule dirty.                                       *)
ApplyDone ==
    /\ pc = "apply" /\ taken = <<>>
    /\ \/ pc' = then /\ UNCHANGED pass /\ unresolved' = (unresolved /\ then = "idle")
       \/ unresolved /\ then # "idle" /\ Fail /\ UNCHANGED unresolved
    /\ UNCHANGED <<queues, then, inbox, time, issued, applied, ghosts>>

-----------------------------------------------------------------------------
(* Between ticks: an intent queues an edit or finds some queued and applies  *)
(* them, or dispatches the inbox, in turns until nothing is left or a limit. *)
Intent ==
    /\ pc = "idle"
    /\ Callbacks(<<>>, 0, EditKinds)
    /\ pending' # <<>>
    /\ pc' = "intent"
    /\ UNCHANGED <<external, deferred, taken, then, inbox, time, unresolved, pass, applied, failed>>

IntentDispatch ==
    /\ pc = "idle" /\ inbox
    /\ inbox' = FALSE
    /\ Callbacks(<<>>, 0, EditKinds)
    /\ UNCHANGED <<external, deferred, taken, then, time, unresolved, pass, pc, applied, failed>>

-----------------------------------------------------------------------------
(* run_tick.  What the last tick deferred is queued before the schedule is   *)
(* resolved; only then does the clock advance.                              *)
BeginTick ==
    /\ pc = "idle" /\ time.tick < MaxTicks
    /\ Queue(deferred) /\ deferred' = <<>>
    /\ \/ /\ pc' = "absorb" /\ unresolved' = FALSE
          /\ time' = [tick |-> time.tick + 1, micro |-> 0, seq |-> 0]
       \/ unresolved /\ UNCHANGED <<pc, unresolved, time>>
    /\ UNCHANGED <<external, taken, then, inbox, pass, issued, applied, failed>>

(* The callbacks of one phase run; one of them may return an error after     *)
(* others have queued theirs.                                               *)
RunCallbacks(tick, next) ==
    /\ Callbacks(<<>>, tick, EditKinds)
    /\ pc' = next \/ pc' = "idle"

(* The buffered events are shown to the nodes, but stay in the inbox.       *)
Preprocess ==
    /\ pc = "preprocess"
    /\ IF inbox THEN RunCallbacks(0, "preprocessed")
       ELSE pc' = "control" /\ UNCHANGED <<pending, replaced, issued>>
    /\ UNCHANGED <<external, deferred, taken, then, inbox, time, unresolved, pass, applied, failed>>

(* Controls write parameters and change listeners, never the tree; their     *)
(* diagnostics are events of their own.                                     *)
Control(es) == Callbacks(es, 0, {"set", "other"})

ControlPass ==
    /\ pc = "control"
    /\ Control(<<>>)
    /\ EmitEvent \/ UNCHANGED <<inbox, time>>
    /\ pc' = "controlled"
    /\ UNCHANGED <<external, deferred, taken, then, unresolved, pass, applied, failed>>

Update ==
    /\ pc = "update"
    /\ RunCallbacks(0, "round")
    /\ UNCHANGED <<external, deferred, taken, then, inbox, time, unresolved, pass, applied, failed>>

-----------------------------------------------------------------------------
(* run_stabilization_rounds.  A round absorbs the channel and runs the       *)
(* control pass ...                                                         *)
Round ==
    /\ pc = "round"
    /\ \/ /\ Control(external)
          /\ external' = <<>>
          /\ EmitEvent \/ UNCHANGED <<inbox, time>>
          /\ pc' = "settled"
          /\ UNCHANGED <<deferred, taken, then, pass, failed>>
       \/ AbsorbFails /\ UNCHANGED <<inbox, time, issued>>
    /\ UNCHANGED <<unresolved, applied>>

(* NextMicro_same: a round starts its sequence over in the same micro step.  *)
NextMicro_same == [time EXCEPT !.seq = 0]

NextMicro == [tick |-> time.tick, micro |-> pass + 1, seq |-> 0]

(* ... ends the tick when nothing is left or too many rounds were run ...   *)
Test ==
    /\ pc = "test"
    /\ IF (~inbox /\ pending = <<>>) \/ pass >= MaxPasses
       THEN Fail /\ UNCHANGED time
       ELSE time' = NextMicro /\ pc' = "dispatch" /\ UNCHANGED pass
    /\ UNCHANGED <<queues, then, inbox, unresolved, issued, applied, ghosts>>

(* ... dispatches the inbox, which is cleared only when every callback       *)
(* succeeded ...                                                            *)
DispatchInbox ==
    /\ pc = "dispatch"
    /\ IF inbox
       THEN /\ Callbacks(<<>>, time.tick, EditKinds)
            /\ \/ pc' = "defer" /\ inbox' = FALSE /\ UNCHANGED pass
               \/ Fail /\ UNCHANGED inbox
       ELSE pc' = "defer" /\ UNCHANGED <<pending, replaced, issued, inbox, pass>>
    /\ UNCHANGED <<external, deferred, taken, then, time, unresolved, applied, failed>>

(* SetAside_none: structural edits are applied with the others.             *)
SetAside_none == {}

SetAside == {"tree"}

(* Deferred_lastOnly: a round forgets what an earlier round set aside.      *)
Deferred_lastOnly == IF OfKind(pending, SetAside) = <<>> THEN deferred ELSE OfKind(pending, SetAside)

Deferred == deferred \o OfKind(pending, SetAside)

(* ... sets structural edits aside for the next tick and applies the rest.   *)
Defer ==
    /\ pc = "defer"
    /\ deferred' = Deferred
    /\ pending' = OfKind(pending, EditKinds \ SetAside)
    /\ pass' = pass + 1
    /\ pc' = "deferred"
    /\ UNCHANGED <<external, taken, then, inbox, time, unresolved, issued, applied, ghosts>>

TickNext ==
    \/ Send \/ ApplyPending \/ ApplyEdit \/ EditFails \/ ApplyDone
    \/ Intent \/ IntentDispatch
    \/ BeginTick \/ Preprocess \/ ControlPass \/ Update
    \/ Round \/ Test \/ DispatchInbox \/ Defer

TickSpec == TickInit /\ [][TickNext]_tickVars

-----------------------------------------------------------------------------
\* What a thread sent stands in the order it was sent.
SentInOrder(s) ==
    \A i, j \in 1..Len(s) :
        i < j /\ s[i].from = "thread" /\ s[j].from = "thread" => s[i].id < s[j].id

(* Every edit is in exactly one place: a queue, a batch, set aside, applied, *)
(* given up for a later value, or dropped by an error.  Nothing is applied   *)
(* twice and nothing is forgotten, whatever fails and whenever threads send; *)
(* and what a thread sends is applied in the order it was sent, however      *)
(* ticks and intents take turns in absorbing it.                            *)
EachEditOnce ==
    /\ SentInOrder(applied)
    /\ UNION {EditIds(external), EditIds(pending), EditIds(deferred), EditIds(taken),
              EditIds(applied), replaced, failed} = 1..issued
    /\ Len(external) + Len(pending) + Len(deferred) + Len(taken) + Len(applied)
         + Cardinality(replaced) + Cardinality(failed) = issued

(* Engine time never goes back, across rounds, ticks, failed ticks and the   *)
(* intents in between: an event is stamped with the time and moves it on, so *)
(* it gets a later stamp than all events before it, which the cursors of the *)
(* UI feed rely on.                                                         *)
StampsIncrease == [][Less(time, time')]_time

(* A structural edit that a stabilization round's dispatch queued is never   *)
(* applied by the tick it was queued in.                                    *)
DispatchedStructureWaits ==
    pc = "apply" /\ then # "idle" =>
        \A i \in 1..Len(taken) : ~(IsStructural(taken[i]) /\ taken[i].bornIn = time.tick)
=============================================================================
