----------------------------- MODULE EditHistory -----------------------------
(***************************************************************************)
(* How recorded edits become undo entries: apply_edits_internal            *)
(* (engine/apply.rs) drains a queue into a transaction or into the open    *)
(* edit session, push_undo_transaction coalesces it with the entry before  *)
(* it, and every history-visible state gets a content-state id             *)
(* (engine/history.rs).  The graph is abstracted to a value per key: a key *)
(* is a parameter, or the metadata, constraints, control state or script   *)
(* configuration of a node; the replay of structural steps is GraphHistory.*)
(* Engine calls are serialised by the host's lock, so a call is one step,  *)
(* except for apply_edits, whose queue may hold any edits in any order,    *)
(* session boundaries with edits before and behind them included.          *)
(***************************************************************************)
EXTENDS Naturals, SequencesExt

CONSTANTS Keys, KeyValues,
          Clients,             \* owners of edit sessions (client_edit_id)
          Behaviours,          \* ParameterEventBehaviours the edits use
          MaxEdits,            \* bound: edits of a behaviour
          MaxBatch,            \* bound: steps of one drained queue
          MaxTick              \* bound: ticks

ASSUME EditAssumption ==
    /\ KeyValues # {} /\ Behaviours \subseteq {"Append", "Coalesce"}
    /\ {MaxEdits, MaxBatch, MaxTick} \subseteq Nat

VARIABLES value,       \* what the graph holds
          undoStack, redoStack,
          editSession,     \* active_edit_session
          batch,       \* steps of the queue being drained (apply_edits)
          applying,    \* is apply_edits draining its queue?
          redoCleared, \* did this queue clear the redo stack?
          tick,        \* Engine::time.tick
          current,     \* current_history_state_id
          next,        \* next_history_state_id
          named,       \* history variable: the content each id was given to
          slipped,     \* history variable: did the history lose track of the graph?
          edits        \* edits so far

stacks == <<undoStack, redoStack>>
ids == <<current, next, named, slipped>>
apply == <<batch, applying, redoCleared>>
historyVars == <<value, stacks, editSession, apply, tick, ids, edits>>

Ids == 0..(2 * MaxEdits + 1)
Contents == [Keys -> KeyValues]
NoEditSession == [owner |-> "none", steps |-> <<>>, before |-> 0, after |-> 0]
Active == editSession # NoEditSession

HistoryInit ==
    /\ value = [k \in Keys |-> CHOOSE v \in KeyValues : TRUE]
    /\ undoStack = <<>> /\ redoStack = <<>>
    /\ editSession = NoEditSession
    /\ batch = <<>> /\ applying = FALSE /\ redoCleared = FALSE
    /\ tick = 0
    /\ current = 0 /\ next = 1
    /\ named = [i \in Ids |-> value]
    /\ slipped = FALSE
    /\ edits = 0

-----------------------------------------------------------------------------
(* Coalescing.                                                             *)

Mergeable(old, new) ==
    /\ old.behaviour = "Coalesce"
    /\ old.key = new.key
    /\ old.tick = new.tick

\* try_update_coalesced_set_param: the newest matching step, 0 if none.
MergeTarget(steps, new) ==
    LET S == {i \in 1..Len(steps) : Mergeable(steps[i], new)}
    IN  IF new.behaviour = "Coalesce" THEN Max(S \cup {0}) ELSE 0

\* absorb_coalesced_set_params: each incoming step updates its target in the
\* previous entry or stays.
Absorb(previous, incoming) ==
    LET absorbed[n \in 0..Len(incoming)] ==
            IF n = 0 THEN [into |-> previous, rest |-> <<>>]
            ELSE LET acc == absorbed[n - 1]
                     i == MergeTarget(acc.into, incoming[n])
                 IN  IF i = 0 THEN [acc EXCEPT !.rest = Append(@, incoming[n])]
                     ELSE [acc EXCEPT !.into[i].new = incoming[n].new]
    IN  absorbed[Len(incoming)]

\* Seeded fault: an entry that absorbed another keeps its own after id.
Pushed_oldId(stack, tx) ==
    IF stack = <<>> THEN <<tx>>
    ELSE LET a == Absorb(Last(stack).steps, tx.steps)
             merged == [Last(stack) EXCEPT !.steps = a.into]
         IN  IF a.rest = <<>> THEN Append(Front(stack), merged)
             ELSE Front(stack) \o <<merged, [tx EXCEPT !.steps = a.rest]>>

\* push_undo_transaction over the stack "stack"; the entry got its ids before.
Pushed(stack, tx) ==
    IF stack = <<>> THEN <<tx>>
    ELSE LET a == Absorb(Last(stack).steps, tx.steps)
             merged == [Last(stack) EXCEPT !.steps = a.into]
         IN  IF a.rest = <<>> THEN Append(Front(stack), [merged EXCEPT !.after = tx.after])
             ELSE Front(stack) \o <<merged, [tx EXCEPT !.steps = a.rest]>>

\* Coalescing misrepresents the entry before when it absorbs one step of an entry
\* and not another, or absorbs a step around a later step of the same key.
Misplaced(stack, steps) ==
    /\ stack # <<>>
    /\ LET previous == Last(stack).steps
       IN  \/ Absorb(previous, steps).rest \notin {<<>>, steps}
           \/ \E i \in 1..Len(steps) :
                 LET at == MergeTarget(previous, steps[i])
                 IN  at # 0 /\ \E j \in (at + 1)..Len(previous) : previous[j].key = steps[i].key

\* Seeded fault: ids count up from the current one, undone ones are given again.
PushFresh_recycled(stack, steps, content) ==
    /\ undoStack' = Pushed(stack, [steps |-> steps, before |-> current, after |-> current + 1])
    /\ current' = current + 1 /\ next' = Max({next, current + 2})
    /\ named' = [named EXCEPT ![current + 1] = content]
    /\ slipped' = (slipped \/ Misplaced(stack, steps))

\* A transaction without ids takes the current id and a fresh one.
PushFresh(stack, steps, content) ==
    /\ undoStack' = Pushed(stack, [steps |-> steps, before |-> current, after |-> next])
    /\ current' = next /\ next' = next + 1
    /\ named' = [named EXCEPT ![next] = content]
    /\ slipped' = (slipped \/ Misplaced(stack, steps))

-----------------------------------------------------------------------------
(* apply_edits.                                                            *)

StartApply ==
    /\ ~applying /\ edits < MaxEdits
    /\ applying' = TRUE /\ batch' = <<>> /\ redoCleared' = FALSE
    /\ UNCHANGED <<value, stacks, editSession, tick, ids, edits>>

Step(k, v, b) == [key |-> k, old |-> value[k], new |-> v, behaviour |-> b, tick |-> tick]

ClearRedo(clear) == redoStack' = IF clear THEN <<>> ELSE redoStack

\* push_step_into_active_history_transaction: every step of a session gets an id.
\* Steps the same queue recorded before the session began are not on the stack yet:
\* they will lie above the ids of this step, and under its entry or over it.
PushIntoSession(step) ==
    /\ editSession' = [editSession EXCEPT !.steps = Append(@, step), !.after = next,
                                  !.before = IF editSession.steps = <<>> THEN current ELSE @]
    /\ current' = next /\ next' = next + 1
    /\ named' = [named EXCEPT ![next] = value']
    /\ slipped' = (slipped \/ batch # <<>>)

CountEdit ==
    /\ edits < MaxEdits
    /\ edits' = edits + 1

\* An applied edit with a reversible step.
ApplyStep(k, v, b) ==
    /\ applying /\ CountEdit
    /\ Len(batch) < MaxBatch
    /\ v # value[k]
    /\ value' = [value EXCEPT ![k] = v]
    /\ ClearRedo(~redoCleared) /\ redoCleared' = TRUE
    /\ IF Active
       THEN PushIntoSession(Step(k, v, b)) /\ UNCHANGED batch
       ELSE batch' = Append(batch, Step(k, v, b)) /\ UNCHANGED <<editSession, ids>>
    /\ UNCHANGED <<undoStack, applying, tick>>

\* An applied edit without one (script calls, listeners, custom events).
ApplyUnrecorded ==
    /\ applying /\ CountEdit
    /\ ClearRedo(~redoCleared) /\ redoCleared' = TRUE
    /\ UNCHANGED <<value, undoStack, editSession, batch, applying, tick, ids>>

\* Leave apply_edits; what the queue recorded becomes an entry.
FinishOver(stack) ==
    /\ applying' = FALSE /\ batch' = <<>> /\ redoCleared' = FALSE
    /\ IF batch = <<>> THEN undoStack' = stack /\ UNCHANGED ids
       ELSE PushFresh(stack, batch, value)

EndApply ==
    /\ applying
    /\ FinishOver(undoStack)
    /\ UNCHANGED <<value, redoStack, editSession, tick, edits>>

\* A handler's error leaves apply_edits_internal at once: the steps recorded so
\* far are dropped, and what they did stays.
ApplyFails ==
    /\ applying /\ CountEdit
    /\ applying' = FALSE /\ batch' = <<>> /\ redoCleared' = FALSE
    /\ slipped' = (slipped \/ batch # <<>>)
    /\ UNCHANGED <<value, stacks, editSession, tick, current, next, named>>

\* A boundary error pushes what the queue recorded and leaves apply_edits_internal.
BoundaryFails == FinishOver(undoStack) /\ UNCHANGED editSession

\* Begin fails when a session is open.  Otherwise the queue goes on: the external
\* edits absorbed behind it become steps of the session.
ApplyBegin(c) ==
    /\ applying /\ CountEdit
    /\ \/ Active /\ BoundaryFails
       \/ /\ ~Active
          /\ editSession' = [NoEditSession EXCEPT !.owner = c]
          /\ UNCHANGED <<undoStack, apply, ids>>
    /\ UNCHANGED <<value, redoStack, tick>>

\* The entry of a session carries the ids its steps were given.
CloseSession ==
    /\ editSession' = NoEditSession
    /\ IF editSession.steps = <<>> THEN UNCHANGED <<undoStack, ids>>
       ELSE /\ undoStack' = Pushed(undoStack, [steps |-> editSession.steps,
                                 before |-> editSession.before, after |-> editSession.after])
            /\ current' = editSession.after
            /\ slipped' = (slipped \/ Misplaced(undoStack, editSession.steps))
            /\ UNCHANGED <<next, named>>
    /\ UNCHANGED apply

\* End fails for another client's session, or when there is none.
ApplyEnd(c) ==
    /\ applying /\ CountEdit
    /\ \/ editSession.owner # c /\ BoundaryFails
       \/ editSession.owner = c /\ CloseSession
    /\ UNCHANGED <<value, redoStack, tick>>

-----------------------------------------------------------------------------
(* Calls outside apply_edits.                                              *)

\* record_single_history_step: the intents SetParamControlState and
\* SetParamConstraints, duplication and import.
RecordSingle(k, v) ==
    /\ ~applying /\ CountEdit
    /\ v # value[k]
    /\ value' = [value EXCEPT ![k] = v]
    /\ redoStack' = <<>>
    /\ IF Active
       THEN PushIntoSession(Step(k, v, "Append")) /\ UNCHANGED undoStack
       ELSE PushFresh(undoStack, <<Step(k, v, "Append")>>, value') /\ UNCHANGED editSession
    /\ UNCHANGED <<apply, tick>>

\* Seeded fault: the steps are undone first to last.
Reverted_forward(v, steps) ==
    LET n == Len(steps)
        at[i \in 0..n] == IF i = 0 THEN v ELSE [at[i - 1] EXCEPT ![steps[i].key] = steps[i].old]
    IN  at[n]

Reverted(v, steps) ==
    LET n == Len(steps)
        at[i \in 0..n] == IF i = 0 THEN v ELSE [at[i - 1] EXCEPT ![steps[n + 1 - i].key] = steps[n + 1 - i].old]
    IN  at[n]
Replayed(v, steps) ==
    LET n == Len(steps)
        at[i \in 0..n] == IF i = 0 THEN v ELSE [at[i - 1] EXCEPT ![steps[i].key] = steps[i].new]
    IN  at[n]

\* Undo and redo look at the stacks only: an entry below the steps of an open
\* session is replayed under them.
ReplayUnderSession == slipped' = (slipped \/ editSession.steps # <<>>)

Undo ==
    /\ ~applying /\ undoStack # <<>>
    /\ value' = Reverted(value, Last(undoStack).steps)
    /\ current' = Last(undoStack).before
    /\ redoStack' = Append(redoStack, Last(undoStack))
    /\ undoStack' = Front(undoStack)
    /\ ReplayUnderSession
    /\ UNCHANGED <<editSession, apply, tick, next, named, edits>>

Redo ==
    /\ ~applying /\ redoStack # <<>>
    /\ value' = Replayed(value, Last(redoStack).steps)
    /\ current' = Last(redoStack).after
    /\ undoStack' = Append(undoStack, Last(redoStack))
    /\ redoStack' = Front(redoStack)
    /\ ReplayUnderSession
    /\ UNCHANGED <<editSession, apply, tick, next, named, edits>>

\* cancel_active_ui_edit_session_for_client: the steps are dropped, what they
\* did to the graph stays.
Cancel ==
    /\ ~applying /\ Active
    /\ editSession' = NoEditSession
    /\ slipped' = (slipped \/ editSession.steps # <<>>)
    /\ UNCHANGED <<value, stacks, apply, tick, current, next, named, edits>>

ClearHistory ==
    /\ ~applying
    /\ undoStack' = <<>> /\ redoStack' = <<>>
    /\ editSession' = NoEditSession
    /\ current' = 0 /\ next' = 1
    /\ named' = [named EXCEPT ![0] = value]
    /\ slipped' = FALSE
    /\ UNCHANGED <<value, apply, tick, edits>>

Tick ==
    /\ ~applying /\ tick < MaxTick
    /\ tick' = tick + 1
    /\ UNCHANGED <<value, stacks, editSession, apply, ids, edits>>

HistoryNext ==
    \/ StartApply \/ ApplyUnrecorded \/ EndApply \/ ApplyFails
    \/ \E k \in Keys, v \in KeyValues, b \in Behaviours : ApplyStep(k, v, b)
    \/ \E c \in Clients : ApplyBegin(c) \/ ApplyEnd(c)
    \/ \E k \in Keys, v \in KeyValues : RecordSingle(k, v)
    \/ Undo \/ Redo \/ Cancel \/ ClearHistory \/ Tick

HistorySpec == HistoryInit /\ [][HistoryNext]_historyVars

-----------------------------------------------------------------------------
(* Properties *)

NamesContent == ~applying /\ ~slipped => named[current] = value
KeepMeanings == next' >= next /\ next # 1 => \A i \in 0..(next - 1) : named'[i] = named[i]

\* "Logical content-state id for the current graph": between two calls the id
\* names the content the graph holds, through undo, redo, branching, sessions and
\* coalescing (engine/mod.rs, current_history_state_id) - unless one of five
\* things happened since the history was cleared: a batch failed after applying
\* edits, a client left in a session, undo or redo ran under a session's steps,
\* coalescing misrepresented an entry, or one queue recorded steps both before a
\* Begin and in its session.  And an id keeps its meaning until the
\* history is cleared, whatever fails or is cancelled: a client that remembers
\* the id of the saved content is never told that other content is saved
\* (current_history_state_id_tracks_undo_redo_and_branching).
IdsNameContents == []NamesContent /\ [][KeepMeanings]_historyVars

\* Undo and redo walk a line of contents: an undo gives back exactly the content
\* before the entry, a redo the one after it, and an edit starts a new branch.
Uncommitted == batch \o editSession.steps
BaseContent == Reverted(value, Uncommitted)

\* What undoing the stack from a content gives, oldest first.
UndoneFrom(content, stack) ==
    LET n == Len(stack)
        at[i \in 0..n] == IF i = 0 THEN content ELSE Reverted(at[i - 1], stack[n + 1 - i].steps)
    IN  [i \in 1..n |-> at[n + 1 - i]]
PastContents == UndoneFrom(BaseContent, undoStack)

\* What redoing the stack from a content gives, next first.
RedoneFrom(content, stack) ==
    LET n == Len(stack)
        at[i \in 0..n] == IF i = 0 THEN content ELSE Replayed(at[i - 1], stack[n + 1 - i].steps)
    IN  [i \in 1..n |-> at[i]]
FutureContents == RedoneFrom(value, redoStack)

Line == INSTANCE LinearHistory WITH
           Content <- Contents, past <- PastContents, base <- BaseContent,
           now <- value, future <- FutureContents

\* A history that lost track of the graph (slipped) is not held to it.
LineOfContents ==
    /\ Line!LinearInit
    /\ [][slipped \/ slipped' \/ Line!LinearNext
           \/ UNCHANGED <<PastContents, BaseContent, value, FutureContents>>]_historyVars
=============================================================================
