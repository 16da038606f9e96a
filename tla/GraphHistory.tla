---------------------------- MODULE GraphHistory ----------------------------
(***************************************************************************)
(* Undo and redo of structural edits: engine/history.rs over the node      *)
(* store of NodeGraph.  A drained edit batch (apply_edits_internal) records*)
(* one step per edit; undo and redo replay the steps of a transaction one  *)
(* after the other and stop at the first that fails; a new recorded edit   *)
(* and clear_history dispose transactions.  Runtime edits reach the same   *)
(* graph without being recorded (apply_edits_without_history).             *)
(*                                                                         *)
(* A node taken out of the store stays behind its reserved slot-map key,   *)
(* so a step that holds detached nodes is modelled by the set of their     *)
(* ids, "held"; the fields of a held node keep their values in NodeGraph's *)
(* functions.  Parameter steps, edit sessions and content-state ids are    *)
(* the subject of EditHistory.                                             *)
(***************************************************************************)
EXTENDS NodeGraph, SequencesExt

CONSTANTS MaxEdits,      \* bound: edits applied to the graph in a behaviour
          RuntimeEdits,  \* do unrecorded edits reach the graph?
          MayFail        \* may an edit of a recorded batch fail?

ASSUME HistoryAssumption == /\ MaxEdits \in Nat
                            /\ RuntimeEdits \in BOOLEAN
                            /\ MayFail \in BOOLEAN
\* None is not an object.
ASSUME ObjectAssumption == Nil \notin [gen : Gens, enabled : BOOLEAN, effective : BOOLEAN]

VARIABLES undoStack,  \* Engine::undo_stack
          redoStack,  \* Engine::redo_stack
          tx,         \* the transaction being recorded or replayed
          at,         \* step of tx that undo or redo replays next
          mode,       \* what the engine call in progress is doing
          edits       \* edits applied so far

history == <<undoStack, redoStack, tx, at, mode, edits>>
vars == <<graph, history>>

\* A removed or swapped-out object.
Object(n) == [gen |-> gen[n], enabled |-> enabled[n], effective |-> effective[n]]

\* What undo promises to bring back: the nodes of the store with their place
\* in the tree, their object and its enabled flag.  Kept in each transaction
\* for the properties only (ghost fields "before" and "after").
Content == [n \in live |-> <<links.parent[n], links.first[n], links.last[n],
                             links.prev[n], links.next[n], enabled[n], gen[n]>>]

NoTx == [steps |-> <<>>, before |-> <<>>, after |-> <<>>]
WithSteps(t, steps) == [steps |-> steps, before |-> t.before, after |-> t.after]

HistoryInit ==
    /\ Init
    /\ undoStack = <<>> /\ redoStack = <<>>
    /\ tx = NoTx
    /\ at = 0
    /\ mode = "idle"
    /\ edits = 0

-----------------------------------------------------------------------------
(* Recording: apply_edits with capture_history.                            *)

CanRecord == mode \in {"idle", "batch"} /\ edits < MaxEdits

\* The step of an applied edit joins the transaction of the batch; the first
\* one of the batch clears the redo stack.
Record(step) ==
    /\ edits' = edits + 1
    /\ tx' = IF mode = "idle"
             THEN [steps |-> <<step>>, before |-> Content, after |-> <<>>]
             ELSE WithSteps(tx, Append(tx.steps, step))
    /\ mode' = IF redoStack = <<>> THEN "batch" ELSE "clearRedo"
    /\ UNCHANGED <<undoStack, redoStack, at>>

AddStep(n, p) == [kind |-> "add", node |-> n, parent |-> p,
                  prev |-> links'.prev[n], next |-> links'.next[n], held |-> {}]

\* The step of an insertion or a removal whose subtree S is out of the store.
OutStep(kind, n, S) == [kind |-> kind, node |-> n, parent |-> links.parent[n],
                        prev |-> links.prev[n], next |-> links.next[n], held |-> S]

RecordedAdd ==
    /\ CanRecord
    /\ \/ \E n \in NodeId, p \in NodeId, s \in OptNode, e \in BOOLEAN :
             AddNode(n, p, s, e) /\ Record(AddStep(n, p))
       \/ \E n \in NodeId, c \in NodeId, p \in NodeId, s \in OptNode :
             AddNodeTree(n, c, p, s, TRUE) /\ Record(AddStep(n, p))

RecordedRemove ==
    /\ CanRecord
    /\ \E n \in NodeId :
          /\ RemoveNode(n)
          /\ Record(OutStep("remove", n, Subtree(links, n)))

Position(t, n) == <<t.parent[n], t.prev[n], t.next[n]>>

RecordedMove ==
    /\ CanRecord
    /\ \E n \in NodeId, p \in NodeId, s \in OptNode :
          /\ MoveNode(n, p, s)
          /\ Record([kind |-> "move", node |-> n, atNew |-> TRUE,
                     old |-> Position(links, n), new |-> Position(links', n)])

RecordedPatch ==
    /\ CanRecord
    /\ \E n \in NodeId, e \in BOOLEAN :
          /\ PatchMeta(n, e)
          /\ Record([kind |-> "patch", node |-> n, old |-> enabled[n], new |-> e])

RecordedReplace ==
    /\ CanRecord
    /\ \E n \in NodeId, e \in BOOLEAN :
          /\ ReplaceNode(n, e)
          /\ Record([kind |-> "replace", node |-> n, old |-> Object(n), new |-> Nil])

\* The queue is drained: push_undo_transaction.
EndBatch ==
    /\ mode = "batch"
    /\ undoStack' = Append(undoStack, [steps |-> tx.steps, before |-> tx.before, after |-> Content])
    /\ tx' = NoTx
    /\ mode' = "idle"
    /\ UNCHANGED <<graph, redoStack, at, edits>>

\* An edit of the batch fails in its handler, before it wrote anything or
\* half-way: the error leaves apply_edits_internal and the steps recorded so
\* far are dropped.
FailBatch ==
    /\ MayFail
    /\ CanRecord
    /\ edits' = edits + 1
    /\ \/ UNCHANGED graph
       \/ \E n \in NodeId, p \in NodeId, s \in OptNode :
             AddNodeRejected(n, p, s, TRUE) \/ MoveNodeRejected(n, p, s)
    /\ tx' = NoTx
    /\ mode' = "idle"
    /\ UNCHANGED <<undoStack, redoStack, at>>

\* apply_edits_without_history.
RuntimeEdit ==
    /\ RuntimeEdits
    /\ mode = "idle"
    /\ edits < MaxEdits
    /\ edits' = edits + 1
    /\ Next
    /\ UNCHANGED <<undoStack, redoStack, tx, at, mode>>

-----------------------------------------------------------------------------
(* Disposal: clear_redo_history, clear_history.                            *)

\* Seeded fault: a disposed removal does not release its keys.
Purged_onlyAdds(step) == IF step.kind = "add" THEN step.held ELSE {}

\* The keys a step's disposal purges.
Purged(step) ==
    CASE step.kind \in {"add", "remove"} -> step.held
      [] step.kind = "replace" -> IF step.old # Nil \/ step.new # Nil
                                  THEN {step.node} ELSE {}
      [] OTHER -> {}

\* The steps of a transaction whose disposal purges m.
PurgedBy(t, m) == {i \in 1..Len(t.steps) : m \in Purged(t.steps[i])}

\* purge_detached_node reattaches each key and removes it for good, unless a
\* live node stands behind it; reattaching a key that is not detached, or not any
\* more, panics.  Purging a key changes no other one.
PurgePanics(t) ==
    \E m \in NodeId : \E i, j \in PurgedBy(t, m) :
       slot[m] # "live" /\ (slot[m] = "detached" => i # j)

DisposeTx(t, done) ==
    /\ slot' = [m \in NodeId |-> IF slot[m] = "detached" /\ PurgedBy(t, m) # {}
                                 THEN "removed" ELSE slot[m]]
    /\ mode' = IF PurgePanics(t) THEN "panic" ELSE done
    /\ UNCHANGED <<links, enabled, effective, gen, nextGen, uuidIndex, paramCache>>

ClearRedo ==
    /\ mode = "clearRedo"
    /\ redoStack # <<>>
    /\ DisposeTx(Last(redoStack), IF Len(redoStack) = 1 THEN "batch" ELSE "clearRedo")
    /\ redoStack' = Front(redoStack)
    /\ UNCHANGED <<undoStack, tx, at, edits>>

\* clear_history empties the redo stack, then the undo stack.
ClearHistory ==
    /\ mode \in {"idle", "clearAll"}
    /\ undoStack \o redoStack # <<>>
    /\ LET fromRedo == redoStack # <<>>
           stack == IF fromRedo THEN redoStack ELSE undoStack
           left == Len(undoStack) + Len(redoStack) - 1
       IN  /\ DisposeTx(Last(stack), IF left = 0 THEN "idle" ELSE "clearAll")
           /\ redoStack' = IF fromRedo THEN Front(redoStack) ELSE redoStack
           /\ undoStack' = IF fromRedo THEN undoStack ELSE Front(undoStack)
    /\ UNCHANGED <<tx, at, edits>>

-----------------------------------------------------------------------------
(* Replaying.                                                              *)

StartUndo ==
    /\ mode = "idle"
    /\ undoStack # <<>>
    /\ mode' = "undo"
    /\ tx' = Last(undoStack)
    /\ at' = Len(Last(undoStack).steps)
    /\ undoStack' = Front(undoStack)
    /\ UNCHANGED <<graph, redoStack, edits>>

StartRedo ==
    /\ mode = "idle"
    /\ redoStack # <<>>
    /\ mode' = "redo"
    /\ tx' = Last(redoStack)
    /\ at' = 1
    /\ redoStack' = Front(redoStack)
    /\ UNCHANGED <<graph, undoStack, edits>>

EndUndo ==
    /\ mode = "undo" /\ at = 0
    /\ redoStack' = Append(redoStack, tx)
    /\ tx' = NoTx
    /\ mode' = "idle"
    /\ UNCHANGED <<graph, undoStack, at, edits>>

EndRedo ==
    /\ mode = "redo" /\ at > Len(tx.steps)
    /\ undoStack' = Append(undoStack, tx)
    /\ tx' = NoTx
    /\ at' = 0
    /\ mode' = "idle"
    /\ UNCHANGED <<graph, redoStack, edits>>

replaying == mode \in {"undo", "redo"} /\ at \in 1..Len(tx.steps)
step == tx.steps[at]

\* The step succeeded and is now "s"; go on with its neighbour.
StepDone(s) ==
    /\ tx' = WithSteps(tx, [tx.steps EXCEPT ![at] = s])
    /\ at' = IF mode = "undo" THEN at - 1 ELSE at + 1
    /\ UNCHANGED <<undoStack, redoStack, mode, edits>>

\* The step returned an error: undo or redo returns it and the transaction,
\* popped before, is gone.
StepFailed ==
    /\ tx' = NoTx
    /\ at' = 0
    /\ mode' = "idle"
    /\ UNCHANGED <<undoStack, redoStack, edits>>

\* Undo of an insertion and redo of a removal take the subtree out again,
\* with its place as it is now.
TakesOut(s) == s.kind = (IF mode = "undo" THEN "add" ELSE "remove")
PutsBack(s) == s.kind = (IF mode = "undo" THEN "remove" ELSE "add")

\* Undo of an insertion skips a node that is gone, redo of a removal fails.
Gone(n) == slot[n] # "live"

TakeOut ==
    /\ replaying /\ TakesOut(step) /\ step.held = {} /\ ~Gone(step.node)
    /\ LET n == step.node
           S == Subtree(links, n)
       IN  IF links.parent[n] = Nil \/ ~(S \subseteq live)
           THEN StepFailed /\ UNCHANGED graph
           ELSE /\ RemoveSlots(S)
                /\ links' = Detach(links, n)
                /\ StepDone(OutStep(step.kind, n, S))
                /\ UNCHANGED <<enabled, effective, gen, nextGen>>

TakeOutGone ==
    /\ replaying /\ TakesOut(step) /\ step.held = {} /\ Gone(step.node)
    /\ IF mode = "undo" THEN StepDone(step) ELSE StepFailed
    /\ UNCHANGED graph

\* Seeded fault: the uuids of the restored nodes are not registered again.
Reattach_noUuid(S) ==
    /\ slot' = [m \in NodeId |-> IF m \in S THEN "live" ELSE slot[m]]
    /\ paramCache' = [m \in NodeId |-> IF m \in S THEN gen[m] ELSE paramCache[m]]
    /\ UNCHANGED <<enabled, effective, gen, nextGen, uuidIndex>>

\* Seeded fault: the parameter cache of the restored nodes is not filled again.
Reattach_noCache(S) ==
    /\ slot' = [m \in NodeId |-> IF m \in S THEN "live" ELSE slot[m]]
    /\ uuidIndex' = uuidIndex \cup {<<m, gen[m]>> : m \in S}
    /\ UNCHANGED <<enabled, effective, gen, nextGen, paramCache>>

\* Every held node is reattached: NodeStore::reattach, register_node_uuid and the
\* parameter cache.
Reattach(S) ==
    /\ slot' = [m \in NodeId |-> IF m \in S THEN "live" ELSE slot[m]]
    /\ uuidIndex' = uuidIndex \cup {<<m, gen[m]>> : m \in S}
    /\ paramCache' = [m \in NodeId |-> IF m \in S THEN gen[m] ELSE paramCache[m]]
    /\ UNCHANGED <<enabled, effective, gen, nextGen>>

\* Seeded fault: the step goes on holding the nodes it gave back.
LinkBack_keepsHeld(s) ==
    /\ s.parent \in live'
    /\ LET b == HistoricalBounds(links, live', s.parent, s.prev, s.next)
       IN  links' = AttachBetween(links, s.node, s.parent, b[1], b[2])
    /\ StepDone(s)

\* Then the root of the subtree is linked between its historical neighbours.
LinkBack(s) ==
    IF s.parent \in live'
    THEN LET b == HistoricalBounds(links, live', s.parent, s.prev, s.next)
         IN  /\ links' = AttachBetween(links, s.node, s.parent, b[1], b[2])
             /\ StepDone([s EXCEPT !.held = {}])
    ELSE StepFailed /\ UNCHANGED links

\* Redo of an insertion and undo of a removal; NodeStore::reattach panics on a key
\* that is not detached.
PutBack ==
    /\ replaying /\ PutsBack(step) /\ step.held # {}
    /\ IF \A m \in step.held : slot[m] = "detached"
       THEN Reattach(step.held) /\ LinkBack(step)
       ELSE mode' = "panic" /\ UNCHANGED <<graph, undoStack, redoStack, tx, at, edits>>

\* Moves go back to the neighbours that were recorded, as they were recorded.
Target(s) == IF mode = "undo" THEN s.old ELSE s.new

AttachBetweenOK(t, n, p, before, after) ==
    /\ p \in live
    /\ before # Nil => before \in live /\ before # n /\ t.parent[before] = p
    /\ after # Nil => after \in live /\ after # n /\ t.parent[after] = p

MoveBack ==
    /\ replaying /\ step.kind = "move" /\ step.atNew = (mode = "undo")
    /\ LET n == step.node
           p == Target(step)[1]
           t == Detach(links, n)
           ok == AttachBetweenOK(t, n, p, Target(step)[2], Target(step)[3])
       IN  IF Gone(n) \/ links.parent[n] = Nil
           THEN StepFailed /\ UNCHANGED graph
           ELSE /\ links' = IF ok THEN AttachBetween(t, n, p, Target(step)[2], Target(step)[3])
                            ELSE t
                /\ IF ok THEN StepDone([step EXCEPT !.atNew = ~@]) ELSE StepFailed
                /\ UNCHANGED <<slot, enabled, effective, gen, nextGen, uuidIndex, paramCache>>

\* Metadata is put back as a whole; the cached effective flags stay.
PatchBack ==
    /\ replaying /\ step.kind = "patch"
    /\ IF Gone(step.node)
       THEN StepFailed /\ UNCHANGED enabled
       ELSE StepDone(step) /\ enabled' = [enabled EXCEPT ![step.node] = Target(step)]
    /\ UNCHANGED <<links, slot, effective, gen, nextGen, uuidIndex, paramCache>>

\* The held object and the live one change places.
SwapBack ==
    /\ replaying /\ step.kind = "replace" /\ Target(step) # Nil
    /\ IF Gone(step.node)
       THEN StepFailed /\ UNCHANGED graph
       ELSE /\ SwapObject(step.node, Target(step).gen, Target(step).enabled, Target(step).effective)
            /\ StepDone([kind |-> "replace", node |-> step.node,
                         old |-> IF mode = "undo" THEN Nil ELSE Object(step.node),
                         new |-> IF mode = "undo" THEN Object(step.node) ELSE Nil])
            /\ UNCHANGED <<links, slot, nextGen>>

\* A step that finds itself already undone (or redone) does nothing.
NothingToReplay ==
    /\ replaying
    /\ \/ TakesOut(step) /\ step.held # {}
       \/ PutsBack(step) /\ step.held = {}
       \/ step.kind = "move" /\ step.atNew # (mode = "undo")
       \/ step.kind = "replace" /\ Target(step) = Nil
    /\ StepDone(step)
    /\ UNCHANGED graph

HistoryNext ==
    \/ RecordedAdd \/ RecordedRemove \/ RecordedMove \/ RecordedPatch \/ RecordedReplace
    \/ EndBatch \/ FailBatch \/ RuntimeEdit
    \/ ClearRedo \/ ClearHistory
    \/ StartUndo \/ StartRedo \/ EndUndo \/ EndRedo
    \/ TakeOut \/ TakeOutGone \/ PutBack
    \/ MoveBack \/ PatchBack \/ SwapBack \/ NothingToReplay

HistorySpec == HistoryInit /\ [][HistoryNext]_vars

-----------------------------------------------------------------------------
(* Properties *)

\* Where transactions are kept: on a stack, or in work; and their steps.
Places == ({"undo"} \X (1..Len(undoStack))) \cup ({"redo"} \X (1..Len(redoStack)))
          \cup {<<"work", 1>>}
StepsAt(a) == CASE a[1] = "undo" -> undoStack[a[2]].steps
                [] a[1] = "redo" -> redoStack[a[2]].steps
                [] OTHER -> tx.steps

Held(s) == IF s.kind \in {"add", "remove"} THEN s.held ELSE {}

\* Between two calls the graph is the one the next undo starts from and the
\* one the next redo starts from, so undo gives back exactly the nodes, places,
\* objects and enabled flags of before the transaction, and redo those of after
\* it, whatever was undone, redone and branched off before.  Holds as long as
\* every edit is recorded.
UndoRestores ==
    mode = "idle" =>
       /\ undoStack # <<>> => Last(undoStack).after = Content
       /\ redoStack # <<>> => Last(redoStack).before = Content

\* No key is held by two steps of the history (the step that failed included),
\* and a held key is detached: reattaching it can not panic and disposing of
\* the step can not purge a key another step still needs.  That it is detached
\* is not claimed of the keys of replaced nodes: the disposal of an undone
\* ReplaceNode purges its key whoever holds it.
NeverReplaced == {m \in NodeId : nextGen[m] = 1}

HeldByOneStep ==
    mode # "panic" =>
       \A a \in Places : \A i \in 1..Len(StepsAt(a)) :
          /\ \A m \in Held(StepsAt(a)[i]) \cap NeverReplaced : slot[m] = "detached"
          /\ \A b \in Places : \A j \in 1..Len(StepsAt(b)) :
                <<a, i>> # <<b, j>> => Held(StepsAt(a)[i]) \cap Held(StepsAt(b)[j]) = {}

\* And no reserved key is forgotten: every detached key can still be restored by
\* a step, or is released when that step is disposed of.  Holds as long as every
\* edit is recorded and none fails.
KeysAccountedFor ==
    /\ HeldByOneStep
    /\ {m \in NodeId : slot[m] = "detached"} \subseteq
          UNION {UNION {Held(StepsAt(a)[i]) : i \in 1..Len(StepsAt(a))} : a \in Places}

\* NodeStore::reattach "Panics if id is not currently detached": no sequence of
\* edits, undo, redo and disposal gets there.
NeverPanics == mode # "panic"

=============================================================================
