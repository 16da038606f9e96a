------------------------ MODULE GraphHistory_proofs ------------------------
(***************************************************************************)
(* Proofs about GraphHistory for every set of node ids, every number of    *)
(* edits and every setting of its flags.  First the keys: a step holds     *)
(* what it took out of the store, and no two steps hold one key.  Then     *)
(* undo restores what it promises, and no reserved key is forgotten.       *)
(*                                                                         *)
(* That argument is a chain of snapshots: a transaction on a stack has one *)
(* before and one after each of its steps, and each step says how its two  *)
(* snapshots differ (StepFact) and holds what the store of the other side  *)
(* lacks.  Replaying a step moves the store from the one snapshot to the   *)
(* other (ReplayRight); edits leave what the steps hold alone              *)
(* (EditsLeaveStored); so the stacks always lead from the content of now   *)
(* back to the first one and on to the last one (UndoInv).                 *)
(***************************************************************************)
EXTENDS GraphHistory, NodeGraph_proofs, SequenceTheorems

USE HistoryAssumption

-----------------------------------------------------------------------------
(* The types of the history. *)

StoredObject == [gen : Gens, enabled : BOOLEAN, effective : BOOLEAN]
Place == OptNode \X OptNode \X OptNode

Step ==
    [kind : {"add", "remove"}, node : NodeId, parent : OptNode, prev : OptNode,
     next : OptNode, held : SUBSET NodeId]
    \cup [kind : {"move"}, node : NodeId, atNew : BOOLEAN, old : Place, new : Place]
    \cup [kind : {"patch"}, node : NodeId, old : BOOLEAN, new : BOOLEAN]
    \cup [kind : {"replace"}, node : NodeId,
          old : StoredObject \cup {Nil}, new : StoredObject \cup {Nil}]

NodeContent == OptNode \X OptNode \X OptNode \X OptNode \X OptNode \X BOOLEAN \X Gens
StoreContents == UNION {[S -> NodeContent] : S \in SUBSET NodeId}
Contents == StoreContents \cup {<<>>}

Transaction == [steps : Seq(Step), before : Contents, after : Contents]

HistoryTypeOK ==
    /\ TypeOK
    /\ undoStack \in Seq(Transaction)
    /\ redoStack \in Seq(Transaction)
    /\ tx \in Transaction
    /\ at \in Nat
    /\ mode \in {"idle", "batch", "clearRedo", "clearAll", "undo", "redo", "panic"}
    /\ edits \in Nat

\* A step holds keys that are out of the store; one that nothing was put behind
\* is still reserved.  The object a step keeps is older than the next one made.
StepSound(s) ==
    /\ \A m \in Held(s) : /\ slot[m] \in {"detached", "removed"}
                          /\ nextGen[m] = 1 => slot[m] = "detached"
    /\ s.kind = "replace" =>
          /\ nextGen[s.node] > 1
          /\ \A o \in {s.old, s.new} \ {Nil} : o.gen < nextGen[s.node]

Spots == {q \in Places \X Nat : q[2] \in 1..Len(StepsAt(q[1]))}
StepIn(q) == StepsAt(q[1])[q[2]]

\* What HeldByOneStep rests on.
KeysHeldOnce ==
    \A q \in Spots : /\ StepSound(StepIn(q))
                     /\ \A r \in Spots : q # r => Held(StepIn(q)) \cap Held(StepIn(r)) = {}

LEMMA FrontOf ==
    ASSUME NEW X, NEW q \in Seq(X), q # <<>>
    PROVE  /\ Front(q) \in Seq(X) /\ Len(Front(q)) = Len(q) - 1 /\ Len(q) \in Nat \ {0}
           /\ \A k \in 1..(Len(q) - 1) : Front(q)[k] = q[k]
           /\ Last(q) = q[Len(q)] /\ Last(q) \in X
<1>1. Len(q) \in Nat \ {0}
  OBVIOUS
<1>2. q = [k \in 1..Len(q) |-> q[k]] /\ \A k \in 1..Len(q) : q[k] \in X
  OBVIOUS
<1>3. Front(q) = SubSeq(q, 1, Len(q) - 1)
  BY DEF Front
<1>4. Front(q) \in Seq(X) /\ Len(Front(q)) = Len(q) - 1
  BY <1>1, <1>2, <1>3
<1>5. \A k \in 1..(Len(q) - 1) : Front(q)[k] = q[k]
  BY <1>1, <1>2, <1>3
<1>6. Last(q) = q[Len(q)] /\ Last(q) \in X
  BY <1>1, <1>2 DEF Last
<1>. QED
  BY <1>1, <1>4, <1>5, <1>6

LEMMA ContentType == TypeOK => Content \in Contents
<1> SUFFICES ASSUME TypeOK PROVE Content \in Contents
  OBVIOUS
<1> DEFINE C(n) == <<links.parent[n], links.first[n], links.last[n],
                     links.prev[n], links.next[n], enabled[n], gen[n]>>
<1>1. live \in SUBSET NodeId
  BY DEF live
<1>2. \A n \in NodeId : C(n) \in NodeContent
  BY DEF TypeOK, Links, NodeContent
<1>3. Content = [n \in live |-> C(n)]
  BY DEF Content
<1> HIDE DEF C
<1>4. Content \in [live -> NodeContent]
  BY <1>1, <1>2, <1>3
<1>. QED
  BY <1>1, <1>4 DEF Contents, StoreContents

LEMMA NoTxType == NoTx \in Transaction
<1>1. <<>> \in Seq(Step) /\ <<>> \in Contents
  <2>1. <<>> \in Seq(Step)
    OBVIOUS
  <2>. QED
    BY <2>1 DEF Contents
<1>. QED
  BY <1>1 DEF NoTx, Transaction

LEMMA WithStepsType ==
    ASSUME NEW t \in Transaction, NEW q \in Seq(Step)
    PROVE  WithSteps(t, q) \in Transaction
BY DEF WithSteps, Transaction

LEMMA RecordType ==
    ASSUME HistoryTypeOK, NEW s \in Step, Record(s)
    PROVE  /\ undoStack' = undoStack /\ redoStack' = redoStack /\ at' = at
           /\ tx' \in Transaction /\ edits' \in Nat
           /\ mode' \in {"batch", "clearRedo"}
<1>1. [steps |-> <<s>>, before |-> Content, after |-> <<>>] \in Transaction
  <2>1. <<s>> \in Seq(Step) /\ <<>> \in Contents
    <3>1. <<s>> \in Seq(Step)
      OBVIOUS
    <3>. QED
      BY <3>1 DEF Contents
  <2>2. Content \in Contents
    BY ContentType DEF HistoryTypeOK
  <2>. QED
    BY <2>1, <2>2 DEF Transaction
<1>2. WithSteps(tx, Append(tx.steps, s)) \in Transaction
  <2>1. tx \in Transaction /\ tx.steps \in Seq(Step)
    BY DEF HistoryTypeOK, Transaction
  <2>2. Append(tx.steps, s) \in Seq(Step)
    BY <2>1
  <2>. QED
    BY <2>1, <2>2, WithStepsType
<1>3. tx' \in Transaction
  BY <1>1, <1>2 DEF Record
<1>. QED
  BY <1>3 DEF Record, HistoryTypeOK

LEMMA StepDoneType ==
    ASSUME HistoryTypeOK, replaying, NEW s \in Step, StepDone(s)
    PROVE  /\ tx' \in Transaction /\ at' \in Nat
           /\ undoStack' = undoStack /\ redoStack' = redoStack /\ mode' = mode /\ edits' = edits
<1>1. tx \in Transaction /\ tx.steps \in Seq(Step)
  BY DEF HistoryTypeOK, Transaction
<1>2. [tx.steps EXCEPT ![at] = s] \in Seq(Step)
  <2>1. at \in 1..Len(tx.steps)
    BY DEF replaying
  <2>. QED
    BY <1>1, <2>1, ExceptSeq
<1>3. tx' \in Transaction
  BY <1>1, <1>2, WithStepsType DEF StepDone
<1>. QED
  BY <1>3 DEF StepDone, replaying

LEMMA StepFailedType ==
    ASSUME HistoryTypeOK, StepFailed
    PROVE  /\ tx' \in Transaction /\ at' \in Nat /\ mode' = "idle"
           /\ undoStack' = undoStack /\ redoStack' = redoStack /\ edits' = edits
BY NoTxType DEF StepFailed, HistoryTypeOK

\* The step being replayed.
LEMMA ReplayedStep ==
    ASSUME HistoryTypeOK, replaying
    PROVE  step \in Step /\ step.node \in NodeId
<1>1. tx.steps \in Seq(Step)
  BY DEF HistoryTypeOK, Transaction
<1>2. step \in Step
  BY <1>1 DEF replaying, step
<1>. QED
  BY <1>2 DEF Step

-----------------------------------------------------------------------------
(* Type correctness. *)

Recorded ==
    RecordedAdd \/ RecordedRemove \/ RecordedMove \/ RecordedPatch \/ RecordedReplace

\* What a new step holds just left the store.
NewStep(s) ==
    /\ Held(s) \subseteq live
    /\ \A m \in Held(s) : slot'[m] = "detached"
    /\ s.kind = "replace" =>
          /\ nextGen'[s.node] > 1
          /\ \A o \in {s.old, s.new} \ {Nil} : o.gen < nextGen'[s.node]

\* A recorded edit is an edit of NodeGraph, and records a step of the right type.
LEMMA RecordedStep ==
    ASSUME TypeOK, Recorded
    PROVE  /\ Next /\ CanRecord
           /\ \E s \in Step : Record(s) /\ NewStep(s)
<1> USE DEF CanRecord
<1>t. links \in Links /\ TypeOK'
  <2>1. Next => TypeOK'
    BY TypeStep
  <2>2. Next
    BY DEF Recorded, RecordedAdd, RecordedRemove, RecordedMove, RecordedPatch,
           RecordedReplace, Next
  <2>. QED
    BY <2>1, <2>2 DEF TypeOK
<1>l. \A n \in NodeId : /\ links'.parent[n] \in OptNode /\ links'.prev[n] \in OptNode
                        /\ links'.next[n] \in OptNode /\ links.parent[n] \in OptNode
                        /\ links.prev[n] \in OptNode /\ links.next[n] \in OptNode
  BY <1>t DEF TypeOK, Links
<1>1. ASSUME RecordedAdd PROVE Next /\ \E s \in Step : Record(s) /\ NewStep(s)
  <2>1. \A n \in NodeId, p \in NodeId : AddStep(n, p) \in Step
    BY <1>l DEF AddStep, Step, OptNode
  <2>2. \A n \in NodeId, p \in NodeId : NewStep(AddStep(n, p))
    BY DEF AddStep, NewStep, Held
  <2>. QED
    BY <1>1, <2>1, <2>2 DEF RecordedAdd, Next
<1>2. ASSUME RecordedRemove PROVE Next /\ \E s \in Step : Record(s) /\ NewStep(s)
  <2>1. \A n \in NodeId : Subtree(links, n) \in SUBSET NodeId
    BY DEF Subtree, Below
  <2>2. \A n \in NodeId : OutStep("remove", n, Subtree(links, n)) \in Step
    BY <1>l, <2>1 DEF OutStep, Step
  <2>3. ASSUME NEW n \in NodeId, RemoveNode(n)
        PROVE  NewStep(OutStep("remove", n, Subtree(links, n)))
    <3> DEFINE S == Subtree(links, n)
               s == OutStep("remove", n, S)
    <3>1. s.kind = "remove" /\ s.held = S
      BY DEF OutStep
    <3>2. S \subseteq live /\ \A m \in S : slot'[m] = "detached"
      BY <2>1, <2>3 DEF RemoveNode, RemoveSlots
    <3> HIDE DEF s, S
    <3>3. NewStep(s)
      BY <3>1, <3>2 DEF NewStep, Held
    <3>. QED
      BY <3>3 DEF s, S
  <2>. QED
    BY <1>2, <2>2, <2>3 DEF RecordedRemove, Next
<1>3. ASSUME RecordedMove PROVE Next /\ \E s \in Step : Record(s) /\ NewStep(s)
  <2>1. \A n \in NodeId : Position(links, n) \in Place /\ Position(links', n) \in Place
    BY <1>l DEF Position, Place
  <2>2. \A n \in NodeId : [kind |-> "move", node |-> n, atNew |-> TRUE,
                           old |-> Position(links, n), new |-> Position(links', n)] \in Step
    BY <2>1 DEF Step
  <2>3. \A s : s.kind = "move" => NewStep(s)
    BY DEF NewStep, Held
  <2>. QED
    BY <1>3, <2>2, <2>3 DEF RecordedMove, Next
<1>4. ASSUME RecordedPatch PROVE Next /\ \E s \in Step : Record(s) /\ NewStep(s)
  <2>1. \A n \in NodeId, e \in BOOLEAN :
           [kind |-> "patch", node |-> n, old |-> enabled[n], new |-> e] \in Step
    BY DEF Step, TypeOK
  <2>2. \A s : s.kind = "patch" => NewStep(s)
    BY DEF NewStep, Held
  <2>. QED
    BY <1>4, <2>1, <2>2 DEF RecordedPatch, Next
<1>5. ASSUME RecordedReplace PROVE Next /\ \E s \in Step : Record(s) /\ NewStep(s)
  <2>1. \A n \in NodeId : Object(n) \in StoredObject
    BY DEF Object, StoredObject, TypeOK
  <2>2. \A n \in NodeId :
           [kind |-> "replace", node |-> n, old |-> Object(n), new |-> Nil] \in Step
    BY <2>1 DEF Step
  <2>3. ASSUME NEW n \in NodeId, NEW e \in BOOLEAN, ReplaceNode(n, e)
        PROVE  NewStep([kind |-> "replace", node |-> n, old |-> Object(n), new |-> Nil])
    <3>1. nextGen'[n] = nextGen[n] + 1 /\ gen[n] < nextGen[n] /\ gen[n] \in Nat /\ nextGen[n] \in Nat
      BY <2>3 DEF ReplaceNode, TypeOK, Gens
    <3>2. \A o \in {Object(n), Nil} \ {Nil} : o.gen = gen[n]
      BY DEF Object
    <3> DEFINE s == [kind |-> "replace", node |-> n, old |-> Object(n), new |-> Nil]
    <3>3. s.kind = "replace" /\ s.node = n /\ s.old = Object(n) /\ s.new = Nil
      OBVIOUS
    <3> HIDE DEF s
    <3>4. Held(s) = {}
      BY <3>3 DEF Held
    <3>5. nextGen'[s.node] > 1 /\ \A o \in {s.old, s.new} \ {Nil} : o.gen < nextGen'[s.node]
      BY <3>1, <3>2, <3>3
    <3>7. NewStep(s)
      BY <3>4, <3>5 DEF NewStep
    <3>. QED
      BY <3>7 DEF s
  <2>. QED
    BY <1>5, <2>2, <2>3 DEF RecordedReplace, Next
<1>6. CanRecord
  BY DEF Recorded, RecordedAdd, RecordedRemove, RecordedMove, RecordedPatch, RecordedReplace
<1>. QED
  BY <1>1, <1>2, <1>3, <1>4, <1>5, <1>6 DEF Recorded

Replaying == TakeOut \/ TakeOutGone \/ PutBack \/ MoveBack \/ PatchBack \/ SwapBack
             \/ NothingToReplay

\* The neighbours that a step finds to put a node between.
LEMMA BoundsType ==
    ASSUME NEW t \in Links, NEW L \in SUBSET NodeId, NEW p \in NodeId,
           NEW b \in OptNode, NEW a \in OptNode
    PROVE  /\ HistoricalBounds(t, L, p, b, a)[1] \in OptNode
           /\ HistoricalBounds(t, L, p, b, a)[2] \in OptNode
BY DEF HistoricalBounds, Links, OptNode

LEMMA DisposeType ==
    ASSUME TypeOK, NEW t, NEW done, DisposeTx(t, done)
    PROVE  TypeOK' /\ mode' \in {"panic", done}
BY DEF TypeOK, DisposeTx, Gens, NoEntry

\* How a replayed step ends.
ReplayEnds ==
    \/ \E s \in Step : StepDone(s)
    \/ StepFailed
    \/ mode' = "panic" /\ UNCHANGED <<undoStack, redoStack, tx, at, edits>>

LEMMA ReplayType ==
    ASSUME HistoryTypeOK, KeysHeldOnce, Replaying
    PROVE  replaying /\ TypeOK' /\ ReplayEnds
<1>r. replaying
  BY DEF Replaying, TakeOut, TakeOutGone, PutBack, MoveBack, PatchBack, SwapBack, NothingToReplay
<1>s. step \in Step /\ step.node \in NodeId
  BY <1>r, ReplayedStep
<1>t. TypeOK /\ links \in Links
  BY DEF HistoryTypeOK, TypeOK
<1> USE DEF ReplayEnds
<1>1. ASSUME TakeOut PROVE TypeOK' /\ ReplayEnds
  <2> DEFINE S == Subtree(links, step.node)
  <2>1. S \in SUBSET NodeId
    BY <1>s DEF Subtree, Below
  <2>2. CASE StepFailed /\ UNCHANGED graph
    BY <2>2, <1>t DEF graph, TypeOK, Gens, NoEntry
  <2>3. CASE /\ RemoveSlots(S) /\ links' = Detach(links, step.node)
             /\ StepDone(OutStep(step.kind, step.node, S))
             /\ UNCHANGED <<enabled, effective, gen, nextGen>>
    <3>1. step.kind \in {"add", "remove"}
      BY <1>1 DEF TakeOut, TakesOut
    <3>2. OutStep(step.kind, step.node, S) \in Step
      BY <1>s, <1>t, <2>1, <3>1 DEF OutStep, Step, Links
    <3>3. links' \in Links
      BY <1>s, <1>t, <2>3, DetachType
    <3>4. TypeOK'
      BY <1>t, <2>1, <2>3, <3>3 DEF TypeOK, RemoveSlots, Gens, NoEntry
    <3>. QED
      BY <2>3, <3>2, <3>4
  <2>. QED
    BY <1>1, <2>2, <2>3 DEF TakeOut
<1>2. ASSUME TakeOutGone PROVE TypeOK' /\ ReplayEnds
  BY <1>2, <1>s, <1>t DEF TakeOutGone, graph, TypeOK, Gens, NoEntry
<1>3. ASSUME PutBack PROVE TypeOK' /\ ReplayEnds
  <2>k. step.kind \in {"add", "remove"}
    BY <1>3 DEF PutBack, PutsBack
  <2>f. /\ step.held \in SUBSET NodeId /\ step.prev \in OptNode /\ step.next \in OptNode
        /\ [step EXCEPT !.held = {}] \in Step
    BY <1>s, <2>k DEF Step
  <2>1. CASE Reattach(step.held) /\ LinkBack(step)
    <3>1. links' \in Links /\ ReplayEnds
      <4>1. CASE step.parent \in live'
        <5> DEFINE b == HistoricalBounds(links, live', step.parent, step.prev, step.next)
        <5>1. live' \in SUBSET NodeId /\ step.parent \in NodeId
          BY <4>1 DEF live
        <5>2. b[1] \in OptNode /\ b[2] \in OptNode
          BY <1>t, <2>f, <5>1, BoundsType
        <5>3. /\ links' = AttachBetween(links, step.node, step.parent, b[1], b[2])
              /\ StepDone([step EXCEPT !.held = {}])
          BY <2>1, <4>1 DEF LinkBack
        <5> HIDE DEF b
        <5>4. links' \in Links
          BY <1>s, <1>t, <5>1, <5>2, <5>3, AttachBetweenType
        <5>. QED
          BY <2>f, <5>3, <5>4
      <4>2. CASE step.parent \notin live'
        BY <1>t, <2>1, <4>2 DEF LinkBack
      <4>. QED
        BY <4>1, <4>2
    <3>2. TypeOK'
      BY <1>t, <2>f, <2>1, <3>1 DEF TypeOK, Reattach, Gens, NoEntry
    <3>. QED
      BY <3>1, <3>2
  <2>2. CASE mode' = "panic" /\ UNCHANGED <<graph, undoStack, redoStack, tx, at, edits>>
    BY <2>2, <1>t DEF graph, TypeOK, Gens, NoEntry
  <2>. QED
    BY <1>3, <2>1, <2>2 DEF PutBack
<1>4. ASSUME MoveBack PROVE TypeOK' /\ ReplayEnds
  <2>k. step.kind = "move"
    BY <1>4 DEF MoveBack
  <2>f. Target(step) \in Place /\ [step EXCEPT !.atNew = ~@] \in Step
    BY <1>s, <2>k DEF Step, Target
  <2> DEFINE p == Target(step)[1]
             b == Target(step)[2]
             a == Target(step)[3]
             d == Detach(links, step.node)
             ok == AttachBetweenOK(d, step.node, p, b, a)
  <2>1. d \in Links /\ b \in OptNode /\ a \in OptNode
    BY <1>s, <1>t, <2>f, DetachType DEF Place
  <2>2. CASE StepFailed /\ UNCHANGED graph
    BY <2>2, <1>t DEF graph, TypeOK, Gens, NoEntry
  <2>3. CASE /\ links' = IF ok THEN AttachBetween(d, step.node, p, b, a) ELSE d
             /\ IF ok THEN StepDone([step EXCEPT !.atNew = ~@]) ELSE StepFailed
             /\ UNCHANGED <<slot, enabled, effective, gen, nextGen, uuidIndex, paramCache>>
    <3>1. ok => p \in NodeId
      BY DEF AttachBetweenOK, live
    <3> HIDE DEF d, p, b, a, ok
    <3>2. links' \in Links
      BY <1>s, <2>1, <2>3, <3>1, AttachBetweenType
    <3>3. TypeOK'
      BY <1>t, <2>3, <3>2 DEF TypeOK, Gens, NoEntry
    <3>. QED
      BY <2>f, <2>3, <3>3
  <2>. QED
    BY <1>4, <2>2, <2>3 DEF MoveBack
<1>5. ASSUME PatchBack PROVE TypeOK' /\ ReplayEnds
  <2>k. step.kind = "patch"
    BY <1>5 DEF PatchBack
  <2>f. Target(step) \in BOOLEAN
    BY <1>s, <2>k DEF Step, Target
  <2>1. TypeOK'
    BY <1>5, <1>s, <1>t, <2>f DEF PatchBack, TypeOK, Gens, NoEntry
  <2>. QED
    BY <1>5, <1>s, <2>1 DEF PatchBack
<1>6. ASSUME SwapBack PROVE TypeOK' /\ ReplayEnds
  <2>k. step.kind = "replace" /\ Target(step) # Nil
    BY <1>6 DEF SwapBack
  <2> DEFINE o == Target(step)
  <2>f. o \in StoredObject /\ o \in {step.old, step.new} \ {Nil}
    BY <1>s, <2>k DEF Step, Target
  <2>n. o.gen < nextGen[step.node] /\ o.gen \in Gens
    <3>1. <<"work", 1>> \in Places /\ StepsAt(<<"work", 1>>) = tx.steps
      BY DEF Places, StepsAt
    <3>2. <<<<"work", 1>>, at>> \in Spots /\ StepIn(<<<<"work", 1>>, at>>) = step
      BY <1>r, <3>1 DEF Spots, StepIn, replaying, step
    <3>3. StepSound(step)
      BY <3>2 DEF KeysHeldOnce
    <3>. QED
      BY <2>k, <2>f, <3>3 DEF StepSound, StoredObject
  <2>1. CASE StepFailed /\ UNCHANGED graph
    BY <2>1, <1>t DEF graph, TypeOK, Gens, NoEntry
  <2>2. CASE /\ SwapObject(step.node, o.gen, o.enabled, o.effective)
             /\ StepDone([kind |-> "replace", node |-> step.node,
                          old |-> IF mode = "undo" THEN Nil ELSE Object(step.node),
                          new |-> IF mode = "undo" THEN Object(step.node) ELSE Nil])
             /\ UNCHANGED <<links, slot, nextGen>>
    <3>1. Object(step.node) \in StoredObject
      BY <1>s, <1>t DEF Object, StoredObject, TypeOK
    <3>2. [kind |-> "replace", node |-> step.node,
           old |-> IF mode = "undo" THEN Nil ELSE Object(step.node),
           new |-> IF mode = "undo" THEN Object(step.node) ELSE Nil] \in Step
      BY <1>s, <3>1 DEF Step
    <3>3. o.enabled \in BOOLEAN /\ o.effective \in BOOLEAN
      BY <2>f DEF StoredObject
    <3> HIDE DEF o
    <3>4. TypeOK'
      BY <1>s, <1>t, <2>2, <2>n, <3>3 DEF TypeOK, SwapObject, Gens, NoEntry
    <3>. QED
      BY <2>2, <3>2, <3>4
  <2>. QED
    BY <1>6, <2>1, <2>2 DEF SwapBack
<1>7. ASSUME NothingToReplay PROVE TypeOK' /\ ReplayEnds
  BY <1>7, <1>s, <1>t DEF NothingToReplay, graph, TypeOK, Gens, NoEntry
<1>. QED
  BY <1>r, <1>1, <1>2, <1>3, <1>4, <1>5, <1>6, <1>7 DEF Replaying

LEMMA HistoryTypeStep ==
    ASSUME HistoryTypeOK, mode # "panic" => KeysHeldOnce, [HistoryNext]_vars
    PROVE  HistoryTypeOK'
<1>t. TypeOK /\ tx \in Transaction /\ undoStack \in Seq(Transaction) /\ redoStack \in Seq(Transaction)
  BY DEF HistoryTypeOK
<1>u. UNCHANGED graph => TypeOK'
  BY <1>t DEF graph, TypeOK, Gens, NoEntry
<1>1. ASSUME Recorded PROVE HistoryTypeOK'
  <2>1. TypeOK'
    BY <1>1, <1>t, RecordedStep, TypeStep
  <2>2. PICK s \in Step : Record(s)
    BY <1>1, <1>t, RecordedStep
  <2>. QED
    BY <2>1, <2>2, RecordType DEF HistoryTypeOK
<1>2. ASSUME EndBatch PROVE HistoryTypeOK'
  <2> DEFINE new == [steps |-> tx.steps, before |-> tx.before, after |-> Content]
  <2>1. new \in Transaction
    BY <1>t, ContentType DEF Transaction
  <2> HIDE DEF new
  <2>2. Append(undoStack, new) \in Seq(Transaction)
    BY <1>t, <2>1
  <2>3. undoStack' = Append(undoStack, new)
    BY <1>2 DEF EndBatch, new
  <2>. QED
    BY <1>2, <1>u, <2>2, <2>3, NoTxType DEF EndBatch, HistoryTypeOK
<1>3. ASSUME FailBatch PROVE HistoryTypeOK'
  <2>1. Next \/ UNCHANGED graph
    BY <1>3 DEF FailBatch, Next
  <2>2. TypeOK'
    BY <1>t, <2>1, TypeStep
  <2>. QED
    BY <1>3, <2>2, NoTxType DEF FailBatch, HistoryTypeOK
<1>4. ASSUME RuntimeEdit PROVE HistoryTypeOK'
  <2>1. TypeOK'
    BY <1>4, <1>t, TypeStep DEF RuntimeEdit
  <2>. QED
    BY <1>4, <2>1 DEF RuntimeEdit, HistoryTypeOK
<1>5. ASSUME ClearRedo PROVE HistoryTypeOK'
  <2>1. TypeOK' /\ mode' \in {"panic", "batch", "clearRedo"}
    BY <1>5, <1>t, DisposeType DEF ClearRedo
  <2>2. redoStack # <<>> /\ redoStack' = Front(redoStack)
    BY <1>5 DEF ClearRedo
  <2>3. redoStack' \in Seq(Transaction)
    BY <1>t, <2>2, FrontOf
  <2>. QED
    BY <1>5, <2>1, <2>3 DEF ClearRedo, HistoryTypeOK
<1>6. ASSUME ClearHistory PROVE HistoryTypeOK'
  <2>1. TypeOK' /\ mode' \in {"panic", "idle", "clearAll"}
    BY <1>6, <1>t, DisposeType DEF ClearHistory
  <2>2. CASE redoStack # <<>>
    <3>1. redoStack' = Front(redoStack) /\ undoStack' = undoStack
      BY <1>6, <2>2 DEF ClearHistory
    <3>2. redoStack' \in Seq(Transaction)
      BY <1>t, <2>2, <3>1, FrontOf
    <3>. QED
      BY <1>6, <1>t, <2>1, <3>1, <3>2 DEF ClearHistory, HistoryTypeOK
  <2>3. CASE redoStack = <<>>
    <3>1. undoStack # <<>>
      BY <1>6, <2>3 DEF ClearHistory
    <3>2. redoStack' = redoStack /\ undoStack' = Front(undoStack)
      BY <1>6, <2>3 DEF ClearHistory
    <3>3. undoStack' \in Seq(Transaction)
      BY <1>t, <3>1, <3>2, FrontOf
    <3>. QED
      BY <1>6, <1>t, <2>1, <3>2, <3>3 DEF ClearHistory, HistoryTypeOK
  <2>. QED
    BY <2>2, <2>3
<1>7. ASSUME StartUndo PROVE HistoryTypeOK'
  <2>1. undoStack # <<>> /\ undoStack' = Front(undoStack) /\ tx' = Last(undoStack)
        /\ at' = Len(Last(undoStack).steps)
    BY <1>7 DEF StartUndo
  <2>2. undoStack' \in Seq(Transaction) /\ tx' \in Transaction
    BY <1>t, <2>1, FrontOf
  <2>3. tx'.steps \in Seq(Step)
    BY <2>2 DEF Transaction
  <2>4. at' \in Nat
    BY <2>1, <2>3
  <2>. QED
    BY <1>7, <1>u, <2>2, <2>4 DEF StartUndo, HistoryTypeOK
<1>8. ASSUME StartRedo PROVE HistoryTypeOK'
  <2>1. redoStack # <<>> /\ redoStack' = Front(redoStack) /\ tx' = Last(redoStack)
    BY <1>8 DEF StartRedo
  <2>2. redoStack' \in Seq(Transaction) /\ tx' \in Transaction
    BY <1>t, <2>1, FrontOf
  <2>. QED
    BY <1>8, <1>u, <2>2 DEF StartRedo, HistoryTypeOK
<1>9. ASSUME EndUndo PROVE HistoryTypeOK'
  <2>1. Append(redoStack, tx) \in Seq(Transaction)
    BY <1>t
  <2>. QED
    BY <1>9, <1>u, <2>1, NoTxType DEF EndUndo, HistoryTypeOK
<1>10. ASSUME EndRedo PROVE HistoryTypeOK'
  <2>1. Append(undoStack, tx) \in Seq(Transaction)
    BY <1>t
  <2>. QED
    BY <1>10, <1>u, <2>1, NoTxType DEF EndRedo, HistoryTypeOK
<1>11. ASSUME Replaying PROVE HistoryTypeOK'
  <2>1. replaying
    BY <1>11 DEF Replaying, TakeOut, TakeOutGone, PutBack, MoveBack, PatchBack, SwapBack,
                 NothingToReplay
  <2>2. TypeOK' /\ ReplayEnds
    BY <1>11, <2>1, ReplayType DEF replaying
  <2>3. CASE \E s \in Step : StepDone(s)
    BY <2>1, <2>2, <2>3, StepDoneType DEF HistoryTypeOK
  <2>4. CASE StepFailed
    BY <2>2, <2>4, StepFailedType DEF HistoryTypeOK
  <2>5. CASE mode' = "panic" /\ UNCHANGED <<undoStack, redoStack, tx, at, edits>>
    BY <2>2, <2>5 DEF HistoryTypeOK
  <2>. QED
    BY <2>2, <2>3, <2>4, <2>5 DEF ReplayEnds
<1>12. ASSUME UNCHANGED vars PROVE HistoryTypeOK'
  BY <1>12, <1>u DEF vars, history, HistoryTypeOK
<1>. QED
  BY <1>1, <1>2, <1>3, <1>4, <1>5, <1>6, <1>7, <1>8, <1>9, <1>10, <1>11, <1>12
     DEF HistoryNext, Recorded, Replaying

-----------------------------------------------------------------------------
(* Every reserved key belongs to one step. *)

Work == <<"work", 1>>

\* The three kinds of places, and the steps kept there.
PlacesRight ==
    /\ Work \in Places /\ StepsAt(Work) = tx.steps
    /\ \A k \in 1..Len(undoStack) : /\ <<"undo", k>> \in Places
                                    /\ StepsAt(<<"undo", k>>) = undoStack[k].steps
    /\ \A k \in 1..Len(redoStack) : /\ <<"redo", k>> \in Places
                                    /\ StepsAt(<<"redo", k>>) = redoStack[k].steps
    /\ \A a \in Places : \/ a = Work
                         \/ \E k \in 1..Len(undoStack) : a = <<"undo", k>>
                         \/ \E k \in 1..Len(redoStack) : a = <<"redo", k>>
    /\ \A a \in Places : StepsAt(a) \in Seq(Step)

LEMMA PlaceSteps == HistoryTypeOK => PlacesRight
<1> SUFFICES ASSUME HistoryTypeOK PROVE PlacesRight
  OBVIOUS
<1>1. Work \in Places /\ StepsAt(Work) = tx.steps
  BY DEF Work, Places, StepsAt
<1>2. \A k \in 1..Len(undoStack) : /\ <<"undo", k>> \in Places
                                   /\ StepsAt(<<"undo", k>>) = undoStack[k].steps
  BY DEF Places, StepsAt
<1>3. \A k \in 1..Len(redoStack) : /\ <<"redo", k>> \in Places
                                   /\ StepsAt(<<"redo", k>>) = redoStack[k].steps
  BY DEF Places, StepsAt
<1>4. \A a \in Places : \/ a = Work
                        \/ \E k \in 1..Len(undoStack) : a = <<"undo", k>>
                        \/ \E k \in 1..Len(redoStack) : a = <<"redo", k>>
  BY DEF Places, Work
<1>5. /\ tx \in Transaction /\ \A k \in 1..Len(undoStack) : undoStack[k] \in Transaction
      /\ \A k \in 1..Len(redoStack) : redoStack[k] \in Transaction
  BY DEF HistoryTypeOK
<1>6. \A t \in Transaction : t.steps \in Seq(Step)
  BY DEF Transaction
<1>7. \A a \in Places : StepsAt(a) \in Seq(Step)
  BY <1>1, <1>2, <1>3, <1>4, <1>5, <1>6
<1>. QED
  BY <1>1, <1>2, <1>3, <1>4, <1>7 DEF PlacesRight

LEMMA SpotSteps ==
    /\ \A a \in Places : \A i \in 1..Len(StepsAt(a)) :
          <<a, i>> \in Spots /\ StepIn(<<a, i>>) = StepsAt(a)[i]
    /\ \A q \in Spots : q = <<q[1], q[2]>> /\ q[1] \in Places /\ q[2] \in 1..Len(StepsAt(q[1]))
<1>1. ASSUME NEW a \in Places, NEW i \in 1..Len(StepsAt(a))
      PROVE  <<a, i>> \in Spots /\ StepIn(<<a, i>>) = StepsAt(a)[i]
  <2>1. i \in Nat
    OBVIOUS
  <2>. QED
    BY <2>1 DEF Spots, StepIn
<1>2. \A q \in Spots : q = <<q[1], q[2]>> /\ q[1] \in Places /\ q[2] \in 1..Len(StepsAt(q[1]))
  BY DEF Spots
<1>. QED
  BY <1>1, <1>2

\* Transactions change places: every one of now was somewhere before.
LEMMA TransactionsMoved ==
    ASSUME KeysHeldOnce, UNCHANGED <<slot, nextGen>>, NEW g,
           \A a \in Places' : \/ StepsAt(a)' = <<>>
                              \/ g[a] \in Places /\ StepsAt(a)' = StepsAt(g[a]),
           \A a \in Places', b \in Places' :
              StepsAt(a)' # <<>> /\ StepsAt(b)' # <<>> /\ g[a] = g[b] => a = b
    PROVE  KeysHeldOnce'
<1>1. ASSUME NEW q \in Spots'
      PROVE  /\ q[1] \in Places' /\ q = <<q[1], q[2]>>
             /\ StepsAt(q[1])' # <<>>
             /\ <<g[q[1]], q[2]>> \in Spots /\ StepIn(q)' = StepIn(<<g[q[1]], q[2]>>)
  <2>1. q = <<q[1], q[2]>> /\ q[1] \in Places' /\ q[2] \in 1..Len(StepsAt(q[1])')
    BY DEF Spots
  <2>2. StepsAt(q[1])' # <<>>
    BY <2>1
  <2>3. g[q[1]] \in Places /\ StepsAt(q[1])' = StepsAt(g[q[1]])
    BY <2>1, <2>2
  <2>4. q[2] \in 1..Len(StepsAt(g[q[1]]))
    BY <2>1, <2>3
  <2>5. <<g[q[1]], q[2]>> \in Spots /\ StepIn(<<g[q[1]], q[2]>>) = StepsAt(g[q[1]])[q[2]]
    BY <2>3, <2>4, SpotSteps
  <2>6. StepIn(q)' = StepsAt(q[1])'[q[2]]
    BY DEF StepIn
  <2>. QED
    BY <2>1, <2>2, <2>3, <2>5, <2>6
<1>2. ASSUME NEW q \in Spots' PROVE StepSound(StepIn(q))'
  <2>1. StepSound(StepIn(<<g[q[1]], q[2]>>))
    BY <1>1 DEF KeysHeldOnce
  <2>. QED
    BY <1>1, <2>1 DEF StepSound
<1>3. ASSUME NEW q \in Spots', NEW r \in Spots', q # r
      PROVE  Held(StepIn(q))' \cap Held(StepIn(r))' = {}
  <2>1. <<g[q[1]], q[2]>> # <<g[r[1]], r[2]>>
    BY <1>1, <1>3
  <2>2. Held(StepIn(<<g[q[1]], q[2]>>)) \cap Held(StepIn(<<g[r[1]], r[2]>>)) = {}
    BY <1>1, <2>1 DEF KeysHeldOnce
  <2>. QED
    BY <1>1, <2>2 DEF Held
<1>. QED
  BY <1>2, <1>3 DEF KeysHeldOnce

\* The steps stay where they are, but for one that is new or changed.
LEMMA StepsStay ==
    ASSUME KeysHeldOnce, NEW z,
           \A q \in Spots' : q # z => q \in Spots /\ StepIn(q)' = StepIn(q),
           \A q \in Spots : q # z /\ q \in Spots' => StepSound(StepIn(q))',
           z \in Spots' => /\ StepSound(StepIn(z))'
                           /\ \A q \in Spots : q # z => Held(StepIn(z)') \cap Held(StepIn(q)) = {}
    PROVE  KeysHeldOnce'
<1>1. ASSUME NEW q \in Spots' PROVE StepSound(StepIn(q))'
  <2>1. CASE q = z
    BY <2>1
  <2>2. CASE q # z
    <3>1. q \in Spots /\ StepIn(q)' = StepIn(q)
      BY <2>2
    <3>2. StepSound(StepIn(q))'
      BY <2>2, <3>1
    <3>. QED
      BY <3>2
  <2>. QED
    BY <2>1, <2>2
<1>2. ASSUME NEW q \in Spots', NEW r \in Spots', q # r
      PROVE  Held(StepIn(q)') \cap Held(StepIn(r)') = {}
  <2>1. CASE q # z /\ r # z
    BY <1>2, <2>1 DEF KeysHeldOnce
  <2>2. CASE q = z
    BY <1>2, <2>2
  <2>3. CASE r = z
    BY <1>2, <2>3
  <2>. QED
    BY <2>1, <2>2, <2>3
<1>. QED
  BY <1>1, <1>2 DEF KeysHeldOnce

\* Edits take fresh keys into the store and live ones out of it.
LEMMA EditsKeepReserved ==
    ASSUME TypeOK, [Next]_graph, NEW m \in NodeId
    PROVE  /\ slot[m] \in {"detached", "removed"} => slot'[m] = slot[m]
           /\ nextGen'[m] >= nextGen[m] /\ nextGen[m] \in Nat \ {0} /\ nextGen'[m] \in Nat
<1>1. nextGen[m] \in Nat \ {0} /\ nextGen'[m] \in Nat
  <2>1. TypeOK'
    BY TypeStep
  <2>2. nextGen[m] \in 0..(MaxGen + 1) /\ gen[m] \in 0..MaxGen /\ gen[m] < nextGen[m]
    BY DEF TypeOK, Gens
  <2>3. nextGen'[m] \in 0..(MaxGen + 1)
    BY <2>1 DEF TypeOK
  <2>. QED
    BY <2>2, <2>3
<1>t. slot \in [NodeId -> {"free", "live", "detached", "removed"}] /\ nextGen \in [NodeId -> 0..(MaxGen + 1)]
  BY DEF TypeOK
<1>2. ASSUME NEW new \in SUBSET NodeId, NEW e, Insert(new, e)
      PROVE  /\ slot[m] \in {"detached", "removed"} => slot'[m] = slot[m]
             /\ nextGen' = nextGen
  BY <1>2, <1>t DEF Insert
<1>3. ASSUME NEW n \in NodeId, RemoveNode(n)
      PROVE  /\ slot[m] \in {"detached", "removed"} => slot'[m] = slot[m]
             /\ nextGen' = nextGen
  BY <1>3, <1>t DEF RemoveNode, RemoveSlots, live
<1>4. ASSUME NEW n \in NodeId, NEW e \in BOOLEAN, ReplaceNode(n, e)
      PROVE  slot' = slot /\ nextGen'[m] >= nextGen[m]
  BY <1>1, <1>4, <1>t DEF ReplaceNode
<1>5. \/ \E new \in SUBSET NodeId : \E e : Insert(new, e)
      \/ \E n \in NodeId : RemoveNode(n)
      \/ \E n \in NodeId, e \in BOOLEAN : ReplaceNode(n, e)
      \/ slot' = slot /\ nextGen' = nextGen
  <2>1. ASSUME NEW n \in NodeId, NEW p \in NodeId, NEW s \in OptNode, NEW e \in BOOLEAN,
               AddNode(n, p, s, e) \/ AddNodeRejected(n, p, s, e)
        PROVE  \E new \in SUBSET NodeId : \E f : Insert(new, f)
    <3>1. Insert({n}, e) /\ {n} \in SUBSET NodeId
      BY <2>1 DEF AddNode, AddNodeRejected
    <3>. QED
      BY <3>1
  <2>2. ASSUME NEW n \in NodeId, NEW c \in NodeId, NEW p \in NodeId, NEW s \in OptNode,
               NEW e \in BOOLEAN, AddNodeTree(n, c, p, s, e)
        PROVE  \E new \in SUBSET NodeId : \E f : Insert(new, f)
    <3>1. Insert({n, c}, e) /\ {n, c} \in SUBSET NodeId
      BY <2>2 DEF AddNodeTree
    <3>. QED
      BY <3>1
  <2>3. ASSUME NEW n \in NodeId, NEW p \in NodeId, NEW s \in OptNode, NEW e \in BOOLEAN,
               MoveNode(n, p, s) \/ MoveNodeRejected(n, p, s) \/ PatchMeta(n, e)
        PROVE  slot' = slot /\ nextGen' = nextGen
    BY <2>3 DEF MoveNode, MoveNodeRejected, PatchMeta
  <2>4. UNCHANGED graph => slot' = slot /\ nextGen' = nextGen
    BY DEF graph
  <2>5. TRUE \in BOOLEAN /\ Nil \in OptNode
    BY DEF OptNode
  <2>6. CASE UNCHANGED graph
    BY <2>4, <2>6
  <2>7. CASE Next
    BY <2>1, <2>2, <2>3, <2>5, <2>7, Zenon DEF Next
  <2>. QED
    BY <2>6, <2>7
<1>. QED
  BY <1>1, <1>2, <1>3, <1>4, <1>5

\* What is held by a step that a change of the slots does not reach.
LEMMA SoundKept ==
    ASSUME NEW s \in Step, StepSound(s),
           \A m \in NodeId : /\ nextGen[m] \in Nat \ {0} /\ nextGen'[m] \in Nat
                             /\ nextGen'[m] >= nextGen[m],
           \A m \in Held(s) : slot'[m] = slot[m] \/ (slot'[m] = "removed" /\ nextGen'[m] # 1)
    PROVE  StepSound(s)'
<1>1. Held(s) \subseteq NodeId /\ s.node \in NodeId
  BY DEF Held, Step
<1>2. \A m \in Held(s) : /\ slot'[m] \in {"detached", "removed"}
                         /\ nextGen'[m] = 1 => slot'[m] = "detached"
  BY <1>1 DEF StepSound
<1>3. ASSUME s.kind = "replace"
      PROVE  nextGen'[s.node] > 1 /\ \A o \in {s.old, s.new} \ {Nil} : o.gen < nextGen'[s.node]
  <2>1. \A o \in {s.old, s.new} \ {Nil} : o.gen \in Nat
    BY <1>3 DEF Step, StoredObject, Gens
  <2>. QED
    BY <1>1, <1>3, <2>1 DEF StepSound
<1>. QED
  BY <1>2, <1>3 DEF StepSound

\* A batch ends, undo and redo take a transaction from a stack and put it on the
\* other one: transactions only change places.
LEMMA KeysMoved ==
    ASSUME HistoryTypeOK, HistoryTypeOK', KeysHeldOnce,
           EndBatch \/ StartUndo \/ StartRedo \/ EndUndo \/ EndRedo
    PROVE  KeysHeldOnce'
<1>p. PlacesRight /\ PlacesRight'
  BY PlaceSteps, PTL
<1>s. /\ undoStack \in Seq(Transaction) /\ redoStack \in Seq(Transaction)
      /\ undoStack' \in Seq(Transaction) /\ redoStack' \in Seq(Transaction)
      /\ Len(undoStack) \in Nat /\ Len(redoStack) \in Nat
  BY DEF HistoryTypeOK
<1>n. NoTx.steps = <<>>
  BY DEF NoTx
<1>g. UNCHANGED <<slot, nextGen>>
  BY DEF EndBatch, StartUndo, StartRedo, EndUndo, EndRedo, graph
<1>1. ASSUME EndBatch PROVE KeysHeldOnce'
  <2> DEFINE top == <<"undo", Len(undoStack) + 1>>
             g == [a \in Places' |-> IF a = top THEN Work ELSE a]
  <2>1. /\ redoStack' = redoStack /\ tx'.steps = <<>>
        /\ undoStack' = Append(undoStack, [steps |-> tx.steps, before |-> tx.before,
                                           after |-> Content])
    BY <1>1, <1>n DEF EndBatch
  <2>2. /\ Len(undoStack') = Len(undoStack) + 1
        /\ undoStack'[Len(undoStack) + 1].steps = tx.steps
        /\ \A k \in 1..Len(undoStack) : undoStack'[k] = undoStack[k]
    BY <1>s, <2>1
  <2>3. ASSUME NEW a \in Places'
        PROVE  \/ StepsAt(a)' = <<>>
               \/ g[a] \in Places /\ StepsAt(a)' = StepsAt(g[a])
    <3>1. CASE a = Work
      BY <1>p, <1>s, <2>1, <2>2, <3>1 DEF PlacesRight, Work
    <3>2. ASSUME NEW k \in 1..Len(undoStack'), a = <<"undo", k>>
          PROVE  StepsAt(a)' = StepsAt(g[a]) /\ g[a] \in Places
      <4>1. StepsAt(a)' = undoStack'[k].steps
        BY <1>p, <3>2 DEF PlacesRight
      <4>2. g[a] \in Places /\ StepsAt(g[a]) = undoStack'[k].steps
        BY <1>p, <1>s, <2>1, <2>2, <3>2 DEF PlacesRight, Work
      <4>. QED
        BY <4>1, <4>2
    <3>3. ASSUME NEW k \in 1..Len(redoStack'), a = <<"redo", k>>
          PROVE  StepsAt(a)' = StepsAt(g[a]) /\ g[a] \in Places
      <4>1. StepsAt(a)' = redoStack'[k].steps
        BY <1>p, <3>3 DEF PlacesRight
      <4>2. g[a] \in Places /\ StepsAt(g[a]) = redoStack'[k].steps
        BY <1>p, <1>s, <2>1, <2>2, <3>3 DEF PlacesRight, Work
      <4>. QED
        BY <4>1, <4>2
    <3>. QED
      BY <1>p, <3>1, <3>2, <3>3 DEF PlacesRight
  <2>4. ASSUME NEW a \in Places', NEW b \in Places',
               StepsAt(a)' # <<>>, StepsAt(b)' # <<>>, g[a] = g[b]
        PROVE  a = b
    BY <1>p, <2>1, <2>4 DEF PlacesRight, Work
  <2> HIDE DEF g
  <2>. QED
    BY <1>g, <2>3, <2>4, TransactionsMoved
<1>2. ASSUME StartUndo PROVE KeysHeldOnce'
  <2> DEFINE g == [a \in Places' |-> IF a = Work THEN <<"undo", Len(undoStack)>> ELSE a]
  <2>1. /\ undoStack # <<>> /\ redoStack' = redoStack
        /\ undoStack' = Front(undoStack) /\ tx' = Last(undoStack)
    BY <1>2 DEF StartUndo
  <2>2. /\ Len(undoStack') = Len(undoStack) - 1 /\ Len(undoStack) \in Nat \ {0}
        /\ tx' = undoStack[Len(undoStack)]
        /\ \A k \in 1..(Len(undoStack) - 1) : undoStack'[k] = undoStack[k]
    BY <1>s, <2>1, FrontOf
  <2>3. ASSUME NEW a \in Places' PROVE g[a] \in Places /\ StepsAt(a)' = StepsAt(g[a])
    <3>1. CASE a = Work
      BY <1>p, <1>s, <2>1, <2>2, <3>1 DEF PlacesRight, Work
    <3>2. ASSUME NEW k \in 1..Len(undoStack'), a = <<"undo", k>>
          PROVE  StepsAt(a)' = StepsAt(g[a]) /\ g[a] \in Places
      <4>1. StepsAt(a)' = undoStack'[k].steps
        BY <1>p, <3>2 DEF PlacesRight
      <4>2. g[a] \in Places /\ StepsAt(g[a]) = undoStack'[k].steps
        BY SMTT(20), <1>p, <1>s, <2>1, <2>2, <3>2 DEF PlacesRight, Work
      <4>. QED
        BY <4>1, <4>2
    <3>3. ASSUME NEW k \in 1..Len(redoStack'), a = <<"redo", k>>
          PROVE  StepsAt(a)' = StepsAt(g[a]) /\ g[a] \in Places
      <4>1. StepsAt(a)' = redoStack'[k].steps
        BY <1>p, <3>3 DEF PlacesRight
      <4>2. g[a] \in Places /\ StepsAt(g[a]) = redoStack'[k].steps
        BY <1>p, <1>s, <2>1, <2>2, <3>3 DEF PlacesRight, Work
      <4>. QED
        BY <4>1, <4>2
    <3>. QED
      BY <1>p, <3>1, <3>2, <3>3 DEF PlacesRight
  <2>4. ASSUME NEW a \in Places', NEW b \in Places', g[a] = g[b] PROVE a = b
    <3>1. <<"undo", Len(undoStack)>> \notin Places'
      <4>1. ~(Len(undoStack) \in 1..Len(undoStack'))
        BY <2>2
      <4>. QED
        BY <1>p, <4>1 DEF PlacesRight, Work
    <3>. QED
      BY <2>4, <3>1
  <2> HIDE DEF g
  <2>. QED
    BY <1>g, <2>3, <2>4, TransactionsMoved
<1>3. ASSUME StartRedo PROVE KeysHeldOnce'
  <2> DEFINE g == [a \in Places' |-> IF a = Work THEN <<"redo", Len(redoStack)>> ELSE a]
  <2>1. /\ redoStack # <<>> /\ undoStack' = undoStack
        /\ redoStack' = Front(redoStack) /\ tx' = Last(redoStack)
    BY <1>3 DEF StartRedo
  <2>2. /\ Len(redoStack') = Len(redoStack) - 1 /\ Len(redoStack) \in Nat \ {0}
        /\ tx' = redoStack[Len(redoStack)]
        /\ \A k \in 1..(Len(redoStack) - 1) : redoStack'[k] = redoStack[k]
    BY <1>s, <2>1, FrontOf
  <2>3. ASSUME NEW a \in Places' PROVE g[a] \in Places /\ StepsAt(a)' = StepsAt(g[a])
    <3>1. CASE a = Work
      BY <1>p, <1>s, <2>1, <2>2, <3>1 DEF PlacesRight, Work
    <3>2. ASSUME NEW k \in 1..Len(undoStack'), a = <<"undo", k>>
          PROVE  StepsAt(a)' = StepsAt(g[a]) /\ g[a] \in Places
      <4>1. StepsAt(a)' = undoStack'[k].steps
        BY <1>p, <3>2 DEF PlacesRight
      <4>2. g[a] \in Places /\ StepsAt(g[a]) = undoStack'[k].steps
        BY <1>p, <1>s, <2>1, <2>2, <3>2 DEF PlacesRight, Work
      <4>. QED
        BY <4>1, <4>2
    <3>3. ASSUME NEW k \in 1..Len(redoStack'), a = <<"redo", k>>
          PROVE  StepsAt(a)' = StepsAt(g[a]) /\ g[a] \in Places
      <4>1. StepsAt(a)' = redoStack'[k].steps
        BY <1>p, <3>3 DEF PlacesRight
      <4>2. g[a] \in Places /\ StepsAt(g[a]) = redoStack'[k].steps
        BY SMTT(20), <1>p, <1>s, <2>1, <2>2, <3>3 DEF PlacesRight, Work
      <4>. QED
        BY <4>1, <4>2
    <3>. QED
      BY <1>p, <3>1, <3>2, <3>3 DEF PlacesRight
  <2>4. ASSUME NEW a \in Places', NEW b \in Places', g[a] = g[b] PROVE a = b
    <3>1. <<"redo", Len(redoStack)>> \notin Places'
      <4>1. ~(Len(redoStack) \in 1..Len(redoStack'))
        BY <2>2
      <4>. QED
        BY <1>p, <4>1 DEF PlacesRight, Work
    <3>. QED
      BY <2>4, <3>1
  <2> HIDE DEF g
  <2>. QED
    BY <1>g, <2>3, <2>4, TransactionsMoved
<1>4. ASSUME EndUndo PROVE KeysHeldOnce'
  <2> DEFINE g == [a \in Places' |-> IF a = <<"redo", Len(redoStack) + 1>> THEN Work ELSE a]
  <2>1. undoStack' = undoStack /\ tx'.steps = <<>> /\ redoStack' = Append(redoStack, tx)
    BY <1>4, <1>n DEF EndUndo
  <2>2. /\ Len(redoStack') = Len(redoStack) + 1 /\ redoStack'[Len(redoStack) + 1] = tx
        /\ \A k \in 1..Len(redoStack) : redoStack'[k] = redoStack[k]
    BY <1>s, <2>1
  <2>3. ASSUME NEW a \in Places'
        PROVE  \/ StepsAt(a)' = <<>>
               \/ g[a] \in Places /\ StepsAt(a)' = StepsAt(g[a])
    <3>1. CASE a = Work
      BY <1>p, <1>s, <2>1, <2>2, <3>1 DEF PlacesRight, Work
    <3>2. ASSUME NEW k \in 1..Len(undoStack'), a = <<"undo", k>>
          PROVE  StepsAt(a)' = StepsAt(g[a]) /\ g[a] \in Places
      <4>1. StepsAt(a)' = undoStack'[k].steps
        BY <1>p, <3>2 DEF PlacesRight
      <4>2. g[a] \in Places /\ StepsAt(g[a]) = undoStack'[k].steps
        BY <1>p, <1>s, <2>1, <2>2, <3>2 DEF PlacesRight, Work
      <4>. QED
        BY <4>1, <4>2
    <3>3. ASSUME NEW k \in 1..Len(redoStack'), a = <<"redo", k>>
          PROVE  StepsAt(a)' = StepsAt(g[a]) /\ g[a] \in Places
      <4>1. StepsAt(a)' = redoStack'[k].steps
        BY <1>p, <3>3 DEF PlacesRight
      <4>2. g[a] \in Places /\ StepsAt(g[a]) = redoStack'[k].steps
        <5>1. CASE k = Len(redoStack) + 1
          BY <1>p, <2>2, <3>3, <5>1 DEF PlacesRight, Work
        <5>2. CASE k \in 1..Len(redoStack)
          BY <1>p, <2>2, <3>3, <5>2 DEF PlacesRight, Work
        <5>. QED
          BY <1>s, <2>2, <5>1, <5>2
      <4>. QED
        BY <4>1, <4>2
    <3>. QED
      BY <1>p, <3>1, <3>2, <3>3 DEF PlacesRight
  <2>4. ASSUME NEW a \in Places', NEW b \in Places',
               StepsAt(a)' # <<>>, StepsAt(b)' # <<>>, g[a] = g[b]
        PROVE  a = b
    BY <1>p, <2>1, <2>4 DEF PlacesRight, Work
  <2> HIDE DEF g
  <2>. QED
    BY <1>g, <2>3, <2>4, TransactionsMoved
<1>5. ASSUME EndRedo PROVE KeysHeldOnce'
  <2> DEFINE g == [a \in Places' |-> IF a = <<"undo", Len(undoStack) + 1>> THEN Work ELSE a]
  <2>1. redoStack' = redoStack /\ tx'.steps = <<>> /\ undoStack' = Append(undoStack, tx)
    BY <1>5, <1>n DEF EndRedo
  <2>2. /\ Len(undoStack') = Len(undoStack) + 1 /\ undoStack'[Len(undoStack) + 1] = tx
        /\ \A k \in 1..Len(undoStack) : undoStack'[k] = undoStack[k]
    BY <1>s, <2>1
  <2>3. ASSUME NEW a \in Places'
        PROVE  \/ StepsAt(a)' = <<>>
               \/ g[a] \in Places /\ StepsAt(a)' = StepsAt(g[a])
    <3>1. CASE a = Work
      BY <1>p, <1>s, <2>1, <2>2, <3>1 DEF PlacesRight, Work
    <3>2. ASSUME NEW k \in 1..Len(undoStack'), a = <<"undo", k>>
          PROVE  StepsAt(a)' = StepsAt(g[a]) /\ g[a] \in Places
      <4>1. StepsAt(a)' = undoStack'[k].steps
        BY <1>p, <3>2 DEF PlacesRight
      <4>2. g[a] \in Places /\ StepsAt(g[a]) = undoStack'[k].steps
        <5>1. CASE k = Len(undoStack) + 1
          BY <1>p, <2>2, <3>2, <5>1 DEF PlacesRight, Work
        <5>2. CASE k \in 1..Len(undoStack)
          BY <1>p, <2>2, <3>2, <5>2 DEF PlacesRight, Work
        <5>. QED
          BY <1>s, <2>2, <5>1, <5>2
      <4>. QED
        BY <4>1, <4>2
    <3>3. ASSUME NEW k \in 1..Len(redoStack'), a = <<"redo", k>>
          PROVE  StepsAt(a)' = StepsAt(g[a]) /\ g[a] \in Places
      <4>1. StepsAt(a)' = redoStack'[k].steps
        BY <1>p, <3>3 DEF PlacesRight
      <4>2. g[a] \in Places /\ StepsAt(g[a]) = redoStack'[k].steps
        BY <1>p, <1>s, <2>1, <2>2, <3>3 DEF PlacesRight, Work
      <4>. QED
        BY <4>1, <4>2
    <3>. QED
      BY <1>p, <3>1, <3>2, <3>3 DEF PlacesRight
  <2>4. ASSUME NEW a \in Places', NEW b \in Places',
               StepsAt(a)' # <<>>, StepsAt(b)' # <<>>, g[a] = g[b]
        PROVE  a = b
    BY <1>p, <2>1, <2>4 DEF PlacesRight, Work
  <2> HIDE DEF g
  <2>. QED
    BY <1>g, <2>3, <2>4, TransactionsMoved
<1>. QED
  BY <1>1, <1>2, <1>3, <1>4, <1>5

\* Only the transaction in work changes, and there only the n-th step is another.
LEMMA WorkChanges ==
    ASSUME HistoryTypeOK, HistoryTypeOK', UNCHANGED <<undoStack, redoStack>>, NEW n,
           \A i \in 1..Len(tx'.steps) :
              i # n => i \in 1..Len(tx.steps) /\ tx'.steps[i] = tx.steps[i]
    PROVE  /\ \A q \in Spots' : q # <<Work, n>> => q \in Spots /\ StepIn(q)' = StepIn(q)
           /\ <<Work, n>> \in Spots' => StepIn(<<Work, n>>)' = tx'.steps[n]
<1>p. PlacesRight /\ PlacesRight'
  BY PlaceSteps, PTL
<1>1. ASSUME NEW q \in Spots', q # <<Work, n>>
      PROVE  q \in Spots /\ StepIn(q)' = StepIn(q)
  <2>1. q = <<q[1], q[2]>> /\ q[1] \in Places' /\ q[2] \in 1..Len(StepsAt(q[1])') /\ q[2] \in Nat
    BY DEF Spots
  <2>2. StepIn(q)' = StepsAt(q[1])'[q[2]] /\ StepIn(q) = StepsAt(q[1])[q[2]]
    BY DEF StepIn
  <2>3. CASE q[1] = Work
    <3>1. StepsAt(Work)' = tx'.steps /\ StepsAt(Work) = tx.steps /\ Work \in Places
      BY <1>p DEF PlacesRight
    <3>2. q[2] # n
      BY <1>1, <2>1, <2>3
    <3>3. q[2] \in 1..Len(tx.steps) /\ tx'.steps[q[2]] = tx.steps[q[2]]
      BY <2>1, <2>3, <3>1, <3>2
    <3>. QED
      BY <2>1, <2>2, <2>3, <3>1, <3>3, SpotSteps
  <2>4. CASE q[1] # Work
    <3>1. q[1] \in Places /\ StepsAt(q[1])' = StepsAt(q[1])
      <4>1. ASSUME NEW k \in 1..Len(undoStack'), q[1] = <<"undo", k>>
            PROVE  q[1] \in Places /\ StepsAt(q[1])' = StepsAt(q[1])
        <5>1. k \in 1..Len(undoStack) /\ undoStack' = undoStack
          BY <4>1
        <5>2. <<"undo", k>> \in Places /\ StepsAt(<<"undo", k>>) = undoStack[k].steps
          BY <1>p, <5>1 DEF PlacesRight
        <5>3. StepsAt(<<"undo", k>>)' = undoStack'[k].steps
          BY <1>p, <4>1 DEF PlacesRight
        <5>. QED
          BY <4>1, <5>1, <5>2, <5>3
      <4>2. ASSUME NEW k \in 1..Len(redoStack'), q[1] = <<"redo", k>>
            PROVE  q[1] \in Places /\ StepsAt(q[1])' = StepsAt(q[1])
        <5>1. k \in 1..Len(redoStack) /\ redoStack' = redoStack
          BY <4>2
        <5>2. <<"redo", k>> \in Places /\ StepsAt(<<"redo", k>>) = redoStack[k].steps
          BY <1>p, <5>1 DEF PlacesRight
        <5>3. StepsAt(<<"redo", k>>)' = redoStack'[k].steps
          BY <1>p, <4>2 DEF PlacesRight
        <5>. QED
          BY <4>2, <5>1, <5>2, <5>3
      <4>. QED
        BY <1>p, <2>1, <2>4, <4>1, <4>2 DEF PlacesRight
    <3>. QED
      BY <2>1, <2>2, <3>1, SpotSteps
  <2>. QED
    BY <2>3, <2>4
<1>2. StepIn(<<Work, n>>)' = tx'.steps[n]
  <2>1. StepIn(<<Work, n>>)' = StepsAt(Work)'[n]
    BY DEF StepIn, Work
  <2>. QED
    BY <1>p, <2>1 DEF PlacesRight
<1>. QED
  BY <1>1, <1>2

LEMMA SpotType == ASSUME HistoryTypeOK, NEW q \in Spots PROVE StepIn(q) \in Step
<1>1. PlacesRight
  BY PlaceSteps
<1>2. q[1] \in Places /\ q[2] \in 1..Len(StepsAt(q[1]))
  BY DEF Spots
<1>3. StepsAt(q[1]) \in Seq(Step)
  BY <1>1, <1>2 DEF PlacesRight
<1>. QED
  BY <1>2, <1>3 DEF StepIn

\* An edit leaves what the steps hold alone.
LEMMA SoundAfterEdit ==
    ASSUME HistoryTypeOK, KeysHeldOnce, [Next]_graph, NEW q \in Spots, StepIn(q)' = StepIn(q)
    PROVE  StepSound(StepIn(q))'
<1>t. TypeOK
  BY DEF HistoryTypeOK
<1>1. StepIn(q) \in Step /\ StepSound(StepIn(q))
  BY SpotType DEF KeysHeldOnce
<1>2. \A m \in Held(StepIn(q)) : m \in NodeId /\ slot[m] \in {"detached", "removed"}
  BY <1>1 DEF Held, Step, StepSound
<1>3. \A m \in Held(StepIn(q)) : slot'[m] = slot[m]
  BY <1>t, <1>2, EditsKeepReserved
<1>4. PICK s \in Step : s = StepIn(q)
  BY <1>1
<1>5. StepSound(s)'
  BY <1>t, <1>1, <1>3, <1>4, EditsKeepReserved, SoundKept
<1>. QED
  BY <1>4, <1>5

LEMMA KeysRecorded ==
    ASSUME HistoryTypeOK, HistoryTypeOK', KeysHeldOnce, Recorded
    PROVE  KeysHeldOnce'
<1>t. TypeOK /\ tx.steps \in Seq(Step)
  BY DEF HistoryTypeOK, Transaction
<1>1. Next /\ \E s \in Step : Record(s) /\ NewStep(s)
  BY <1>t, RecordedStep
<1>2. PICK s \in Step : Record(s) /\ NewStep(s)
  BY <1>1
<1> DEFINE n == IF mode = "idle" THEN 1 ELSE Len(tx.steps) + 1
           z == <<Work, n>>
<1>3. /\ UNCHANGED <<undoStack, redoStack>>
      /\ tx'.steps = IF mode = "idle" THEN <<s>> ELSE Append(tx.steps, s)
  BY <1>2 DEF Record, WithSteps
<1>4. /\ \A i \in 1..Len(tx'.steps) : i # n => i \in 1..Len(tx.steps) /\ tx'.steps[i] = tx.steps[i]
      /\ tx'.steps[n] = s
  BY <1>t, <1>3
<1> HIDE DEF n
<1>5. PICK k : k = n
  OBVIOUS
<1>6. /\ \A q \in Spots' : q # <<Work, k>> => q \in Spots /\ StepIn(q)' = StepIn(q)
      /\ <<Work, k>> \in Spots' => StepIn(<<Work, k>>)' = s
  <2>1. /\ \A i \in 1..Len(tx'.steps) : i # k => i \in 1..Len(tx.steps) /\ tx'.steps[i] = tx.steps[i]
        /\ tx'.steps[k] = s
    BY <1>4, <1>5
  <2>. QED
    BY <1>3, <2>1, WorkChanges
<1>7. \A q \in Spots : q # <<Work, k>> /\ q \in Spots' => StepSound(StepIn(q))'
  BY <1>1, <1>6, SoundAfterEdit
<1>8. ASSUME <<Work, k>> \in Spots'
      PROVE  /\ StepSound(StepIn(<<Work, k>>))'
             /\ \A q \in Spots : q # <<Work, k>> =>
                   Held(StepIn(<<Work, k>>)') \cap Held(StepIn(q)) = {}
  <2>1. StepIn(<<Work, k>>)' = s
    BY <1>6, <1>8
  <2>2. StepSound(s)'
    BY <1>2 DEF NewStep, StepSound, Held
  <2>3. ASSUME NEW q \in Spots PROVE Held(s) \cap Held(StepIn(q)) = {}
    <3>1. \A m \in Held(StepIn(q)) : slot[m] \in {"detached", "removed"}
      BY DEF KeysHeldOnce, StepSound
    <3>. QED
      BY <1>2, <3>1 DEF NewStep, live
  <2>. QED
    BY <2>1, <2>2, <2>3
<1>. QED
  BY <1>6, <1>7, <1>8, StepsStay

\* Failed batches and unrecorded edits add no step.
LEMMA KeysUnrecorded ==
    ASSUME HistoryTypeOK, HistoryTypeOK', KeysHeldOnce, FailBatch \/ RuntimeEdit \/ UNCHANGED vars
    PROVE  KeysHeldOnce'
<1>1. /\ [Next]_graph /\ UNCHANGED <<undoStack, redoStack>>
      /\ tx' = tx \/ tx'.steps = <<>>
  <2>1. CASE FailBatch
    <3>1. ASSUME NEW n \in NodeId, NEW p \in NodeId, NEW s \in OptNode,
                 AddNodeRejected(n, p, s, TRUE) \/ MoveNodeRejected(n, p, s)
          PROVE  Next
      BY <3>1 DEF Next
    <3>. QED
      BY <2>1, <3>1 DEF FailBatch, NoTx
  <2>2. CASE RuntimeEdit
    BY <2>2 DEF RuntimeEdit
  <2>3. CASE UNCHANGED vars
    BY <2>3 DEF vars, history
  <2>. QED
    BY <2>1, <2>2, <2>3
<1>2. \A i \in 1..Len(tx'.steps) : i # 0 => i \in 1..Len(tx.steps) /\ tx'.steps[i] = tx.steps[i]
  BY <1>1
<1>3. \A q \in Spots' : q # <<Work, 0>> => q \in Spots /\ StepIn(q)' = StepIn(q)
  BY <1>1, <1>2, WorkChanges
<1>4. \A q \in Spots : q # <<Work, 0>> /\ q \in Spots' => StepSound(StepIn(q))'
  BY <1>1, <1>3, SoundAfterEdit
<1>5. <<Work, 0>> \notin Spots'
  BY DEF Spots
<1>. QED
  BY <1>3, <1>4, <1>5, StepsStay

\* A disposed transaction releases keys that no other transaction holds.
LEMMA KeysDisposed ==
    ASSUME HistoryTypeOK, HistoryTypeOK', KeysHeldOnce,
           NEW a \in Places, NEW t, t.steps = StepsAt(a), NEW done, DisposeTx(t, done),
           a \notin Places', \A b \in Places' : b \in Places /\ StepsAt(b)' = StepsAt(b)
    PROVE  KeysHeldOnce'
<1>t. TypeOK
  BY DEF HistoryTypeOK
<1>1. \A q \in Spots' : /\ q \in Spots /\ StepIn(q)' = StepIn(q) /\ q[1] # a
  <2> SUFFICES ASSUME NEW q \in Spots' PROVE q \in Spots /\ StepIn(q)' = StepIn(q) /\ q[1] # a
    OBVIOUS
  <2>1. q = <<q[1], q[2]>> /\ q[1] \in Places' /\ q[2] \in 1..Len(StepsAt(q[1])')
    BY DEF Spots
  <2>2. StepIn(q)' = StepsAt(q[1])'[q[2]] /\ StepIn(q) = StepsAt(q[1])[q[2]]
    BY DEF StepIn
  <2>. QED
    BY <2>1, <2>2, SpotSteps
<1>2. ASSUME NEW q \in Spots, q \in Spots' PROVE StepSound(StepIn(q))'
  <2>1. PICK s \in Step : s = StepIn(q)
    BY SpotType
  <2>2. StepSound(s)
    BY <2>1 DEF KeysHeldOnce
  <2>3. ASSUME NEW m \in Held(s)
        PROVE  slot'[m] = slot[m] \/ (slot'[m] = "removed" /\ nextGen'[m] # 1)
    <3>0. m \in NodeId /\ nextGen' = nextGen
      BY <2>3 DEF Held, Step, DisposeTx
    <3>1. ASSUME slot'[m] # slot[m]
          PROVE  slot'[m] = "removed" /\ PurgedBy(t, m) # {}
      BY <1>t, <3>0, <3>1 DEF DisposeTx, TypeOK
    <3>2. ASSUME NEW i \in PurgedBy(t, m) PROVE nextGen[m] # 1
      <4>1. i \in 1..Len(StepsAt(a)) /\ m \in Purged(t.steps[i]) /\ i \in Nat
        BY <3>2 DEF PurgedBy
      <4>2. /\ <<a, i>> \in Spots /\ StepIn(<<a, i>>) = t.steps[i]
            /\ <<a, i>> # q
        BY <1>1, <1>2, <4>1, SpotSteps
      <4>3. m \notin Held(t.steps[i])
        BY <2>1, <2>3, <4>2 DEF KeysHeldOnce
      <4>4. t.steps[i].kind = "replace" /\ m = t.steps[i].node
        BY <4>1, <4>3 DEF Purged, Held
      <4>5. StepSound(t.steps[i]) /\ t.steps[i] \in Step
        BY <4>2, SpotType DEF KeysHeldOnce
      <4>6. nextGen[m] > 1
        BY <4>4, <4>5 DEF StepSound
      <4>. QED
        BY <4>6
    <3>. QED
      BY <3>0, <3>1, <3>2
  <2>4. \A m \in NodeId : nextGen[m] \in Nat \ {0} /\ nextGen'[m] = nextGen[m]
    <3>1. \A m \in NodeId : nextGen[m] \in Nat /\ gen[m] \in Nat /\ gen[m] < nextGen[m]
      BY <1>t DEF TypeOK, Gens
    <3>. QED
      BY <3>1 DEF DisposeTx
  <2>5. StepSound(s)'
    BY <2>2, <2>3, <2>4, SoundKept
  <2>. QED
    BY <1>1, <1>2, <2>1, <2>5
<1>3. <<a, 0>> \notin Spots'
  BY DEF Spots
<1>. QED
  BY <1>1, <1>2, <1>3, StepsStay

LEMMA KeysCleared ==
    ASSUME HistoryTypeOK, HistoryTypeOK', KeysHeldOnce, ClearRedo \/ ClearHistory
    PROVE  KeysHeldOnce'
<1>p. PlacesRight /\ PlacesRight'
  BY PlaceSteps, PTL
<1>s. undoStack \in Seq(Transaction) /\ redoStack \in Seq(Transaction) /\ tx' = tx
  BY DEF HistoryTypeOK, ClearRedo, ClearHistory
<1>1. ASSUME redoStack # <<>>, redoStack' = Front(redoStack), undoStack' = undoStack,
             NEW done, DisposeTx(Last(redoStack), done)
      PROVE  KeysHeldOnce'
  <2>1. /\ Len(redoStack') = Len(redoStack) - 1 /\ Len(redoStack) \in Nat \ {0}
        /\ Last(redoStack) = redoStack[Len(redoStack)]
        /\ \A k \in 1..(Len(redoStack) - 1) : redoStack'[k] = redoStack[k]
    BY <1>1, <1>s, FrontOf
  <2> DEFINE a == <<"redo", Len(redoStack)>>
  <2>2. a \in Places /\ Last(redoStack).steps = StepsAt(a)
    BY <1>p, <2>1 DEF PlacesRight
  <2>3. a \notin Places'
    <3>1. ~(Len(redoStack) \in 1..Len(redoStack'))
      BY <2>1
    <3>. QED
      BY <1>p, <3>1 DEF PlacesRight, Work
  <2>4. ASSUME NEW b \in Places' PROVE b \in Places /\ StepsAt(b)' = StepsAt(b)
    <3>1. CASE b = Work
      BY <1>p, <1>s, <3>1 DEF PlacesRight
    <3>2. ASSUME NEW k \in 1..Len(undoStack'), b = <<"undo", k>>
          PROVE  b \in Places /\ StepsAt(b)' = StepsAt(b)
      BY <1>p, <1>1, <3>2 DEF PlacesRight
    <3>3. ASSUME NEW k \in 1..Len(redoStack'), b = <<"redo", k>>
          PROVE  b \in Places /\ StepsAt(b)' = StepsAt(b)
      <4>1. k \in 1..Len(redoStack) /\ redoStack'[k] = redoStack[k]
        BY <2>1, <3>3
      <4>2. b \in Places /\ StepsAt(b) = redoStack[k].steps
        BY <1>p, <3>3, <4>1 DEF PlacesRight
      <4>3. StepsAt(b)' = redoStack'[k].steps
        BY <1>p, <3>3 DEF PlacesRight
      <4>. QED
        BY <4>1, <4>2, <4>3
    <3>. QED
      BY <1>p, <3>1, <3>2, <3>3 DEF PlacesRight
  <2>5. PICK c : c = a
    OBVIOUS
  <2> HIDE DEF a
  <2>6. PICK t : t = Last(redoStack)
    OBVIOUS
  <2>7. t.steps = StepsAt(c) /\ c \in Places /\ DisposeTx(t, done)
    BY <1>1, <2>2, <2>5, <2>6
  <2>. QED
    BY <2>3, <2>4, <2>5, <2>7, KeysDisposed
<1>2. ASSUME undoStack # <<>>, undoStack' = Front(undoStack), redoStack' = redoStack,
             NEW done, DisposeTx(Last(undoStack), done)
      PROVE  KeysHeldOnce'
  <2>1. /\ Len(undoStack') = Len(undoStack) - 1 /\ Len(undoStack) \in Nat \ {0}
        /\ Last(undoStack) = undoStack[Len(undoStack)]
        /\ \A k \in 1..(Len(undoStack) - 1) : undoStack'[k] = undoStack[k]
    BY <1>2, <1>s, FrontOf
  <2> DEFINE a == <<"undo", Len(undoStack)>>
  <2>2. a \in Places /\ Last(undoStack).steps = StepsAt(a)
    BY <1>p, <2>1 DEF PlacesRight
  <2>3. a \notin Places'
    <3>1. ~(Len(undoStack) \in 1..Len(undoStack'))
      BY <2>1
    <3>. QED
      BY <1>p, <3>1 DEF PlacesRight, Work
  <2>4. ASSUME NEW b \in Places' PROVE b \in Places /\ StepsAt(b)' = StepsAt(b)
    <3>1. CASE b = Work
      BY <1>p, <1>s, <3>1 DEF PlacesRight
    <3>2. ASSUME NEW k \in 1..Len(undoStack'), b = <<"undo", k>>
          PROVE  b \in Places /\ StepsAt(b)' = StepsAt(b)
      <4>1. k \in 1..Len(undoStack) /\ undoStack'[k] = undoStack[k]
        BY <2>1, <3>2
      <4>2. b \in Places /\ StepsAt(b) = undoStack[k].steps
        BY <1>p, <3>2, <4>1 DEF PlacesRight
      <4>3. StepsAt(b)' = undoStack'[k].steps
        BY <1>p, <3>2 DEF PlacesRight
      <4>. QED
        BY <4>1, <4>2, <4>3
    <3>3. ASSUME NEW k \in 1..Len(redoStack'), b = <<"redo", k>>
          PROVE  b \in Places /\ StepsAt(b)' = StepsAt(b)
      BY <1>p, <1>2, <3>3 DEF PlacesRight
    <3>. QED
      BY <1>p, <3>1, <3>2, <3>3 DEF PlacesRight
  <2>5. PICK c : c = a
    OBVIOUS
  <2> HIDE DEF a
  <2>6. PICK t : t = Last(undoStack)
    OBVIOUS
  <2>7. t.steps = StepsAt(c) /\ c \in Places /\ DisposeTx(t, done)
    BY <1>2, <2>2, <2>5, <2>6
  <2>. QED
    BY <2>3, <2>4, <2>5, <2>7, KeysDisposed
<1>. QED
  BY <1>1, <1>2 DEF ClearRedo, ClearHistory

\* The replayed step is the one in work.
LEMMA ReplayedSpot ==
    ASSUME HistoryTypeOK, replaying
    PROVE  <<Work, at>> \in Spots /\ StepIn(<<Work, at>>) = step /\ step \in Step
<1>1. PlacesRight
  BY PlaceSteps
<1>2. Work \in Places /\ StepsAt(Work) = tx.steps /\ at \in 1..Len(tx.steps)
  BY <1>1 DEF PlacesRight, replaying
<1>. QED
  BY <1>2, SpotSteps, ReplayedStep DEF step

\* Replaying a step changes the slots of live nodes and of the ones it holds.
ReplayedSlots ==
    /\ nextGen' = nextGen
    /\ \A m \in NodeId : slot[m] # "live" /\ m \notin Held(step) => slot'[m] = slot[m]

LEMMA OthersSound ==
    ASSUME HistoryTypeOK, KeysHeldOnce, replaying, ReplayedSlots,
           NEW q \in Spots, q # <<Work, at>>, StepIn(q)' = StepIn(q)
    PROVE  StepSound(StepIn(q))'
<1>1. PICK s \in Step : s = StepIn(q)
  BY SpotType
<1>2. StepSound(s) /\ Held(s) \cap Held(step) = {}
  BY <1>1, ReplayedSpot DEF KeysHeldOnce
<1>3. \A m \in Held(s) : m \in NodeId /\ slot'[m] = slot[m]
  BY <1>2 DEF Held, Step, StepSound, ReplayedSlots
<1>4. \A m \in NodeId : nextGen[m] \in Nat \ {0} /\ nextGen'[m] = nextGen[m]
  <2>1. \A m \in NodeId : nextGen[m] \in Nat /\ gen[m] \in Nat /\ gen[m] < nextGen[m]
    BY DEF HistoryTypeOK, TypeOK, Gens
  <2>. QED
    BY <2>1 DEF ReplayedSlots
<1>5. StepSound(s)'
  BY <1>2, <1>3, <1>4, SoundKept
<1>. QED
  BY <1>1, <1>5

LEMMA KeysAfterStep ==
    ASSUME HistoryTypeOK, HistoryTypeOK', KeysHeldOnce, replaying, ReplayedSlots,
           NEW s \in Step, StepDone(s), StepSound(s)', Held(s) \subseteq live \cup Held(step)
    PROVE  KeysHeldOnce'
<1>1. PICK k : k = at
  OBVIOUS
<1>t. tx.steps \in Seq(Step) /\ k \in 1..Len(tx.steps)
  BY <1>1 DEF HistoryTypeOK, Transaction, replaying
<1>2. UNCHANGED <<undoStack, redoStack>> /\ tx'.steps = [tx.steps EXCEPT ![k] = s]
  BY <1>1 DEF StepDone, WithSteps
<1>3. /\ \A i \in 1..Len(tx'.steps) : i # k => i \in 1..Len(tx.steps) /\ tx'.steps[i] = tx.steps[i]
      /\ tx'.steps[k] = s
  BY <1>t, <1>2, ExceptSeq
<1>4. /\ \A q \in Spots' : q # <<Work, k>> => q \in Spots /\ StepIn(q)' = StepIn(q)
      /\ <<Work, k>> \in Spots' => StepIn(<<Work, k>>)' = s
  BY <1>2, <1>3, WorkChanges
<1>5. \A q \in Spots : q # <<Work, k>> /\ q \in Spots' => StepSound(StepIn(q))'
  BY <1>1, <1>4, OthersSound
<1>6. ASSUME <<Work, k>> \in Spots'
      PROVE  /\ StepSound(StepIn(<<Work, k>>))'
             /\ \A q \in Spots : q # <<Work, k>> =>
                   Held(StepIn(<<Work, k>>)') \cap Held(StepIn(q)) = {}
  <2>1. StepIn(<<Work, k>>)' = s
    BY <1>4, <1>6
  <2>2. ASSUME NEW q \in Spots, q # <<Work, k>> PROVE Held(s) \cap Held(StepIn(q)) = {}
    <3>1. \A m \in Held(StepIn(q)) : slot[m] \in {"detached", "removed"}
      BY DEF KeysHeldOnce, StepSound
    <3>2. Held(step) \cap Held(StepIn(q)) = {}
      BY <1>1, <2>2, ReplayedSpot DEF KeysHeldOnce
    <3>. QED
      BY <3>1, <3>2 DEF live
  <2>. QED
    BY <2>1, <2>2
<1>. QED
  BY <1>4, <1>5, <1>6, StepsStay

LEMMA KeysAfterFailure ==
    ASSUME HistoryTypeOK, HistoryTypeOK', KeysHeldOnce, replaying, ReplayedSlots, StepFailed
    PROVE  KeysHeldOnce'
<1>1. PICK k : k = at
  OBVIOUS
<1>2. UNCHANGED <<undoStack, redoStack>> /\ tx'.steps = <<>>
  BY DEF StepFailed, NoTx
<1>3. \A i \in 1..Len(tx'.steps) : i # k => i \in 1..Len(tx.steps) /\ tx'.steps[i] = tx.steps[i]
  BY <1>2
<1>4. \A q \in Spots' : q # <<Work, k>> => q \in Spots /\ StepIn(q)' = StepIn(q)
  BY <1>2, <1>3, WorkChanges
<1>5. \A q \in Spots : q # <<Work, k>> /\ q \in Spots' => StepSound(StepIn(q))'
  BY <1>1, <1>4, OthersSound
<1>6. <<Work, k>> \notin Spots'
  <2>1. PlacesRight'
    BY PlaceSteps, PTL
  <2>2. StepsAt(Work)' = <<>>
    BY <1>2, <2>1 DEF PlacesRight
  <2>3. \A q \in Spots' : q[2] \in 1..Len(StepsAt(q[1])')
    BY DEF Spots
  <2>. QED
    BY <2>2, <2>3
<1>. QED
  BY <1>4, <1>5, <1>6, StepsStay

LEMMA KeysReplayed ==
    ASSUME HistoryTypeOK, HistoryTypeOK', KeysHeldOnce, Replaying, mode' # "panic"
    PROVE  KeysHeldOnce'
<1>r. replaying /\ mode' \in {"idle", "undo", "redo"} \cup {mode'}
  BY DEF Replaying, TakeOut, TakeOutGone, PutBack, MoveBack, PatchBack, SwapBack, NothingToReplay
<1>s. step \in Step /\ step.node \in NodeId /\ StepSound(step)
  BY <1>r, ReplayedStep, ReplayedSpot DEF KeysHeldOnce
<1>t. slot \in [NodeId -> {"free", "live", "detached", "removed"}] /\ gen \in [NodeId -> Gens]
  BY DEF HistoryTypeOK, TypeOK
<1>n. ASSUME slot' = slot, nextGen' = nextGen PROVE ReplayedSlots
  BY <1>n DEF ReplayedSlots
\* A step that holds nothing, and a step that is left as it is.
<1>e. ASSUME NEW s \in Step, StepDone(s), Held(s) = {}, s.kind # "replace", ReplayedSlots
      PROVE  KeysHeldOnce'
  <2>1. StepSound(s)'
    BY <1>e DEF StepSound, Held
  <2>. QED
    BY <1>e, <1>r, <2>1, KeysAfterStep
<1>k. ASSUME StepDone(step), slot' = slot, nextGen' = nextGen PROVE KeysHeldOnce'
  <2>1. PICK s \in Step : s = step
    BY <1>s
  <2>2. StepSound(s)'
    BY <1>k, <1>s, <2>1 DEF StepSound
  <2>. QED
    BY <1>k, <1>n, <1>r, <2>1, <2>2, KeysAfterStep
<1>1. ASSUME TakeOut PROVE KeysHeldOnce'
  <2>1. PICK S \in SUBSET NodeId : S = Subtree(links, step.node)
    BY <1>s DEF Subtree, Below
  <2>2. CASE StepFailed /\ UNCHANGED graph
    BY <1>n, <1>r, <2>2, KeysAfterFailure DEF graph
  <2>3. CASE /\ S \subseteq live /\ RemoveSlots(S)
             /\ StepDone(OutStep(step.kind, step.node, S)) /\ nextGen' = nextGen
    <3>k. step.kind \in {"add", "remove"}
      BY <1>1 DEF TakeOut, TakesOut
    <3>1. OutStep(step.kind, step.node, S) \in Step
      <4>1. links \in Links
        BY DEF HistoryTypeOK, TypeOK
      <4>. QED
        BY <1>s, <3>k, <4>1 DEF OutStep, Step, Links
    <3>2. PICK s \in Step : s = OutStep(step.kind, step.node, S)
      BY <3>1
    <3>3. s.kind \in {"add", "remove"} /\ s.held = S /\ Held(s) = S
      BY <3>k, <3>2 DEF OutStep, Held
    <3>4. ReplayedSlots
      BY <1>t, <2>3 DEF ReplayedSlots, RemoveSlots, live
    <3>5. \A m \in S : slot'[m] = "detached"
      BY <2>3 DEF RemoveSlots
    <3>6. StepSound(s)'
      BY <3>3, <3>5 DEF StepSound, Held
    <3>. QED
      BY <1>r, <2>3, <3>2, <3>3, <3>4, <3>6, KeysAfterStep
  <2>. QED
    BY <1>1, <2>1, <2>2, <2>3 DEF TakeOut
<1>2. ASSUME TakeOutGone PROVE KeysHeldOnce'
  <2>1. slot' = slot /\ nextGen' = nextGen /\ (StepDone(step) \/ StepFailed)
    BY <1>2 DEF TakeOutGone, graph
  <2>. QED
    BY <1>k, <1>n, <1>r, <2>1, KeysAfterFailure
<1>3. ASSUME PutBack PROVE KeysHeldOnce'
  <2>k. step.kind \in {"add", "remove"} /\ Held(step) = step.held
    BY <1>3 DEF PutBack, PutsBack, Held
  <2>1. Reattach(step.held) /\ LinkBack(step)
    BY <1>3 DEF PutBack
  <2>2. ReplayedSlots
    BY <1>t, <2>k, <2>1 DEF ReplayedSlots, Reattach
  <2>3. CASE StepFailed
    BY <1>r, <2>2, <2>3, KeysAfterFailure
  <2>4. CASE StepDone([step EXCEPT !.held = {}])
    <3>1. [step EXCEPT !.held = {}] \in Step /\ [step EXCEPT !.held = {}].held = {}
          /\ [step EXCEPT !.held = {}].kind = step.kind
      BY <1>s, <2>k DEF Step
    <3>2. PICK s \in Step : s = [step EXCEPT !.held = {}]
      BY <3>1
    <3>. QED
      BY <1>e, <2>k, <2>2, <2>4, <3>1, <3>2 DEF Held
  <2>. QED
    BY <2>1, <2>3, <2>4 DEF LinkBack
<1>4. ASSUME MoveBack PROVE KeysHeldOnce'
  <2>1. /\ step.kind = "move" /\ slot' = slot /\ nextGen' = nextGen
        /\ StepFailed \/ StepDone([step EXCEPT !.atNew = ~@])
    BY <1>4 DEF MoveBack, graph
  <2>2. [step EXCEPT !.atNew = ~@] \in Step /\ [step EXCEPT !.atNew = ~@].kind = "move"
    BY <1>s, <2>1 DEF Step
  <2>3. PICK s \in Step : s = [step EXCEPT !.atNew = ~@]
    BY <2>2
  <2>4. Held(s) = {} /\ s.kind # "replace"
    BY <2>2, <2>3 DEF Held
  <2>5. CASE StepFailed
    BY <1>n, <1>r, <2>1, <2>5, KeysAfterFailure
  <2>6. CASE StepDone(s)
    BY <1>e, <1>n, <2>1, <2>4, <2>6
  <2>. QED
    BY <2>1, <2>3, <2>5, <2>6
<1>5. ASSUME PatchBack PROVE KeysHeldOnce'
  <2>1. slot' = slot /\ nextGen' = nextGen /\ (StepDone(step) \/ StepFailed)
    BY <1>5 DEF PatchBack
  <2>. QED
    BY <1>k, <1>n, <1>r, <2>1, KeysAfterFailure
<1>6. ASSUME SwapBack PROVE KeysHeldOnce'
  <2> DEFINE new == [kind |-> "replace", node |-> step.node,
                     old |-> IF mode = "undo" THEN Nil ELSE Object(step.node),
                     new |-> IF mode = "undo" THEN Object(step.node) ELSE Nil]
  <2>1. /\ step.kind = "replace" /\ slot' = slot /\ nextGen' = nextGen
        /\ StepFailed \/ StepDone(new)
    BY <1>6 DEF SwapBack, graph
  <2>2. Object(step.node) \in StoredObject
    BY <1>s DEF Object, StoredObject, HistoryTypeOK, TypeOK
  <2>3. new \in Step
    BY <1>s, <2>2 DEF Step
  <2>4. PICK s \in Step : s = new
    BY <2>3
  <2>5. /\ s.kind = "replace" /\ s.node = step.node
        /\ \A o \in {s.old, s.new} \ {Nil} : o.gen = gen[step.node]
    BY <2>4 DEF Object
  <2>6. nextGen[step.node] > 1 /\ gen[step.node] < nextGen[step.node]
    BY <1>s, <2>1 DEF StepSound, HistoryTypeOK, TypeOK
  <2>7. Held(s) = {}
    BY <2>5 DEF Held
  <2>8. StepSound(s)'
    BY <2>1, <2>5, <2>6, <2>7 DEF StepSound
  <2>9. CASE StepFailed
    BY <1>n, <1>r, <2>1, <2>9, KeysAfterFailure
  <2>10. CASE StepDone(s)
    BY <1>n, <1>r, <2>1, <2>7, <2>8, <2>10, KeysAfterStep
  <2>. QED
    BY <2>1, <2>4, <2>9, <2>10
<1>7. ASSUME NothingToReplay PROVE KeysHeldOnce'
  BY <1>7, <1>k DEF NothingToReplay, graph
<1>. QED
  BY <1>1, <1>2, <1>3, <1>4, <1>5, <1>6, <1>7 DEF Replaying

KeysInv == mode # "panic" => KeysHeldOnce

LEMMA KeysStep ==
    ASSUME HistoryTypeOK, HistoryTypeOK', KeysInv, [HistoryNext]_vars
    PROVE  KeysInv'
<1> SUFFICES ASSUME mode' # "panic" PROVE KeysHeldOnce'
  BY DEF KeysInv
<1>1. mode # "panic"
  BY DEF HistoryNext, RecordedAdd, RecordedRemove, RecordedMove, RecordedPatch, RecordedReplace,
         CanRecord, EndBatch, FailBatch, RuntimeEdit, ClearRedo, ClearHistory, StartUndo, StartRedo,
         EndUndo, EndRedo, TakeOut, TakeOutGone, PutBack, MoveBack, PatchBack, SwapBack,
         NothingToReplay, replaying, vars, history
<1>2. KeysHeldOnce
  BY <1>1 DEF KeysInv
<1>. QED
  BY <1>2, KeysRecorded, KeysUnrecorded, KeysCleared, KeysMoved, KeysReplayed
     DEF HistoryNext, Recorded, Replaying

LEMMA HistoryInitFacts == HistoryInit => HistoryTypeOK /\ KeysInv
<1> SUFFICES ASSUME HistoryInit PROVE HistoryTypeOK /\ KeysInv
  OBVIOUS
<1>1. TypeOK
  BY TreeInit DEF HistoryInit
<1>2. <<>> \in Seq(Transaction)
  OBVIOUS
<1>3. HistoryTypeOK
  BY <1>1, <1>2, NoTxType DEF HistoryInit, HistoryTypeOK
<1>4. Spots = {}
  <2>1. PlacesRight
    BY <1>3, PlaceSteps
  <2>2. \A a \in Places : StepsAt(a) = <<>>
    BY <2>1 DEF PlacesRight, HistoryInit, NoTx
  <2>. QED
    BY <2>2 DEF Spots
<1>. QED
  BY <1>3, <1>4 DEF KeysInv, KeysHeldOnce

\* Type correctness of the graph and of the history, for undo and redo in every order
\* with recorded, failing and runtime edits.
THEOREM HistoryTypeCorrect == HistorySpec => []HistoryTypeOK
<1>1. HistoryTypeOK /\ KeysInv /\ [HistoryNext]_vars => HistoryTypeOK' /\ KeysInv'
  BY HistoryTypeStep, KeysStep DEF KeysInv
<1>. QED
  BY <1>1, HistoryInitFacts, PTL DEF HistorySpec

LEMMA HeldOnceFollows == HistoryTypeOK /\ KeysInv => HeldByOneStep
<1> SUFFICES ASSUME HistoryTypeOK, KeysHeldOnce, NEW a \in Places, NEW i \in 1..Len(StepsAt(a))
             PROVE  /\ \A m \in Held(StepsAt(a)[i]) \cap NeverReplaced : slot[m] = "detached"
                    /\ \A b \in Places : \A j \in 1..Len(StepsAt(b)) :
                          <<a, i>> # <<b, j>> => Held(StepsAt(a)[i]) \cap Held(StepsAt(b)[j]) = {}
  BY DEF HeldByOneStep, KeysInv
<1>1. <<a, i>> \in Spots /\ StepIn(<<a, i>>) = StepsAt(a)[i]
  BY SpotSteps
<1>2. StepSound(StepsAt(a)[i])
  BY <1>1 DEF KeysHeldOnce
<1>3. ASSUME NEW b \in Places, NEW j \in 1..Len(StepsAt(b)), <<a, i>> # <<b, j>>
      PROVE  Held(StepsAt(a)[i]) \cap Held(StepsAt(b)[j]) = {}
  <2>1. <<b, j>> \in Spots /\ StepIn(<<b, j>>) = StepsAt(b)[j]
    BY SpotSteps
  <2>. QED
    BY <1>1, <1>3, <2>1 DEF KeysHeldOnce
<1>. QED
  BY <1>2, <1>3 DEF StepSound, NeverReplaced

\* Every reserved key is held by one step of the whole history at most, and stays
\* reserved while a step holds it (NodeStore::detach, reattach; dispose): undo, redo,
\* failing steps, runtime edits and disposal in every order hand the keys on without
\* sharing or losing the reservation.
THEOREM KeysHeldOnceCorrect == HistorySpec => []HeldByOneStep
<1>1. HistoryTypeOK /\ KeysInv /\ [HistoryNext]_vars => HistoryTypeOK' /\ KeysInv'
  BY HistoryTypeStep, KeysStep DEF KeysInv
<1>. QED
  BY <1>1, HistoryInitFacts, HeldOnceFollows, PTL DEF HistorySpec

-----------------------------------------------------------------------------
(* Without ReplaceNode edits nothing reattaches a key that is not detached. *)

FirstObjects == \A n \in NodeId : nextGen[n] = 1

LEMMA NoReplaceStep ==
    ASSUME ~MayReplace, FirstObjects, [HistoryNext]_vars
    PROVE  FirstObjects'
<1>1. Next => nextGen' = nextGen
  BY ZenonT(60)
     DEF Next, AddNode, AddNodeRejected, AddNodeTree, Insert, RemoveNode, ReplaceNode, PatchMeta,
         MoveNode, MoveNodeRejected
<1>2. nextGen' = nextGen
  <2>1. ASSUME Recorded PROVE nextGen' = nextGen
    <3>1. Next
      BY <2>1 DEF Recorded, RecordedAdd, RecordedRemove, RecordedMove, RecordedPatch,
                  RecordedReplace, Next
    <3>. QED
      BY <1>1, <3>1
  <2>2. ASSUME FailBatch PROVE nextGen' = nextGen
    BY <2>2 DEF FailBatch, graph, AddNodeRejected, Insert, MoveNodeRejected
  <2>3. ASSUME RuntimeEdit PROVE nextGen' = nextGen
    BY <1>1, <2>3 DEF RuntimeEdit
  <2>4. ASSUME ClearRedo \/ ClearHistory PROVE nextGen' = nextGen
    BY <2>4 DEF ClearRedo, ClearHistory, DisposeTx
  <2>5. ASSUME EndBatch \/ StartUndo \/ StartRedo \/ EndUndo \/ EndRedo \/ UNCHANGED vars
        PROVE  nextGen' = nextGen
    BY <2>5 DEF EndBatch, StartUndo, StartRedo, EndUndo, EndRedo, graph, vars
  <2>6. ASSUME Replaying PROVE nextGen' = nextGen
    BY <2>6 DEF Replaying, TakeOut, TakeOutGone, PutBack, MoveBack, PatchBack, SwapBack,
                NothingToReplay, Reattach, LinkBack, graph
  <2>. QED
    BY <2>1, <2>2, <2>3, <2>4, <2>5, <2>6 DEF HistoryNext, Recorded, Replaying
<1>. QED
  BY <1>2 DEF FirstObjects

\* A transaction on a stack can be disposed of.
LEMMA DisposalSafe ==
    ASSUME HistoryTypeOK, KeysHeldOnce, FirstObjects, NEW a \in Places, NEW t, t.steps = StepsAt(a)
    PROVE  ~PurgePanics(t)
<1> SUFFICES ASSUME NEW m \in NodeId, NEW i \in PurgedBy(t, m), NEW j \in PurgedBy(t, m)
             PROVE  slot[m] = "detached" /\ i = j
  BY DEF PurgePanics
<1>1. ASSUME NEW k \in PurgedBy(t, m)
      PROVE  <<a, k>> \in Spots /\ m \in Held(StepIn(<<a, k>>)) /\ StepSound(StepIn(<<a, k>>))
  <2>1. k \in 1..Len(StepsAt(a)) /\ m \in Purged(t.steps[k])
    BY DEF PurgedBy
  <2>2. <<a, k>> \in Spots /\ StepIn(<<a, k>>) = t.steps[k]
    BY <2>1, SpotSteps
  <2>3. StepSound(t.steps[k]) /\ t.steps[k] \in Step
    BY <2>2, SpotType DEF KeysHeldOnce
  <2>4. t.steps[k].kind # "replace"
    <3>1. t.steps[k].node \in NodeId
      BY <2>3 DEF Step
    <3>. QED
      BY <2>3, <3>1 DEF StepSound, FirstObjects
  <2>5. m \in Held(t.steps[k])
    BY <2>1, <2>4 DEF Purged, Held
  <2>. QED
    BY <2>2, <2>3, <2>5
<1>2. <<a, i>> = <<a, j>>
  BY <1>1 DEF KeysHeldOnce
<1>3. slot[m] = "detached"
  BY <1>1 DEF StepSound, FirstObjects
<1>. QED
  BY <1>2, <1>3

LEMMA PanicFree ==
    ASSUME HistoryTypeOK, KeysHeldOnce, FirstObjects, mode # "panic", [HistoryNext]_vars
    PROVE  mode' # "panic"
<1>p. PlacesRight
  BY PlaceSteps
<1>s. undoStack \in Seq(Transaction) /\ redoStack \in Seq(Transaction)
  BY DEF HistoryTypeOK
<1>1. redoStack # <<>> => ~PurgePanics(Last(redoStack))
  <2> SUFFICES ASSUME redoStack # <<>> PROVE ~PurgePanics(Last(redoStack))
    OBVIOUS
  <2>1. Len(redoStack) \in 1..Len(redoStack) /\ Last(redoStack) = redoStack[Len(redoStack)]
    <3>1. Len(redoStack) \in Nat \ {0} /\ Last(redoStack) = redoStack[Len(redoStack)]
      BY <1>s, FrontOf
    <3>. QED
      BY <3>1
  <2>2. PICK a \in Places : StepsAt(a) = Last(redoStack).steps
    BY <1>p, <2>1 DEF PlacesRight
  <2>3. PICK t : t = Last(redoStack)
    OBVIOUS
  <2>. QED
    BY <2>2, <2>3, DisposalSafe
<1>2. undoStack # <<>> => ~PurgePanics(Last(undoStack))
  <2> SUFFICES ASSUME undoStack # <<>> PROVE ~PurgePanics(Last(undoStack))
    OBVIOUS
  <2>1. Len(undoStack) \in 1..Len(undoStack) /\ Last(undoStack) = undoStack[Len(undoStack)]
    <3>1. Len(undoStack) \in Nat \ {0} /\ Last(undoStack) = undoStack[Len(undoStack)]
      BY <1>s, FrontOf
    <3>. QED
      BY <3>1
  <2>2. PICK a \in Places : StepsAt(a) = Last(undoStack).steps
    BY <1>p, <2>1 DEF PlacesRight
  <2>3. PICK t : t = Last(undoStack)
    OBVIOUS
  <2>. QED
    BY <2>2, <2>3, DisposalSafe
<1>3. ASSUME ClearRedo \/ ClearHistory PROVE mode' # "panic"
  <2>1. CASE ClearRedo
    BY <1>1, <2>1 DEF ClearRedo, DisposeTx
  <2>2. CASE ClearHistory
    <3>1. undoStack # <<>> \/ redoStack # <<>>
      BY <2>2 DEF ClearHistory
    <3>. QED
      BY <1>1, <1>2, <2>2, <3>1 DEF ClearHistory, DisposeTx
  <2>. QED
    BY <1>3, <2>1, <2>2
<1>4. ASSUME PutBack PROVE mode' # "panic"
  <2>1. replaying /\ Held(step) = step.held
    BY <1>4 DEF PutBack, PutsBack, Held
  <2>2. StepSound(step) /\ step \in Step
    BY <2>1, ReplayedSpot DEF KeysHeldOnce
  <2>3. \A m \in step.held : slot[m] = "detached"
    BY <2>1, <2>2 DEF StepSound, FirstObjects, Step, Held
  <2>4. LinkBack(step)
    BY <1>4, <2>3 DEF PutBack
  <2>. QED
    BY <2>1, <2>4 DEF LinkBack, StepDone, StepFailed, replaying
<1>5. ASSUME HistoryNext, ~(ClearRedo \/ ClearHistory \/ PutBack) PROVE mode' # "panic"
  BY <1>5 DEF HistoryNext, RecordedAdd, RecordedRemove, RecordedMove, RecordedPatch, RecordedReplace,
         Record, EndBatch, FailBatch, RuntimeEdit, StartUndo, StartRedo,
         EndUndo, EndRedo, TakeOut, TakeOutGone, MoveBack, PatchBack, SwapBack,
         NothingToReplay, replaying, StepDone, StepFailed
<1>. QED
  BY <1>3, <1>4, <1>5 DEF vars, history

\* NodeStore::reattach never finds a key that is not detached, as long as no node is
\* replaced: whatever is recorded, undone, redone, disposed of, edited at runtime or fails
\* in between.  (With replaced nodes it does: see graph_history_panic.)
THEOREM NeverPanicsCorrect == ASSUME ~MayReplace PROVE HistorySpec => []NeverPanics
<1>1. HistoryInit => FirstObjects /\ NeverPanics
  BY DEF HistoryInit, Init, FirstObjects, NeverPanics
<1>2. HistoryTypeOK /\ KeysInv /\ [HistoryNext]_vars => HistoryTypeOK' /\ KeysInv'
  BY HistoryTypeStep, KeysStep DEF KeysInv
<1>3. HistoryTypeOK /\ KeysInv /\ FirstObjects /\ NeverPanics /\ [HistoryNext]_vars
        => FirstObjects' /\ NeverPanics'
  BY NoReplaceStep, PanicFree DEF KeysInv, NeverPanics
<1>. QED
  BY <1>1, <1>2, <1>3, HistoryInitFacts, PTL DEF HistorySpec

-----------------------------------------------------------------------------
(* Snapshots.                                                              *)

\* What the edits and the replay keep true of the store.
StoreOK == TypeOK /\ TreeInv /\ RootOnTop /\ StoreClosed

\* A store as it was at some moment; proofs only.
Snapshots ==
    {w \in [live : SUBSET NodeId, links : Links, enabled : [NodeId -> BOOLEAN],
            gen : [NodeId -> Gens]] :
        LinksOK(w.links) /\ ParentsAcyclic(w.links) /\ ClosedIn(w.links, w.live)}

Snapshot == [live |-> live, links |-> links, enabled |-> enabled, gen |-> gen]

\* The content a snapshot shows.
Seen(w) == [n \in w.live |-> <<w.links.parent[n], w.links.first[n], w.links.last[n],
                               w.links.prev[n], w.links.next[n], w.enabled[n], w.gen[n]>>]

ObjectsAgree(v, w, L) == \A m \in L : v.enabled[m] = w.enabled[m] /\ v.gen[m] = w.gen[m]

\* The store shows what the snapshot shows.
LooksLike(w) ==
    /\ live = w.live
    /\ LinksAgree(links, w.links, live)
    /\ ObjectsAgree(Snapshot, w, live)

\* What a snapshot is made of.
LEMMA SnapshotType ==
    ASSUME NEW w \in Snapshots
    PROVE  /\ w.live \in SUBSET NodeId /\ w.links \in Links
           /\ w.enabled \in [NodeId -> BOOLEAN] /\ w.gen \in [NodeId -> Gens]
           /\ LinksOK(w.links) /\ ParentsAcyclic(w.links) /\ ClosedIn(w.links, w.live)
BY DEF Snapshots

\* The store of now is a snapshot.
LEMMA SnapshotNow ==
    ASSUME StoreOK
    PROVE  Snapshot \in Snapshots /\ LooksLike(Snapshot) /\ Content = Seen(Snapshot)
<1>1. /\ links \in Links /\ enabled \in [NodeId -> BOOLEAN] /\ gen \in [NodeId -> Gens]
      /\ live \in SUBSET NodeId
  BY DEF StoreOK, TypeOK, live
<1>2. LinksOK(links) /\ ParentsAcyclic(links) /\ ClosedIn(links, live)
  BY DEF StoreOK, TreeInv, LinkInv, StoreClosed
<1>3. Snapshot \in Snapshots
  BY <1>1, <1>2 DEF Snapshot, Snapshots
<1>4. LooksLike(Snapshot)
  BY DEF LooksLike, Snapshot, LinksAgree, ObjectsAgree
<1>. QED
  BY <1>3, <1>4 DEF Content, Seen, Snapshot

\* Looking like a snapshot is having the content it shows.
LEMMA LooksShows ==
    ASSUME NEW w \in Snapshots
    PROVE  LooksLike(w) <=> Content = Seen(w)
<1>1. ASSUME LooksLike(w) PROVE Content = Seen(w)
  BY <1>1 DEF LooksLike, LinksAgree, ObjectsAgree, Snapshot, Content, Seen
<1>2. ASSUME Content = Seen(w) PROVE LooksLike(w)
  <2>1. live = DOMAIN Content /\ w.live = DOMAIN Seen(w)
    BY DEF Content, Seen
  <2>2. live = w.live
    BY <1>2, <2>1
  <2>3. ASSUME NEW n \in live
        PROVE  /\ links.parent[n] = w.links.parent[n] /\ links.first[n] = w.links.first[n]
               /\ links.last[n] = w.links.last[n] /\ links.prev[n] = w.links.prev[n]
               /\ links.next[n] = w.links.next[n]
               /\ enabled[n] = w.enabled[n] /\ gen[n] = w.gen[n]
    <3>1. Content[n] = Seen(w)[n]
      BY <1>2
    <3>2. Content[n] = <<links.parent[n], links.first[n], links.last[n],
                         links.prev[n], links.next[n], enabled[n], gen[n]>>
      BY DEF Content
    <3>3. Seen(w)[n] = <<w.links.parent[n], w.links.first[n], w.links.last[n],
                         w.links.prev[n], w.links.next[n], w.enabled[n], w.gen[n]>>
      BY <2>2 DEF Seen
    <3>4. <<links.parent[n], links.first[n], links.last[n], links.prev[n], links.next[n],
            enabled[n], gen[n]>>
             = <<w.links.parent[n], w.links.first[n], w.links.last[n], w.links.prev[n],
                 w.links.next[n], w.enabled[n], w.gen[n]>>
      BY <3>1, <3>2, <3>3
    <3>. QED
      BY <3>4
  <2>. QED
    BY <2>2, <2>3 DEF LooksLike, LinksAgree, ObjectsAgree, Snapshot
<1>. QED
  BY <1>1, <1>2

-----------------------------------------------------------------------------
(* What a recorded step says about the snapshots before and after it.      *)

\* The subtree of n is in the one snapshot and not in the other.
TakenOut(n, big, small) ==
    /\ n \in big.live
    /\ big.links.parent[n] # Nil
    /\ small.live = big.live \ Subtree(big.links, n)
    /\ LinksAgree(small.links, Detach(big.links, n), small.live)
    /\ ObjectsAgree(small, big, small.live)

\* Nodes out of the store keep their fields, the root of the subtree its place
\* excepted.
StoredAs(S, n, w) ==
    \A m \in S : /\ links.first[m] = w.links.first[m] /\ links.last[m] = w.links.last[m]
                 /\ enabled[m] = w.enabled[m] /\ gen[m] = w.gen[m]
                 /\ IF m = n THEN links.parent[m] = Nil
                    ELSE /\ links.parent[m] = w.links.parent[m]
                         /\ links.prev[m] = w.links.prev[m]
                         /\ links.next[m] = w.links.next[m]

OutFact(s, out, big, small) ==
    /\ TakenOut(s.node, big, small)
    /\ <<s.parent, s.prev, s.next>> = Position(big.links, s.node)
    /\ IF out THEN s.held = Subtree(big.links, s.node) /\ StoredAs(s.held, s.node, big)
       ELSE s.held = {}

MoveFact(s, done, w, v) ==
    /\ s.node \in w.live /\ w.live = v.live
    /\ w.links.parent[s.node] # Nil /\ v.links.parent[s.node] # Nil
    /\ LinksAgree(Detach(w.links, s.node), Detach(v.links, s.node), w.live)
    /\ ObjectsAgree(w, v, w.live)
    /\ s.old = Position(w.links, s.node) /\ s.new = Position(v.links, s.node)
    /\ s.atNew = done

PatchFact(s, w, v) ==
    /\ s.node \in w.live /\ w.live = v.live
    /\ LinksAgree(w.links, v.links, w.live)
    /\ ObjectsAgree(w, v, w.live \ {s.node})
    /\ w.gen[s.node] = v.gen[s.node]
    /\ s.old = w.enabled[s.node] /\ s.new = v.enabled[s.node]

\* The object of a replaced node that is not in the store is in the step.
ReplaceFact(s, done, w, v) ==
    /\ s.node \in w.live /\ w.live = v.live
    /\ LinksAgree(w.links, v.links, w.live)
    /\ ObjectsAgree(w, v, w.live \ {s.node})
    /\ IF done THEN /\ s.new = Nil /\ s.old # Nil
                    /\ s.old.enabled = w.enabled[s.node] /\ s.old.gen = w.gen[s.node]
       ELSE /\ s.old = Nil /\ s.new # Nil
            /\ s.new.enabled = v.enabled[s.node] /\ s.new.gen = v.gen[s.node]

\* The step leads from w to v; "done" says on which side of it the store is.
StepFact(s, done, w, v) ==
    /\ s.kind = "add" => OutFact(s, ~done, v, w)
    /\ s.kind = "remove" => OutFact(s, done, w, v)
    /\ s.kind = "move" => MoveFact(s, done, w, v)
    /\ s.kind = "patch" => PatchFact(s, w, v)
    /\ s.kind = "replace" => ReplaceFact(s, done, w, v)

-----------------------------------------------------------------------------
(* The edits.                                                              *)

FieldsKept(m) ==
    /\ links'.parent[m] = links.parent[m] /\ links'.first[m] = links.first[m]
    /\ links'.last[m] = links.last[m] /\ links'.prev[m] = links.prev[m]
    /\ links'.next[m] = links.next[m]
    /\ enabled'[m] = enabled[m] /\ gen'[m] = gen[m]

\* Linking and unlinking write fields of nodes of the store only.
LEMMA LinkingLeavesOthers ==
    ASSUME NEW L \in SUBSET NodeId, NEW t \in Links, ClosedIn(t, L), NEW m \in NodeId, m \notin L,
           NEW n \in NodeId, NEW p \in L, NEW b \in L \cup {Nil}, NEW a \in L \cup {Nil}
    PROVE  /\ n # m => LinksAgree(AttachBetween(t, n, p, b, a), t, {m})
           /\ n \in L => LinksAgree(Detach(t, n), t, {m})
<1>1. ASSUME n # m PROVE LinksAgree(AttachBetween(t, n, p, b, a), t, {m})
  BY <1>1, NilAssumption DEF LinksAgree, AttachBetween, Links
<1>2. ASSUME n \in L PROVE LinksAgree(Detach(t, n), t, {m})
  <2>1. t.parent[n] # m /\ t.prev[n] # m /\ t.next[n] # m /\ n # m
    BY <1>2, NilAssumption DEF ClosedIn
  <2>. QED
    BY <2>1 DEF LinksAgree, Detach, Links
<1>. QED
  BY <1>1, <1>2

\* No edit writes the fields of a node that is out of the store.
LEMMA EditsLeaveStored ==
    ASSUME StoreOK, Next, NEW m \in NodeId, slot[m] \notin {"live", "free"}
    PROVE  FieldsKept(m)
<1>t. /\ links \in Links /\ slot \in [NodeId -> {"free", "live", "detached", "removed"}]
      /\ enabled \in [NodeId -> BOOLEAN] /\ gen \in [NodeId -> Gens] /\ live \in SUBSET NodeId
  BY DEF StoreOK, TypeOK, live
<1>m. m \notin live /\ m # Nil /\ slot[m] # "free"
  BY NilAssumption DEF live
<1>c. ClosedIn(links, live)
  BY DEF StoreOK, StoreClosed
<1>0. ASSUME NEW L \in SUBSET NodeId, NEW t \in Links, ClosedIn(t, L), m \notin L, NEW n \in L,
             NEW p \in L, NEW b \in L \cup {Nil}, NEW a \in L \cup {Nil}
      PROVE  /\ LinksAgree(AttachBetween(t, n, p, b, a), t, {m})
             /\ LinksAgree(Detach(t, n), t, {m})
  BY <1>0, LinkingLeavesOthers
<1>5. ASSUME NEW L \in SUBSET NodeId, NEW t \in Links, ClosedIn(t, L), m \notin L, NEW n \in L,
             NEW p \in L, NEW s \in L \cup {Nil}
      PROVE  LinksAgree(Attach(t, n, p, s), t, {m})
  <2> DEFINE b == AttachPrev(t, p, s)
  <2>1. b \in L \cup {Nil} /\ NextAfter(t, p, b) \in L \cup {Nil}
    BY <1>5 DEF ClosedIn, AttachPrev, NextAfter
  <2>. QED
    BY <1>5, <2>1, <1>0 DEF Attach
<1>1. ASSUME NEW new \in SUBSET NodeId, NEW e, Insert(new, e)
      PROVE  /\ m \notin live \cup new /\ ClosedIn(links, live \cup new)
             /\ enabled'[m] = enabled[m] /\ gen'[m] = gen[m]
  <2>1. \A x \in new : {links.parent[x], links.first[x], links.last[x],
                        links.prev[x], links.next[x]} = {Nil}
    BY <1>1, FreshNoLinks DEF Insert, StoreOK
  <2>2. m \notin new
    BY <1>1, <1>m DEF Insert
  <2>3. ClosedIn(links, live \cup new)
    BY <2>1, <1>c DEF ClosedIn
  <2>. QED
    BY <1>1, <1>t, <1>m, <2>2, <2>3 DEF Insert
<1> SUFFICES LinksAgree(links', links, {m}) /\ enabled'[m] = enabled[m] /\ gen'[m] = gen[m]
  BY DEF FieldsKept, LinksAgree
<1>2. ASSUME NEW n \in NodeId, NEW p \in NodeId, NEW s \in OptNode, NEW e \in BOOLEAN,
             AddNode(n, p, s, e) \/ AddNodeRejected(n, p, s, e)
      PROVE  LinksAgree(links', links, {m}) /\ enabled'[m] = enabled[m] /\ gen'[m] = gen[m]
  <2>1. {n} \in SUBSET NodeId /\ Insert({n}, e)
    BY <1>2 DEF AddNode, AddNodeRejected
  <2>2. /\ m \notin live \cup {n} /\ ClosedIn(links, live \cup {n})
        /\ enabled'[m] = enabled[m] /\ gen'[m] = gen[m]
    BY <2>1, <1>1
  <2>3. CASE AddNode(n, p, s, e)
    <3>1. p \in live /\ s \in live \cup {Nil} /\ links' = Attach(links, n, p, s)
      BY <2>3 DEF AddNode, SiblingOK
    <3> DEFINE L == live \cup {n}
    <3>l. /\ L \in SUBSET NodeId /\ n \in L /\ p \in L /\ s \in L \cup {Nil}
          /\ ClosedIn(links, L) /\ m \notin L
      BY <3>1, <2>2, <1>t
    <3> HIDE DEF L
    <3>2. LinksAgree(Attach(links, n, p, s), links, {m})
      BY <3>l, <1>t, <1>5
    <3>. QED
      BY <3>1, <3>2, <2>2
  <2>4. CASE AddNodeRejected(n, p, s, e)
    BY <2>2, <2>4 DEF AddNodeRejected, LinksAgree
  <2>. QED
    BY <1>2, <2>3, <2>4
<1>3. ASSUME NEW n \in NodeId, NEW c \in NodeId, NEW p \in NodeId, NEW s \in OptNode,
             NEW e \in BOOLEAN, AddNodeTree(n, c, p, s, e)
      PROVE  LinksAgree(links', links, {m}) /\ enabled'[m] = enabled[m] /\ gen'[m] = gen[m]
  <2>1. {n, c} \in SUBSET NodeId /\ Insert({n, c}, e)
    BY <1>3 DEF AddNodeTree
  <2>2. /\ m \notin live \cup {n, c} /\ ClosedIn(links, live \cup {n, c})
        /\ enabled'[m] = enabled[m] /\ gen'[m] = gen[m]
    BY <2>1, <1>1
  <2>3. p \in live /\ s \in live \cup {Nil} /\ links' = Attach(Attach(links, n, p, s), c, n, Nil)
    BY <1>3 DEF AddNodeTree, SiblingOK
  <2> DEFINE L == live \cup {n, c}
             t == Attach(links, n, p, s)
  <2>l. /\ L \in SUBSET NodeId /\ n \in L /\ c \in L /\ p \in L /\ s \in L \cup {Nil}
        /\ Nil \in L \cup {Nil} /\ ClosedIn(links, L) /\ m \notin L
    BY <2>2, <2>3, <1>t
  <2>4. LinksAgree(t, links, {m}) /\ t \in Links /\ ClosedIn(t, L)
    <3> HIDE DEF L
    <3>1. LinksAgree(t, links, {m})
      BY <2>l, <1>t, <1>5
    <3>2. t \in Links
      BY <2>2, <2>3, <1>t, AttachType
    <3>3. ClosedIn(t, L)
      BY <2>l, <1>t, AttachNodeClosed
    <3>. QED
      BY <3>1, <3>2, <3>3
  <2> HIDE DEF L, t
  <2>5. LinksAgree(Attach(t, c, n, Nil), t, {m})
    BY <2>l, <2>4, <1>5
  <2>6. LinksAgree(links', Attach(links, n, p, s), {m}) /\ LinksAgree(Attach(links, n, p, s), links, {m})
    BY <2>3, <2>4, <2>5 DEF t
  <2>. QED
    BY <2>2, <2>6 DEF LinksAgree
<1>4. ASSUME NEW n \in NodeId, RemoveNode(n)
      PROVE  LinksAgree(links', links, {m}) /\ enabled'[m] = enabled[m] /\ gen'[m] = gen[m]
  <2>1. n \in live /\ links' = Detach(links, n) /\ UNCHANGED <<enabled, gen>>
    BY <1>4 DEF RemoveNode
  <2>. QED
    BY <2>1, <1>0, <1>t, <1>c, <1>m
<1>6. ASSUME NEW n \in NodeId, NEW e \in BOOLEAN, ReplaceNode(n, e) \/ PatchMeta(n, e)
      PROVE  LinksAgree(links', links, {m}) /\ enabled'[m] = enabled[m] /\ gen'[m] = gen[m]
  <2>1. n \in live /\ links' = links
    BY <1>6 DEF ReplaceNode, PatchMeta
  <2>2. /\ enabled' = [enabled EXCEPT ![n] = e]
        /\ gen' = gen \/ gen' = [gen EXCEPT ![n] = nextGen[n]]
    BY <1>6 DEF ReplaceNode, PatchMeta, SwapObject
  <2>. QED
    BY <2>1, <2>2, <1>t, <1>m DEF LinksAgree
<1>7. ASSUME NEW n \in NodeId, NEW p \in NodeId, NEW s \in OptNode,
             MoveNode(n, p, s) \/ MoveNodeRejected(n, p, s)
      PROVE  LinksAgree(links', links, {m}) /\ enabled'[m] = enabled[m] /\ gen'[m] = gen[m]
  <2>1. n \in live /\ p \in live /\ UNCHANGED <<enabled, gen>>
    BY <1>7 DEF MoveNode, MoveNodeRejected, MoveAllowed
  <2>2. /\ LinksAgree(Detach(links, n), links, {m})
        /\ Detach(links, n) \in Links /\ ClosedIn(Detach(links, n), live)
    BY <2>1, <1>0, <1>t, <1>c, <1>m, DetachClosed, DetachType
  <2>3. CASE MoveNode(n, p, s)
    <3>1. s \in live \cup {Nil} /\ links' = MovedLinks(n, p, s)
      BY <2>3 DEF MoveNode, SiblingOK
    <3>2. Detach(links, n).first[p] \in live \cup {Nil}
      BY <2>1, <2>2 DEF ClosedIn
    <3>3. LinksAgree(MovedLinks(n, p, s), Detach(links, n), {m})
      <4>1. CASE s = Nil
        BY <4>1, <2>1, <2>2, <3>2, <1>0, <1>t, <1>m DEF MovedLinks
      <4>2. CASE s # Nil
        BY <4>2, <2>1, <2>2, <3>1, <1>5, <1>t, <1>m DEF MovedLinks
      <4>. QED
        BY <4>1, <4>2
    <3>. QED
      BY <2>1, <2>2, <3>1, <3>3 DEF LinksAgree
  <2>4. CASE MoveNodeRejected(n, p, s)
    BY <2>1, <2>2, <2>4 DEF MoveNodeRejected
  <2>. QED
    BY <1>7, <2>3, <2>4
<1>. QED
  BY <1>2, <1>3, <1>4, <1>6, <1>7 DEF Next

-----------------------------------------------------------------------------
(* The facts of a recorded step.                                           *)

\* The subtree of a node without children.
LEMMA Leaf ==
    ASSUME NEW t \in Links, NEW n \in NodeId, t.first[n] = Nil
    PROVE  Subtree(t, n) = {n}
<1>1. Below(t, n) = {}
  <2>1. t.first[n] \in {} \cup {Nil} /\ ClosedUnderLinks(t, {}) /\ {} \in SUBSET NodeId
    BY DEF ClosedUnderLinks
  <2>. QED
    BY <2>1 DEF Below
<1>. QED
  BY <1>1 DEF Subtree

\* AddNode.
LEMMA FactOfAdd ==
    ASSUME StoreOK, StoreOK', NEW n \in NodeId, NEW p \in NodeId, NEW s \in OptNode,
           NEW e \in BOOLEAN, AddNode(n, p, s, e), NEW st, st = AddStep(n, p),
           NEW w, w = Snapshot, NEW v, v = Snapshot'
    PROVE  StepFact(st, TRUE, w, v)'
<1>t. /\ links \in Links /\ LinksOK(links) /\ links' \in Links /\ live \in SUBSET NodeId
      /\ TypeOK /\ TreeInv
  BY DEF StoreOK, TypeOK, TreeInv, LinkInv, live
<1>1. /\ {n} \in SUBSET NodeId /\ Insert({n}, e) /\ slot[n] = "free"
      /\ p \in live /\ (s # Nil => links.parent[s] = p) /\ links' = Attach(links, n, p, s)
  BY DEF AddNode, SiblingOK, Insert
<1>2. /\ live' = live \cup {n} /\ n \notin live /\ gen' = gen
      /\ \A m \in live : enabled'[m] = enabled[m]
  BY <1>t, <1>1, InsertedIsFresh
<1>3. links.parent[n] = Nil /\ links.first[n] = Nil /\ n # p
  BY <1>t, <1>1, <1>2, FreshNoLinks
<1> DEFINE b == AttachPrev(links, p, s)
           a == NextAfter(links, p, b)
<1>4. Adjacent(links, p, b, a) /\ links' = AttachBetween(links, n, p, b, a)
  BY <1>t, <1>1, AttachAdjacent DEF Attach
<1>5. links'.parent[n] = p /\ links'.first[n] = Nil
  BY <1>t, <1>3, <1>4 DEF AttachBetween, Links
<1>6. Subtree(links', n) = {n}
  BY <1>t, <1>5, Leaf
<1>7. LinksAgree(Detach(links', n), links, NodeId)
  BY <1>t, <1>3, <1>4, Unlink
<1>8. LinksAgree(links, Detach(links', n), live)
  BY <1>t, <1>7 DEF LinksAgree
<1>9. /\ w.live = live /\ w.links = links /\ w.enabled = enabled /\ w.gen = gen
      /\ v.live = live' /\ v.links = links' /\ v.enabled = enabled' /\ v.gen = gen'
  BY DEF Snapshot
<1>10. TakenOut(n, v, w)
  <2>1. n \in v.live /\ v.links.parent[n] # Nil
    BY <1>2, <1>5, <1>9, NilAssumption
  <2>2. w.live = v.live \ Subtree(v.links, n)
    BY <1>2, <1>6, <1>9
  <2>3. ObjectsAgree(w, v, w.live)
    BY <1>2, <1>9 DEF ObjectsAgree
  <2>. QED
    BY <2>1, <2>2, <2>3, <1>8, <1>9 DEF TakenOut
<1>11. /\ st.kind = "add" /\ st.node = n /\ st.held = {}
       /\ <<st.parent, st.prev, st.next>> = Position(v.links, n)
  BY <1>5, <1>9 DEF AddStep, Position
<1>. QED
  BY <1>10, <1>11 DEF StepFact, OutFact

\* AddNodeTree.
LEMMA FactOfAddTree ==
    ASSUME StoreOK, StoreOK', NEW n \in NodeId, NEW c \in NodeId, NEW p \in NodeId,
           NEW s \in OptNode, NEW e \in BOOLEAN, AddNodeTree(n, c, p, s, e),
           NEW st, st = AddStep(n, p), NEW w, w = Snapshot, NEW v, v = Snapshot'
    PROVE  StepFact(st, TRUE, w, v)'
<1>t. /\ links \in Links /\ LinksOK(links) /\ links' \in Links /\ live \in SUBSET NodeId
      /\ TypeOK /\ TreeInv
  BY DEF StoreOK, TypeOK, TreeInv, LinkInv, live
<1>1. /\ {n, c} \in SUBSET NodeId /\ Insert({n, c}, e) /\ slot[n] = "free" /\ slot[c] = "free"
      /\ p \in live /\ (s # Nil => links.parent[s] = p) /\ n # c
      /\ links' = Attach(Attach(links, n, p, s), c, n, Nil)
  BY DEF AddNodeTree, SiblingOK, Insert
<1>2. /\ live' = live \cup {n, c} /\ n \notin live /\ c \notin live /\ gen' = gen
      /\ \A m \in live : enabled'[m] = enabled[m]
  BY <1>t, <1>1, InsertedIsFresh
<1>3. /\ links.parent[n] = Nil /\ links.first[n] = Nil /\ links.last[n] = Nil /\ n # p
      /\ links.parent[c] = Nil /\ links.first[c] = Nil /\ c # p
  BY <1>t, <1>1, <1>2, FreshNoLinks
<1> DEFINE b == AttachPrev(links, p, s)
           a == NextAfter(links, p, b)
           u == Attach(links, n, p, s)
<1>4. Adjacent(links, p, b, a) /\ u = AttachBetween(links, n, p, b, a) /\ u \in Links
  BY <1>t, <1>1, AttachAdjacent, AttachType DEF Attach
<1>5. /\ u.parent[n] = p /\ u.first[n] = Nil /\ u.last[n] = Nil
      /\ u.first[c] = Nil
  BY <1>t, <1>3, <1>4 DEF AttachBetween, Links
<1>6. LinksAgree(Detach(u, n), links, NodeId)
  BY <1>t, <1>3, <1>4, Unlink
<1> HIDE DEF u, a, b
<1>7. links' = AttachBetween(u, c, n, Nil, Nil)
  BY <1>1, <1>5 DEF Attach, AttachPrev, NextAfter, u
<1>8. /\ links'.parent[n] = p /\ links'.first[n] = c /\ links'.first[c] = Nil
      /\ links'.next[c] = Nil /\ links'.prev[n] = u.prev[n] /\ links'.next[n] = u.next[n]
      /\ LinksAgree(links', u, live)
  BY <1>1, <1>2, <1>4, <1>5, <1>7, <1>t, NilAssumption DEF AttachBetween, Links, LinksAgree
<1>9. Subtree(links', n) = {n, c}
  <2>1. c \in Below(links', n)
    BY <1>8, NilAssumption DEF Below
  <2>2. links'.first[n] \in {c} \cup {Nil} /\ ClosedUnderLinks(links', {c}) /\ {c} \in SUBSET NodeId
    BY <1>8 DEF ClosedUnderLinks
  <2>3. Below(links', n) \subseteq {c}
    BY <2>2 DEF Below
  <2>. QED
    BY <2>1, <2>3 DEF Subtree
<1>10. LinksAgree(Detach(links', n), Detach(u, n), live)
  BY <1>4, <1>5, <1>8, <1>t, <1>2 DEF Detach, Links, LinksAgree
<1>11. LinksAgree(links, Detach(links', n), live)
  BY <1>t, <1>6, <1>10 DEF LinksAgree
<1>12. /\ w.live = live /\ w.links = links /\ w.enabled = enabled /\ w.gen = gen
       /\ v.live = live' /\ v.links = links' /\ v.enabled = enabled' /\ v.gen = gen'
  BY DEF Snapshot
<1>13. TakenOut(n, v, w)
  <2>1. n \in v.live /\ v.links.parent[n] # Nil
    BY <1>2, <1>8, <1>12, NilAssumption
  <2>2. w.live = v.live \ Subtree(v.links, n)
    BY <1>2, <1>9, <1>12
  <2>3. ObjectsAgree(w, v, w.live)
    BY <1>2, <1>12 DEF ObjectsAgree
  <2>. QED
    BY <2>1, <2>2, <2>3, <1>11, <1>12 DEF TakenOut
<1>14. /\ st.kind = "add" /\ st.node = n /\ st.held = {}
       /\ <<st.parent, st.prev, st.next>> = Position(v.links, n)
  BY <1>8, <1>12 DEF AddStep, Position
<1>. QED
  BY <1>13, <1>14 DEF StepFact, OutFact

\* The nodes a removal takes out keep their fields.
LEMMA FactOfRemove ==
    ASSUME StoreOK, NEW n \in NodeId, RemoveNode(n),
           NEW kind \in {"add", "remove"}, NEW st, st = OutStep(kind, n, Subtree(links, n)),
           NEW w, w = Snapshot, NEW v, v = Snapshot'
    PROVE  OutFact(st, TRUE, w, v)'
<1>t. /\ links \in Links /\ LinksOK(links) /\ ParentsAcyclic(links) /\ live \in SUBSET NodeId
      /\ slot \in [NodeId -> {"free", "live", "detached", "removed"}]
  BY DEF StoreOK, TypeOK, TreeInv, LinkInv, live
<1>1. /\ n \in live /\ links.parent[n] # Nil /\ links' = Detach(links, n)
      /\ UNCHANGED <<enabled, gen>> /\ RemoveSlots(Subtree(links, n))
  BY DEF RemoveNode
<1>2. live' = live \ Subtree(links, n)
  BY <1>1, <1>t DEF RemoveSlots, live
<1>3. /\ w.live = live /\ w.links = links /\ w.enabled = enabled /\ w.gen = gen
      /\ v.live = live' /\ v.links = links' /\ v.enabled = enabled /\ v.gen = gen
  BY <1>1 DEF Snapshot
<1>4. TakenOut(n, w, v)
  BY <1>1, <1>2, <1>3 DEF TakenOut, LinksAgree, ObjectsAgree
<1>5. /\ st.node = n /\ st.held = Subtree(links, n)
      /\ <<st.parent, st.prev, st.next>> = Position(w.links, n)
  BY <1>3 DEF OutStep, Position
<1>6. StoredAs(st.held, n, w)'
  <2> SUFFICES ASSUME NEW m \in Subtree(links, n)
               PROVE  /\ links'.first[m] = links.first[m] /\ links'.last[m] = links.last[m]
                      /\ m # n => /\ links'.parent[m] = links.parent[m]
                                  /\ links'.prev[m] = links.prev[m]
                                  /\ links'.next[m] = links.next[m]
                      /\ links'.parent[n] = Nil
    BY <1>1, <1>3, <1>5 DEF StoredAs
  <2>. QED
    BY <1>1, <1>t, DetachBelow
<1>. QED
  BY <1>3, <1>4, <1>5, <1>6 DEF OutFact

\* MoveNode.
LEMMA FactOfMove ==
    ASSUME StoreOK, NEW n \in NodeId, NEW p \in NodeId, NEW s \in OptNode, MoveNode(n, p, s),
           NEW st, st = [kind |-> "move", node |-> n, atNew |-> TRUE,
                         old |-> Position(links, n), new |-> Position(links', n)],
           NEW w, w = Snapshot, NEW v, v = Snapshot'
    PROVE  StepFact(st, TRUE, w, v)'
<1>t. /\ links \in Links /\ LinksOK(links) /\ ParentsAcyclic(links) /\ live \in SUBSET NodeId
  BY DEF StoreOK, TypeOK, TreeInv, LinkInv, live
<1>1. /\ n \in live /\ p \in live /\ links.parent[n] # Nil /\ n \notin UpChain(links, p)
      /\ s # n /\ (s # Nil => links.parent[s] = p) /\ links' = MovedLinks(n, p, s)
      /\ UNCHANGED <<slot, enabled, gen>>
  BY DEF MoveNode, MoveAllowed, SiblingOK, IsDescendant
<1>2. n # p
  BY <1>1, <1>t, UpSelf
<1> DEFINE t == Detach(links, n)
<1>3. t \in Links /\ LinksOK(t) /\ t.parent[n] = Nil /\ (s # Nil => t.parent[s] = p)
  <2>1. t \in Links /\ LinksOK(t)
    BY <1>1, <1>t, DetachType, DetachLinksOK
  <2>2. t.parent = [links.parent EXCEPT ![n] = Nil] /\ links.parent \in [NodeId -> OptNode]
    BY <1>t DEF Detach, Links
  <2>. QED
    BY <2>1, <2>2, <1>1 DEF OptNode
<1> HIDE DEF t
<1>4. PICK b, a : Adjacent(t, p, b, a) /\ links' = AttachBetween(t, n, p, b, a)
  <2>1. CASE s = Nil
    <3>1. Adjacent(t, p, Nil, t.first[p])
      BY <1>3, NilAssumption DEF Adjacent, LinksOK, EndsOK, ChainOK, Links, OptNode
    <3>. QED
      BY <3>1, <2>1, <1>1 DEF MovedLinks, t
  <2>2. CASE s # Nil
    BY <2>2, <1>1, <1>3, AttachAdjacent DEF MovedLinks, Attach, t
  <2>. QED
    BY <2>1, <2>2
<1>5. LinksAgree(Detach(links', n), t, NodeId)
  BY <1>2, <1>3, <1>4, Unlink
<1>6. LinksAgree(t, Detach(links', n), live)
  BY <1>5, <1>t DEF LinksAgree
<1>7. links'.parent[n] = p
  BY <1>3, <1>4 DEF AttachBetween, Links
<1>8. live' = live
  BY <1>1 DEF live
<1>9. /\ w.live = live /\ w.links = links /\ w.enabled = enabled /\ w.gen = gen
      /\ v.live = live /\ v.links = links' /\ v.enabled = enabled /\ v.gen = gen
  BY <1>1, <1>8 DEF Snapshot
<1>10. /\ st.kind = "move" /\ st.node = n /\ st.atNew = TRUE
       /\ st.old = Position(links, n) /\ st.new = Position(links', n)
  OBVIOUS
<1>11. MoveFact(st, TRUE, w, v)
  BY <1>1, <1>6, <1>7, <1>9, <1>10, NilAssumption DEF MoveFact, ObjectsAgree, t
<1>. QED
  BY <1>10, <1>11 DEF StepFact

\* PatchMeta.
LEMMA FactOfPatch ==
    ASSUME StoreOK, NEW n \in NodeId, NEW e \in BOOLEAN, PatchMeta(n, e),
           NEW st, st = [kind |-> "patch", node |-> n, old |-> enabled[n], new |-> e],
           NEW w, w = Snapshot, NEW v, v = Snapshot'
    PROVE  StepFact(st, TRUE, w, v)'
<1>1. /\ n \in live /\ enabled' = [enabled EXCEPT ![n] = e] /\ UNCHANGED <<links, slot, gen>>
  BY DEF PatchMeta
<1>2. live' = live
  BY <1>1 DEF live
<1>3. enabled \in [NodeId -> BOOLEAN]
  BY DEF StoreOK, TypeOK
<1>4. enabled'[n] = e /\ \A m \in live \ {n} : enabled'[m] = enabled[m]
  BY <1>1, <1>3 DEF live
<1>5. /\ w.live = live /\ w.links = links /\ w.enabled = enabled /\ w.gen = gen
      /\ v.live = live /\ v.links = links /\ v.enabled = enabled' /\ v.gen = gen
  BY <1>1, <1>2 DEF Snapshot
<1>6. PatchFact(st, w, v)
  BY <1>1, <1>4, <1>5 DEF PatchFact, LinksAgree, ObjectsAgree
<1>. QED
  BY <1>6 DEF StepFact

\* ReplaceNode.
LEMMA FactOfReplace ==
    ASSUME StoreOK, NEW n \in NodeId, NEW e \in BOOLEAN, ReplaceNode(n, e),
           NEW st, st = [kind |-> "replace", node |-> n, old |-> Object(n), new |-> Nil],
           NEW w, w = Snapshot, NEW v, v = Snapshot'
    PROVE  StepFact(st, TRUE, w, v)'
<1>t. /\ enabled \in [NodeId -> BOOLEAN] /\ gen \in [NodeId -> Gens]
      /\ effective \in [NodeId -> BOOLEAN]
  BY DEF StoreOK, TypeOK
<1>1. /\ n \in live /\ enabled' = [enabled EXCEPT ![n] = e]
      /\ gen' = [gen EXCEPT ![n] = nextGen[n]] /\ UNCHANGED <<links, slot>>
  BY DEF ReplaceNode, SwapObject
<1>2. live' = live
  BY <1>1 DEF live
<1>4. \A m \in live \ {n} : enabled'[m] = enabled[m] /\ gen'[m] = gen[m]
  BY <1>1, <1>t DEF live
<1>5. /\ w.live = live /\ w.links = links /\ w.enabled = enabled /\ w.gen = gen
      /\ v.live = live /\ v.links = links /\ v.enabled = enabled' /\ v.gen = gen'
  BY <1>1, <1>2 DEF Snapshot
<1>6. Object(n) # Nil /\ Object(n).gen = gen[n] /\ Object(n).enabled = enabled[n]
  <2>1. Object(n) \in [gen : Gens, enabled : BOOLEAN, effective : BOOLEAN]
    BY <1>t DEF Object
  <2>. QED
    BY <2>1, ObjectAssumption DEF Object
<1>7. st.kind = "replace" /\ st.node = n /\ st.old = Object(n) /\ st.new = Nil
  OBVIOUS
<1>8. ReplaceFact(st, TRUE, w, v)
  BY <1>1, <1>4, <1>5, <1>6, <1>7 DEF ReplaceFact, LinksAgree, ObjectsAgree
<1>. QED
  BY <1>7, <1>8 DEF StepFact

\* Every recorded edit leads from the store before it to the store after it.
LEMMA FactOfRecorded ==
    ASSUME StoreOK, StoreOK', Recorded, NEW w, w = Snapshot, NEW v, v = Snapshot'
    PROVE  \E st : Record(st) /\ StepFact(st, TRUE, w, v)'
<1>1. CASE RecordedAdd
  <2>1. ASSUME NEW n \in NodeId, NEW p \in NodeId, NEW s \in OptNode, NEW e \in BOOLEAN,
               AddNode(n, p, s, e), Record(AddStep(n, p))
        PROVE  \E st : Record(st) /\ StepFact(st, TRUE, w, v)'
    <3>1. PICK st : st = AddStep(n, p)
      OBVIOUS
    <3>. QED
      BY <2>1, <3>1, FactOfAdd
  <2>2. ASSUME NEW n \in NodeId, NEW c \in NodeId, NEW p \in NodeId, NEW s \in OptNode,
               AddNodeTree(n, c, p, s, TRUE), Record(AddStep(n, p))
        PROVE  \E st : Record(st) /\ StepFact(st, TRUE, w, v)'
    <3>1. PICK st : st = AddStep(n, p)
      OBVIOUS
    <3>. QED
      BY <2>2, <3>1, FactOfAddTree
  <2>. QED
    BY <1>1, <2>1, <2>2 DEF RecordedAdd
<1>2. CASE RecordedRemove
  <2>1. PICK n \in NodeId : RemoveNode(n) /\ Record(OutStep("remove", n, Subtree(links, n)))
    BY <1>2 DEF RecordedRemove
  <2>2. PICK st : st = OutStep("remove", n, Subtree(links, n))
    OBVIOUS
  <2>3. OutFact(st, TRUE, w, v)'
    BY <2>1, <2>2, FactOfRemove
  <2>4. st.kind = "remove" /\ Record(st)
    BY <2>1, <2>2 DEF OutStep
  <2>. QED
    BY <2>3, <2>4 DEF StepFact
<1>3. CASE RecordedMove
  <2>1. PICK n \in NodeId, p \in NodeId, s \in OptNode :
           /\ MoveNode(n, p, s)
           /\ Record([kind |-> "move", node |-> n, atNew |-> TRUE,
                      old |-> Position(links, n), new |-> Position(links', n)])
    BY <1>3 DEF RecordedMove
  <2>2. PICK st : st = [kind |-> "move", node |-> n, atNew |-> TRUE,
                        old |-> Position(links, n), new |-> Position(links', n)]
    OBVIOUS
  <2>. QED
    BY <2>1, <2>2, FactOfMove
<1>4. CASE RecordedPatch
  <2>1. PICK n \in NodeId, e \in BOOLEAN :
           /\ PatchMeta(n, e)
           /\ Record([kind |-> "patch", node |-> n, old |-> enabled[n], new |-> e])
    BY <1>4 DEF RecordedPatch
  <2>2. PICK st : st = [kind |-> "patch", node |-> n, old |-> enabled[n], new |-> e]
    OBVIOUS
  <2>. QED
    BY <2>1, <2>2, FactOfPatch
<1>5. CASE RecordedReplace
  <2>1. PICK n \in NodeId, e \in BOOLEAN :
           /\ ReplaceNode(n, e)
           /\ Record([kind |-> "replace", node |-> n, old |-> Object(n), new |-> Nil])
    BY <1>5 DEF RecordedReplace
  <2>2. PICK st : st = [kind |-> "replace", node |-> n, old |-> Object(n), new |-> Nil]
    OBVIOUS
  <2>. QED
    BY <2>1, <2>2, FactOfReplace
<1>. QED
  BY <1>1, <1>2, <1>3, <1>4, <1>5 DEF Recorded

-----------------------------------------------------------------------------
(* Replaying a step.                                                       *)

\* A store that looks like a snapshot is closed.
LEMMA LooksClosed ==
    ASSUME NEW w \in Snapshots, LooksLike(w)
    PROVE  StoreClosed
BY SnapshotType DEF LooksLike, StoreClosed, ClosedIn, LinksAgree

\* The invariants of the store hold after every edit.
LEMMA StoreKept ==
    ASSUME StoreOK, Next
    PROVE  StoreOK'
BY TypeStep, TreeStep, RootStep, StoreStep DEF StoreOK

\* Taking the subtree out again.
LEMMA TakesOutAgain ==
    ASSUME StoreOK, NEW big \in Snapshots, NEW small \in Snapshots, LooksLike(big),
           NEW n \in NodeId, TakenOut(n, big, small), RemoveNode(n),
           NEW kind \in {"add", "remove"}, NEW st, st = OutStep(kind, n, Subtree(links, n))
    PROVE  OutFact(st, TRUE, big, small)' /\ LooksLike(small)'
<1>t. /\ links \in Links /\ LinksOK(links) /\ ParentsAcyclic(links) /\ live \in SUBSET NodeId
      /\ slot \in [NodeId -> {"free", "live", "detached", "removed"}]
  BY DEF StoreOK, TypeOK, TreeInv, LinkInv, live
<1>w. /\ big.links \in Links /\ ClosedIn(big.links, live) /\ small.links \in Links
      /\ live = big.live /\ LinksAgree(links, big.links, live) /\ ObjectsAgree(Snapshot, big, live)
  BY SnapshotType DEF LooksLike
<1>1. /\ n \in live /\ links.parent[n] # Nil /\ links' = Detach(links, n)
      /\ UNCHANGED <<enabled, gen>> /\ RemoveSlots(Subtree(links, n))
  BY DEF RemoveNode
<1>2. Subtree(links, n) = Subtree(big.links, n)
  BY <1>1, <1>t, <1>w, SubtreeAgrees
<1>3. live' = live \ Subtree(links, n)
  BY <1>1, <1>t DEF RemoveSlots, live
<1>4. live' = small.live /\ small.live \subseteq live
  BY <1>2, <1>3, <1>w DEF TakenOut
<1>5. LinksAgree(links', Detach(big.links, n), live)
  BY <1>1, <1>t, <1>w, DetachAgrees
<1>6. LooksLike(small)'
  <2>1. LinksAgree(links', small.links, live')
    BY <1>4, <1>5 DEF TakenOut, LinksAgree
  <2>2. \A m \in live' : enabled'[m] = small.enabled[m] /\ gen'[m] = small.gen[m]
    BY <1>1, <1>4, <1>w DEF TakenOut, ObjectsAgree, Snapshot
  <2>. QED
    BY <2>1, <2>2, <1>4 DEF LooksLike, ObjectsAgree, Snapshot
<1>7. /\ st.node = n /\ st.held = Subtree(big.links, n)
      /\ <<st.parent, st.prev, st.next>> = Position(big.links, n)
  BY <1>1, <1>2, <1>w DEF OutStep, Position, LinksAgree
<1>8. StoredAs(st.held, n, big)'
  <2>1. ASSUME NEW m \in Subtree(links, n)
        PROVE  /\ links'.first[m] = links.first[m] /\ links'.last[m] = links.last[m]
               /\ m # n => /\ links'.parent[m] = links.parent[m]
                           /\ links'.prev[m] = links.prev[m]
                           /\ links'.next[m] = links.next[m]
               /\ links'.parent[n] = Nil
    BY <1>1, <1>t, DetachBelow
  <2>2. Subtree(links, n) \subseteq live
    BY <1>1, <1>t, SubtreeInStore DEF StoreOK, StoreClosed
  <2>3. ASSUME NEW m \in live
        PROVE  /\ links.first[m] = big.links.first[m] /\ links.last[m] = big.links.last[m]
               /\ links.parent[m] = big.links.parent[m] /\ links.prev[m] = big.links.prev[m]
               /\ links.next[m] = big.links.next[m]
               /\ enabled'[m] = big.enabled[m] /\ gen'[m] = big.gen[m]
    BY <1>1, <1>w DEF LinksAgree, ObjectsAgree, Snapshot
  <2>. QED
    BY <1>2, <1>7, <2>1, <2>2, <2>3 DEF StoredAs
<1>. QED
  BY <1>6, <1>7, <1>8 DEF OutFact

\* Where a held node belongs.
LEMMA PlaceOfHeld ==
    ASSUME StoreOK, NEW big \in Snapshots, NEW small \in Snapshots, LooksLike(small),
           NEW n \in NodeId, TakenOut(n, big, small)
    PROVE  LET p == big.links.parent[n]
               b == big.links.prev[n]
               a == big.links.next[n]
           IN  /\ p \in live /\ b \in live \cup {Nil} /\ a \in live \cup {Nil}
               /\ n \notin live /\ n # p
               /\ Adjacent(links, p, b, a)
               /\ LinksAgree(links, Detach(big.links, n), live)
               /\ Subtree(big.links, n) \cap live = {}
               /\ big.live = live \cup Subtree(big.links, n)
<1> DEFINE p == big.links.parent[n]
           b == big.links.prev[n]
           a == big.links.next[n]
           S == Subtree(big.links, n)
<1>w. /\ big.links \in Links /\ LinksOK(big.links) /\ ParentsAcyclic(big.links)
      /\ ClosedIn(big.links, big.live) /\ big.live \in SUBSET NodeId
      /\ live = small.live /\ LinksAgree(links, small.links, live)
  BY SnapshotType DEF LooksLike
<1>1. /\ n \in big.live /\ p # Nil /\ small.live = big.live \ S
      /\ LinksAgree(small.links, Detach(big.links, n), live)
  BY <1>w DEF TakenOut
<1>2. S \subseteq big.live /\ n \in S
  BY <1>1, <1>w, SubtreeInStore DEF Subtree
<1>3. /\ p \in big.live \ S /\ b \in (big.live \ S) \cup {Nil} /\ a \in (big.live \ S) \cup {Nil}
  BY <1>1, <1>w, PlaceOutside
<1>4. LinksAgree(links, Detach(big.links, n), live)
  BY <1>1, <1>w DEF LinksAgree
<1>5. Adjacent(Detach(big.links, n), p, b, a)
  BY <1>1, <1>w, DetachAdjacent
<1>6. Adjacent(links, p, b, a)
  <2>1. p \in live /\ b \in live \cup {Nil} /\ a \in live \cup {Nil}
    BY <1>1, <1>3, <1>w
  <2> HIDE DEF p, b, a
  <2>. QED
    BY <1>4, <1>5, <2>1, AdjacentAgrees
<1>. QED
  BY <1>1, <1>2, <1>3, <1>4, <1>6, <1>w

\* Putting the subtree back.
LEMMA PutsBackAgain ==
    ASSUME StoreOK, TypeOK', NEW big \in Snapshots, NEW small \in Snapshots, LooksLike(small),
           NEW s \in Step, s.kind \in {"add", "remove"}, OutFact(s, TRUE, big, small),
           Reattach(s.held),
           links' = AttachBetween(links, s.node, s.parent, s.prev, s.next)
    PROVE  StoreOK' /\ LooksLike(big)' /\ OutFact([s EXCEPT !.held = {}], FALSE, big, small)'
<1> DEFINE n == s.node
           p == s.parent
           b == s.prev
           a == s.next
           S == Subtree(big.links, n)
<1>t. /\ links \in Links /\ LinksOK(links) /\ ParentsAcyclic(links) /\ live \in SUBSET NodeId
      /\ slot \in [NodeId -> {"free", "live", "detached", "removed"}]
      /\ StoreClosed /\ FreshUnlinked /\ RootOnTop
  BY DEF StoreOK, TypeOK, TreeInv, LinkInv, live
<1>s. /\ n \in NodeId /\ b \in OptNode /\ a \in OptNode
      /\ [s EXCEPT !.held = {}].node = n /\ [s EXCEPT !.held = {}].parent = p
      /\ [s EXCEPT !.held = {}].prev = b /\ [s EXCEPT !.held = {}].next = a
      /\ [s EXCEPT !.held = {}].held = {}
  BY DEF Step
<1>w. /\ big.links \in Links /\ big.links.parent \in [NodeId -> OptNode]
      /\ LinksOK(big.links)
  BY SnapshotType DEF Links
<1>1. /\ TakenOut(n, big, small)
      /\ p = big.links.parent[n] /\ b = big.links.prev[n] /\ a = big.links.next[n]
      /\ s.held = S /\ StoredAs(S, n, big)
  BY DEF OutFact, Position
<1>2. /\ p \in live /\ b \in live \cup {Nil} /\ a \in live \cup {Nil} /\ n \notin live /\ n # p
      /\ Adjacent(links, p, b, a) /\ LinksAgree(links, Detach(big.links, n), live)
      /\ S \cap live = {} /\ big.live = live \cup S
  BY <1>1, <1>s, PlaceOfHeld
<1>3. n \in S /\ S \in SUBSET NodeId /\ p \in NodeId
  BY <1>2, <1>s DEF Subtree, Below, live
<1>4. /\ live' = live \cup S /\ live' = big.live /\ UNCHANGED <<enabled, gen>>
      /\ \A m \in NodeId \ S : slot'[m] = slot[m]
      /\ \A m \in S : slot'[m] = "live"
  BY <1>1, <1>2, <1>3, <1>t DEF Reattach, live
<1> HIDE DEF n, p, b, a, S
<1>5. links' = AttachBetween(links, n, p, b, a)
  BY DEF n, p, b, a
<1>6. /\ links.parent[n] = Nil
      /\ \A m \in S : /\ links.first[m] = big.links.first[m] /\ links.last[m] = big.links.last[m]
                      /\ enabled[m] = big.enabled[m] /\ gen[m] = big.gen[m]
                      /\ m # n => /\ links.parent[m] = big.links.parent[m]
                                  /\ links.prev[m] = big.links.prev[m]
                                  /\ links.next[m] = big.links.next[m]
  BY <1>1, <1>3 DEF StoredAs
<1>7. LinkInv'
  <2>1. links' \in Links
    BY DEF TypeOK
  <2>2. LinksOK(links')
    BY <1>2, <1>3, <1>5, <1>6, <1>s, <1>t, AttachBetweenEnds, AttachBetweenChain,
       AttachBetweenNoRing DEF LinksOK, n
  <2>3. n \notin UpChain(links, p)
    BY <1>2, <1>t, UpInStore DEF StoreClosed
  <2>4. ParentsAcyclic(links')
    BY <1>3, <1>5, <1>s, <1>t, <2>3, AttachBetweenAcyclic DEF n
  <2>. QED
    BY <2>1, <2>2, <2>4 DEF LinkInv
<1>8. links'.parent = [links.parent EXCEPT ![n] = p] /\ links.parent \in [NodeId -> OptNode]
  BY <1>5, <1>t DEF AttachBetween, Links
<1>9. FreshUnlinked'
  <2> SUFFICES ASSUME NEW m \in NodeId, slot'[m] = "free"
               PROVE  links'.parent[m] = Nil /\ \A x \in NodeId : links'.parent[x] # m
    BY DEF FreshUnlinked
  <2>1. m \notin S /\ slot[m] = "free"
    BY <1>4
  <2>2. m # n /\ m # p
    BY <1>2, <1>3, <2>1 DEF live
  <2>3. links.parent[m] = Nil /\ \A x \in NodeId : links.parent[x] # m
    BY <2>1, <1>t DEF FreshUnlinked
  <2>. QED
    BY <2>2, <2>3, <1>8
<1>10. RootOnTop'
  BY <1>2, <1>4, <1>8, <1>t DEF RootOnTop
<1>11. LooksLike(big)'
  <2>1. LinksAgree(AttachBetween(Detach(big.links, n), n, p, b, a), big.links, NodeId)
    BY <1>1, <1>s, <1>w, Relink DEF TakenOut, n, p, b, a
  <2>2. LinksAgree(links', AttachBetween(Detach(big.links, n), n, p, b, a), live)
    <3>1. Detach(big.links, n) \in Links
      BY <1>s, <1>w, DetachType DEF n
    <3>. QED
      BY <1>2, <1>3, <1>5, <1>t, <3>1, AttachAgrees
  <2>3. LinksAgree(links', big.links, live)
    BY <2>1, <2>2, <1>t DEF LinksAgree
  <2>4. LinksAgree(links', big.links, S)
    <3> SUFFICES ASSUME NEW m \in S
                 PROVE  /\ links'.parent[m] = big.links.parent[m]
                        /\ links'.first[m] = big.links.first[m]
                        /\ links'.last[m] = big.links.last[m]
                        /\ links'.prev[m] = big.links.prev[m]
                        /\ links'.next[m] = big.links.next[m]
      BY DEF LinksAgree
    <3>1. m \in NodeId /\ m # p /\ m # b /\ m # a
      BY <1>2, <1>3, NilAssumption
    <3>2. /\ links'.first[m] = links.first[m] /\ links'.last[m] = links.last[m]
          /\ links'.parent[m] = IF m = n THEN p ELSE links.parent[m]
          /\ links'.prev[m] = IF m = n THEN b ELSE links.prev[m]
          /\ links'.next[m] = IF m = n THEN a ELSE links.next[m]
      BY <3>1, <1>5, <1>t DEF AttachBetween, Links
    <3>3. p = big.links.parent[n] /\ b = big.links.prev[n] /\ a = big.links.next[n]
      BY <1>1
    <3>. QED
      BY <3>2, <3>3, <1>6
  <2>5. LinksAgree(links', big.links, live')
    BY <2>3, <2>4, <1>4 DEF LinksAgree
  <2>6. \A m \in live : enabled[m] = big.enabled[m] /\ gen[m] = big.gen[m]
    BY <1>1 DEF LooksLike, TakenOut, ObjectsAgree, Snapshot
  <2>7. \A m \in live' : enabled'[m] = big.enabled[m] /\ gen'[m] = big.gen[m]
    BY <2>6, <1>4, <1>6
  <2>. QED
    BY <2>5, <2>7, <1>4 DEF LooksLike, ObjectsAgree, Snapshot
<1>12. StoreClosed'
  <2>1. live' = big.live /\ LinksAgree(links', big.links, live') /\ ClosedIn(big.links, big.live)
    BY <1>11, SnapshotType DEF LooksLike
  <2>. QED
    BY <2>1 DEF StoreClosed, ClosedIn, LinksAgree
<1>13. OutFact([s EXCEPT !.held = {}], FALSE, big, small)'
  BY <1>1, <1>s DEF OutFact, n, p, b, a, Position
<1>. QED
  BY <1>7, <1>9, <1>10, <1>11, <1>12, <1>13 DEF StoreOK, TreeInv

\* The place a move came from, or went to, is still there.
LEMMA MoveTarget ==
    ASSUME StoreOK, NEW from \in Snapshots, NEW to \in Snapshots, LooksLike(from),
           NEW n \in live, to.live = live, to.links.parent[n] # Nil,
           LinksAgree(Detach(from.links, n), Detach(to.links, n), live)
    PROVE  LET p == to.links.parent[n]
               b == to.links.prev[n]
               a == to.links.next[n]
               t == Detach(links, n)
           IN  /\ AttachBetweenOK(t, n, p, b, a)
               /\ LinksAgree(t, Detach(to.links, n), live)
               /\ Adjacent(t, p, b, a) /\ n # p /\ n \notin UpChain(t, p)
<1> DEFINE p == to.links.parent[n]
           b == to.links.prev[n]
           a == to.links.next[n]
           t == Detach(links, n)
           d == Detach(to.links, n)
<1>t. links \in Links /\ live \in SUBSET NodeId /\ n \in NodeId
  BY DEF StoreOK, TypeOK, live
<1>w. /\ to.links \in Links /\ LinksOK(to.links) /\ ParentsAcyclic(to.links)
      /\ ClosedIn(to.links, live) /\ from.links \in Links
      /\ LinksAgree(links, from.links, live)
  BY SnapshotType DEF LooksLike
<1>1. t \in Links /\ d \in Links
  BY <1>t, <1>w, DetachType
<1>2. LinksAgree(t, d, live)
  <2>1. LinksAgree(t, Detach(from.links, n), live)
    BY <1>t, <1>w, DetachAgrees
  <2>. QED
    BY <2>1 DEF LinksAgree
<1>3. /\ p \in live /\ b \in live \cup {Nil} /\ a \in live \cup {Nil}
      /\ p \notin Subtree(to.links, n)
  BY <1>t, <1>w, PlaceOutside
<1>4. n # p /\ b # n /\ a # n
  BY <1>3, <1>t, <1>w, DetachAdjacent DEF Subtree
<1>5. Adjacent(d, p, b, a)
  BY <1>t, <1>w, DetachAdjacent
<1>6. d.parent = [to.links.parent EXCEPT ![n] = Nil] /\ to.links.parent \in [NodeId -> OptNode]
  BY <1>w DEF Detach, Links
<1>7. n \notin UpChain(to.links, p)
  BY <1>t, <1>w, NotOwnAncestor
<1>8. UpChain(to.links, p) \subseteq live /\ p \in UpChain(to.links, p)
  BY <1>3, <1>t, <1>w, UpInStore, UpSelf
<1>9. \A x \in UpChain(to.links, p) : to.links.parent[x] \in UpChain(to.links, p) \cup {Nil}
  BY <1>3, <1>t, <1>w, UpClosed
<1> HIDE DEF p, b, a, t, d
<1>10. Adjacent(t, p, b, a)
  BY <1>2, <1>3, <1>5, AdjacentAgrees
<1>11. n \notin UpChain(t, p)
  <2> DEFINE U == UpChain(to.links, p)
  <2>1. \A x \in U : t.parent[x] \in U \cup {Nil}
    <3> SUFFICES ASSUME NEW x \in U PROVE t.parent[x] \in U \cup {Nil}
      OBVIOUS
    <3>1. x \in live /\ x # n
      BY <1>7, <1>8
    <3>2. t.parent[x] = to.links.parent[x]
      BY <3>1, <1>2, <1>6, <1>t DEF LinksAgree
    <3>. QED
      BY <3>2, <1>9
  <2>2. U \in SUBSET NodeId /\ p \in U /\ n \notin U
    BY <1>7, <1>8, <1>t
  <2> HIDE DEF U
  <2>. QED
    BY <2>1, <2>2 DEF UpChain
<1>12. /\ b # Nil => t.parent[b] = p
       /\ a # Nil => t.parent[a] = p
  BY <1>10 DEF Adjacent
<1>13. AttachBetweenOK(t, n, p, b, a)
  BY <1>3, <1>4, <1>12 DEF AttachBetweenOK
<1>. QED
  BY <1>2, <1>4, <1>10, <1>11, <1>13 DEF p, b, a, t, d

\* Moving a node back.
LEMMA MovesBack ==
    ASSUME StoreOK, TypeOK', NEW from \in Snapshots, NEW to \in Snapshots, LooksLike(from),
           NEW n \in live, to.live = live, to.links.parent[n] # Nil,
           LinksAgree(Detach(from.links, n), Detach(to.links, n), live),
           ObjectsAgree(from, to, live), links.parent[n] # Nil,
           links' = AttachBetween(Detach(links, n), n, to.links.parent[n],
                                  to.links.prev[n], to.links.next[n]),
           UNCHANGED <<slot, enabled, gen>>
    PROVE  StoreOK' /\ LooksLike(to)'
<1> DEFINE p == to.links.parent[n]
           b == to.links.prev[n]
           a == to.links.next[n]
           t == Detach(links, n)
           d == Detach(to.links, n)
<1>t. /\ links \in Links /\ LinksOK(links) /\ ParentsAcyclic(links) /\ live \in SUBSET NodeId
      /\ FreshUnlinked /\ RootOnTop /\ n \in NodeId
  BY DEF StoreOK, TypeOK, TreeInv, LinkInv, live
<1>w. /\ to.links \in Links /\ LinksOK(to.links) /\ ClosedIn(to.links, live)
      /\ ObjectsAgree(Snapshot, from, live)
  BY SnapshotType DEF LooksLike
<1>1. /\ t \in Links /\ LinksOK(t) /\ ParentsAcyclic(t) /\ d \in Links
      /\ t.parent = [links.parent EXCEPT ![n] = Nil] /\ links.parent \in [NodeId -> OptNode]
  <2>1. t \in Links /\ LinksOK(t) /\ ParentsAcyclic(t) /\ d \in Links
    BY <1>t, <1>w, DetachType, DetachLinksOK, DetachAcyclic
  <2>2. t.parent = [links.parent EXCEPT ![n] = Nil] /\ links.parent \in [NodeId -> OptNode]
    BY <1>t DEF Detach, Links
  <2>. QED
    BY <2>1, <2>2
<1>2. LinksAgree(t, d, live) /\ Adjacent(t, p, b, a) /\ n # p /\ n \notin UpChain(t, p)
  BY MoveTarget
<1>3. p \in live
  BY <1>w DEF ClosedIn
<1>4. LinksAgree(AttachBetween(d, n, p, b, a), to.links, NodeId)
  BY <1>t, <1>w, Relink
<1>5. links' = AttachBetween(t, n, p, b, a)
  OBVIOUS
<1>6. live' = live
  BY DEF live
<1> HIDE DEF p, b, a, t, d
<1>7. LinksAgree(links', AttachBetween(d, n, p, b, a), live)
  BY <1>1, <1>2, <1>3, <1>5, <1>t, AttachAgrees
<1>8. LooksLike(to)'
  <2>1. LinksAgree(links', to.links, live')
    <3>1. LinksAgree(AttachBetween(d, n, p, b, a), to.links, live)
      BY <1>4, <1>t DEF LinksAgree
    <3>2. LinksAgree(links', to.links, live)
      BY <1>7, <3>1, AgreeTransitive
    <3>. QED
      BY <1>6, <3>2
  <2>2. ObjectsAgree(Snapshot', to, live')
    BY <1>6, <1>w DEF ObjectsAgree, Snapshot
  <2>. QED
    BY <2>1, <2>2, <1>6 DEF LooksLike
<1>9. LinkInv'
  <2>1. links' \in Links
    BY DEF TypeOK
  <2>2. p \in NodeId
    BY <1>3, <1>t
  <2>3. t.parent[n] = Nil
    BY <1>1, <1>t
  <2>4. LinksOK(links')
    BY <1>1, <1>2, <1>5, <1>t, <2>2, <2>3, AttachBetweenEnds, AttachBetweenChain,
       AttachBetweenNoRing DEF LinksOK
  <2>5. ParentsAcyclic(links')
    BY <1>1, <1>2, <1>5, <1>t, <2>2, AttachBetweenAcyclic
  <2>. QED
    BY <2>1, <2>4, <2>5 DEF LinkInv
<1>10. links'.parent = [links.parent EXCEPT ![n] = p]
  <2>1. links'.parent = [t.parent EXCEPT ![n] = p]
    BY <1>5 DEF AttachBetween
  <2>. QED
    BY <2>1, <1>1
<1>11. FreshUnlinked'
  BY <1>3, <1>10, <1>1, <1>t DEF FreshUnlinked, live
<1>12. n # Root
  BY <1>t DEF RootOnTop
<1>13. RootOnTop'
  BY <1>6, <1>10, <1>12, <1>1, <1>t DEF RootOnTop
<1>14. StoreClosed'
  <2>1. LinksAgree(links', to.links, live)
    BY <1>8, <1>6 DEF LooksLike
  <2>2. ClosedIn(to.links, live)
    BY <1>w
  <2>3. ClosedIn(links', live)
    BY <2>1, <2>2, AgreeClosed
  <2>. QED
    BY <2>3, <1>6 DEF StoreClosed
<1>. QED
  BY <1>8, <1>9, <1>11, <1>13, <1>14 DEF StoreOK, TreeInv

\* While undo stands behind a step, or redo before it, the step finds what it needs
\* and leads to its other side.
LEMMA ReplayRight ==
    ASSUME HistoryTypeOK, TypeOK', StoreOK, Replaying, mode' # "panic",
           NEW w \in Snapshots, NEW v \in Snapshots, NEW done \in BOOLEAN,
           done <=> mode = "undo", StepFact(step, done, w, v),
           IF done THEN LooksLike(v) ELSE LooksLike(w)
    PROVE  /\ StoreOK'
           /\ \E st : StepDone(st) /\ StepFact(st, ~done, w, v)'
           /\ IF done THEN LooksLike(w)' ELSE LooksLike(v)'
           /\ \A m \in NodeId :
                 slot[m] \notin {"live", "free"} /\ m \notin Held(step) => FieldsKept(m)
<1> DEFINE here == IF done THEN v ELSE w
           there == IF done THEN w ELSE v
           Goal == /\ StoreOK'
                   /\ \E st : StepDone(st) /\ StepFact(st, ~done, w, v)'
                   /\ LooksLike(there)'
                   /\ \A m \in NodeId :
                         slot[m] \notin {"live", "free"} /\ m \notin Held(step) => FieldsKept(m)
<1>h. /\ here \in Snapshots /\ there \in Snapshots /\ LooksLike(here)
      /\ done => here = v /\ there = w
      /\ ~done => here = w /\ there = v
  OBVIOUS
<1>r. replaying /\ step \in Step /\ step.node \in NodeId
  <2>1. replaying
    BY DEF Replaying, TakeOut, TakeOutGone, PutBack, MoveBack, PatchBack, SwapBack, NothingToReplay
  <2>. QED
    BY <2>1, ReplayedStep
<1>t. /\ links \in Links /\ live \in SUBSET NodeId /\ StoreClosed /\ RootOnTop
      /\ enabled \in [NodeId -> BOOLEAN] /\ gen \in [NodeId -> Gens]
      /\ slot \in [NodeId -> {"free", "live", "detached", "removed"}]
  BY DEF StoreOK, TypeOK, live
<1> HIDE DEF here, there
<1>w. live = here.live /\ LinksAgree(links, here.links, live) /\ ObjectsAgree(Snapshot, here, live)
  BY <1>h DEF LooksLike
<1>a. ASSUME TakesOut(step)
      PROVE  /\ step.kind \in {"add", "remove"} /\ OutFact(step, FALSE, here, there)
             /\ \A st : st.kind = step.kind /\ OutFact(st, TRUE, here, there)'
                          => StepFact(st, ~done, w, v)'
  <2>1. CASE done
    <3>1. step.kind = "add" /\ here = v /\ there = w
      BY <1>a, <1>h, <2>1 DEF TakesOut
    <3>. QED
      BY <2>1, <3>1 DEF StepFact
  <2>2. CASE ~done
    <3>1. step.kind = "remove" /\ here = w /\ there = v
      BY <1>a, <1>h, <2>2 DEF TakesOut
    <3>. QED
      BY <2>2, <3>1 DEF StepFact
  <2>. QED
    BY <2>1, <2>2
<1>b. ASSUME PutsBack(step)
      PROVE  /\ step.kind \in {"add", "remove"} /\ OutFact(step, TRUE, there, here)
             /\ \A st : st.kind = step.kind /\ OutFact(st, FALSE, there, here)'
                          => StepFact(st, ~done, w, v)'
  <2>1. CASE done
    <3>1. step.kind = "remove" /\ here = v /\ there = w
      BY <1>b, <1>h, <2>1 DEF PutsBack
    <3>. QED
      BY <2>1, <3>1 DEF StepFact
  <2>2. CASE ~done
    <3>1. step.kind = "add" /\ here = w /\ there = v
      BY <1>b, <1>h, <2>2 DEF PutsBack
    <3>. QED
      BY <2>2, <3>1 DEF StepFact
  <2>. QED
    BY <2>1, <2>2
<1>c. Position(here.links, step.node) = Position(links, step.node) \/ step.node \notin live
  BY <1>w DEF Position, LinksAgree
<1>1. ASSUME TakeOut PROVE Goal
  <2> DEFINE n == step.node
             S == Subtree(links, n)
  <2>1. TakesOut(step) /\ ~Gone(n)
    BY <1>1 DEF TakeOut
  <2>2. TakenOut(n, here, there)
    BY <1>a, <2>1 DEF OutFact
  <2>3. n \in live /\ links.parent[n] # Nil /\ S \subseteq live /\ n # Root
    <3>1. n \in live /\ links.parent[n] # Nil
      BY <2>2, <1>w DEF TakenOut, LinksAgree
    <3>. QED
      BY <3>1, <1>t, SubtreeInStore DEF StoreClosed, RootOnTop
  <2>4. /\ RemoveSlots(S) /\ links' = Detach(links, n) /\ StepDone(OutStep(step.kind, n, S))
        /\ UNCHANGED <<enabled, effective, gen, nextGen>>
    BY <1>1, <2>3 DEF TakeOut
  <2>5. RemoveNode(n)
    BY <2>3, <2>4 DEF RemoveNode
  <2>6. StoreOK'
    BY <1>r, <2>5, StoreKept DEF Next
  <2>7. PICK st : st = OutStep(step.kind, n, S)
    OBVIOUS
  <2>8. OutFact(st, TRUE, here, there)' /\ LooksLike(there)'
    BY <1>a, <1>h, <1>r, <2>1, <2>2, <2>5, <2>7, TakesOutAgain
  <2>9. st.kind = step.kind
    BY <2>7 DEF OutStep
  <2>10. StepFact(st, ~done, w, v)'
    BY <1>a, <2>1, <2>8, <2>9
  <2>11. \A m \in NodeId : slot[m] \notin {"live", "free"} => FieldsKept(m)
    BY <1>r, <2>5, EditsLeaveStored DEF Next
  <2>. QED
    BY <2>4, <2>6, <2>7, <2>8, <2>10, <2>11
<1>2. ASSUME TakeOutGone PROVE FALSE
  <2>1. step.node \in here.live
    BY <1>2, <1>a DEF TakeOutGone, OutFact, TakenOut
  <2>. QED
    BY <1>2, <1>w, <2>1 DEF TakeOutGone, Gone, live
<1>3. ASSUME PutBack PROVE Goal
  <2>1. PutsBack(step) /\ Reattach(step.held) /\ LinkBack(step)
    BY <1>3 DEF PutBack
  <2>2. OutFact(step, TRUE, there, here) /\ step.kind \in {"add", "remove"}
    BY <1>b, <2>1
  <2> DEFINE n == step.node
             p == there.links.parent[n]
             b == there.links.prev[n]
             a == there.links.next[n]
  <2>3. p \in live /\ b \in live \cup {Nil} /\ a \in live \cup {Nil} /\ Adjacent(links, p, b, a)
    BY <1>h, <1>r, <2>2, PlaceOfHeld DEF OutFact
  <2>4. step.parent = p /\ step.prev = b /\ step.next = a
    BY <2>2 DEF OutFact, Position
  <2>5. live \subseteq live'
    BY <2>1, <1>t DEF Reattach, live
  <2>6. HistoricalBounds(links, live', p, b, a) = <<b, a>>
    <3> HIDE DEF p, b, a
    <3>1. b \in live' \cup {Nil} /\ a \in live' \cup {Nil}
      BY <2>3, <2>5
    <3>. QED
      BY <2>3, <3>1, BoundsFound
  <2>7. /\ links' = AttachBetween(links, n, step.parent, step.prev, step.next)
        /\ StepDone([step EXCEPT !.held = {}])
    BY <2>1, <2>3, <2>4, <2>5, <2>6 DEF LinkBack
  <2>8. PICK s \in Step : s = step
    BY <1>r
  <2>9. /\ StoreOK' /\ LooksLike(there)'
        /\ OutFact([s EXCEPT !.held = {}], FALSE, there, here)'
    BY <1>h, <2>1, <2>2, <2>7, <2>8, PutsBackAgain
  <2>10. PICK st : st = [s EXCEPT !.held = {}]
    OBVIOUS
  <2>11. OutFact(st, FALSE, there, here)' /\ st.kind = step.kind
    <3>1. [s EXCEPT !.held = {}].kind = s.kind
      BY <2>2, <2>8 DEF Step
    <3>. QED
      BY <2>8, <2>9, <2>10, <3>1
  <2>12. StepFact(st, ~done, w, v)'
    BY <1>b, <2>1, <2>11
  <2>13. ASSUME NEW m \in NodeId, slot[m] # "live", m \notin Held(step) PROVE FieldsKept(m)
    <3>1. m \notin live /\ m # n /\ n \in NodeId
      BY <2>2, <2>13, <1>r DEF live, Held, OutFact, Subtree
    <3>2. LinksAgree(links', links, {m})
      <4> HIDE DEF n, p, b, a
      <4>. QED
        BY <2>3, <2>4, <2>7, <3>1, <1>t, LinkingLeavesOthers DEF StoreClosed
    <3>. QED
      BY <2>1, <3>2 DEF Reattach, FieldsKept, LinksAgree
  <2>. QED
    BY <2>7, <2>8, <2>9, <2>10, <2>12, <2>13
<1>4. ASSUME MoveBack PROVE Goal
  <2> DEFINE n == step.node
             t == Detach(links, n)
  <2>1. step.kind = "move" /\ step.atNew = (mode = "undo")
    BY <1>4 DEF MoveBack
  <2>2. MoveFact(step, done, w, v)
    BY <2>1 DEF StepFact
  <2>3. /\ n \in live /\ there.live = live /\ there.links.parent[n] # Nil
        /\ here.links.parent[n] # Nil
        /\ LinksAgree(Detach(here.links, n), Detach(there.links, n), live)
        /\ ObjectsAgree(here, there, live)
        /\ Target(step) = Position(there.links, n)
    <3>1. CASE done
      BY <3>1, <2>2, <1>h, <1>w DEF MoveFact, Target, LinksAgree, ObjectsAgree
    <3>2. CASE ~done
      BY <3>2, <2>2, <1>h, <1>w DEF MoveFact, Target, LinksAgree, ObjectsAgree
    <3>. QED
      BY <3>1, <3>2
  <2>4. /\ Target(step)[1] = there.links.parent[n] /\ Target(step)[2] = there.links.prev[n]
        /\ Target(step)[3] = there.links.next[n]
    BY <2>3 DEF Position
  <2>5. AttachBetweenOK(t, n, Target(step)[1], Target(step)[2], Target(step)[3])
    BY <1>h, <2>3, <2>4, MoveTarget
  <2>6. links.parent[n] # Nil /\ ~Gone(n)
    BY <1>w, <2>3 DEF LinksAgree, Gone, live
  <2>7. /\ links' = AttachBetween(t, n, Target(step)[1], Target(step)[2], Target(step)[3])
        /\ StepDone([step EXCEPT !.atNew = ~@]) /\ UNCHANGED <<slot, enabled, gen>>
    BY <1>4, <2>5, <2>6 DEF MoveBack
  <2>8. StoreOK' /\ LooksLike(there)'
    BY <1>h, <2>3, <2>4, <2>6, <2>7, MovesBack
  <2>9. PICK st : st = [step EXCEPT !.atNew = ~@]
    OBVIOUS
  <2>10. /\ st.kind = "move" /\ st.node = n /\ st.old = step.old /\ st.new = step.new
         /\ st.atNew = ~done
    BY <1>r, <2>1, <2>2, <2>9 DEF Step, MoveFact
  <2>11. MoveFact(st, ~done, w, v)
    BY <2>2, <2>10 DEF MoveFact
  <2>12. StepFact(st, ~done, w, v)'
    BY <2>10, <2>11 DEF StepFact
  <2>13. ASSUME NEW m \in NodeId, slot[m] # "live" PROVE FieldsKept(m)
    <3> DEFINE p == there.links.parent[n]
               b == there.links.prev[n]
               a == there.links.next[n]
    <3>1. m \notin live /\ n \in NodeId /\ n # m
      BY <2>13, <2>3, <1>r DEF live
    <3>2. p \in live /\ b \in live \cup {Nil} /\ a \in live \cup {Nil}
      <4>1. ClosedIn(there.links, live)
        BY <1>h, <2>3, SnapshotType
      <4>. QED
        BY <4>1, <2>3 DEF ClosedIn
    <3>3. links' = AttachBetween(t, n, p, b, a)
      BY <2>4, <2>7
    <3>4. t \in Links /\ ClosedIn(t, live)
      BY <1>t, <2>3, DetachClosed, DetachType DEF StoreClosed
    <3> HIDE DEF n, p, b, a, t
    <3>5. LinksAgree(links', t, {m})
      BY <3>1, <3>2, <3>3, <3>4, <1>t, LinkingLeavesOthers
    <3>6. LinksAgree(t, links, {m})
      BY <2>3, <3>1, <3>2, <1>t, LinkingLeavesOthers DEF t, StoreClosed, n
    <3>. QED
      BY <2>7, <3>5, <3>6 DEF FieldsKept, LinksAgree
  <2>. QED
    BY <2>7, <2>8, <2>9, <2>12, <2>13
<1>5. ASSUME PatchBack PROVE Goal
  <2> DEFINE n == step.node
  <2>1. step.kind = "patch" /\ PatchFact(step, w, v)
    BY <1>5 DEF PatchBack, StepFact
  <2>2. /\ n \in live /\ there.live = live /\ LinksAgree(links, there.links, live)
        /\ \A m \in live \ {n} : enabled[m] = there.enabled[m] /\ gen[m] = there.gen[m]
        /\ gen[n] = there.gen[n] /\ Target(step) = there.enabled[n]
    <3>1. CASE done
      BY <3>1, <2>1, <1>h, <1>w DEF PatchFact, Target, LinksAgree, ObjectsAgree, Snapshot
    <3>2. CASE ~done
      BY <3>2, <2>1, <1>h, <1>w DEF PatchFact, Target, LinksAgree, ObjectsAgree, Snapshot
    <3>. QED
      BY <3>1, <3>2
  <2>3. /\ StepDone(step) /\ enabled' = [enabled EXCEPT ![n] = Target(step)]
        /\ UNCHANGED <<links, slot, gen>>
    BY <1>5, <2>2 DEF PatchBack, Gone, live
  <2>4. live' = live
    BY <2>3 DEF live
  <2>5. LooksLike(there)'
    BY <2>2, <2>3, <2>4, <1>t DEF LooksLike, ObjectsAgree, Snapshot
  <2>6. StoreOK'
    BY <2>3, <2>4 DEF StoreOK, TreeInv, LinkInv, FreshUnlinked, RootOnTop, StoreClosed
  <2>7. PICK st : st = step
    OBVIOUS
  <2>8. StepFact(st, ~done, w, v)'
    <3>1. st.kind = "patch" /\ PatchFact(st, w, v)
      BY <2>1, <2>7
    <3>. QED
      BY <3>1 DEF StepFact
  <2>9. ASSUME NEW m \in NodeId, slot[m] # "live" PROVE FieldsKept(m)
    BY <2>2, <2>3, <2>9, <1>t DEF FieldsKept, live
  <2>. QED
    BY <2>3, <2>5, <2>6, <2>7, <2>8, <2>9
<1>6. ASSUME SwapBack PROVE Goal
  <2> DEFINE n == step.node
             o == Target(step)
  <2>1. step.kind = "replace" /\ ReplaceFact(step, done, w, v) /\ o # Nil
    BY <1>6 DEF SwapBack, StepFact
  <2>2. /\ n \in live /\ there.live = live /\ LinksAgree(links, there.links, live)
        /\ \A m \in live \ {n} : enabled[m] = there.enabled[m] /\ gen[m] = there.gen[m]
        /\ o.gen = there.gen[n] /\ o.enabled = there.enabled[n]
    <3>1. CASE done
      BY <3>1, <2>1, <1>h, <1>w DEF ReplaceFact, Target, LinksAgree, ObjectsAgree, Snapshot
    <3>2. CASE ~done
      BY <3>2, <2>1, <1>h, <1>w DEF ReplaceFact, Target, LinksAgree, ObjectsAgree, Snapshot
    <3>. QED
      BY <3>1, <3>2
  <2>3. /\ SwapObject(n, o.gen, o.enabled, o.effective)
        /\ StepDone([kind |-> "replace", node |-> n,
                     old |-> IF mode = "undo" THEN Nil ELSE Object(n),
                     new |-> IF mode = "undo" THEN Object(n) ELSE Nil])
        /\ UNCHANGED <<links, slot>>
    BY <1>6, <2>2 DEF SwapBack, Gone, live
  <2>4. live' = live
    BY <2>3 DEF live
  <2>5. LooksLike(there)'
    <3>1. enabled' = [enabled EXCEPT ![n] = o.enabled] /\ gen' = [gen EXCEPT ![n] = o.gen]
      BY <2>3 DEF SwapObject
    <3>. QED
      BY <2>2, <2>3, <2>4, <3>1, <1>t DEF LooksLike, ObjectsAgree, Snapshot
  <2>6. StoreOK'
    BY <2>3, <2>4 DEF StoreOK, TreeInv, LinkInv, FreshUnlinked, RootOnTop, StoreClosed
  <2>7. PICK st : st = [kind |-> "replace", node |-> n,
                        old |-> IF mode = "undo" THEN Nil ELSE Object(n),
                        new |-> IF mode = "undo" THEN Object(n) ELSE Nil]
    OBVIOUS
  <2>8. Object(n) # Nil /\ Object(n).gen = here.gen[n] /\ Object(n).enabled = here.enabled[n]
    <3>1. Object(n) \in [gen : Gens, enabled : BOOLEAN, effective : BOOLEAN]
      BY <1>r, <1>t DEF Object, StoreOK, TypeOK
    <3>2. Object(n).gen = here.gen[n] /\ Object(n).enabled = here.enabled[n]
      BY <1>w, <2>2 DEF Object, ObjectsAgree, Snapshot
    <3>. QED
      BY <3>1, <3>2, ObjectAssumption
  <2>9. /\ st.kind = "replace" /\ st.node = n
        /\ done => st.old = Nil /\ st.new = Object(n)
        /\ ~done => st.new = Nil /\ st.old = Object(n)
    BY <2>7
  <2>10. ReplaceFact(st, ~done, w, v)
    BY <2>1, <2>8, <2>9, <1>h DEF ReplaceFact
  <2>11. StepFact(st, ~done, w, v)'
    BY <2>9, <2>10 DEF StepFact
  <2>12. ASSUME NEW m \in NodeId, slot[m] # "live" PROVE FieldsKept(m)
    BY <2>2, <2>3, <2>12, <1>t DEF FieldsKept, live, SwapObject
  <2>. QED
    BY <2>3, <2>5, <2>6, <2>7, <2>11, <2>12
<1>7. ASSUME NothingToReplay PROVE FALSE
  <2>1. CASE TakesOut(step) /\ step.held # {}
    BY <2>1, <1>a DEF OutFact
  <2>2. CASE PutsBack(step) /\ step.held = {}
    BY <2>2, <1>b DEF OutFact, Subtree
  <2>3. CASE step.kind = "move" /\ step.atNew # (mode = "undo")
    BY <2>3 DEF StepFact, MoveFact
  <2>4. CASE step.kind = "replace" /\ Target(step) = Nil
    BY <2>4 DEF StepFact, ReplaceFact, Target
  <2>. QED
    BY <1>7, <2>1, <2>2, <2>3, <2>4 DEF NothingToReplay
<1>8. Goal
  BY <1>1, <1>2, <1>3, <1>4, <1>5, <1>6, <1>7 DEF Replaying
<1>. QED
  BY <1>8, <1>h

-----------------------------------------------------------------------------
(* The chain of snapshots.                                                 *)

\* The snapshots a transaction passes, before and after each of its steps.
Chains(t) == [0..Len(t.steps) -> Snapshots]

\* The first k steps lead there, the others would.
Follows(t, c, k) ==
    \A i \in 1..Len(t.steps) : /\ i <= k => StepFact(t.steps[i], TRUE, c[i - 1], c[i])
                               /\ i > k => StepFact(t.steps[i], FALSE, c[i - 1], c[i])

Joins(t, c) == Seen(c[0]) = t.before /\ Seen(c[Len(t.steps)]) = t.after

Replayable(t, k) == \E c \in Chains(t) : Follows(t, c, k) /\ Joins(t, c)

\* Undoing the transactions of a stack one after the other leads from x to where the
\* stack began; redoing those of the other one leads on from x.
Undoable(u, x) ==
    \A k \in 1..Len(u) : /\ Replayable(u[k], Len(u[k].steps))
                         /\ u[k].after = IF k = Len(u) THEN x ELSE u[k + 1].before

Redoable(r, x) ==
    \A k \in 1..Len(r) : /\ Replayable(r[k], 0)
                         /\ r[k].before = IF k = Len(r) THEN x ELSE r[k + 1].after

IdleRight ==
    \E u, r, x : /\ u = undoStack /\ r = redoStack /\ x = Content
                 /\ Undoable(u, x) /\ Redoable(r, x)

BatchRight ==
    \E u, t, v : \E c \in Chains(t) :
       /\ u = undoStack /\ t = tx /\ v = Snapshot
       /\ Undoable(u, t.before)
       /\ Follows(t, c, Len(t.steps)) /\ Seen(c[0]) = t.before /\ c[Len(t.steps)] = v

ReplayUnderWay ==
    \E u, r, t, k : \E c \in Chains(t) :
       /\ u = undoStack /\ r = redoStack /\ t = tx
       /\ k = IF mode = "undo" THEN at ELSE at - 1
       /\ k \in 0..Len(t.steps)
       /\ Undoable(u, t.before) /\ Redoable(r, t.after) /\ Joins(t, c)
       /\ Follows(t, c, k) /\ LooksLike(c[k])

HistoryRight ==
    /\ mode = "idle" => IdleRight
    /\ mode \in {"batch", "clearRedo"} => BatchRight
    /\ mode = "batch" => redoStack = <<>>
    /\ mode \in {"undo", "redo"} => ReplayUnderWay

UndoInv == mode # "panic" => StoreOK /\ HistoryRight

-----------------------------------------------------------------------------
(* What is held keeps its fields.                                          *)

KeptIn(t) == \A i \in 1..Len(t.steps) : \A m \in Held(t.steps[i]) : FieldsKept(m)

\* What a step says of its snapshots stays true while what it holds keeps its fields.
LEMMA FactKept ==
    ASSUME NEW s, NEW done \in BOOLEAN, NEW w, NEW v, StepFact(s, done, w, v),
           \A m \in Held(s) : FieldsKept(m)
    PROVE  StepFact(s, done, w, v)'
<1>1. ASSUME NEW big, NEW small, NEW out, OutFact(s, out, big, small), s.kind \in {"add", "remove"}
      PROVE  OutFact(s, out, big, small)'
  <2>1. \A m \in s.held : FieldsKept(m)
    BY <1>1 DEF Held
  <2>2. StoredAs(s.held, s.node, big) => StoredAs(s.held, s.node, big)'
    BY <2>1 DEF StoredAs, FieldsKept
  <2>. QED
    BY <1>1, <2>2 DEF OutFact
<1>2. s.kind = "add" => OutFact(s, ~done, v, w)'
  BY <1>1 DEF StepFact
<1>3. s.kind = "remove" => OutFact(s, done, w, v)'
  BY <1>1 DEF StepFact
<1>4. /\ s.kind = "move" => MoveFact(s, done, w, v)
      /\ s.kind = "patch" => PatchFact(s, w, v)
      /\ s.kind = "replace" => ReplaceFact(s, done, w, v)
  BY DEF StepFact
<1>. QED
  BY <1>2, <1>3, <1>4 DEF StepFact

\* The same of the chain of a transaction,
LEMMA FollowsKept ==
    ASSUME NEW t, NEW c, NEW k, Follows(t, c, k), KeptIn(t)
    PROVE  Follows(t, c, k)'
<1> SUFFICES ASSUME NEW i \in 1..Len(t.steps)
             PROVE  /\ i <= k => StepFact(t.steps[i], TRUE, c[i - 1], c[i])'
                    /\ i > k => StepFact(t.steps[i], FALSE, c[i - 1], c[i])'
  BY DEF Follows
<1>1. \A m \in Held(t.steps[i]) : FieldsKept(m)
  BY DEF KeptIn
<1>2. ASSUME i <= k PROVE StepFact(t.steps[i], TRUE, c[i - 1], c[i])'
  <2>1. StepFact(t.steps[i], TRUE, c[i - 1], c[i])
    BY <1>2 DEF Follows
  <2>. QED
    BY <1>1, <2>1, FactKept
<1>3. ASSUME i > k PROVE StepFact(t.steps[i], FALSE, c[i - 1], c[i])'
  <2>1. StepFact(t.steps[i], FALSE, c[i - 1], c[i])
    BY <1>3 DEF Follows
  <2>. QED
    BY <1>1, <2>1, FactKept
<1>. QED
  BY <1>2, <1>3

\* of a transaction,
LEMMA ReplayableKept ==
    ASSUME NEW t, NEW k, Replayable(t, k), KeptIn(t)
    PROVE  Replayable(t, k)'
<1>1. PICK c \in Chains(t) : Follows(t, c, k) /\ Joins(t, c)
  BY DEF Replayable
<1>2. Follows(t, c, k)'
  BY <1>1, FollowsKept
<1>. QED
  BY <1>1, <1>2 DEF Replayable

\* of the undo stack
LEMMA UndoableKept ==
    ASSUME NEW u, NEW x, Undoable(u, x), \A k \in 1..Len(u) : KeptIn(u[k])
    PROVE  Undoable(u, x)'
<1>1. \A k \in 1..Len(u) : Replayable(u[k], Len(u[k].steps))'
  BY ReplayableKept DEF Undoable
<1>. QED
  BY <1>1 DEF Undoable

\* and of the redo stack.
LEMMA RedoableKept ==
    ASSUME NEW r, NEW x, Redoable(r, x), \A k \in 1..Len(r) : KeptIn(r[k])
    PROVE  Redoable(r, x)'
<1>1. \A k \in 1..Len(r) : Replayable(r[k], 0)'
  BY ReplayableKept DEF Redoable
<1>. QED
  BY <1>1 DEF Redoable

\* A transaction is pushed on a stack or popped off it.
LEMMA UndoablePush ==
    ASSUME NEW u \in Seq(Transaction), NEW t \in Transaction,
           Undoable(u, t.before), Replayable(t, Len(t.steps))
    PROVE  Undoable(Append(u, t), t.after)
<1>1. /\ Len(Append(u, t)) = Len(u) + 1 /\ Len(u) \in Nat /\ Append(u, t)[Len(u) + 1] = t
      /\ \A k \in 1..Len(u) : Append(u, t)[k] = u[k]
  OBVIOUS
<1>2. PICK q : q = Append(u, t)
  OBVIOUS
<1>3. /\ Len(q) = Len(u) + 1 /\ q[Len(u) + 1] = t
      /\ \A k \in 1..Len(u) : q[k] = u[k]
  BY <1>1, <1>2
<1>4. ASSUME NEW k \in 1..Len(q)
      PROVE  /\ Replayable(q[k], Len(q[k].steps))
             /\ q[k].after = IF k = Len(q) THEN t.after ELSE q[k + 1].before
  <2>1. CASE k = Len(u) + 1
    BY <1>3, <2>1
  <2>2. CASE k = Len(u) /\ k \in 1..Len(u)
    <3>1. q[k] = u[k] /\ q[k + 1] = t /\ k # Len(q)
      BY <1>1, <1>3, <2>2
    <3>2. Replayable(u[k], Len(u[k].steps)) /\ u[k].after = t.before
      BY <2>2 DEF Undoable
    <3>. QED
      BY <3>1, <3>2
  <2>3. CASE k \in 1..(Len(u) - 1)
    <3>1. q[k] = u[k] /\ q[k + 1] = u[k + 1] /\ k # Len(q) /\ k # Len(u) /\ k \in 1..Len(u)
      BY <1>1, <1>3, <2>3
    <3>2. Replayable(u[k], Len(u[k].steps)) /\ u[k].after = u[k + 1].before
      BY <3>1 DEF Undoable
    <3>. QED
      BY <3>1, <3>2
  <2>. QED
    BY <1>1, <1>3, <2>1, <2>2, <2>3
<1>5. Undoable(q, t.after)
  BY <1>4 DEF Undoable
<1>. QED
  BY <1>2, <1>5

LEMMA UndoablePop ==
    ASSUME NEW u \in Seq(Transaction), u # <<>>, NEW x, Undoable(u, x)
    PROVE  /\ Undoable(Front(u), Last(u).before) /\ Front(u) \in Seq(Transaction)
           /\ Replayable(Last(u), Len(Last(u).steps)) /\ Last(u).after = x /\ Last(u) \in Transaction
<1>1. /\ Front(u) \in Seq(Transaction) /\ Len(Front(u)) = Len(u) - 1 /\ Len(u) \in Nat \ {0}
      /\ \A k \in 1..(Len(u) - 1) : Front(u)[k] = u[k]
      /\ Last(u) = u[Len(u)] /\ Last(u) \in Transaction
  BY FrontOf
<1>2. PICK q, t : q = Front(u) /\ t = Last(u)
  OBVIOUS
<1>3. Replayable(t, Len(t.steps)) /\ t.after = x
  BY <1>1, <1>2 DEF Undoable
<1>4. ASSUME NEW k \in 1..Len(q)
      PROVE  /\ Replayable(q[k], Len(q[k].steps))
             /\ q[k].after = IF k = Len(q) THEN t.before ELSE q[k + 1].before
  <2>1. k \in 1..(Len(u) - 1) /\ k # Len(u) /\ q[k] = u[k] /\ k \in 1..Len(u)
    BY <1>1, <1>2
  <2>2. Replayable(u[k], Len(u[k].steps)) /\ u[k].after = u[k + 1].before
    BY <2>1 DEF Undoable
  <2>3. IF k = Len(q) THEN u[k + 1] = t ELSE u[k + 1] = q[k + 1]
    BY <1>1, <1>2, <2>1
  <2>. QED
    BY <2>1, <2>2, <2>3
<1>5. Undoable(q, t.before)
  BY <1>4 DEF Undoable
<1>. QED
  BY <1>1, <1>2, <1>3, <1>5

LEMMA RedoablePush ==
    ASSUME NEW u \in Seq(Transaction), NEW t \in Transaction,
           Redoable(u, t.after), Replayable(t, 0)
    PROVE  Redoable(Append(u, t), t.before)
<1>1. /\ Len(Append(u, t)) = Len(u) + 1 /\ Len(u) \in Nat /\ Append(u, t)[Len(u) + 1] = t
      /\ \A k \in 1..Len(u) : Append(u, t)[k] = u[k]
  OBVIOUS
<1>2. PICK q : q = Append(u, t)
  OBVIOUS
<1>3. /\ Len(q) = Len(u) + 1 /\ q[Len(u) + 1] = t
      /\ \A k \in 1..Len(u) : q[k] = u[k]
  BY <1>1, <1>2
<1>4. ASSUME NEW k \in 1..Len(q)
      PROVE  /\ Replayable(q[k], 0)
             /\ q[k].before = IF k = Len(q) THEN t.before ELSE q[k + 1].after
  <2>1. CASE k = Len(u) + 1
    BY <1>3, <2>1
  <2>2. CASE k = Len(u) /\ k \in 1..Len(u)
    <3>1. q[k] = u[k] /\ q[k + 1] = t /\ k # Len(q)
      BY <1>1, <1>3, <2>2
    <3>2. Replayable(u[k], 0) /\ u[k].before = t.after
      BY <2>2 DEF Redoable
    <3>. QED
      BY <3>1, <3>2
  <2>3. CASE k \in 1..(Len(u) - 1)
    <3>1. q[k] = u[k] /\ q[k + 1] = u[k + 1] /\ k # Len(q) /\ k # Len(u) /\ k \in 1..Len(u)
      BY <1>1, <1>3, <2>3
    <3>2. Replayable(u[k], 0) /\ u[k].before = u[k + 1].after
      BY <3>1 DEF Redoable
    <3>. QED
      BY <3>1, <3>2
  <2>. QED
    BY <1>1, <1>3, <2>1, <2>2, <2>3
<1>5. Redoable(q, t.before)
  BY <1>4 DEF Redoable
<1>. QED
  BY <1>2, <1>5

LEMMA RedoablePop ==
    ASSUME NEW u \in Seq(Transaction), u # <<>>, NEW x, Redoable(u, x)
    PROVE  /\ Redoable(Front(u), Last(u).after) /\ Front(u) \in Seq(Transaction)
           /\ Replayable(Last(u), 0) /\ Last(u).before = x /\ Last(u) \in Transaction
<1>1. /\ Front(u) \in Seq(Transaction) /\ Len(Front(u)) = Len(u) - 1 /\ Len(u) \in Nat \ {0}
      /\ \A k \in 1..(Len(u) - 1) : Front(u)[k] = u[k]
      /\ Last(u) = u[Len(u)] /\ Last(u) \in Transaction
  BY FrontOf
<1>2. PICK q, t : q = Front(u) /\ t = Last(u)
  OBVIOUS
<1>3. Replayable(t, 0) /\ t.before = x
  BY <1>1, <1>2 DEF Redoable
<1>4. ASSUME NEW k \in 1..Len(q)
      PROVE  /\ Replayable(q[k], 0)
             /\ q[k].before = IF k = Len(q) THEN t.after ELSE q[k + 1].after
  <2>1. k \in 1..(Len(u) - 1) /\ k # Len(u) /\ q[k] = u[k] /\ k \in 1..Len(u)
    BY <1>1, <1>2
  <2>2. Replayable(u[k], 0) /\ u[k].before = u[k + 1].after
    BY <2>1 DEF Redoable
  <2>3. IF k = Len(q) THEN u[k + 1] = t ELSE u[k + 1] = q[k + 1]
    BY <1>1, <1>2, <2>1
  <2>. QED
    BY <2>1, <2>2, <2>3
<1>5. Redoable(q, t.after)
  BY <1>4 DEF Redoable
<1>. QED
  BY <1>1, <1>2, <1>3, <1>5

\* What the steps of the history hold keeps its fields when all that is out of the
\* store does; the step at the place z of the transaction in work excepted.
LEMMA HeldKept ==
    ASSUME HistoryTypeOK, KeysHeldOnce, NEW z \in Nat,
           \A m \in NodeId : /\ slot[m] \in {"detached", "removed"}
                             /\ z \in 1..Len(tx.steps) => m \notin Held(tx.steps[z])
                             => FieldsKept(m)
    PROVE  /\ \A k \in 1..Len(undoStack) : KeptIn(undoStack[k])
           /\ \A k \in 1..Len(redoStack) : KeptIn(redoStack[k])
           /\ \A i \in 1..Len(tx.steps) : i # z => \A m \in Held(tx.steps[i]) : FieldsKept(m)
<1>p. PlacesRight
  BY PlaceSteps
<1>1. ASSUME NEW a \in Places, NEW i \in 1..Len(StepsAt(a)), <<a, i>> # <<Work, z>>
      PROVE  \A m \in Held(StepsAt(a)[i]) : FieldsKept(m)
  <2>1. <<a, i>> \in Spots /\ StepIn(<<a, i>>) = StepsAt(a)[i]
    BY SpotSteps
  <2>2. StepsAt(a)[i] \in Step /\ StepSound(StepsAt(a)[i])
    BY <2>1, SpotType DEF KeysHeldOnce
  <2>3. ASSUME NEW m \in Held(StepsAt(a)[i]), z \in 1..Len(tx.steps)
        PROVE  m \notin Held(tx.steps[z])
    <3>1. Work \in Places /\ z \in 1..Len(StepsAt(Work)) /\ StepsAt(Work) = tx.steps
      BY <1>p, <2>3 DEF PlacesRight
    <3>2. <<Work, z>> \in Spots /\ StepIn(<<Work, z>>) = tx.steps[z]
      BY <3>1, SpotSteps
    <3>3. Held(StepsAt(a)[i]) \cap Held(tx.steps[z]) = {}
      BY <1>1, <2>1, <3>2 DEF KeysHeldOnce
    <3>. QED
      BY <3>3
  <2>4. \A m \in Held(StepsAt(a)[i]) : m \in NodeId /\ slot[m] \in {"detached", "removed"}
    BY <2>2 DEF StepSound, Held, Step
  <2>. QED
    BY <2>3, <2>4
<1>2. ASSUME NEW k \in 1..Len(undoStack) PROVE KeptIn(undoStack[k])
  <2>1. /\ <<"undo", k>> \in Places /\ StepsAt(<<"undo", k>>) = undoStack[k].steps
        /\ <<"undo", k>> # Work
    BY <1>p DEF PlacesRight, Work
  <2>. QED
    BY <1>1, <2>1 DEF KeptIn
<1>3. ASSUME NEW k \in 1..Len(redoStack) PROVE KeptIn(redoStack[k])
  <2>1. /\ <<"redo", k>> \in Places /\ StepsAt(<<"redo", k>>) = redoStack[k].steps
        /\ <<"redo", k>> # Work
    BY <1>p DEF PlacesRight, Work
  <2>. QED
    BY <1>1, <2>1 DEF KeptIn
<1>4. ASSUME NEW i \in 1..Len(tx.steps), i # z PROVE \A m \in Held(tx.steps[i]) : FieldsKept(m)
  BY <1>1, <1>4, <1>p DEF PlacesRight
<1>. QED
  BY <1>2, <1>3, <1>4

\* Nothing that the snapshots show changes, be it that keys are released.
Untouched ==
    /\ UNCHANGED <<links, enabled, gen>>
    /\ \/ slot' = slot
       \/ \E f : slot' = [m \in NodeId |-> IF slot[m] = "detached" /\ m \in f THEN "removed"
                                           ELSE slot[m]]

\* Releasing keys leaves the store as it is.
LEMMA UntouchedStore ==
    ASSUME StoreOK, TypeOK', Untouched
    PROVE  /\ StoreOK' /\ live' = live /\ Content' = Content /\ Snapshot' = Snapshot
           /\ \A m \in NodeId : FieldsKept(m)
<1>1. live' = live /\ \A m \in NodeId : slot'[m] = "free" => slot[m] = "free"
  <2>1. slot \in [NodeId -> {"free", "live", "detached", "removed"}]
    BY DEF StoreOK, TypeOK
  <2>. QED
    BY <2>1 DEF Untouched, live
<1>2. UNCHANGED <<links, enabled, gen>>
  BY DEF Untouched
<1>3. StoreOK'
  BY <1>1, <1>2 DEF StoreOK, TreeInv, LinkInv, FreshUnlinked, RootOnTop, StoreClosed
<1>4. Content' = Content /\ Snapshot' = Snapshot
  BY <1>1, <1>2 DEF Content, Snapshot
<1>5. \A m \in NodeId : FieldsKept(m)
  BY <1>2 DEF FieldsKept
<1>. QED
  BY <1>1, <1>3, <1>4, <1>5

\* A snapshot that the store looks like stays one.
LEMMA UntouchedLooks ==
    ASSUME StoreOK, TypeOK', Untouched, NEW w, LooksLike(w)
    PROVE  LooksLike(w)'
<1>1. live' = live /\ Snapshot' = Snapshot /\ links' = links
  BY UntouchedStore DEF Untouched
<1>. QED
  BY <1>1 DEF LooksLike, LinksAgree, ObjectsAgree

\* Between two calls and back again.
LEMMA UntouchedHeld ==
    ASSUME HistoryTypeOK, TypeOK', KeysHeldOnce, StoreOK, Untouched
    PROVE  /\ \A k \in 1..Len(undoStack) : KeptIn(undoStack[k])
           /\ \A k \in 1..Len(redoStack) : KeptIn(redoStack[k])
           /\ KeptIn(tx)
<1>1. \A m \in NodeId : FieldsKept(m)
  BY UntouchedStore
<1>2. 0 \in Nat /\ \A i \in 1..Len(tx.steps) : i # 0
  OBVIOUS
<1>. QED
  BY <1>1, <1>2, HeldKept DEF KeptIn

-----------------------------------------------------------------------------
(* The steps of the specification.                                         *)

\* The whole invariant, in a mode in which nothing panicked.
Right == HistoryTypeOK /\ KeysHeldOnce /\ StoreOK /\ HistoryRight

\* Stuttering.
LEMMA StaysRight ==
    ASSUME Right, HistoryTypeOK', UNCHANGED vars
    PROVE  StoreOK' /\ HistoryRight'
<1>0. Untouched /\ TypeOK' /\ HistoryTypeOK /\ KeysHeldOnce /\ StoreOK
  BY DEF Right, vars, graph, Untouched, HistoryTypeOK
<1>1. StoreOK' /\ Content' = Content /\ Snapshot' = Snapshot
  BY <1>0, UntouchedStore
<1>h. UNCHANGED <<undoStack, redoStack, tx, at, mode>>
  BY DEF vars, history
<1>k. /\ \A k \in 1..Len(undoStack) : KeptIn(undoStack[k])
      /\ \A k \in 1..Len(redoStack) : KeptIn(redoStack[k])
      /\ KeptIn(tx)
  BY <1>0, UntouchedHeld
<1>2. ASSUME IdleRight PROVE IdleRight'
  <2>1. PICK u, r, x : /\ u = undoStack /\ r = redoStack /\ x = Content
                       /\ Undoable(u, x) /\ Redoable(r, x)
    BY <1>2 DEF IdleRight
  <2>2. Undoable(u, x)' /\ Redoable(r, x)'
    BY <1>k, <2>1, UndoableKept, RedoableKept
  <2>. QED
    BY <1>1, <1>h, <2>1, <2>2 DEF IdleRight
<1>3. ASSUME BatchRight PROVE BatchRight'
  <2>1. PICK u, t, v : \E c \in Chains(t) :
           /\ u = undoStack /\ t = tx /\ v = Snapshot
           /\ Undoable(u, t.before)
           /\ Follows(t, c, Len(t.steps)) /\ Seen(c[0]) = t.before /\ c[Len(t.steps)] = v
    BY <1>3 DEF BatchRight
  <2>2. PICK c \in Chains(t) :
           Follows(t, c, Len(t.steps)) /\ Seen(c[0]) = t.before /\ c[Len(t.steps)] = v
    BY <2>1
  <2>3. Undoable(u, t.before)' /\ Follows(t, c, Len(t.steps))'
    BY <1>k, <2>1, <2>2, UndoableKept, FollowsKept
  <2>. QED
    BY <1>1, <1>h, <2>1, <2>2, <2>3 DEF BatchRight
<1>4. ASSUME ReplayUnderWay PROVE ReplayUnderWay'
  <2>1. PICK u, r, t, k : \E c \in Chains(t) :
           /\ u = undoStack /\ r = redoStack /\ t = tx
           /\ k = IF mode = "undo" THEN at ELSE at - 1
           /\ k \in 0..Len(t.steps)
           /\ Undoable(u, t.before) /\ Redoable(r, t.after) /\ Joins(t, c)
           /\ Follows(t, c, k) /\ LooksLike(c[k])
    BY <1>4 DEF ReplayUnderWay
  <2>2. PICK c \in Chains(t) : Joins(t, c) /\ Follows(t, c, k) /\ LooksLike(c[k])
    BY <2>1
  <2>3. Undoable(u, t.before)' /\ Redoable(r, t.after)' /\ Follows(t, c, k)'
    BY <1>k, <2>1, <2>2, UndoableKept, RedoableKept, FollowsKept
  <2>4. LooksLike(c[k])'
    BY <1>0, <2>2, UntouchedLooks
  <2>. QED
    BY <1>h, <2>1, <2>2, <2>3, <2>4 DEF ReplayUnderWay
<1>. QED
  BY <1>1, <1>2, <1>3, <1>4, <1>h DEF Right, HistoryRight

\* push_undo_transaction.
LEMMA EndBatchRight ==
    ASSUME Right, HistoryTypeOK', EndBatch
    PROVE  StoreOK' /\ HistoryRight'
<1>0. Untouched /\ TypeOK' /\ HistoryTypeOK /\ KeysHeldOnce /\ StoreOK
  BY DEF Right, EndBatch, graph, Untouched, HistoryTypeOK
<1>1. StoreOK' /\ Content' = Content
  BY <1>0, UntouchedStore
<1>k. (\A k \in 1..Len(undoStack) : KeptIn(undoStack[k])) /\ KeptIn(tx)
  BY <1>0, UntouchedHeld
<1>2. PICK u, t, v : \E c \in Chains(t) :
         /\ u = undoStack /\ t = tx /\ v = Snapshot
         /\ Undoable(u, t.before)
         /\ Follows(t, c, Len(t.steps)) /\ Seen(c[0]) = t.before /\ c[Len(t.steps)] = v
  BY DEF Right, HistoryRight, EndBatch, BatchRight
<1>3. PICK c \in Chains(t) :
         Follows(t, c, Len(t.steps)) /\ Seen(c[0]) = t.before /\ c[Len(t.steps)] = v
  BY <1>2
<1>4. PICK x : x = Content
  OBVIOUS
<1>5. PICK s : s = [steps |-> t.steps, before |-> t.before, after |-> x]
  OBVIOUS
<1>6. s.steps = t.steps /\ s.before = t.before /\ s.after = x
  BY <1>5
<1>7. u \in Seq(Transaction) /\ s \in Transaction
  BY <1>0, <1>2, <1>4, <1>5, ContentType DEF HistoryTypeOK, Transaction
<1>8. Seen(v) = x
  BY <1>0, <1>2, <1>4, SnapshotNow
<1>9. Replayable(s, Len(s.steps))
  <2>1. c \in Chains(s) /\ Follows(s, c, Len(s.steps)) /\ Joins(s, c)
    BY <1>3, <1>6, <1>8 DEF Chains, Follows, Joins
  <2>. QED
    BY <2>1 DEF Replayable
<1>10. PICK q : q = Append(u, s)
  OBVIOUS
<1>11. Undoable(q, x)
  BY <1>2, <1>6, <1>7, <1>9, <1>10, UndoablePush
<1>12. \A k \in 1..Len(q) : KeptIn(q[k])
  <2>1. \A k \in 1..Len(q) : q[k] = s \/ (k \in 1..Len(u) /\ q[k] = u[k])
    BY <1>7, <1>10
  <2>2. KeptIn(s)
    BY <1>k, <1>2, <1>6 DEF KeptIn
  <2>. QED
    BY <1>k, <1>2, <2>1, <2>2
<1>13. Undoable(q, x)'
  BY <1>11, <1>12, UndoableKept
<1>14. undoStack' = q /\ mode' = "idle" /\ redoStack' = <<>> /\ Content' = x
  BY <1>1, <1>2, <1>4, <1>5, <1>10 DEF EndBatch, Right, HistoryRight
<1>15. PICK r : r = <<>>
  OBVIOUS
<1>16. Redoable(r, x)'
  BY <1>15 DEF Redoable
<1>. QED
  BY <1>1, <1>13, <1>14, <1>15, <1>16 DEF HistoryRight, IdleRight

\* undo pops a transaction: the store looks like the last snapshot of its chain.
LEMMA StartUndoRight ==
    ASSUME Right, HistoryTypeOK', StartUndo
    PROVE  StoreOK' /\ HistoryRight'
<1>0. Untouched /\ TypeOK' /\ HistoryTypeOK /\ KeysHeldOnce /\ StoreOK
  BY DEF Right, StartUndo, graph, Untouched, HistoryTypeOK
<1>1. StoreOK'
  BY <1>0, UntouchedStore
<1>k. /\ \A k \in 1..Len(undoStack) : KeptIn(undoStack[k])
      /\ \A k \in 1..Len(redoStack) : KeptIn(redoStack[k])
  BY <1>0, UntouchedHeld
<1>2. PICK u, r, x : /\ u = undoStack /\ r = redoStack /\ x = Content
                     /\ Undoable(u, x) /\ Redoable(r, x)
  BY DEF Right, HistoryRight, StartUndo, IdleRight
<1>3. u \in Seq(Transaction) /\ u # <<>>
  BY <1>0, <1>2 DEF HistoryTypeOK, StartUndo
<1>4. PICK q, t : q = Front(u) /\ t = Last(u)
  OBVIOUS
<1>5. /\ Undoable(q, t.before) /\ Replayable(t, Len(t.steps)) /\ t.after = x /\ t \in Transaction
  BY <1>2, <1>3, <1>4, UndoablePop
<1>6. PICK c \in Chains(t) : Follows(t, c, Len(t.steps)) /\ Joins(t, c)
  BY <1>5 DEF Replayable
<1>7. PICK k : k = Len(t.steps)
  OBVIOUS
<1>8. k \in 0..Len(t.steps) /\ t.steps \in Seq(Step)
  <2>1. t.steps \in Seq(Step)
    BY <1>5 DEF Transaction
  <2>. QED
    BY <1>7, <2>1
<1>9. LooksLike(c[k])
  <2>1. c[k] \in Snapshots
    BY <1>8 DEF Chains
  <2>2. Content = Seen(c[k])
    BY <1>2, <1>5, <1>6, <1>7 DEF Joins
  <2>. QED
    BY <2>1, <2>2, LooksShows
<1>10. LooksLike(c[k])'
  BY <1>0, <1>9, UntouchedLooks
<1>11. KeptIn(t) /\ \A i \in 1..Len(q) : KeptIn(q[i])
  <2>1. /\ Len(q) = Len(u) - 1 /\ Len(u) \in Nat \ {0}
        /\ \A i \in 1..(Len(u) - 1) : q[i] = u[i]
        /\ t = u[Len(u)]
    BY <1>3, <1>4, FrontOf
  <2>2. Len(u) \in 1..Len(u) /\ \A i \in 1..Len(q) : i \in 1..Len(u) /\ q[i] = u[i]
    BY <2>1
  <2>. QED
    BY <1>k, <1>2, <2>1, <2>2
<1>12. Undoable(q, t.before)' /\ Redoable(r, t.after)' /\ Follows(t, c, k)'
  BY <1>k, <1>2, <1>5, <1>6, <1>7, <1>11, UndoableKept, RedoableKept, FollowsKept
<1>13. /\ mode' = "undo" /\ undoStack' = q /\ redoStack' = r /\ tx' = t /\ at' = k
  BY <1>2, <1>4, <1>7 DEF StartUndo
<1>14. ReplayUnderWay'
  BY <1>6, <1>8, <1>10, <1>12, <1>13 DEF ReplayUnderWay
<1>. QED
  BY <1>1, <1>13, <1>14 DEF HistoryRight

\* redo pops one: the store looks like the first snapshot of its chain.
LEMMA StartRedoRight ==
    ASSUME Right, HistoryTypeOK', StartRedo
    PROVE  StoreOK' /\ HistoryRight'
<1>0. Untouched /\ TypeOK' /\ HistoryTypeOK /\ KeysHeldOnce /\ StoreOK
  BY DEF Right, StartRedo, graph, Untouched, HistoryTypeOK
<1>1. StoreOK'
  BY <1>0, UntouchedStore
<1>k. /\ \A k \in 1..Len(undoStack) : KeptIn(undoStack[k])
      /\ \A k \in 1..Len(redoStack) : KeptIn(redoStack[k])
  BY <1>0, UntouchedHeld
<1>2. PICK u, r, x : /\ u = undoStack /\ r = redoStack /\ x = Content
                     /\ Undoable(u, x) /\ Redoable(r, x)
  BY DEF Right, HistoryRight, StartRedo, IdleRight
<1>3. r \in Seq(Transaction) /\ r # <<>>
  BY <1>0, <1>2 DEF HistoryTypeOK, StartRedo
<1>4. PICK q, t : q = Front(r) /\ t = Last(r)
  OBVIOUS
<1>5. Redoable(q, t.after) /\ Replayable(t, 0) /\ t.before = x /\ t \in Transaction
  BY <1>2, <1>3, <1>4, RedoablePop
<1>6. PICK c \in Chains(t) : Follows(t, c, 0) /\ Joins(t, c)
  BY <1>5 DEF Replayable
<1>7. 0 \in 0..Len(t.steps)
  <2>1. t.steps \in Seq(Step)
    BY <1>5 DEF Transaction
  <2>. QED
    BY <2>1
<1>8. LooksLike(c[0])
  <2>1. c[0] \in Snapshots
    BY <1>7 DEF Chains
  <2>2. Content = Seen(c[0])
    BY <1>2, <1>5, <1>6 DEF Joins
  <2>. QED
    BY <2>1, <2>2, LooksShows
<1>9. LooksLike(c[0])'
  BY <1>0, <1>8, UntouchedLooks
<1>10. KeptIn(t) /\ \A i \in 1..Len(q) : KeptIn(q[i])
  <2>1. /\ Len(q) = Len(r) - 1 /\ Len(r) \in Nat \ {0}
        /\ \A i \in 1..(Len(r) - 1) : q[i] = r[i]
        /\ t = r[Len(r)]
    BY <1>3, <1>4, FrontOf
  <2>2. Len(r) \in 1..Len(r) /\ \A i \in 1..Len(q) : i \in 1..Len(r) /\ q[i] = r[i]
    BY <2>1
  <2>. QED
    BY <1>k, <1>2, <2>1, <2>2
<1>11. Undoable(u, t.before)' /\ Redoable(q, t.after)' /\ Follows(t, c, 0)'
  BY <1>k, <1>2, <1>5, <1>6, <1>10, UndoableKept, RedoableKept, FollowsKept
<1>12. /\ mode' = "redo" /\ undoStack' = u /\ redoStack' = q /\ tx' = t /\ at' = 1
  BY <1>2, <1>4 DEF StartRedo
<1>13. ReplayUnderWay'
  <2>1. 0 = IF mode' = "undo" THEN at' ELSE at' - 1
    BY <1>12
  <2>. QED
    BY <1>6, <1>7, <1>9, <1>11, <1>12, <2>1 DEF ReplayUnderWay
<1>. QED
  BY <1>1, <1>12, <1>13 DEF HistoryRight

\* undo has replayed every step: the store is back at the first snapshot.
LEMMA EndUndoRight ==
    ASSUME Right, HistoryTypeOK', EndUndo
    PROVE  StoreOK' /\ HistoryRight'
<1>0. Untouched /\ TypeOK' /\ HistoryTypeOK /\ KeysHeldOnce /\ StoreOK
  BY DEF Right, EndUndo, graph, Untouched, HistoryTypeOK
<1>1. StoreOK' /\ Content' = Content
  BY <1>0, UntouchedStore
<1>k. /\ \A k \in 1..Len(undoStack) : KeptIn(undoStack[k])
      /\ \A k \in 1..Len(redoStack) : KeptIn(redoStack[k])
      /\ KeptIn(tx)
  BY <1>0, UntouchedHeld
<1>2. mode = "undo" /\ at = 0 /\ ReplayUnderWay
  BY DEF Right, HistoryRight, EndUndo
<1>3. PICK u, r, t, k : \E c \in Chains(t) :
         /\ u = undoStack /\ r = redoStack /\ t = tx
         /\ k = IF mode = "undo" THEN at ELSE at - 1
         /\ k \in 0..Len(t.steps)
         /\ Undoable(u, t.before) /\ Redoable(r, t.after) /\ Joins(t, c)
         /\ Follows(t, c, k) /\ LooksLike(c[k])
  BY <1>2 DEF ReplayUnderWay
<1>4. PICK c \in Chains(t) : Joins(t, c) /\ Follows(t, c, 0) /\ LooksLike(c[0])
  BY <1>2, <1>3
<1>5. r \in Seq(Transaction) /\ t \in Transaction /\ 0 \in 0..Len(t.steps)
  BY <1>0, <1>2, <1>3 DEF HistoryTypeOK
<1>6. PICK x : x = Content
  OBVIOUS
<1>7. t.before = x
  <2>1. c[0] \in Snapshots
    BY <1>5 DEF Chains
  <2>2. Content = Seen(c[0])
    BY <1>4, <2>1, LooksShows
  <2>. QED
    BY <1>4, <1>6, <2>2 DEF Joins
<1>8. Replayable(t, 0)
  BY <1>4 DEF Replayable
<1>9. PICK q : q = Append(r, t)
  OBVIOUS
<1>10. Redoable(q, x)
  BY <1>3, <1>5, <1>7, <1>8, <1>9, RedoablePush
<1>11. \A i \in 1..Len(q) : KeptIn(q[i])
  <2>1. \A i \in 1..Len(q) : q[i] = t \/ (i \in 1..Len(r) /\ q[i] = r[i])
    BY <1>5, <1>9
  <2>. QED
    BY <1>k, <1>3, <2>1
<1>12. Redoable(q, x)' /\ Undoable(u, x)'
  BY <1>k, <1>3, <1>7, <1>10, <1>11, RedoableKept, UndoableKept
<1>13. mode' = "idle" /\ undoStack' = u /\ redoStack' = q /\ Content' = x
  BY <1>1, <1>3, <1>6, <1>9 DEF EndUndo
<1>. QED
  BY <1>1, <1>12, <1>13 DEF HistoryRight, IdleRight

\* redo has replayed every step: the store is at the last snapshot.
LEMMA EndRedoRight ==
    ASSUME Right, HistoryTypeOK', EndRedo
    PROVE  StoreOK' /\ HistoryRight'
<1>0. Untouched /\ TypeOK' /\ HistoryTypeOK /\ KeysHeldOnce /\ StoreOK
  BY DEF Right, EndRedo, graph, Untouched, HistoryTypeOK
<1>1. StoreOK' /\ Content' = Content
  BY <1>0, UntouchedStore
<1>k. /\ \A k \in 1..Len(undoStack) : KeptIn(undoStack[k])
      /\ \A k \in 1..Len(redoStack) : KeptIn(redoStack[k])
      /\ KeptIn(tx)
  BY <1>0, UntouchedHeld
<1>2. mode = "redo" /\ at > Len(tx.steps) /\ ReplayUnderWay
  BY DEF Right, HistoryRight, EndRedo
<1>3. PICK u, r, t, k : \E c \in Chains(t) :
         /\ u = undoStack /\ r = redoStack /\ t = tx
         /\ k = IF mode = "undo" THEN at ELSE at - 1
         /\ k \in 0..Len(t.steps)
         /\ Undoable(u, t.before) /\ Redoable(r, t.after) /\ Joins(t, c)
         /\ Follows(t, c, k) /\ LooksLike(c[k])
  BY <1>2 DEF ReplayUnderWay
<1>4. PICK c \in Chains(t) : Joins(t, c) /\ Follows(t, c, k) /\ LooksLike(c[k])
  BY <1>3
<1>5. u \in Seq(Transaction) /\ t \in Transaction /\ k = Len(t.steps)
  <2>1. u \in Seq(Transaction) /\ t \in Transaction /\ at \in Nat
    BY <1>0, <1>3 DEF HistoryTypeOK
  <2>2. t.steps \in Seq(Step)
    BY <2>1 DEF Transaction
  <2>3. Len(t.steps) \in Nat /\ at > Len(t.steps) /\ k = at - 1 /\ k \in 0..Len(t.steps)
    BY <1>2, <1>3, <2>2
  <2>. QED
    BY <2>1, <2>3
<1>6. PICK x : x = Content
  OBVIOUS
<1>7. t.after = x
  <2>1. c[k] \in Snapshots
    BY <1>3 DEF Chains
  <2>2. Content = Seen(c[k])
    BY <1>4, <2>1, LooksShows
  <2>. QED
    BY <1>4, <1>5, <1>6, <2>2 DEF Joins
<1>8. Replayable(t, Len(t.steps))
  BY <1>4, <1>5 DEF Replayable
<1>9. PICK q : q = Append(u, t)
  OBVIOUS
<1>10. Undoable(q, x)
  BY <1>3, <1>5, <1>7, <1>8, <1>9, UndoablePush
<1>11. \A i \in 1..Len(q) : KeptIn(q[i])
  <2>1. \A i \in 1..Len(q) : q[i] = t \/ (i \in 1..Len(u) /\ q[i] = u[i])
    BY <1>5, <1>9
  <2>. QED
    BY <1>k, <1>3, <2>1
<1>12. Undoable(q, x)' /\ Redoable(r, x)'
  BY <1>k, <1>3, <1>7, <1>10, <1>11, RedoableKept, UndoableKept
<1>13. mode' = "idle" /\ undoStack' = q /\ redoStack' = r /\ Content' = x
  BY <1>1, <1>3, <1>6, <1>9 DEF EndRedo
<1>. QED
  BY <1>1, <1>12, <1>13 DEF HistoryRight, IdleRight

\* Keys are released; what is kept does not show them.
LEMMA Disposes ==
    ASSUME NEW t, NEW done, DisposeTx(t, done)
    PROVE  Untouched
<1>1. PICK f : f = {m \in NodeId : PurgedBy(t, m) # {}}
  OBVIOUS
<1>2. slot' = [m \in NodeId |-> IF slot[m] = "detached" /\ m \in f THEN "removed" ELSE slot[m]]
  BY <1>1 DEF DisposeTx
<1>. QED
  BY <1>2 DEF DisposeTx, Untouched

\* clear_redo_history, one transaction at a time.
LEMMA ClearRedoRight ==
    ASSUME Right, HistoryTypeOK', ClearRedo, mode' # "panic"
    PROVE  StoreOK' /\ HistoryRight'
<1>1. PICK t, done : /\ done = IF Len(redoStack) = 1 THEN "batch" ELSE "clearRedo"
                     /\ DisposeTx(t, done)
  BY DEF ClearRedo
<1>0. Untouched /\ TypeOK' /\ HistoryTypeOK /\ KeysHeldOnce /\ StoreOK
  BY <1>1, Disposes DEF Right, HistoryTypeOK
<1>2. StoreOK' /\ Snapshot' = Snapshot
  BY <1>0, UntouchedStore
<1>k. (\A k \in 1..Len(undoStack) : KeptIn(undoStack[k])) /\ KeptIn(tx)
  BY <1>0, UntouchedHeld
<1>3. PICK u, s, v : \E c \in Chains(s) :
         /\ u = undoStack /\ s = tx /\ v = Snapshot
         /\ Undoable(u, s.before)
         /\ Follows(s, c, Len(s.steps)) /\ Seen(c[0]) = s.before /\ c[Len(s.steps)] = v
  BY DEF Right, HistoryRight, ClearRedo, BatchRight
<1>4. PICK c \in Chains(s) :
         Follows(s, c, Len(s.steps)) /\ Seen(c[0]) = s.before /\ c[Len(s.steps)] = v
  BY <1>3
<1>5. Undoable(u, s.before)' /\ Follows(s, c, Len(s.steps))'
  BY <1>k, <1>3, <1>4, UndoableKept, FollowsKept
<1>6. undoStack' = u /\ tx' = s /\ Snapshot' = v
  BY <1>2, <1>3 DEF ClearRedo
<1>7. BatchRight'
  BY <1>4, <1>5, <1>6 DEF BatchRight
<1>8. mode' \in {"batch", "clearRedo"} /\ (mode' = "batch" => redoStack' = <<>>)
  <2>1. mode' = done
    BY <1>1 DEF DisposeTx
  <2>2. redoStack \in Seq(Transaction) /\ redoStack # <<>> /\ redoStack' = Front(redoStack)
    BY <1>0 DEF HistoryTypeOK, ClearRedo
  <2>3. Len(redoStack') = Len(redoStack) - 1 /\ redoStack' \in Seq(Transaction)
    BY <2>2, FrontOf
  <2>. QED
    BY <1>1, <2>1, <2>3
<1>. QED
  BY <1>2, <1>7, <1>8 DEF HistoryRight

\* clear_history ends with both stacks empty.
LEMMA ClearHistoryRight ==
    ASSUME Right, HistoryTypeOK', ClearHistory, mode' # "panic"
    PROVE  StoreOK' /\ HistoryRight'
<1> DEFINE left == Len(undoStack) + Len(redoStack) - 1
<1>1. PICK t, done : done = (IF left = 0 THEN "idle" ELSE "clearAll") /\ DisposeTx(t, done)
  BY DEF ClearHistory
<1>0. Untouched /\ TypeOK' /\ HistoryTypeOK /\ StoreOK
  BY <1>1, Disposes DEF Right, HistoryTypeOK
<1>2. StoreOK'
  BY <1>0, UntouchedStore
<1>3. mode' = done
  BY <1>1 DEF DisposeTx
<1>4. undoStack \in Seq(Transaction) /\ redoStack \in Seq(Transaction)
  BY <1>0 DEF HistoryTypeOK
<1>5. ASSUME left = 0 PROVE undoStack' = <<>> /\ redoStack' = <<>>
  <2>1. Len(undoStack) \in Nat /\ Len(redoStack) \in Nat /\ Len(undoStack) + Len(redoStack) = 1
    BY <1>4, <1>5
  <2>2. CASE redoStack # <<>>
    <3>1. redoStack' = Front(redoStack) /\ undoStack' = undoStack
      BY <2>2 DEF ClearHistory
    <3>2. /\ Len(Front(redoStack)) = Len(redoStack) - 1 /\ Front(redoStack) \in Seq(Transaction)
          /\ Len(redoStack) \in Nat \ {0}
      BY <1>4, <2>2, FrontOf
    <3>3. Len(undoStack) = 0 /\ Len(Front(redoStack)) = 0
      BY <2>1, <3>2
    <3>. QED
      BY <1>4, <3>1, <3>2, <3>3
  <2>3. CASE redoStack = <<>>
    <3>1. redoStack' = redoStack /\ undoStack' = Front(undoStack) /\ undoStack # <<>>
      BY <1>4, <2>3 DEF ClearHistory
    <3>2. Len(Front(undoStack)) = Len(undoStack) - 1 /\ Front(undoStack) \in Seq(Transaction)
      BY <1>4, <3>1, FrontOf
    <3>3. Len(Front(undoStack)) = 0
      BY <2>1, <2>3, <3>2
    <3>. QED
      BY <2>3, <3>1, <3>2, <3>3
  <2>. QED
    BY <2>2, <2>3
<1>6. mode' = "idle" => IdleRight'
  <2>1. PICK u, x : u = <<>> /\ x = Content'
    OBVIOUS
  <2>2. Undoable(u, x)' /\ Redoable(u, x)'
    BY <2>1 DEF Undoable, Redoable
  <2>3. ASSUME mode' = "idle" PROVE undoStack' = u /\ redoStack' = u
    BY <1>1, <1>3, <1>5, <2>1, <2>3
  <2>. QED
    BY <2>1, <2>2, <2>3 DEF IdleRight
<1>7. mode' \in {"idle", "clearAll"}
  BY <1>1, <1>3
<1>. QED
  BY <1>2, <1>6, <1>7 DEF HistoryRight

LEMMA SnapshotTyped == StoreOK => Snapshot \in Snapshots
BY SnapshotNow

\* A recorded edit adds the snapshot after it to the chain.
LEMMA RecordedRight ==
    ASSUME Right, HistoryTypeOK', Recorded
    PROVE  StoreOK' /\ HistoryRight'
<1>0. /\ HistoryTypeOK /\ KeysHeldOnce /\ StoreOK /\ HistoryRight /\ TypeOK
      /\ tx \in Transaction /\ tx.steps \in Seq(Step)
  BY DEF Right, HistoryTypeOK, Transaction
<1>1. Next /\ CanRecord
  BY <1>0, RecordedStep
<1>2. StoreOK'
  BY <1>0, <1>1, StoreKept
<1>k. /\ \A k \in 1..Len(undoStack) : KeptIn(undoStack[k])
      /\ KeptIn(tx)
  <2>1. \A m \in NodeId : slot[m] \in {"detached", "removed"} => FieldsKept(m)
    BY <1>0, <1>1, EditsLeaveStored
  <2>2. 0 \in Nat /\ \A i \in 1..Len(tx.steps) : i # 0
    OBVIOUS
  <2>. QED
    BY <1>0, <2>1, <2>2, HeldKept DEF KeptIn
<1>3. PICK w, v : w = Snapshot /\ v = Snapshot'
  OBVIOUS
<1>4. w \in Snapshots /\ Content = Seen(w)
  BY <1>0, <1>3, SnapshotNow
<1>5. v \in Snapshots
  <2>1. (Snapshot \in Snapshots)'
    BY <1>2, SnapshotTyped, PTL
  <2>2. Snapshot' \in Snapshots
    BY <2>1
  <2>. QED
    BY <1>3, <2>2
<1>6. PICK st : Record(st) /\ StepFact(st, TRUE, w, v)'
  BY <1>0, <1>2, <1>3, FactOfRecorded
<1>7. PICK s : s = tx'
  OBVIOUS
<1>8. ASSUME NEW u, u = undoStack, Undoable(u, s.before),
             NEW c \in Chains(s), Follows(s, c, Len(s.steps))',
             Seen(c[0]) = s.before, c[Len(s.steps)] = v
      PROVE  BatchRight'
  <2>1. undoStack' = u
    BY <1>6, <1>8 DEF Record
  <2>2. Undoable(u, s.before)'
    BY <1>k, <1>8, UndoableKept
  <2>. QED
    BY <1>3, <1>7, <1>8, <2>1, <2>2 DEF BatchRight
<1>9. ASSUME mode = "idle" PROVE BatchRight'
  <2>1. s.steps = <<st>> /\ s.before = Content
    BY <1>6, <1>7, <1>9 DEF Record
  <2>2. PICK c : c = [i \in 0..1 |-> IF i = 0 THEN w ELSE v]
    OBVIOUS
  <2>3. c[0] = w /\ c[1] = v /\ c \in [0..1 -> Snapshots]
    BY <1>4, <1>5, <2>2
  <2>4. Len(s.steps) = 1 /\ s.steps[1] = st
    BY <2>1
  <2>5. c \in Chains(s) /\ Seen(c[0]) = s.before /\ c[Len(s.steps)] = v
    BY <1>4, <2>1, <2>3, <2>4 DEF Chains
  <2>6. Follows(s, c, Len(s.steps))'
    <3>1. ASSUME NEW i \in 1..Len(s.steps)
          PROVE  ~(i > Len(s.steps)) /\ StepFact(s.steps[i], TRUE, c[i - 1], c[i])'
      <4>1. i = 1 /\ ~(i > Len(s.steps))
        BY <2>4
      <4>2. s.steps[i] = st /\ c[i - 1] = w /\ c[i] = v
        BY <2>3, <2>4, <4>1
      <4>. QED
        BY <1>6, <4>1, <4>2
    <3>. QED
      BY <3>1 DEF Follows
  <2>7. PICK u, r, x : u = undoStack /\ x = Content /\ Undoable(u, x)
    BY <1>0, <1>9 DEF HistoryRight, IdleRight
  <2>8. Undoable(u, s.before)
    BY <2>1, <2>7
  <2>. QED
    BY <1>8, <2>5, <2>6, <2>7, <2>8
<1>10. ASSUME mode = "batch" PROVE BatchRight'
  <2>1. s.steps = Append(tx.steps, st) /\ s.before = tx.before
    BY <1>6, <1>7, <1>10 DEF Record, WithSteps
  <2>2. PICK u, t, x : \E c \in Chains(t) :
           /\ u = undoStack /\ t = tx /\ x = Snapshot
           /\ Undoable(u, t.before)
           /\ Follows(t, c, Len(t.steps)) /\ Seen(c[0]) = t.before /\ c[Len(t.steps)] = x
    BY <1>0, <1>10 DEF HistoryRight, BatchRight
  <2>3. PICK d \in Chains(t) :
           Follows(t, d, Len(t.steps)) /\ Seen(d[0]) = t.before /\ d[Len(t.steps)] = x
    BY <2>2
  <2>4. PICK n : n = Len(t.steps)
    OBVIOUS
  <2>5. /\ n \in Nat /\ Len(s.steps) = n + 1 /\ s.steps[n + 1] = st
        /\ \A i \in 1..n : s.steps[i] = t.steps[i]
    BY <1>0, <2>1, <2>2, <2>4
  <2>6. PICK c : c = [i \in 0..(n + 1) |-> IF i = n + 1 THEN v ELSE d[i]]
    OBVIOUS
  <2>7. d \in [0..n -> Snapshots]
    BY <2>4 DEF Chains
  <2>8. /\ c[n + 1] = v /\ c[n] = x /\ c[0] = d[0] /\ c \in [0..(n + 1) -> Snapshots]
        /\ \A i \in 0..n : c[i] = d[i]
    BY <1>5, <2>3, <2>4, <2>5, <2>6, <2>7
  <2>9. c \in Chains(s) /\ Seen(c[0]) = s.before /\ c[Len(s.steps)] = v
    BY <2>1, <2>2, <2>3, <2>5, <2>8 DEF Chains
  <2>10. Follows(t, d, n)'
    BY <1>k, <2>2, <2>3, <2>4, FollowsKept
  <2>11. Follows(s, c, Len(s.steps))'
    <3>1. ASSUME NEW i \in 1..Len(s.steps)
          PROVE  ~(i > Len(s.steps)) /\ StepFact(s.steps[i], TRUE, c[i - 1], c[i])'
      <4>1. ~(i > Len(s.steps))
        BY <2>5
      <4>2. CASE i = n + 1
        <5>1. s.steps[i] = st /\ c[i - 1] = w /\ c[i] = v
          BY <1>3, <2>2, <2>5, <2>8, <4>2
        <5>. QED
          BY <1>6, <4>1, <5>1
      <4>3. CASE i \in 1..n
        <5>1. i \in 1..Len(t.steps) /\ i <= n
          BY <2>4, <4>3
        <5>2. StepFact(t.steps[i], TRUE, d[i - 1], d[i])'
          BY <2>10, <5>1 DEF Follows
        <5>3. s.steps[i] = t.steps[i] /\ c[i - 1] = d[i - 1] /\ c[i] = d[i]
          BY <2>5, <2>8, <4>3
        <5>. QED
          BY <4>1, <5>2, <5>3
      <4>4. i = n + 1 \/ i \in 1..n
        BY <2>5
      <4>. QED
        BY <4>2, <4>3, <4>4
    <3>. QED
      BY <3>1 DEF Follows
  <2>12. Undoable(u, s.before)
    BY <2>1, <2>2
  <2>. QED
    BY <1>8, <2>2, <2>9, <2>11, <2>12
<1>11. BatchRight'
  BY <1>1, <1>9, <1>10 DEF CanRecord
<1>12. mode' \in {"batch", "clearRedo"} /\ (mode' = "batch" => redoStack' = <<>>)
  BY <1>6 DEF Record
<1>. QED
  BY <1>2, <1>11, <1>12 DEF HistoryRight

\* A replayed step moves the store along the chain.
LEMMA ReplayedRight ==
    ASSUME Right, HistoryTypeOK', Replaying, mode' # "panic"
    PROVE  StoreOK' /\ HistoryRight' /\ mode' = mode
<1>0. /\ HistoryTypeOK /\ KeysHeldOnce /\ StoreOK /\ HistoryRight /\ TypeOK'
      /\ tx.steps \in Seq(Step) /\ tx'.steps \in Seq(Step)
  BY DEF Right, HistoryTypeOK, Transaction
<1>r. replaying
  BY <1>0, ReplayType
<1>1. PICK u, r, t, k : \E c \in Chains(t) :
         /\ u = undoStack /\ r = redoStack /\ t = tx
         /\ k = IF mode = "undo" THEN at ELSE at - 1
         /\ k \in 0..Len(t.steps)
         /\ Undoable(u, t.before) /\ Redoable(r, t.after) /\ Joins(t, c)
         /\ Follows(t, c, k) /\ LooksLike(c[k])
  BY <1>0, <1>r DEF replaying, HistoryRight, ReplayUnderWay
<1>2. PICK c \in Chains(t) : Joins(t, c) /\ Follows(t, c, k) /\ LooksLike(c[k])
  BY <1>1
<1>3. PICK z : z = at
  OBVIOUS
<1>4. z \in 1..Len(t.steps) /\ t.steps \in Seq(Step) /\ z \in Nat /\ t.steps[z] = step
  BY <1>0, <1>1, <1>3, <1>r DEF replaying, step
<1>5. PICK done \in BOOLEAN : done <=> mode = "undo"
  OBVIOUS
<1>6. k = IF done THEN z ELSE z - 1
  BY <1>1, <1>3, <1>5
<1>7. PICK w, v : w = c[z - 1] /\ v = c[z]
  OBVIOUS
<1>8. w \in Snapshots /\ v \in Snapshots
  <2>1. z - 1 \in 0..Len(t.steps) /\ z \in 0..Len(t.steps)
    BY <1>4
  <2>. QED
    BY <1>7, <2>1 DEF Chains
<1>9. StepFact(step, done, w, v)
  <2>1. CASE done
    <3>1. done = TRUE /\ z <= k
      BY <1>4, <1>6, <2>1
    <3>2. StepFact(t.steps[z], TRUE, c[z - 1], c[z])
      BY <1>2, <1>4, <3>1 DEF Follows
    <3>. QED
      BY <1>4, <1>7, <3>1, <3>2
  <2>2. CASE ~done
    <3>1. done = FALSE /\ z > k
      BY <1>4, <1>6, <2>2
    <3>2. StepFact(t.steps[z], FALSE, c[z - 1], c[z])
      BY <1>2, <1>4, <3>1 DEF Follows
    <3>. QED
      BY <1>4, <1>7, <3>1, <3>2
  <2>. QED
    BY <2>1, <2>2
<1>10. IF done THEN LooksLike(v) ELSE LooksLike(w)
  BY <1>2, <1>6, <1>7
<1>11. /\ StoreOK'
       /\ \E st : StepDone(st) /\ StepFact(st, ~done, w, v)'
       /\ IF done THEN LooksLike(w)' ELSE LooksLike(v)'
       /\ \A m \in NodeId :
             slot[m] \notin {"live", "free"} /\ m \notin Held(step) => FieldsKept(m)
  BY <1>0, <1>5, <1>8, <1>9, <1>10, ReplayRight
<1>12. PICK st : StepDone(st) /\ StepFact(st, ~done, w, v)'
  BY <1>11
<1>13. PICK s : s = tx'
  OBVIOUS
<1>14. /\ s.steps = [t.steps EXCEPT ![z] = st] /\ s.before = t.before /\ s.after = t.after
       /\ undoStack' = u /\ redoStack' = r /\ mode' = mode
       /\ at' = IF done THEN z - 1 ELSE z + 1
  BY <1>1, <1>3, <1>5, <1>12, <1>13 DEF StepDone, WithSteps
<1>15. /\ Len(s.steps) = Len(t.steps) /\ s.steps[z] = st
       /\ \A i \in 1..Len(t.steps) : i # z => s.steps[i] = t.steps[i]
  <2>1. s.steps \in Seq(Step)
    BY <1>0, <1>13
  <2>. QED
    BY <1>4, <1>14, <2>1
<1>16. /\ \A i \in 1..Len(u) : KeptIn(u[i])
       /\ \A i \in 1..Len(r) : KeptIn(r[i])
       /\ \A i \in 1..Len(t.steps) : i # z => \A m \in Held(t.steps[i]) : FieldsKept(m)
  <2>1. \A m \in NodeId : /\ slot[m] \in {"detached", "removed"}
                          /\ z \in 1..Len(tx.steps) => m \notin Held(tx.steps[z])
                          => FieldsKept(m)
    BY <1>1, <1>4, <1>11
  <2>. QED
    BY <1>0, <1>1, <1>4, <2>1, HeldKept
<1>17. PICK j : j = IF done THEN z - 1 ELSE z
  OBVIOUS
<1>18. j \in 0..Len(s.steps) /\ j = IF mode' = "undo" THEN at' ELSE at' - 1
  BY <1>4, <1>5, <1>14, <1>15, <1>17
<1>19. Follows(s, c, j)'
  <2> SUFFICES ASSUME NEW i \in 1..Len(s.steps)
               PROVE  /\ i <= j => StepFact(s.steps[i], TRUE, c[i - 1], c[i])'
                      /\ i > j => StepFact(s.steps[i], FALSE, c[i - 1], c[i])'
    BY DEF Follows
  <2>1. CASE i = z
    <3>1. s.steps[i] = st /\ c[i - 1] = w /\ c[i] = v
      BY <1>7, <1>15, <2>1
    <3>2. CASE done
      <4>1. ~(i <= j) /\ ~done = FALSE
        BY <1>4, <1>17, <2>1, <3>2
      <4>. QED
        BY <1>12, <3>1, <4>1
    <3>3. CASE ~done
      <4>1. ~(i > j) /\ ~done = TRUE
        BY <1>4, <1>17, <2>1, <3>3
      <4>. QED
        BY <1>12, <3>1, <4>1
    <3>. QED
      BY <3>2, <3>3
  <2>2. CASE i # z
    <3>1. s.steps[i] = t.steps[i] /\ i \in 1..Len(t.steps)
      BY <1>15, <2>2
    <3>2. (i <= j <=> i <= k) /\ (i > j <=> i > k)
      BY <1>4, <1>6, <1>15, <1>17, <2>2
    <3>3. \A m \in Held(t.steps[i]) : FieldsKept(m)
      BY <1>16, <2>2, <3>1
    <3>4. ASSUME i <= j PROVE StepFact(s.steps[i], TRUE, c[i - 1], c[i])'
      <4>1. StepFact(t.steps[i], TRUE, c[i - 1], c[i])
        BY <1>2, <3>1, <3>2, <3>4 DEF Follows
      <4>. QED
        BY <3>1, <3>3, <4>1, FactKept
    <3>5. ASSUME i > j PROVE StepFact(s.steps[i], FALSE, c[i - 1], c[i])'
      <4>1. StepFact(t.steps[i], FALSE, c[i - 1], c[i])
        BY <1>2, <3>1, <3>2, <3>5 DEF Follows
      <4>. QED
        BY <3>1, <3>3, <4>1, FactKept
    <3>. QED
      BY <3>4, <3>5
  <2>. QED
    BY <2>1, <2>2
<1>20. LooksLike(c[j])'
  BY <1>7, <1>11, <1>17
<1>21. Undoable(u, s.before)' /\ Redoable(r, s.after)'
  <2>1. Undoable(u, t.before)' /\ Redoable(r, t.after)'
    BY <1>1, <1>16, UndoableKept, RedoableKept
  <2>. QED
    BY <1>14, <2>1
<1>22. c \in Chains(s) /\ Joins(s, c)
  BY <1>2, <1>14, <1>15 DEF Chains, Joins
<1>23. ReplayUnderWay'
  BY <1>13, <1>14, <1>18, <1>19, <1>20, <1>21, <1>22 DEF ReplayUnderWay
<1>24. mode' \in {"undo", "redo"}
  BY <1>14, <1>r DEF replaying
<1>. QED
  BY <1>11, <1>14, <1>23, <1>24 DEF HistoryRight

\* Before the first call both stacks are empty.
LEMMA UndoInit == HistoryInit => UndoInv
<1> SUFFICES ASSUME HistoryInit PROVE StoreOK /\ HistoryRight
  BY DEF UndoInv
<1>1. StoreOK
  BY TreeInit, CacheInit DEF HistoryInit, StoreOK
<1>2. IdleRight
  <2>1. PICK u, x : u = <<>> /\ x = Content
    OBVIOUS
  <2>2. Undoable(u, x) /\ Redoable(u, x)
    BY <2>1 DEF Undoable, Redoable
  <2>. QED
    BY <2>1, <2>2 DEF HistoryInit, IdleRight
<1>. QED
  BY <1>1, <1>2 DEF HistoryInit, HistoryRight

\* Every step of the specification keeps the chain.
LEMMA UndoStep ==
    ASSUME ~RuntimeEdits, ~MayFail, HistoryTypeOK, HistoryTypeOK', KeysInv, UndoInv,
           [HistoryNext]_vars
    PROVE  UndoInv'
<1> SUFFICES ASSUME mode' # "panic" PROVE StoreOK' /\ HistoryRight'
  BY DEF UndoInv
<1>1. mode # "panic"
  BY DEF HistoryNext, RecordedAdd, RecordedRemove, RecordedMove, RecordedPatch, RecordedReplace,
         CanRecord, EndBatch, FailBatch, RuntimeEdit, ClearRedo, ClearHistory, StartUndo, StartRedo,
         EndUndo, EndRedo, TakeOut, TakeOutGone, PutBack, MoveBack, PatchBack, SwapBack,
         NothingToReplay, replaying, vars, history
<1>2. Right
  BY <1>1 DEF Right, KeysInv, UndoInv
<1>3. ~FailBatch /\ ~RuntimeEdit
  BY DEF FailBatch, RuntimeEdit
<1>. QED
  BY <1>2, <1>3, StaysRight, RecordedRight, EndBatchRight, ClearRedoRight, ClearHistoryRight,
     StartUndoRight, StartRedoRight, EndUndoRight, EndRedoRight, ReplayedRight
     DEF HistoryNext, Recorded, Replaying

\* The chains of the stacks meet at the content of now.
LEMMA UndoFollows == HistoryTypeOK /\ UndoInv => UndoRestores
<1> SUFFICES ASSUME HistoryTypeOK, UndoInv, mode = "idle"
             PROVE  /\ undoStack # <<>> => Last(undoStack).after = Content
                    /\ redoStack # <<>> => Last(redoStack).before = Content
  BY DEF UndoRestores
<1>1. PICK u, r, x : /\ u = undoStack /\ r = redoStack /\ x = Content
                     /\ Undoable(u, x) /\ Redoable(r, x)
  BY DEF UndoInv, HistoryRight, IdleRight
<1>2. u \in Seq(Transaction) /\ r \in Seq(Transaction)
  BY <1>1 DEF HistoryTypeOK
<1>3. u # <<>> => Last(u).after = x
  BY <1>1, <1>2, UndoablePop
<1>4. r # <<>> => Last(r).before = x
  BY <1>1, <1>2, RedoablePop
<1>. QED
  BY <1>1, <1>3, <1>4

\* Undo gives back exactly the nodes, places, objects and enabled flags of before the
\* transaction, and redo those of after it (engine/history.rs), whatever was recorded,
\* undone, redone and branched off before, as long as every edit is recorded and none
\* fails half-way.
THEOREM UndoRestoresCorrect ==
    ASSUME ~RuntimeEdits, ~MayFail
    PROVE  HistorySpec => []UndoRestores
<1>1. HistoryTypeOK /\ KeysInv /\ [HistoryNext]_vars => HistoryTypeOK' /\ KeysInv'
  BY HistoryTypeStep, KeysStep DEF KeysInv
<1>2. HistoryTypeOK /\ HistoryTypeOK' /\ KeysInv /\ UndoInv /\ [HistoryNext]_vars => UndoInv'
  BY UndoStep
<1>. QED
  BY <1>1, <1>2, HistoryInitFacts, UndoInit, UndoFollows, PTL DEF HistorySpec

-----------------------------------------------------------------------------
(* No reserved key is forgotten.                                           *)

HeldIn(t, m) == \E i \in 1..Len(t.steps) : m \in Held(t.steps[i])
HeldOn(q, m) == \E k \in 1..Len(q) : HeldIn(q[k], m)

Accounted ==
    /\ \A m \in NodeId : slot[m] = "detached" =>
          HeldIn(tx, m) \/ HeldOn(undoStack, m) \/ HeldOn(redoStack, m)
    /\ mode \in {"idle", "clearAll"} => tx.steps = <<>>

\* What is held by a transaction or a stack is held by the stack it is pushed on,
LEMMA HeldPushed ==
    ASSUME NEW q \in Seq(Transaction), NEW t \in Transaction, NEW m,
           HeldOn(q, m) \/ HeldIn(t, m)
    PROVE  HeldOn(Append(q, t), m)
<1>1. /\ Len(Append(q, t)) = Len(q) + 1 /\ Len(q) \in Nat /\ Append(q, t)[Len(q) + 1] = t
      /\ \A k \in 1..Len(q) : Append(q, t)[k] = q[k]
  OBVIOUS
<1>2. PICK r : r = Append(q, t)
  OBVIOUS
<1>3. /\ Len(q) + 1 \in 1..Len(r) /\ r[Len(q) + 1] = t
      /\ \A k \in 1..Len(q) : k \in 1..Len(r) /\ r[k] = q[k]
  BY <1>1, <1>2
<1>4. HeldOn(r, m)
  BY <1>3 DEF HeldOn
<1>. QED
  BY <1>2, <1>4

\* and popping loses only what the popped transaction holds.
LEMMA HeldPopped ==
    ASSUME NEW q \in Seq(Transaction), q # <<>>, NEW m, HeldOn(q, m)
    PROVE  HeldOn(Front(q), m) \/ HeldIn(Last(q), m)
<1>1. /\ Len(Front(q)) = Len(q) - 1 /\ Len(q) \in Nat \ {0}
      /\ \A k \in 1..(Len(q) - 1) : Front(q)[k] = q[k]
      /\ Last(q) = q[Len(q)]
  BY FrontOf
<1>2. PICK k \in 1..Len(q) : HeldIn(q[k], m)
  BY DEF HeldOn
<1>3. CASE k = Len(q)
  BY <1>1, <1>2, <1>3
<1>4. CASE k \in 1..(Len(q) - 1)
  <2>1. k \in 1..Len(Front(q)) /\ Front(q)[k] = q[k]
    BY <1>1, <1>4
  <2>. QED
    BY <1>2, <2>1 DEF HeldOn
<1>. QED
  BY <1>1, <1>3, <1>4

\* What a recorded edit takes out of the store its step holds.
LEMMA NewlyHeld ==
    ASSUME TypeOK, Recorded
    PROVE  \E s : /\ Record(s)
                  /\ \A m \in NodeId : slot'[m] = "detached" => slot[m] = "detached" \/ m \in Held(s)
<1>t. slot \in [NodeId -> {"free", "live", "detached", "removed"}]
  BY DEF TypeOK
<1> DEFINE Goal(s) == \A m \in NodeId : slot'[m] = "detached" => slot[m] = "detached" \/ m \in Held(s)
<1>1. CASE RecordedAdd
  <2>1. PICK new, e, s : new \in SUBSET NodeId /\ Insert(new, e) /\ Record(s)
    <3>1. ASSUME NEW n \in NodeId, NEW p \in NodeId, NEW s \in OptNode, NEW e \in BOOLEAN,
                 AddNode(n, p, s, e), Record(AddStep(n, p))
          PROVE  \E new \in SUBSET NodeId : \E f, st : Insert(new, f) /\ Record(st)
      <4>1. {n} \in SUBSET NodeId /\ Insert({n}, e)
        BY <3>1 DEF AddNode
      <4>. QED
        BY <3>1, <4>1
    <3>2. ASSUME NEW n \in NodeId, NEW c \in NodeId, NEW p \in NodeId, NEW s \in OptNode,
                 AddNodeTree(n, c, p, s, TRUE), Record(AddStep(n, p))
          PROVE  \E new \in SUBSET NodeId : \E f, st : Insert(new, f) /\ Record(st)
      <4>1. {n, c} \in SUBSET NodeId /\ Insert({n, c}, TRUE)
        BY <3>2 DEF AddNodeTree
      <4>. QED
        BY <3>2, <4>1
    <3>. QED
      BY <1>1, <3>1, <3>2 DEF RecordedAdd
  <2>2. Goal(s)
    BY <1>t, <2>1 DEF Insert
  <2>. QED
    BY <2>1, <2>2
<1>2. CASE RecordedRemove
  <2>1. PICK n \in NodeId : RemoveNode(n) /\ Record(OutStep("remove", n, Subtree(links, n)))
    BY <1>2 DEF RecordedRemove
  <2>2. PICK S, s : S = Subtree(links, n) /\ s = OutStep("remove", n, S)
    OBVIOUS
  <2>3. Held(s) = S
    BY <2>2 DEF Held, OutStep
  <2>4. \A m \in NodeId : slot'[m] = "detached" => slot[m] = "detached" \/ m \in S
    BY <1>t, <2>1, <2>2 DEF RemoveNode, RemoveSlots
  <2>. QED
    BY <2>1, <2>2, <2>3, <2>4
<1>3. CASE RecordedMove \/ RecordedPatch \/ RecordedReplace
  <2>1. slot' = slot
    BY <1>3 DEF RecordedMove, RecordedPatch, RecordedReplace, MoveNode, PatchMeta, ReplaceNode
  <2>2. \E s : Record(s)
    BY <1>3 DEF RecordedMove, RecordedPatch, RecordedReplace
  <2>. QED
    BY <2>1, <2>2
<1>. QED
  BY <1>1, <1>2, <1>3 DEF Recorded

\* A recorded edit: the step joins the transaction in work.
LEMMA AccountedRecorded ==
    ASSUME HistoryTypeOK, Accounted, Recorded
    PROVE  Accounted'
<1>t. TypeOK /\ tx.steps \in Seq(Step)
  BY DEF HistoryTypeOK, Transaction
<1>1. PICK s : /\ Record(s)
               /\ \A m \in NodeId : slot'[m] = "detached" => slot[m] = "detached" \/ m \in Held(s)
  BY <1>t, NewlyHeld
<1>2. CanRecord
  BY DEF Recorded, RecordedAdd, RecordedRemove, RecordedMove, RecordedPatch, RecordedReplace
<1>3. tx'.steps = Append(tx.steps, s)
  <2>1. CASE mode = "idle"
    <3>1. tx.steps = <<>> /\ tx'.steps = <<s>>
      BY <1>1, <2>1 DEF Record, Accounted
    <3>2. Append(<<>>, s) = <<s>>
      OBVIOUS
    <3>. QED
      BY <3>1, <3>2
  <2>2. CASE mode = "batch"
    BY <1>1, <2>2 DEF Record, WithSteps
  <2>. QED
    BY <1>2, <2>1, <2>2 DEF CanRecord
<1>4. ASSUME NEW m, HeldIn(tx, m) \/ m \in Held(s) PROVE HeldIn(tx', m)
  <2>1. /\ Len(tx'.steps) = Len(tx.steps) + 1 /\ tx'.steps[Len(tx.steps) + 1] = s
        /\ Len(tx.steps) \in Nat /\ \A i \in 1..Len(tx.steps) : tx'.steps[i] = tx.steps[i]
    BY <1>t, <1>3
  <2>2. Len(tx.steps) + 1 \in 1..Len(tx'.steps) /\ \A i \in 1..Len(tx.steps) : i \in 1..Len(tx'.steps)
    BY <2>1
  <2>. QED
    BY <1>4, <2>1, <2>2 DEF HeldIn
<1>5. undoStack' = undoStack /\ redoStack' = redoStack /\ mode' \notin {"idle", "clearAll"}
  BY <1>1 DEF Record
<1>6. ASSUME NEW m \in NodeId, slot'[m] = "detached"
      PROVE  HeldIn(tx', m) \/ HeldOn(undoStack', m) \/ HeldOn(redoStack', m)
  BY <1>1, <1>4, <1>5, <1>6 DEF Accounted
<1>. QED
  BY <1>5, <1>6 DEF Accounted

\* Transactions change places.
LEMMA AccountedMoved ==
    ASSUME HistoryTypeOK, Accounted, EndBatch \/ StartUndo \/ StartRedo \/ EndUndo \/ EndRedo
    PROVE  Accounted'
<1>t. /\ undoStack \in Seq(Transaction) /\ redoStack \in Seq(Transaction) /\ tx \in Transaction
      /\ slot' = slot
  BY DEF HistoryTypeOK, EndBatch, StartUndo, StartRedo, EndUndo, EndRedo, graph
<1> SUFFICES ASSUME NEW m \in NodeId,
                    HeldIn(tx, m) \/ HeldOn(undoStack, m) \/ HeldOn(redoStack, m),
                    mode = "idle" => ~HeldIn(tx, m)
             PROVE  /\ HeldIn(tx', m) \/ HeldOn(undoStack', m) \/ HeldOn(redoStack', m)
                    /\ mode' \in {"idle", "clearAll"} => tx'.steps = <<>>
  <2>1. tx.steps = <<>> => \A m : ~HeldIn(tx, m)
    BY DEF HeldIn
  <2>2. mode' \in {"idle", "clearAll"} => tx'.steps = <<>>
    BY DEF EndBatch, StartUndo, StartRedo, EndUndo, EndRedo, NoTx
  <2>. QED
    BY <1>t, <2>1, <2>2 DEF Accounted
<1>1. CASE EndBatch
  <2>1. PICK t : t = [steps |-> tx.steps, before |-> tx.before, after |-> Content]
    OBVIOUS
  <2>2. t \in Transaction /\ t.steps = tx.steps
    BY <1>t, <2>1, ContentType DEF Transaction, HistoryTypeOK
  <2>3. HeldIn(tx, m) => HeldIn(t, m)
    BY <2>2 DEF HeldIn
  <2>4. undoStack' = Append(undoStack, t) /\ redoStack' = redoStack /\ tx' = NoTx
    BY <1>1, <2>1 DEF EndBatch
  <2>. QED
    BY <1>t, <2>2, <2>3, <2>4, HeldPushed DEF NoTx
<1>2. CASE StartUndo
  BY <1>t, <1>2, HeldPopped DEF StartUndo
<1>3. CASE StartRedo
  BY <1>t, <1>3, HeldPopped DEF StartRedo
<1>4. CASE EndUndo
  BY <1>t, <1>4, HeldPushed DEF EndUndo, NoTx
<1>5. CASE EndRedo
  BY <1>t, <1>5, HeldPushed DEF EndRedo, NoTx
<1>. QED
  BY <1>1, <1>2, <1>3, <1>4, <1>5

\* The disposal of a transaction releases what it holds.
LEMMA AccountedCleared ==
    ASSUME HistoryTypeOK, Accounted, ClearRedo \/ ClearHistory
    PROVE  Accounted'
<1>t. /\ undoStack \in Seq(Transaction) /\ redoStack \in Seq(Transaction) /\ tx' = tx
      /\ slot \in [NodeId -> {"free", "live", "detached", "removed"}]
  BY DEF HistoryTypeOK, TypeOK, ClearRedo, ClearHistory
<1>1. ASSUME NEW t, NEW done, DisposeTx(t, done), NEW m \in NodeId, slot'[m] = "detached"
      PROVE  slot[m] = "detached" /\ ~HeldIn(t, m)
  <2>1. slot[m] = "detached" /\ PurgedBy(t, m) = {}
    BY <1>1, <1>t DEF DisposeTx
  <2>2. \A i \in 1..Len(t.steps) : m \notin Held(t.steps[i])
    BY <2>1 DEF PurgedBy, Purged, Held
  <2>. QED
    BY <2>1, <2>2 DEF HeldIn
<1>2. ASSUME NEW m \in NodeId, slot'[m] = "detached"
      PROVE  HeldIn(tx', m) \/ HeldOn(undoStack', m) \/ HeldOn(redoStack', m)
  <2>1. CASE ClearRedo
    <3>1. /\ redoStack # <<>> /\ redoStack' = Front(redoStack) /\ undoStack' = undoStack
          /\ slot[m] = "detached" /\ ~HeldIn(Last(redoStack), m)
      BY <1>1, <1>2, <2>1 DEF ClearRedo
    <3>. QED
      BY <1>t, <3>1, HeldPopped DEF Accounted
  <2>2. CASE ClearHistory /\ redoStack # <<>>
    <3>1. /\ redoStack' = Front(redoStack) /\ undoStack' = undoStack
          /\ slot[m] = "detached" /\ ~HeldIn(Last(redoStack), m)
      BY <1>1, <1>2, <2>2 DEF ClearHistory
    <3>. QED
      BY <1>t, <2>2, <3>1, HeldPopped DEF Accounted
  <2>3. CASE ClearHistory /\ redoStack = <<>>
    <3>1. /\ undoStack # <<>> /\ undoStack' = Front(undoStack) /\ redoStack' = redoStack
          /\ slot[m] = "detached" /\ ~HeldIn(Last(undoStack), m)
      BY <1>1, <1>2, <1>t, <2>3 DEF ClearHistory
    <3>. QED
      BY <1>t, <2>3, <3>1, HeldPopped DEF Accounted
  <2>. QED
    BY <2>1, <2>2, <2>3
<1>3. mode' \in {"idle", "clearAll"} => mode \in {"idle", "clearAll"}
  BY DEF ClearRedo, ClearHistory, DisposeTx
<1>. QED
  BY <1>t, <1>2, <1>3 DEF Accounted

\* A replayed step gives back what it holds or goes on holding it, and holds what it
\* takes out.
LEMMA AccountedReplayed ==
    ASSUME Right, HistoryTypeOK', Accounted, Replaying
    PROVE  Accounted'
<1>0. HistoryTypeOK /\ tx.steps \in Seq(Step) /\ tx'.steps \in Seq(Step)
  BY DEF Right, HistoryTypeOK, Transaction
<1>t. slot \in [NodeId -> {"free", "live", "detached", "removed"}]
  BY <1>0 DEF HistoryTypeOK, TypeOK
<1>r. replaying /\ mode \in {"undo", "redo"}
  BY DEF Replaying, TakeOut, TakeOutGone, PutBack, MoveBack, PatchBack, SwapBack, NothingToReplay,
         replaying
<1>s. step \in Step
  BY <1>0, <1>r, ReplayedStep
<1>1. CASE mode' = "panic"
  <2>1. UNCHANGED <<slot, tx, undoStack, redoStack>>
    BY <1>1, <1>r DEF Replaying, TakeOut, TakeOutGone, PutBack, MoveBack, PatchBack, SwapBack,
       NothingToReplay, StepDone, StepFailed, LinkBack, graph
  <2>. QED
    BY <1>1, <2>1 DEF Accounted
<1>2. CASE mode' # "panic"
  <2>1. mode' = mode
    BY <1>2, ReplayedRight
  <2>2. ~StepFailed
    BY <1>r, <2>1 DEF StepFailed
  <2> DEFINE Goal(s) == \A m \in NodeId : slot'[m] = "detached" =>
                           \/ slot[m] = "detached" /\ m \notin Held(step)
                           \/ m \in Held(s)
  <2>3. ASSUME slot' = slot PROVE Goal(step)
    BY <2>3
  <2>4. \E s : StepDone(s) /\ Goal(s)
    <3>1. CASE TakeOut
      <4>1. PICK S, s : S = Subtree(links, step.node) /\ s = OutStep(step.kind, step.node, S)
        OBVIOUS
      <4>2. RemoveSlots(S) /\ StepDone(s)
        BY <2>2, <3>1, <4>1 DEF TakeOut
      <4>3. Held(s) = S /\ Held(step) = {}
        BY <3>1, <4>1 DEF TakeOut, TakesOut, OutStep, Held
      <4>4. Goal(s)
        BY <1>t, <4>2, <4>3 DEF RemoveSlots
      <4>. QED
        BY <4>2, <4>4
    <3>2. CASE TakeOutGone
      <4>1. StepDone(step) /\ slot' = slot
        BY <2>2, <3>2 DEF TakeOutGone, graph
      <4>. QED
        BY <2>3, <4>1
    <3>3. CASE PutBack
      <4>1. PICK s : s = [step EXCEPT !.held = {}]
        OBVIOUS
      <4>2. Reattach(step.held) /\ StepDone(s)
        BY <1>2, <2>2, <3>3, <4>1 DEF PutBack, LinkBack
      <4>3. Held(step) = step.held
        BY <3>3 DEF PutBack, PutsBack, Held
      <4>4. Goal(s)
        BY <1>t, <4>2, <4>3 DEF Reattach
      <4>. QED
        BY <4>2, <4>4
    <3>4. CASE MoveBack
      <4>1. PICK s : s = [step EXCEPT !.atNew = ~@]
        OBVIOUS
      <4>2. StepDone(s) /\ slot' = slot /\ step.kind = "move"
        BY <2>2, <3>4, <4>1 DEF MoveBack
      <4>3. Held(step) = {}
        BY <4>2 DEF Held
      <4>. QED
        BY <4>2, <4>3
    <3>5. CASE PatchBack
      <4>1. StepDone(step) /\ slot' = slot
        BY <2>2, <3>5 DEF PatchBack
      <4>. QED
        BY <2>3, <4>1
    <3>6. CASE SwapBack
      <4>1. PICK s : s = [kind |-> "replace", node |-> step.node,
                          old |-> IF mode = "undo" THEN Nil ELSE Object(step.node),
                          new |-> IF mode = "undo" THEN Object(step.node) ELSE Nil]
        OBVIOUS
      <4>2. StepDone(s) /\ slot' = slot /\ step.kind = "replace"
        BY <2>2, <3>6, <4>1 DEF SwapBack
      <4>3. Held(step) = {}
        BY <4>2 DEF Held
      <4>. QED
        BY <4>2, <4>3
    <3>7. CASE NothingToReplay
      <4>1. StepDone(step) /\ slot' = slot
        BY <3>7 DEF NothingToReplay, graph
      <4>. QED
        BY <2>3, <4>1
    <3>. QED
      BY <3>1, <3>2, <3>3, <3>4, <3>5, <3>6, <3>7 DEF Replaying
  <2>5. PICK s : StepDone(s) /\ Goal(s)
    BY <2>4
  <2> HIDE DEF Goal
  <2>6. PICK z : z = at
    OBVIOUS
  <2>7. /\ tx'.steps = [tx.steps EXCEPT ![z] = s] /\ z \in 1..Len(tx.steps)
        /\ undoStack' = undoStack /\ redoStack' = redoStack /\ step = tx.steps[z]
    BY <1>r, <2>5, <2>6 DEF StepDone, WithSteps, replaying, step
  <2>8. /\ Len(tx'.steps) = Len(tx.steps) /\ tx'.steps[z] = s
        /\ \A i \in 1..Len(tx.steps) : i # z => tx'.steps[i] = tx.steps[i]
    BY <1>0, <2>7
  <2>9. ASSUME NEW m \in NodeId, slot'[m] = "detached"
        PROVE  HeldIn(tx', m) \/ HeldOn(undoStack', m) \/ HeldOn(redoStack', m)
    <3>1. CASE m \in Held(s)
      BY <2>7, <2>8, <3>1 DEF HeldIn
    <3>2. CASE slot[m] = "detached" /\ m \notin Held(step)
      <4>1. HeldIn(tx, m) => HeldIn(tx', m)
        BY <2>7, <2>8, <3>2 DEF HeldIn
      <4>. QED
        BY <2>7, <3>2, <4>1 DEF Accounted
    <3>. QED
      BY <2>5, <2>9, <3>1, <3>2 DEF Goal
  <2>. QED
    BY <1>r, <2>1, <2>9 DEF Accounted
<1>. QED
  BY <1>1, <1>2

\* Every step of the specification accounts for the keys.
LEMMA AccountedStep ==
    ASSUME ~RuntimeEdits, ~MayFail, HistoryTypeOK, HistoryTypeOK', KeysInv, UndoInv, Accounted,
           [HistoryNext]_vars
    PROVE  Accounted'
<1>1. ~FailBatch /\ ~RuntimeEdit
  BY DEF FailBatch, RuntimeEdit
<1>2. ASSUME UNCHANGED vars PROVE Accounted'
  BY <1>2 DEF vars, graph, history, Accounted
<1>3. ASSUME Replaying PROVE Accounted'
  <2>1. mode # "panic"
    BY <1>3 DEF Replaying, TakeOut, TakeOutGone, PutBack, MoveBack, PatchBack, SwapBack,
       NothingToReplay, replaying
  <2>2. Right
    BY <2>1 DEF Right, KeysInv, UndoInv
  <2>. QED
    BY <1>3, <2>2, AccountedReplayed
<1>. QED
  BY <1>1, <1>2, <1>3, AccountedRecorded, AccountedMoved, AccountedCleared
     DEF HistoryNext, Recorded, Replaying

\* Accounted keys are held at one of the places of the history.
LEMMA AccountedFollows == HistoryTypeOK /\ KeysInv /\ Accounted => KeysAccountedFor
<1> SUFFICES ASSUME HistoryTypeOK, KeysInv, Accounted PROVE KeysAccountedFor
  OBVIOUS
<1>p. PlacesRight
  BY PlaceSteps
<1>1. HeldByOneStep
  BY HeldOnceFollows
<1>2. ASSUME NEW a \in Places, NEW t, t.steps = StepsAt(a), NEW m, HeldIn(t, m)
      PROVE  m \in UNION {UNION {Held(StepsAt(b)[i]) : i \in 1..Len(StepsAt(b))} : b \in Places}
  BY <1>2 DEF HeldIn
<1>3. ASSUME NEW m \in NodeId, slot[m] = "detached"
      PROVE  \E a \in Places : \E t : t.steps = StepsAt(a) /\ HeldIn(t, m)
  BY <1>3, <1>p DEF Accounted, HeldOn, PlacesRight
<1>. QED
  BY <1>1, <1>2, <1>3 DEF KeysAccountedFor

\* No reserved key is forgotten: every detached node is held by a step of the history that
\* puts it back, or that releases its key when it is disposed of (NodeStore::detach,
\* HistoryStep::dispose), as long as every edit is recorded and none fails half-way.
THEOREM KeysAccountedForCorrect ==
    ASSUME ~RuntimeEdits, ~MayFail
    PROVE  HistorySpec => []KeysAccountedFor
<1>1. HistoryInit => Accounted
  BY DEF HistoryInit, Init, Accounted, NoTx
<1>2. HistoryTypeOK /\ KeysInv /\ [HistoryNext]_vars => HistoryTypeOK' /\ KeysInv'
  BY HistoryTypeStep, KeysStep DEF KeysInv
<1>3. HistoryTypeOK /\ HistoryTypeOK' /\ KeysInv /\ UndoInv /\ [HistoryNext]_vars => UndoInv'
  BY UndoStep
<1>4. HistoryTypeOK /\ HistoryTypeOK' /\ KeysInv /\ UndoInv /\ Accounted /\ [HistoryNext]_vars
        => Accounted'
  BY AccountedStep
<1>. QED
  BY <1>1, <1>2, <1>3, <1>4, HistoryInitFacts, UndoInit, AccountedFollows, PTL DEF HistorySpec
=============================================================================
