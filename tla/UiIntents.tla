------------------------------ MODULE UiIntents ------------------------------
(***************************************************************************)
(* Edit intents of the user interface (ui_sync.rs, apply_ui_intent): each   *)
(* is a list of phases that queue edits and apply them, once or until no    *)
(* edit and no event is left, with or without history, most of them inside  *)
(* an edit session of their own.  Edits of other threads are absorbed by    *)
(* whichever apply comes next; callbacks answer the events of a dispatch    *)
(* with edits; a tick applies what is left without history.                 *)
(*                                                                          *)
(* The engine's lock makes an intent one call: only the channel of external *)
(* edits moves between its passes.  A parameter is a key with a value; a    *)
(* node has a parent.  Coalescing and state ids are EditHistory's, sibling  *)
(* order and the payloads of removed nodes are GraphHistory's.              *)
(***************************************************************************)
EXTENDS Naturals, SequencesExt

CONSTANTS
    Params, Values,
    Copies,      \* pairs <<p, q>>: a callback copies p into q when p changes
    Swings,      \* parameters whose callback changes them again, for ever
    Extras,      \* other edits callbacks may answer a change with
    Root, Out,   \* the root; no parent
    Widgets,     \* nodes of the project
    Fresh,       \* ids of nodes to come
    Clients, Own, Nobody,  \* BeginEdit sessions, the sessions intents open, no session
    Gestures,    \* kinds of intents tried
    Foreign,     \* edits other threads send
    MaxPasses,   \* passes of a fixed point (16)
    MaxIntents, MaxReplays, MaxForeign  \* bounds on intents, on undo and redo, on edits sent and extras

ASSUME IntentsAssumption ==
    /\ {MaxPasses, MaxIntents, MaxReplays, MaxForeign} \subseteq Nat
    /\ IsFiniteSet(Params) /\ IsFiniteSet(Widgets)
    /\ Copies \subseteq Params \X Params /\ Swings \subseteq Params
    /\ Gestures \subseteq {"begin", "end", "setParam", "moveNode", "removeNodes", "create", "bind", "wrap"}

(* Nobody else names a session the way intents name their own.              *)
ASSUME SessionsAssumption ==
    /\ Own # Nobody /\ {Own, Nobody} \cap Clients = {}
    /\ \A e \in Foreign \cup Extras : e.op \in {"begin", "end"} => e.c \notin {Own, Nobody}

VARIABLES
    value, home,
    store,      \* nodes the engine holds
    undo, redo, \* stacks of transactions
    session,    \* active_edit_session
    pending,    \* edits.pending
    external,   \* external_edits_rx
    inbox,      \* what changed since the last dispatch
    run,        \* the intent being applied
    intents, replays, sent, \* counters of the bounds
    \* For the properties only.
    base,       \* the graph and the length of the stack when the intent began
    foreign,    \* did the intent apply an edit of another thread?
    stranded    \* has an intent's own session been left open by a batch that failed?

graph == <<value, home, store>>
history == <<undo, redo, session>>
intentVars == <<graph, history, pending, external, inbox, run, intents, replays, sent, base, foreign, stranded>>

Nodes == Widgets \cup Fresh

Set(p, v) == [op |-> "set", p |-> p, v |-> v]
Add(n, to) == [op |-> "add", n |-> n, to |-> to]
Remove_(n) == [op |-> "remove", n |-> n]
Move(n, to) == [op |-> "move", n |-> n, to |-> to]
Begin(c) == [op |-> "begin", c |-> c]
End(c) == [op |-> "end", c |-> c]

Idle == [kind |-> "none", phases |-> <<>>, stage |-> "apply", pass |-> 0, own |-> FALSE,
         failed |-> FALSE]
NoSession == [id |-> Nobody, steps |-> <<>>]
Graph == [value |-> value, home |-> home, store |-> store]

IntentsInit ==
    /\ value = [p \in Params |-> CHOOSE v \in Values : TRUE]
    /\ home = [n \in Nodes |-> IF n \in Widgets THEN Root ELSE Out] /\ store = Widgets
    /\ undo = <<>> /\ redo = <<>> /\ session = NoSession
    /\ pending = <<>> /\ external = <<>> /\ inbox = {}
    /\ run = Idle /\ intents = 0 /\ replays = 0 /\ sent = 0
    /\ base = [graph |-> Graph, entries |-> 0] /\ foreign = FALSE /\ stranded = FALSE

-----------------------------------------------------------------------------
(* Edits and their inverses over a graph g.                                 *)

Under(g, n) ==
    LET grow[i \in 0..Cardinality(Nodes)] ==
            IF i = 0 THEN {n} ELSE grow[i - 1] \cup {m \in g.store : g.home[m] \in grow[i - 1]}
    IN  grow[Cardinality(Nodes)]

Placed(g, n, to) == [g EXCEPT !.home[n] = to]
Taken(g, n) == [g EXCEPT !.store = @ \ Under(g, n)]

(* node_position: a node that lost its place can be neither moved nor taken. *)
Attached(g, n) == n \in g.store /\ g.home[n] # Out

Possible(g, e) ==
    CASE e.op = "set" -> TRUE
      [] e.op = "add" -> e.to \in g.store \cup {Root}
      [] e.op = "remove" -> Attached(g, e.n)
      [] e.op = "move" -> Attached(g, e.n) /\ e.to \in (g.store \cup {Root}) \ Under(g, e.n)

Done(g, e) ==
    CASE e.op = "set" -> [g EXCEPT !.value[e.p] = e.v]
      [] e.op = "add" -> [Placed(g, e.n, e.to) EXCEPT !.store = @ \cup {e.n}]
      [] e.op = "remove" -> Taken(g, e.n)
      [] e.op = "move" -> Placed(g, e.n, e.to)

StepOf(g, e) ==
    CASE e.op = "set" -> [op |-> "set", p |-> e.p, old |-> g.value[e.p], new |-> e.v]
      [] e.op = "add" -> [op |-> "add", n |-> e.n, to |-> e.to, held |-> {}]
      [] e.op = "remove" -> [op |-> "remove", n |-> e.n, to |-> g.home[e.n], held |-> Under(g, e.n)]
      [] e.op = "move" -> [op |-> "move", n |-> e.n, old |-> g.home[e.n], to |-> e.to]

Tells(e) == IF e.op = "set" THEN {e.p} ELSE {"tree"}

(* One edit of a drained queue; s is the graph, the history and the queue's *)
(* own transaction.  First the boundaries of sessions, then the others.     *)
Bounded(s, e) ==
    CASE e.op = "begin" /\ s.session = NoSession -> [s EXCEPT !.session.id = e.c]
      [] e.op = "end" /\ s.session.id = e.c ->
            [s EXCEPT !.session = NoSession,
                      !.undo = IF s.session.steps = <<>> THEN @ ELSE Append(@, s.session.steps)]
      [] OTHER -> [s EXCEPT !.ok = FALSE, !.kept = TRUE]

Remembered(s, step) ==
    IF s.session # NoSession THEN [s EXCEPT !.session.steps = Append(@, step)]
    ELSE [s EXCEPT !.txn = Append(@, step)]

Changed(s, e, capture) ==
    LET t == IF capture THEN Remembered([s EXCEPT !.redo = <<>>], StepOf(s.g, e)) ELSE s
    IN  CASE e.op = "set" /\ s.g.value[e.p] = e.v -> s
          [] ~Possible(s.g, e) -> [s EXCEPT !.ok = FALSE]
          [] OTHER -> [t EXCEPT !.g = Done(s.g, e), !.inbox = @ \cup Tells(e)]

Apply1(s, e, capture) ==
    IF ~s.ok THEN s
    ELSE IF e.op \in {"begin", "end"} THEN Bounded(s, e)
    ELSE Changed(s, e, capture)

Untouched == [g |-> Graph, session |-> session, undo |-> undo, redo |-> redo, inbox |-> inbox,
              txn |-> <<>>, ok |-> TRUE, kept |-> FALSE]

(* apply_edits_internal: the external edits come behind the pending ones,   *)
(* an edit that fails takes those behind it along, and unless it is a       *)
(* session boundary what the queue recorded.                                *)
Apply(queue, capture) ==
    LET upTo[k \in 0..Len(queue)] ==
            IF k = 0 THEN Untouched ELSE Apply1(upTo[k - 1], queue[k], capture)
        s == upTo[Len(queue)]
    IN  [s EXCEPT !.undo = IF s.txn # <<>> /\ (s.ok \/ s.kept) THEN Append(@, s.txn) ELSE @]

(* What callbacks answer a dispatch of the inbox with, and may add.         *)
Answers ==
    LET copies == SetToSeq({c \in Copies : c[1] \in inbox})
        swings == SetToSeq(Swings \cap inbox)
    IN  [i \in 1..Len(copies) |-> Set(copies[i][2], value[copies[i][1]])]
        \o [i \in 1..Len(swings) |->
               Set(swings[i], CHOOSE v \in Values : v # value[swings[i]])]

Replies == {Answers} \cup {Append(Answers, e) : e \in IF Answers = <<>> \/ sent = MaxForeign THEN {} ELSE Extras}

LaggardsCounted(answers) == sent' = IF answers = Answers THEN sent ELSE sent + 1

-----------------------------------------------------------------------------
(* The phases of each intent: how the edits are applied.                    *)

Phase(how, edits) == [how |-> how, edits |-> edits]
NextId == IF Fresh \subseteq store \cup {n \in Fresh : home[n] # Out} THEN {}
          ELSE {CHOOSE n \in Fresh : home[n] = Out}

Program(kind) ==
    CASE kind = "begin" -> {<<Phase("apply", <<Begin(c)>>)>> : c \in Clients}
      [] kind = "end" -> {<<Phase("apply", <<End(c)>>)>> : c \in Clients}
      [] kind = "setParam" -> {<<Phase("settle", <<Set(p, v)>>)>> : p \in Params, v \in Values}
      [] kind = "moveNode" -> {<<Phase("apply", <<Move(w, t)>>)>> : w \in Widgets, t \in Nodes \cup {Root}}
      [] kind = "removeNodes" ->
            {<<Phase("settle", [i \in DOMAIN ws |-> Remove_(ws[i])])>> :
                ws \in {SetToSeq(S) : S \in SUBSET Widgets \ {{}}}}
      [] kind = "create" ->
            {<<Phase("settle", <<Add(n, Root)>>), Phase("init", <<Set(p, v)>>)>> :
                n \in NextId, p \in Params, v \in Values}
      [] kind = "bind" -> {<<Phase("init", <<Set(p, v)>>)>> : p \in Params, v \in Values}
      [] kind = "wrap" ->
            {<<Phase("settle", <<Add(n, home[w])>>), Phase("init", <<Move(w, n)>>)>> :
                n \in NextId, w \in Widgets \cap store}

(* Intents apply_implicit_ui_edit_session runs.                             *)
Implicit(kind) == kind \in {"removeNodes", "create", "bind", "wrap"}

IntentBegins ==
    /\ run = Idle /\ intents < MaxIntents
    /\ \E kind \in Gestures : \E program \in Program(kind) :
          LET own == Implicit(kind) /\ session = NoSession
          IN  /\ run' = [Idle EXCEPT !.kind = kind, !.own = own, !.phases =
                         IF own THEN <<Phase("open", <<Begin(Own)>>)>> \o program ELSE program]
              /\ pending' = pending \o run'.phases[1].edits
    /\ intents' = intents + 1
    /\ base' = [graph |-> Graph, entries |-> Len(undo)]
    /\ foreign' = (pending # <<>>)
    /\ UNCHANGED <<graph, history, external, inbox, replays, sent, stranded>>

(* Continue_noEnd: a failed operation returns before the session's end.     *)
Continue_noEnd(r, queue) ==
    LET rest == IF r.failed THEN <<>> ELSE Tail(r.phases)
    IN  IF rest # <<>>
        THEN /\ run' = [r EXCEPT !.phases = rest, !.pass = 0, !.stage = "apply"]
             /\ pending' = queue \o rest[1].edits
        ELSE IF r.own /\ ~r.failed
        THEN /\ run' = [r EXCEPT !.phases = <<Phase("close", <<>>)>>]
             /\ pending' = Append(queue, End(Own))
        ELSE run' = Idle /\ pending' = queue

(* The next phase, the end of the intent's own session, or the ack.         *)
Continue(r, queue) ==
    LET rest == IF r.failed THEN <<>> ELSE Tail(r.phases)
    IN  IF rest # <<>>
        THEN /\ run' = [r EXCEPT !.phases = rest, !.pass = 0, !.stage = "apply"]
             /\ pending' = queue \o rest[1].edits
        ELSE IF r.own
        THEN /\ run' = [r EXCEPT !.phases = <<Phase("close", <<>>)>>]
             /\ pending' = Append(queue, End(Own))
        ELSE run' = Idle /\ pending' = queue

How == run.phases[1].how

Becomes(s) ==
    /\ value' = s.g.value /\ home' = s.g.home /\ store' = s.g.store
    /\ session' = s.session /\ undo' = s.undo /\ redo' = s.redo /\ inbox' = s.inbox
    /\ external' = <<>>
    /\ foreign' = (foreign \/ external # <<>>)

(* Batches whose failure leaves the session of the intent open: the one     *)
(* that opens it, with edits of others behind, and the one that closes it,  *)
(* behind edits the intent could not settle.                                *)
LeftOpen == How = "open" \/ (How = "close" /\ pending # <<End(Own)>>)

(* apply_edits, once.                                                       *)
ApplyOnce ==
    /\ run # Idle /\ How \in {"open", "apply", "close"}
    /\ \E s \in {Apply(pending \o external, TRUE)} :
          /\ Becomes(s)
          /\ Continue([run EXCEPT !.failed = @ \/ ~s.ok,
                                  !.own = @ /\ How # "close" /\ (How = "open" => s.ok)], <<>>)
          /\ stranded' = (stranded \/ (LeftOpen /\ ~s.ok /\ s.session.id = Own))
    /\ UNCHANGED <<intents, replays, sent, base>>

(* A pass of apply_ui_stabilization_to_fixed_point ("settle") or, without   *)
(* history, of apply_ui_initialization_to_fixed_point ("init"): nothing is  *)
(* applied, nor absorbed, when nothing is pending.                          *)
PassApplies ==
    /\ run # Idle /\ How \in {"settle", "init"} /\ run.stage = "apply"
    /\ IF pending = <<>>
       THEN /\ run' = [run EXCEPT !.stage = "dispatch"]
            /\ UNCHANGED <<graph, history, pending, external, inbox, foreign>>
       ELSE \E s \in {Apply(pending \o external, How = "settle")} :
               /\ Becomes(s)
               /\ IF s.ok THEN run' = [run EXCEPT !.stage = "dispatch"] /\ pending' = <<>>
                  ELSE Continue([run EXCEPT !.failed = TRUE], <<>>)
    /\ UNCHANGED <<intents, replays, sent, base, stranded>>

PassDispatches ==
    /\ run # Idle /\ How \in {"settle", "init"} /\ run.stage = "dispatch"
    /\ \E answers \in Replies :
          /\ IF answers = <<>> THEN Continue(run, <<>>)
             ELSE IF run.pass + 1 < MaxPasses
             THEN run' = [run EXCEPT !.stage = "apply", !.pass = @ + 1] /\ pending' = answers
             ELSE Continue([run EXCEPT !.failed = TRUE], answers)
          /\ LaggardsCounted(answers)
    /\ inbox' = {}
    /\ UNCHANGED <<graph, history, external, intents, replays, base, foreign, stranded>>

-----------------------------------------------------------------------------
(* Undo and redo: what becomes of the graph and of the step, and whether    *)
(* the step went through.                                                   *)

Replayed(g, step, ok) == [g |-> g, step |-> step, ok |-> ok]

(* Undo of an insertion, redo of a removal: the subtree as it is now.       *)
Lifted(g, step) ==
    IF Attached(g, step.n)
    THEN Replayed(Taken(g, step.n), [step EXCEPT !.held = Under(g, step.n), !.to = g.home[step.n]], TRUE)
    ELSE Replayed(g, step, step.op = "add" /\ step.n \notin g.store)

Reinstated(g, step) ==
    LET back == [g EXCEPT !.store = @ \cup step.held]
    IN  CASE step.held = {} -> Replayed(g, step, TRUE)
          [] step.to \in back.store \cup {Root} ->
                Replayed(Placed(back, step.n, step.to), [step EXCEPT !.held = {}], TRUE)
          [] OTHER -> Replayed(Placed(back, step.n, Out), step, FALSE)

(* A node is detached before its new place is looked at.                    *)
Shifted(g, step, to) ==
    CASE ~Attached(g, step.n) -> Replayed(g, step, FALSE)
      [] to \in g.store \cup {Root} -> Replayed(Placed(g, step.n, to), step, TRUE)
      [] OTHER -> Replayed(Placed(g, step.n, Out), step, FALSE)

Back(g, step) ==
    CASE step.op = "set" -> Replayed([g EXCEPT !.value[step.p] = step.old], step, TRUE)
      [] step.op = "add" -> Lifted(g, step)
      [] step.op = "remove" -> Reinstated(g, step)
      [] step.op = "move" -> Shifted(g, step, step.old)

Forth(g, step) ==
    CASE step.op = "set" -> Replayed([g EXCEPT !.value[step.p] = step.new], step, TRUE)
      [] step.op = "add" -> Reinstated(g, step)
      [] step.op = "remove" -> Lifted(g, step)
      [] step.op = "move" -> Shifted(g, step, step.to)

(* An entry stops at the first step that fails.                             *)
Chain(g, steps, Op(_, _)) ==
    FoldLeft(LAMBDA s, step :
                IF ~s.ok THEN s
                ELSE LET r == Op(s.g, step) IN [g |-> r.g, steps |-> Append(s.steps, r.step), ok |-> r.ok],
             [g |-> g, steps |-> <<>>, ok |-> TRUE], steps)

(* Reverted_forward: the steps of an entry are taken back first to last.    *)
Reverted_forward(g, steps) == Chain(g, steps, Back)

Reverted(g, steps) == Chain(g, Reverse(steps), Back)

Touched(steps) == {IF steps[i].op = "set" THEN steps[i].p ELSE "tree" : i \in DOMAIN steps}

(* An entry that fails is lost, with what it had done staying.              *)
IntentUndo ==
    /\ run = Idle /\ replays < MaxReplays /\ undo # <<>>
    /\ \E s \in {Reverted(Graph, Last(undo))} :
          /\ value' = s.g.value /\ home' = s.g.home /\ store' = s.g.store
          /\ inbox' = inbox \cup Touched(s.steps)
          /\ undo' = Front(undo)
          /\ redo' = IF s.ok THEN Append(redo, Reverse(s.steps)) ELSE redo
    /\ replays' = replays + 1
    /\ UNCHANGED <<session, pending, external, run, intents, sent, base, foreign, stranded>>

IntentRedo ==
    /\ run = Idle /\ replays < MaxReplays /\ redo # <<>>
    /\ \E s \in {Chain(Graph, Last(redo), Forth)} :
          /\ value' = s.g.value /\ home' = s.g.home /\ store' = s.g.store
          /\ inbox' = inbox \cup Touched(s.steps)
          /\ redo' = Front(redo)
          /\ undo' = IF s.ok THEN Append(undo, s.steps) ELSE undo
    /\ replays' = replays + 1
    /\ UNCHANGED <<session, pending, external, run, intents, sent, base, foreign, stranded>>

(* SetParamControlState and SetParamConstraints bypass the queue and record *)
(* their step at once.                                                      *)
IntentDirect ==
    /\ run = Idle /\ intents < MaxIntents
    /\ \E p \in Params : \E v \in Values \ {value[p]} :
          LET step == StepOf(Graph, Set(p, v))
          IN  /\ value' = [value EXCEPT ![p] = v]
              /\ IF session = NoSession
                 THEN undo' = Append(undo, <<step>>) /\ UNCHANGED session
                 ELSE session' = [session EXCEPT !.steps = Append(@, step)] /\ UNCHANGED undo
              /\ inbox' = inbox \cup {p}
    /\ redo' = <<>> /\ intents' = intents + 1
    /\ UNCHANGED <<home, store, pending, external, run, replays, sent, base, foreign, stranded>>

-----------------------------------------------------------------------------
(* Others.                                                                  *)

(* A node, a device or a script engine on its own thread.                   *)
Send ==
    /\ sent < MaxForeign
    /\ \E e \in Foreign : external' = Append(external, e)
    /\ sent' = sent + 1
    /\ UNCHANGED <<graph, history, pending, inbox, run, intents, replays, base, foreign, stranded>>

(* A tick applies what is pending without history and dispatches.           *)
TickApplies ==
    /\ run = Idle /\ pending \o external # <<>>
    /\ \E s \in {Apply(pending \o external, FALSE)} : Becomes(s)
    /\ pending' = <<>>
    /\ UNCHANGED <<run, intents, replays, sent, base, stranded>>

TickDispatches ==
    /\ run = Idle /\ inbox # {}
    /\ \E answers \in Replies : pending' = pending \o answers /\ LaggardsCounted(answers)
    /\ inbox' = {}
    /\ UNCHANGED <<graph, history, external, run, intents, replays, base, foreign, stranded>>

(* cancel_active_ui_edit_session_for_client.                                *)
Disconnect ==
    /\ run = Idle /\ session # NoSession
    /\ session' = NoSession /\ stranded' = FALSE
    /\ UNCHANGED <<graph, undo, redo, pending, external, inbox, run, intents, replays, sent, base, foreign>>

IntentsNext ==
    \/ IntentBegins \/ ApplyOnce \/ PassApplies \/ PassDispatches
    \/ IntentUndo \/ IntentRedo \/ IntentDirect
    \/ Send \/ TickApplies \/ TickDispatches \/ Disconnect

IntentsSpec == IntentsInit /\ [][IntentsNext]_intentVars

-----------------------------------------------------------------------------
(* "Begins a multi-intent edit session used as one undo/redo boundary"      *)
(* (edit.rs): an intent in a session of its own, that applied no edit of    *)
(* another thread and whose session closed, leaves at most one entry, and   *)
(* for a removal or a creation, failed ones included, taking that entry     *)
(* back gives the tree as it was, and without one the tree never changed.   *)
OneEntryPerGesture ==
    [][run # Idle /\ How = "close" /\ run' = Idle /\ ~foreign' /\ ~stranded' =>
         LET new == Len(undo') - base.entries
             now == [value |-> value', home |-> home', store |-> store']
             back == IF new = 1 THEN Reverted(now, Last(undo')).g ELSE now
         IN  /\ new \in {0, 1}
             /\ run.kind \in {"removeNodes", "create"} =>
                   /\ back.store = base.graph.store
                   /\ \A n \in back.store : back.home[n] = base.graph.home[n]]_intentVars

(* A session an intent opened for itself is closed when the intent is over, *)
(* failed or not, unless an edit of another thread failed in the batch that *)
(* opened it, or one that callbacks went on asking for past the last pass   *)
(* failed in the batch that was to close it.                                *)
OwnSessionsClose == run = Idle /\ session.id = Own => stranded

(* docs/dashboard_system.md: "reorder operations flow through normal node   *)
(* move history": taking an entry back never takes a widget of the project  *)
(* away.                                                                    *)
UndoKeepsWidgets ==
    [][Len(undo') < Len(undo) => store \cap Widgets \subseteq store']_intentVars
=============================================================================
