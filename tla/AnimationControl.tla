--------------------------- MODULE AnimationControl ---------------------------
(* The node that animates a parameter (parameter/animation_control.rs): its   *)
(* waveform decides which children it has, a curve, or an amplitude and an    *)
(* offset.  It learns of a new waveform from an event, compares it with the   *)
(* waveform it knows, and asks for the children to be added and removed.      *)
(*                                                                            *)
(* The waveform it knows is also refreshed from the value of the parameter,   *)
(* after its events and before each of its updates; and what it asks for      *)
(* while the engine stabilizes at the end of a tick is done a tick later.     *)
(* Frequency, phase and rate, and the value it computes, are left out.        *)
EXTENDS Naturals, Sequences, SequencesExt, FiniteSets

CONSTANTS Waves,    \* the waveforms
          Curve,    \* the one with a curve
          Plain,    \* the one a new control has
          MaxId,    \* bound: ids of children, more than are ever needed at once
          MaxSets   \* bound: changes of the waveform

ASSUME AnimationAssumption == {Curve, Plain} \subseteq Waves /\ Curve # Plain /\ MaxId \in Nat /\ MaxSets \in Nat

NoChild == 0   \* no child
Kinds == {"curve", "amplitude", "offset"}
Wanted(w) == IF w = Curve THEN {"curve"} ELSE {"amplitude", "offset"}

VARIABLES
    wave,      \* value of the waveform parameter
    kids,      \* the children: pairs of a kind and an id
    known,     \* waveform: the waveform the node knows
    bound,     \* curve_node, amplitude_param, offset_param
    heard,     \* events the node has still to be told
    waiting,     \* edits of the intent that runs
    later,     \* structural edits put off to the next tick
    sent,      \* waveforms set by others, to be absorbed
    doing,     \* what runs: "nothing", an "intent", or a step of a tick
    undo,      \* what the last intent can be undone to, if it can
    sets,      \* changes of the waveform so far
    missed  \* ghost: a change was missed, or came while an earlier one was put off

animationVars == <<wave, kids, known, bound, heard, waiting, later, sent, doing, undo, sets, missed>>

-----------------------------------------------------------------------------
(* Edits, and the events of what they changed.                             *)

Set(w) == [op |-> "set", wave |-> w]
Add(kind) == [op |-> "add", kind |-> kind]
Drop(id) == [op |-> "drop", id |-> id]
Added(kind, id) == [op |-> "added", kind |-> kind, id |-> id]

Structural(e) == e.op \in {"add", "drop"}

Push(q, e) ==
    CASE e.op = "set" -> Append(SelectSeq(q, LAMBDA x : x.op # "set"), e)
      [] e.op = "drop" -> IF Contains(q, e) THEN q ELSE Append(q, e)
      [] OTHER -> Append(q, e)

PushAll(q, es) == FoldLeft(Push, q, es)
Sets(ws) == [i \in DOMAIN ws |-> Set(ws[i])]

\* An id is new when nothing names it.
Fresh(s) ==
    CHOOSE id \in 1..MaxId :
        /\ \A k \in s.kids : k[2] # id
        /\ \A kind \in Kinds : bound[kind] # id
        /\ \A q \in {s.events, heard, waiting, later} :
              \A i \in DOMAIN q : q[i].op \in {"added", "drop"} => q[i].id # id
        /\ \A u \in undo : \A k \in u.kids : k[2] # id

\* Engine::apply_edits: the first edit that fails ends the batch.
ApplyOne(s, e) ==
    IF s.failed THEN s
    ELSE CASE e.op = "set" ->
                IF s.wave = e.wave THEN s
                ELSE [s EXCEPT !.wave = e.wave, !.events = Append(@, e)]
           [] e.op = "add" ->
                [s EXCEPT !.kids = @ \cup {<<e.kind, Fresh(s)>>}, !.events = Append(@, Added(e.kind, Fresh(s)))]
           [] e.op = "drop" ->
                IF \E k \in s.kids : k[2] = e.id
                THEN [s EXCEPT !.kids = {k \in @ : k[2] # e.id}, !.events = Append(@, e)]
                ELSE [s EXCEPT !.failed = TRUE]

Edited(es) == FoldLeft(ApplyOne, [wave |-> wave, kids |-> kids, events |-> <<>>, failed |-> FALSE], es)

-----------------------------------------------------------------------------
(* The node.                                                               *)

Bind(b, kind, id) == [b EXCEPT ![kind] = id]
Unbind(b, id) == [kind \in Kinds |-> IF b[kind] = id THEN NoChild ELSE b[kind]]

See(n, e) ==
    CASE e.op = "set" -> [n EXCEPT !.known = e.wave, !.changed = @ \/ n.known # e.wave]
      [] e.op = "added" -> [n EXCEPT !.bound = Bind(@, e.kind, e.id)]
      [] e.op = "drop" -> [n EXCEPT !.bound = Unbind(@, e.id)]

\* sync_waveform_dependent_nodes goes by the children it knows.
Dependents(n) ==
    LET missing == SelectSeq(<<"curve", "amplitude", "offset">>, LAMBDA k : k \in Wanted(n.known) /\ n.bound[k] = NoChild)
        idle == SelectSeq(<<"curve", "amplitude", "offset">>, LAMBDA k : k \notin Wanted(n.known) /\ n.bound[k] # NoChild)
        adds == [i \in DOMAIN missing |-> Add(missing[i])]
        drops == [i \in DOMAIN idle |-> Drop(n.bound[idle[i]])]
    IN  IF n.known = Curve THEN adds \o drops ELSE drops \o adds

\* Mutant: the value of the parameter is looked up before the events.
Preprocessed_refreshed(es) ==
    LET n == FoldLeft(See, [known |-> wave, bound |-> bound, changed |-> FALSE], es)
    IN  [known |-> wave, bound |-> n.bound, asks |-> IF n.changed THEN Dependents(n) ELSE <<>>]

\* engine_preprocess_inbox; then engine_sync_bound_param_handles looks the
\* value up.
Preprocessed(es) ==
    LET n == FoldLeft(See, [known |-> known, bound |-> bound, changed |-> FALSE], es)
    IN  [known |-> wave, bound |-> n.bound, asks |-> IF n.changed THEN Dependents(n) ELSE <<>>]

-----------------------------------------------------------------------------
(* What changes the waveform.                                              *)

CountSet == sets < MaxSets /\ sets' = sets + 1

\* What a batch leaves behind, with edits still put off; a failing one ends
\* what runs.
Leaves(s, next, put_off) ==
    /\ wave' = s.wave /\ kids' = s.kids
    /\ heard' = heard \o s.events
    /\ missed' = (missed \/ s.failed \/ (s.wave # wave /\ put_off # <<>>))
    /\ doing' = IF s.failed THEN "nothing" ELSE next

\* An intent of the UI.
Intend(w) ==
    /\ doing = "nothing" /\ w # wave
    /\ CountSet
    /\ doing' = "intent"
    /\ waiting' = <<Set(w)>>
    /\ undo' = IF later = <<>> /\ sent = <<>> /\ heard = <<>> THEN {[wave |-> wave, kids |-> kids]} ELSE {}
    /\ UNCHANGED <<wave, kids, known, bound, heard, later, sent, missed>>

\* A pass of apply_ui_stabilization_to_fixed_point: edits, then events.
IntentPass ==
    /\ doing = "intent"
    /\ \/ /\ waiting # <<>>
          /\ Leaves(Edited(PushAll(waiting, Sets(sent))), "intent", later)
          /\ waiting' = <<>> /\ sent' = <<>>
          /\ UNCHANGED <<known, bound>>
       \/ /\ waiting = <<>> /\ heard # <<>>
          /\ LET n == Preprocessed(heard)
             IN known' = n.known /\ bound' = n.bound /\ waiting' = n.asks
          /\ heard' = <<>>
          /\ UNCHANGED <<wave, kids, sent, doing, missed>>
       \/ /\ waiting = <<>> /\ heard = <<>>
          /\ doing' = "nothing"
          /\ UNCHANGED <<wave, kids, known, bound, heard, waiting, sent, missed>>
    /\ UNCHANGED <<later, undo, sets>>

\* The events of an undo wait for the next tick or intent.
UndoSet ==
    \E before \in undo :
        LET back == SetToSeq(before.kids \ kids)
            gone == SetToSeq(kids \ before.kids)
        IN  /\ doing = "nothing"
            /\ CountSet
            /\ wave' = before.wave /\ kids' = before.kids
            /\ heard' = heard \o [i \in DOMAIN back |-> Added(back[i][1], back[i][2])]
                              \o [i \in DOMAIN gone |-> Drop(gone[i][2])] \o <<Set(before.wave)>>
            /\ undo' = {}
            /\ UNCHANGED <<known, bound, waiting, later, sent, doing, missed>>

\* Another thread or a script sets the waveform; it is absorbed later.
PutExternal(w) ==
    /\ CountSet
    /\ sent' = Append(sent, w)
    /\ undo' = {}
    /\ UNCHANGED <<wave, kids, known, bound, heard, waiting, later, doing, missed>>

-----------------------------------------------------------------------------
(* A tick.                                                                 *)

TickStart ==
    /\ doing = "nothing"
    /\ Leaves(Edited(PushAll(PushAll(<<>>, later), Sets(sent))), "preprocess", <<>>)
    /\ later' = <<>> /\ sent' = <<>> /\ undo' = {}
    /\ UNCHANGED <<known, bound, waiting, sets>>

\* The events are told once, without application callbacks, and kept; what
\* that asks for is done at once.
TickPreprocess ==
    /\ doing = "preprocess"
    /\ LET n == IF heard = <<>> THEN [known |-> known, bound |-> bound, asks |-> <<>>] ELSE Preprocessed(heard)
           s == Edited(PushAll(n.asks, IF n.asks = <<>> THEN <<>> ELSE Sets(sent)))
       IN  /\ known' = n.known /\ bound' = n.bound
           /\ sent' = IF n.asks = <<>> THEN sent ELSE <<>>
           /\ wave' = s.wave /\ kids' = s.kids
           /\ heard' = heard \o s.events
           /\ missed' = (missed \/ s.failed)
           /\ doing' = IF s.failed THEN "nothing" ELSE "controls"
    /\ UNCHANGED <<waiting, later, undo, sets>>

\* A control of the waveform parameter may set it.
TickControls ==
    /\ doing = "controls"
    /\ \/ UNCHANGED <<wave, heard, sent, missed, sets>> /\ UNCHANGED kids /\ doing' = "updates"
       \/ \E w \in Waves \ {wave} :
             CountSet /\ Leaves(Edited(PushAll(Sets(sent), <<Set(w)>>)), "updates", later) /\ sent' = <<>>
    /\ UNCHANGED <<known, bound, waiting, later, undo>>

\* The node may be due: it looks its waveform up before it updates.
TickUpdates ==
    /\ doing = "updates"
    /\ \/ UNCHANGED <<known, missed>>
       \/ /\ known' = wave
          /\ missed' = (missed \/ wave # known)
    /\ doing' = "rounds"
    /\ UNCHANGED <<wave, kids, bound, heard, waiting, later, sent, undo, sets>>

\* A round of run_stabilization_rounds: what others set meanwhile, or a
\* control sets again, is done before the events are told; the structural
\* edits they call for are put off.
TickRound ==
    /\ doing = "rounds"
    /\ \E ws \in {<<>>} \cup {<<w>> : w \in Waves \ {wave}} :
        /\ IF ws = <<>> THEN UNCHANGED sets ELSE CountSet
        /\ IF heard = <<>> /\ sent = <<>> /\ ws = <<>>
           THEN /\ doing' = "nothing"
                /\ UNCHANGED <<wave, kids, known, bound, heard, later, sent, missed>>
           ELSE LET s == Edited(PushAll(<<>>, Sets(sent \o ws)))
                    told == heard \o s.events
                    n == FoldLeft(See, [known |-> known, bound |-> bound, changed |-> FALSE], told)
                IN  /\ sent' = <<>> /\ heard' = <<>>
                    /\ wave' = s.wave /\ kids' = s.kids
                    /\ known' = IF told = <<>> THEN known ELSE s.wave
                    /\ bound' = n.bound
                    /\ later' = later \o IF n.changed THEN Dependents(n) ELSE <<>>
                    /\ missed' = (missed \/ (s.wave # wave /\ later # <<>>))
                    /\ UNCHANGED doing
    /\ UNCHANGED <<waiting, undo>>

-----------------------------------------------------------------------------
\* A control that was loaded has its children.  One that was made while
\* another node was being made is initialized before its children are bound,
\* and asks for them a second time.
AnimationInit ==
    /\ \E nested \in BOOLEAN :
        LET id == [curve |-> 1, amplitude |-> 1, offset |-> 2]
            again == [amplitude |-> 3, offset |-> 4]
        IN  /\ wave \in IF nested THEN {Plain} ELSE Waves
            /\ kids = {<<kind, id[kind]>> : kind \in Wanted(wave)}
                      \cup IF nested THEN {<<kind, again[kind]>> : kind \in Wanted(wave)} ELSE {}
            /\ bound = [kind \in Kinds |-> IF kind \notin Wanted(wave) THEN NoChild
                                           ELSE IF nested THEN again[kind] ELSE id[kind]]
            /\ missed = nested
    /\ known = wave
    /\ heard = <<>> /\ waiting = <<>> /\ later = <<>> /\ sent = <<>>
    /\ doing = "nothing" /\ undo = {} /\ sets = 0

AnimationNext ==
    \/ \E w \in Waves : Intend(w) \/ PutExternal(w)
    \/ IntentPass \/ UndoSet
    \/ TickStart \/ TickPreprocess \/ TickControls \/ TickUpdates \/ TickRound

AnimationSpec == AnimationInit /\ [][AnimationNext]_animationVars

-----------------------------------------------------------------------------
(* Properties.                                                             *)

AtRest == doing = "nothing" /\ heard = <<>> /\ later = <<>> /\ sent = <<>>

\* At rest the control has exactly the children its waveform calls for, one
\* of each, and knows them, however the waveform was set and whatever is
\* undone in between; unless a change came while another was half followed.
WaveFollowed ==
    AtRest /\ ~missed =>
        /\ known = wave
        /\ kids = {<<kind, bound[kind]>> : kind \in Wanted(wave)}
        /\ \A kind \in Kinds : bound[kind] # NoChild <=> kind \in Wanted(wave)

\* engine/tests.rs:9233 has it that there is no amplitude in curve mode.
NoAmplitudeInCurveMode == AtRest /\ wave = Curve => \A k \in kids : k[1] # "amplitude"
=============================================================================
