---------------------------- MODULE ParamControls ----------------------------
(***************************************************************************)
(* Parameters that follow other parameters (engine/controls.rs): the        *)
(* control mode and configuration of each parameter, the index of who       *)
(* depends on whom, one evaluation of the controls, and the places of the   *)
(* tick that evaluate and that clear the events an evaluation would read.   *)
(*                                                                          *)
(* A parameter is a number, the order node ids have.  A value is a number   *)
(* its constraints clamp.  A proxy copies its target, a binding keeps two   *)
(* parameters equal, an expression is the maximum of the parameters it      *)
(* mentions and fails to run without one of them.  Warnings repeat the      *)
(* diagnostics and are left out with their event, which the diagnostics'    *)
(* own event accompanies.                                                   *)
(***************************************************************************)
EXTENDS Integers, SequencesExt

CONSTANTS
    Controlled,     \* parameters, a set of numbers
    Top,        \* the largest value the constraints of a parameter allow
    Lost,       \* a reference to a node that does not exist
    Unset,      \* an empty reference
    Modes,      \* the modes each parameter is tried in
    Wires,      \* the references a parameter is tried with
    Mentions,   \* the sets of parameters an expression may mention
    NoRuntime,  \* no expression runtime
    Start,      \* values at first
    MaxActs,    \* bound on what users, threads and callbacks do
    MaxRounds   \* max_stabilization_passes_per_tick

ASSUME ControlsAssumption ==
    Controlled \subseteq Nat /\ MaxActs \in Nat /\ MaxRounds \in Nat

VARIABLES
    mode,      \* control.mode
    wire,      \* value of the reference child of a proxy or binding
    expr,      \* what the source child of an expression mentions
    held,      \* value
    recent,    \* parameters by param_last_change_counter, the newest first
    diag,      \* control.diagnostics: "" or the code of the one there is
    watching,   \* expression_runtime: what the last successful run read
    controlIndex,     \* active_control_params and control_source_dependents
    stale,     \* control_index_dirty
    news,      \* what the inbox tells an evaluation
    edits,     \* edits.pending: parameter writes
    round,     \* stabilization pass
    at,        \* the engine's phase
    acts,      \* what users, threads and callbacks have done
    \* For the properties only.
    looked,    \* changes in news the last evaluation has seen
    unread     \* changes cleared before any evaluation saw them

wiring == <<mode, wire, expr>>
controlVars == <<wiring, held, recent, diag, watching, controlIndex, stale, news, edits, round, at,
                 acts, looked, unread>>

(* params and children (of the owner named) whose ParamChanged is in the    *)
(* inbox; other is any other event.                                         *)
Quiet == [params |-> {}, children |-> {}, other |-> FALSE]
Nothing == [params |-> {}, children |-> {}]

MaxOf(S) == CHOOSE x \in S : \A y \in S : y <= x
Fit(v, p) == IF v > Top[p] THEN Top[p] ELSE v

Referring(p) == mode[p] \in {"proxy", "binding"}

(* A loaded project: any configuration, nothing evaluated, no events.       *)
ControlsInit ==
    /\ mode \in {m \in [Controlled -> UNION {Modes[p] : p \in Controlled}] : \A p \in Controlled : m[p] \in Modes[p]}
    /\ wire \in [Controlled -> Wires \cup {Unset}]
    /\ expr \in [Controlled -> Mentions \cup {{}}]
    /\ \A p \in Controlled : (~Referring(p) => wire[p] = Unset) /\ (mode[p] # "expression" => expr[p] = {})
    /\ held = Start /\ recent = <<>>
    /\ diag = [p \in Controlled |-> ""] /\ watching = [p \in Controlled |-> NoRuntime]
    /\ controlIndex = [active |-> {}, readers |-> [p \in Controlled |-> {}]] /\ stale = TRUE
    /\ news = Quiet /\ edits = <<>> /\ round = 0 /\ at = "idle" /\ acts = 0
    /\ looked = Nothing /\ unread = Nothing

-----------------------------------------------------------------------------
Active(p) == mode[p] # "manual" \/ diag[p] # ""

(* collect_control_sources: an expression that has run before depends on    *)
(* what it read then.                                                       *)
Sources(p) ==
    CASE Referring(p) -> {wire[p]} \cap Controlled
      [] mode[p] = "expression" -> IF watching[p] = NoRuntime THEN expr[p] ELSE watching[p]
      [] OTHER -> {}

Index ==
    LET active == {p \in Controlled : Active(p)}
    IN  [active |-> active, readers |-> [s \in Controlled |-> {p \in active : s \in Sources(p)}]]

(* Candidates_targetOnly: a follower that was itself written is left alone. *)
Candidates_targetOnly(ix, full) ==
    IF full THEN ix.active
    ELSE (ix.active \cap news.children) \cup UNION {ix.readers[p] : p \in news.params}

(* select_control_evaluation_candidates                                     *)
Candidates(ix, full) ==
    IF full THEN ix.active
    ELSE (ix.active \cap (news.params \cup news.children))
           \cup UNION {ix.readers[p] : p \in news.params}

Known(cands) == cands \cup UNION {Sources(p) : p \in cands}

(* Chained_direct: only a proxy of one's own proxy is a cycle.              *)
Chained_direct(p, start, known) == mode[start] = "proxy" /\ wire[start] = p

(* proxy_chain_contains walks proxies among the parameters at hand only.    *)
Chained(p, start, known) ==
    LET hop(q) == IF q \in known /\ mode[q] = "proxy" /\ wire[q] \in known THEN wire[q] ELSE Unset
        walk[n \in 0..Cardinality(Controlled)] == IF n = 0 THEN start ELSE hop(walk[n - 1])
    IN  \E n \in DOMAIN walk : walk[n] = p

Runs(p) ==
    \/ watching[p] = NoRuntime \/ news.other
    \/ p \in news.children \/ news.params \cap watching[p] # {}

Complete(p, known) == expr[p] \subseteq known

(* The diagnostic an evaluation leaves at a candidate.                      *)
Verdict(p, known) ==
    CASE Referring(p) /\ wire[p] = Lost -> "missing"
      [] Referring(p) /\ wire[p] = p -> "cycle"
      [] mode[p] = "proxy" /\ wire[p] # Unset /\ Chained(p, wire[p], known) -> "cycle"
      [] mode[p] = "expression" /\ expr[p] # {} ->
            IF ~Runs(p) THEN diag[p] ELSE IF Complete(p, known) THEN "" ELSE "error"
      [] OTHER -> ""

Computes(p, known) == mode[p] = "expression" /\ expr[p] # {} /\ Runs(p) /\ Complete(p, known)

(* What proxies and expressions among the candidates write.                 *)
Follows(p, known) ==
    IF Verdict(p, known) # "" THEN {}
    ELSE CASE mode[p] = "proxy" /\ wire[p] # Unset -> {Fit(held[wire[p]], p)}
           [] Computes(p, known) -> {Fit(MaxOf({held[q] : q \in expr[p]}), p)}
           [] OTHER -> {}

-----------------------------------------------------------------------------
Newer(a, b) ==
    LET age(p) == IF p \in Range(recent) THEN CHOOSE i \in 1..Len(recent) : recent[i] = p
                  ELSE Len(recent) + 1
    IN  age(a) < age(b) \/ (age(a) = age(b) /\ a < b)

(* evaluate_bindings: in each bound pair the newer value is the source; of  *)
(* several sources that would change a parameter the newest one wins.       *)
BindingWrites(cands) ==
    LET pairs == {{p, wire[p]} : p \in {q \in cands : mode[q] = "binding" /\ wire[q] \in Controlled \ {q}}}
        flows == {<<s, t>> \in Controlled \X Controlled :
                    {s, t} \in pairs /\ s # t /\ Newer(s, t) /\ Fit(held[s], t) # held[t]}
    IN  [t \in {f[2] : f \in flows} |->
            LET s == CHOOSE s \in Controlled : /\ <<s, t>> \in flows
                                               /\ \A r \in Controlled \ {s} : <<r, t>> \in flows => Newer(s, r)
            IN  Fit(held[s], t)]

InOrder(S) == SetToSortSeq(S, LAMBDA a, b : a < b)

(* EditQueue::push of a coalescing SetParam.                                *)
Enqueue(q, e) == Append(SelectSeq(q, LAMBDA f : f.p # e.p), e)

(* Applies queued writes in turn: only a write that changes the value       *)
(* counts, and tells the inbox.                                             *)
Write(s, e) ==
    IF s.held[e.p] = Fit(e.v, e.p) THEN s
    ELSE [held |-> [s.held EXCEPT ![e.p] = Fit(e.v, e.p)],
          recent |-> <<e.p>> \o SelectSeq(s.recent, LAMBDA q : q # e.p),
          changed |-> s.changed \cup {e.p}]

Applied(q) == FoldLeft(Write, [held |-> held, recent |-> recent, changed |-> {}], q)

(* apply_parameter_control_diagnostics: every parameter at hand gets the    *)
(* diagnostic of this pass, or none.                                        *)
Diagnosed(cands, known) ==
    [p \in Controlled |-> IF p \in cands THEN Verdict(p, known)
                         ELSE IF p \in known THEN "" ELSE diag[p]]

(* The writes a pass queues: those of proxies and expressions, then those   *)
(* of bindings, unless they would change nothing.                           *)
PassWrites(cands, known) ==
    LET own   == {p \in cands : \E v \in Follows(p, known) : v # held[p]}
        bound == BindingWrites(cands)
    IN  [i \in 1..Cardinality(own) |->
            LET p == InOrder(own)[i] IN [p |-> p, v |-> CHOOSE v \in Follows(p, known) : TRUE]]
        \o [i \in 1..Cardinality(DOMAIN bound) |->
            LET p == InOrder(DOMAIN bound)[i] IN [p |-> p, v |-> bound[p]]]

(* prune_expression_runtimes_to_active_controls.                            *)
Kept(ix) == [p \in Controlled |-> IF p \in ix.active THEN watching[p] ELSE NoRuntime]

(* evaluate_parameter_controls, and the edits it queued applied behind      *)
(* those already queued (run_control_pass).                                 *)
Evaluate ==
    LET full   == stale \/ news.other
        ix     == IF full THEN Index ELSE controlIndex
        cands  == Candidates(ix, full)
        known  == Known(cands)
        diag2  == Diagnosed(cands, known)
        after  == Applied(FoldLeft(Enqueue, edits, PassWrites(cands, known)))
        seen   == [params |-> news.params, children |-> news.children]
    IN  /\ controlIndex' = ix
        /\ diag' = diag2
        /\ watching' = [p \in Controlled |->
                          CASE p \in cands /\ Computes(p, known) -> expr[p]
                            [] p \in cands /\ mode[p] = "expression" /\ expr[p] = {} -> NoRuntime
                            [] OTHER -> Kept(ix)[p]]
        /\ stale' = (diag2 # diag \/ news.other \/ news.children \cap ix.active # {})
        /\ held' = after.held /\ recent' = after.recent /\ edits' = <<>>
        /\ news' = [news EXCEPT !.params = @ \cup after.changed, !.other = @ \/ diag2 # diag]
        /\ looked' = [seen EXCEPT !.params = @ \ after.changed]
        /\ unread' = IF news.other THEN Nothing
                     ELSE [params |-> unread.params \ seen.params,
                           children |-> unread.children \ seen.children]

-----------------------------------------------------------------------------
Act == acts < MaxActs /\ acts' = acts + 1

(* A write of another thread, absorbed when the tick starts, or of an undo. *)
SetControlled ==
    /\ at = "idle" /\ Act
    /\ \E p \in Controlled : \E v \in 0..Top[p] :
          /\ v # held[p]
          /\ \E s \in {Applied(<<[p |-> p, v |-> v]>>)} : held' = s.held /\ recent' = s.recent
          /\ news' = [news EXCEPT !.params = @ \cup {p}]
          /\ looked' = [looked EXCEPT !.params = @ \ {p}]
    /\ UNCHANGED <<wiring, diag, watching, controlIndex, stale, edits, round, at, unread>>

(* A new reference or expression, by the same way.                          *)
SetChild ==
    /\ at = "idle" /\ Act
    /\ \E p \in Controlled :
          /\ \/ /\ Referring(p)
                /\ \E w \in (Wires \cup {Unset}) \ {wire[p]} : wire' = [wire EXCEPT ![p] = w]
                /\ UNCHANGED expr
             \/ /\ mode[p] = "expression"
                /\ \E e \in (Mentions \cup {{}}) \ {expr[p]} : expr' = [expr EXCEPT ![p] = e]
                /\ UNCHANGED wire
          /\ news' = [news EXCEPT !.children = @ \cup {p}]
          /\ looked' = [looked EXCEPT !.children = @ \ {p}]
    /\ UNCHANGED <<mode, held, recent, diag, watching, controlIndex, stale, edits, round, at, unread>>

(* The inbox is cleared by a dispatch.                                      *)
Forget(box) ==
    unread' = [params |-> unread.params \cup (box.params \ looked.params),
               children |-> unread.children \cup (box.children \ looked.children)]

(* A SetParam intent of the UI is applied, dispatched and cleared at once:  *)
(* the controls are not evaluated in between.                               *)
UiSetParam ==
    /\ at = "idle" /\ Act
    /\ \E p \in Controlled : \E v \in 0..Top[p] :
          /\ v # held[p]
          /\ \E s \in {Applied(<<[p |-> p, v |-> v]>>)} : held' = s.held /\ recent' = s.recent
          /\ unread' = [params |-> unread.params \cup (news.params \ looked.params) \cup {p},
                        children |-> unread.children \cup (news.children \ looked.children)]
    /\ news' = Quiet /\ looked' = Nothing
    /\ UNCHANGED <<wiring, diag, watching, controlIndex, stale, edits, round, at>>

(* set_param_control_state_impl: the children the new mode needs, the state *)
(* and the mark of the index; its events stay in the inbox.                 *)
SetControl ==
    /\ at = "idle" /\ Act
    /\ \E p \in Controlled : \E m \in Modes[p] :
          /\ mode[p] # m \/ diag[p] # ""
          /\ mode' = [mode EXCEPT ![p] = m]
          /\ wire' = [wire EXCEPT ![p] = IF m \in {"proxy", "binding"} THEN @ ELSE Unset]
          /\ expr' = [expr EXCEPT ![p] = IF m = "expression" THEN @ ELSE {}]
          /\ diag' = [diag EXCEPT ![p] = ""]
    /\ stale' = TRUE
    /\ news' = [news EXCEPT !.other = TRUE]
    /\ at' = "set"
    /\ UNCHANGED <<held, recent, watching, controlIndex, edits, round, looked, unread>>

(* apply_set_param_control_state_internal evaluates before it returns.      *)
EvaluateSet ==
    /\ at = "set" /\ Evaluate /\ at' = "idle"
    /\ UNCHANGED <<wiring, round, acts>>

(* run_tick up to its first control pass.                                   *)
FirstPass ==
    /\ at = "idle"
    /\ stale \/ news # Quiet \/ acts < MaxActs
    /\ Evaluate
    /\ at' = "update"
    /\ UNCHANGED <<wiring, round, acts>>

(* Node updates queue their writes for the first round.                     *)
Updates ==
    /\ at = "update"
    /\ \/ UNCHANGED <<edits, acts>>
       \/ Act /\ \E p \in Controlled : \E v \in 0..Top[p] : edits' = <<[p |-> p, v |-> v]>>
    /\ at' = "round"
    /\ UNCHANGED <<wiring, held, recent, diag, watching, controlIndex, stale, news, round, looked, unread>>

Round_ ==
    /\ at = "round"
    /\ Evaluate
    /\ at' = "test"
    /\ UNCHANGED <<wiring, round, acts>>

(* A round that leaves no event ends the tick, one too many fails it.       *)
EndTick ==
    /\ at = "test"
    /\ news = Quiet \/ round >= MaxRounds
    /\ at' = "idle" /\ round' = 0
    /\ UNCHANGED <<wiring, held, recent, diag, watching, controlIndex, stale, news, edits, acts, looked, unread>>

(* Otherwise the events are dispatched and cleared, and what the callbacks  *)
(* wrote is applied for the next round to see.                              *)
DispatchRound ==
    /\ at = "test" /\ news # Quiet /\ round < MaxRounds
    /\ Forget(news)
    /\ looked' = Nothing
    /\ \/ news' = Quiet /\ UNCHANGED <<held, recent, acts>>
       \/ Act /\ \E p \in Controlled : \E v \in 0..Top[p] :
                    /\ v # held[p]
                    /\ \E s \in {Applied(<<[p |-> p, v |-> v]>>)} : held' = s.held /\ recent' = s.recent
                    /\ news' = [Quiet EXCEPT !.params = {p}]
    /\ round' = round + 1
    /\ at' = "round"
    /\ UNCHANGED <<wiring, diag, watching, controlIndex, stale, edits>>

ControlsNext ==
    \/ SetControlled \/ SetChild \/ UiSetParam \/ SetControl \/ EvaluateSet
    \/ FirstPass \/ Updates \/ Round_ \/ EndTick \/ DispatchRound

ControlsSpec == ControlsInit /\ [][ControlsNext]_controlVars

-----------------------------------------------------------------------------
AtRest == at = "idle" /\ news = Quiet /\ ~stale

FreshControl(p) == p \notin unread.params \cup unread.children

Ring(p) ==
    \E S \in SUBSET Controlled :
        p \in S /\ (\A q \in S : mode[q] = "proxy") /\ {wire[q] : q \in S} = S

SeenChangesArrive ==
    AtRest => \A p \in Controlled :
        LET t == wire[p]
        IN  Referring(p) /\ t \in Controlled \ {p} /\ FreshControl(p) /\ FreshControl(t) =>
              \/ mode[p] = "proxy" /\ (Ring(p) \/ held[p] = Fit(held[t], p))
              \/ mode[p] = "binding" /\ (held[p] = Fit(held[t], p) \/ held[t] = Fit(held[p], t))

CyclesReported ==
    AtRest /\ unread.children = {} => \A p \in Controlled :
        mode[p] = "proxy" => diag[p] = (IF wire[p] = Lost THEN "missing" ELSE IF Ring(p) THEN "cycle" ELSE "")

(* Between ticks a proxy has its target's value and the two ends of a       *)
(* binding agree up to their constraints, unless an event about one of them *)
(* was cleared before an evaluation saw it: evaluating only the dependents  *)
(* of what changed, from an index rebuilt only when marked, loses nothing.  *)
(* And the proxies that have a cycle or a missing target are those that say *)
(* so, unless a change of a reference went unseen.                          *)
ControlsSettle == SeenChangesArrive /\ CyclesReported

(* docs/parameters_control_modes.md 3.5: "Parameter reads/writes through a  *)
(* designated compatible target": between ticks a proxy that reports no     *)
(* problem has its target's value.                                          *)
ProxyReadsTarget ==
    AtRest => \A p \in Controlled :
        mode[p] = "proxy" /\ wire[p] \in Controlled /\ diag[p] = "" => held[p] = Fit(held[wire[p]], p)

(* docs/parameters_control_modes.md 10: "binding cycles detected and        *)
(* rejected": three parameters bound in a ring are not left without a       *)
(* diagnostic.                                                              *)
BindingRingsRejected ==
    AtRest => \A p, q, r \in Controlled :
        ~ /\ Cardinality({p, q, r}) = 3
          /\ \A x \in {p, q, r} : mode[x] = "binding" /\ diag[x] = ""
          /\ wire[p] = q /\ wire[q] = r /\ wire[r] = p

(* An expression whose parameters all exist runs: it is never left in error *)
(* because of what it mentioned before.                                     *)
ExpressionsRun ==
    AtRest /\ unread.children = {} => \A p \in Controlled : mode[p] = "expression" => diag[p] # "error"
=============================================================================
