------------------------------ MODULE Scripts -------------------------------
(***************************************************************************)
(* One script node (script/mod.rs): its configuration, the runtime that was  *)
(* loaded from it, what the script has left in the engine (event listeners, *)
(* children of its host, its place in the schedule) and the operations that *)
(* must keep the four in step: load, update, inbox, teardown, destroy, the  *)
(* configuration and reload requests of the UI, undo of a removal, a project *)
(* that is saved and loaded.                                                *)
(*                                                                          *)
(* A script text is a record of what matters of it: the children it declares *)
(* at load, in order, and whether it has an update callback.  What a callback *)
(* asks of the host is any one call.  The edits a callback queues are applied *)
(* later, in one batch that stops at the first edit that fails.             *)
(***************************************************************************)
EXTENDS Naturals, Sequences, SequencesExt, FiniteSets

CONSTANTS
    Texts,      \* script sources: [id, keys, ticks]
    Keys,       \* children a script may declare: [home, name]
    Targets,    \* nodes it may listen to
    Levels,     \* max_depth of a subscription
    None,       \* Option::None, and a file that cannot be read
    MaxMoves    \* bound on what users, files and other nodes do

ASSUME ScriptsAssumption ==
    /\ \A text \in Texts : text.keys \in Seq(Keys)
    /\ None \notin Texts /\ None \notin Keys /\ None \notin Levels
    /\ IsFiniteSet(Keys) /\ IsFiniteSet(Targets)

VARIABLES
    inProject,       \* the script node is in the store
    scriptEnabled,    \* meta.enabled
    config,     \* ScriptNodeConfig: source kind, and the text if it is inline
    file,       \* content of the project file
    runtime,    \* ActiveRuntime: the text it was loaded from
    stamp,      \* source_stamp: hash, and whether the file's time is still the same
    reload,     \* reload_requested
    managed,    \* managed_load_children
    declared,   \* pending_manifest_apply
    record,     \* runtime_subscriptions: target -> level
    queue,      \* the script's edits that the engine has absorbed
    index,      \* the engine's listeners of this script: target and level
    present,    \* targets in the store
    kids,       \* key -> absent, in (below its home), out (live but detached)
    rule,       \* the schedule the engine resolved for the node
    dirty,      \* runtime_resolve_pending
    unseen,     \* for the properties only: configuration changed without force_reload
    torn,       \*   the file changed between reading it and reading its time
    unheard,       \*   targets whose listener was purged or whose edits were dropped
    moves,      \*   what others have done so far
    excused     \*   children a failed load, a lost batch or a user made or removed

nodeVars == <<inProject, scriptEnabled, config, file, runtime, stamp, reload, managed, declared, record>>
engineVars == <<queue, index, present, kids, rule, dirty>>
ghosts == <<unseen, torn, unheard, excused>>
scriptVars == <<nodeVars, engineVars, ghosts, moves>>

Config(kind, text) == [kind |-> kind, text |-> text]
Configs == {Config("inline", t) : t \in Texts} \cup {Config("file", None)}

\* ScriptNode::new, added to a tree: attaching a node makes the schedule dirty.
ScriptsInit ==
    /\ inProject = TRUE /\ scriptEnabled = TRUE
    /\ config \in Configs
    /\ file \in IF config.kind = "file" THEN Texts ELSE {None}
    /\ runtime = None /\ stamp = None /\ reload = FALSE
    /\ managed = {} /\ declared = <<>>
    /\ record = [t \in Targets |-> None]
    /\ queue = <<>> /\ index = {} /\ present = Targets
    /\ kids = [k \in Keys |-> "absent"]
    /\ rule = "passive" /\ dirty = TRUE
    /\ unseen = FALSE /\ torn = FALSE /\ unheard = {} /\ excused = {} /\ moves = 0

Source == IF config.kind = "inline" THEN config.text ELSE file

\* has_source_changed, when the source can be read.
SourceChanged ==
    IF stamp = None THEN TRUE
    ELSE ~(config.kind = "file" /\ stamp.same) /\ Source # stamp.text

\* Mutant: a script without update callback is not looked at.
Rule_noPoll ==
    IF ~scriptEnabled THEN "passive"
    ELSE IF reload \/ runtime = None THEN "bootstrap"
    ELSE IF runtime.ticks THEN "rate" ELSE "passive"

\* execution_rule.  A runtime with an update callback has a rate above zero: the
\* manifest's 0 (and 2^32, cut to 0 when it is read), which makes the rule passive,
\* is left out.
Rule ==
    IF ~scriptEnabled THEN "passive"
    ELSE IF reload \/ runtime = None THEN "bootstrap"
    ELSE IF runtime.ticks THEN "rate"
    ELSE IF config.kind = "file" THEN "poll" ELSE "passive"

-----------------------------------------------------------------------------
(* The host bridge: what a callback may ask for.  rec is runtime_subscriptions *)
(* and q the edits queued so far.                                           *)
Edit(op, on, arg) == [op |-> op, on |-> on, arg |-> arg]
Drop(rec, t) == IF rec[t] = None THEN <<>> ELSE <<Edit("unlisten", t, rec[t])>>

\* Mutant: the previous level is not given up.
Listen_keepsOld(s, t, level) ==
    IF s.rec[t] = level THEN s
    ELSE [rec |-> [s.rec EXCEPT ![t] = level], q |-> Append(s.q, Edit("listen", t, level))]

\* set_event_listener: a call that changes nothing is not passed on.
Listen(s, t, level) ==
    IF s.rec[t] = level THEN s
    ELSE [rec |-> [s.rec EXCEPT ![t] = level],
          q |-> s.q \o Drop(s.rec, t) \o <<Edit("listen", t, level)>>]

\* remove_event_listener
Unlisten(s, t) == [rec |-> [s.rec EXCEPT ![t] = None], q |-> s.q \o Drop(s.rec, t)]

\* clear_event_listeners, and clear_runtime_subscriptions of a teardown.
ClearListeners(s) ==
    LET on == SetToSeq({t \in Targets : s.rec[t] # None})
    IN  [rec |-> [t \in Targets |-> None],
         q |-> s.q \o [i \in DOMAIN on |-> Edit("unlisten", on[i], s.rec[on[i]])]]

HostCalls == {<<"none">>, <<"clear">>}
    \cup {<<"listen", t, l>> : t \in Targets, l \in Levels}
    \cup {<<"unlisten", t>> : t \in Targets}

\* flush_host_ops: also after a callback that threw.
Flush(s, call) ==
    CASE call[1] = "listen" -> Listen(s, call[2], call[3])
      [] call[1] = "unlisten" -> Unlisten(s, call[2])
      [] call[1] = "clear" -> ClearListeners(s)
      [] OTHER -> s

\* teardown_runtime.  The calls of the destroy callback are left out: what they
\* subscribe is cleared right after.
Teardown(s) == ClearListeners(s)

-----------------------------------------------------------------------------
(* load_or_reload_internal of an enabled script whose source was read.      *)
Declare(keys) == [i \in DOMAIN keys |-> Edit("add", keys[i], None)]

\* Mutant: what earlier loads declared is forgotten.
Retire_none(keys) == <<>>

\* reconcile_load_declared_children: by the tree as it was before the load.
Retire(keys) ==
    LET stale == {k \in managed : kids[k] = "in"} \ ToSet(keys)
        order == SetToSeq(stale)
    IN  [i \in DOMAIN order |-> Edit("remove", order[i], None)]

\* The end of a load that succeeds: the schedule is resolved again.
Settle(keys) == Append(Retire(keys), Edit("reevaluate", None, None))

\* The old runtime is torn down before the new one is tried.  A load that fails
\* while the source is evaluated asks nothing of the host, one whose init throws
\* has already asked.
AfterLoad(outcome, call) ==
    LET s0 == Teardown([rec |-> record, q |-> queue])
        s1 == Flush([s0 EXCEPT !.q = s0.q \o Declare(Source.keys)], call)
    IN  CASE outcome = "ok" -> [s1 EXCEPT !.q = s1.q \o Settle(Source.keys)]
          [] outcome = "initFails" -> s1
          [] outcome = "evalFails" -> s0

\* source_stamp_from_text reads the file's time after the source was read: the
\* file may have been written in between, and then holds now.
NewStamp(now) == [text |-> Source, same |-> config.kind = "file" /\ now # None]

Loaded(now) ==
    /\ runtime' = Source /\ managed' = ToSet(Source.keys)
    /\ stamp' = NewStamp(now) /\ reload' = FALSE
    /\ unseen' = FALSE /\ torn' = (now # file /\ now # None)
    /\ excused' = excused \ ToSet(Source.keys)

Failed(outcome) ==
    /\ runtime' = None
    /\ excused' = IF outcome = "initFails" THEN excused \cup ToSet(Source.keys) ELSE excused
    /\ UNCHANGED <<managed, stamp, reload, unseen, torn>>

Outcomes == {"ok", "evalFails", "initFails"}
Written(outcome) == IF config.kind = "file" /\ outcome = "ok" THEN Texts \cup {None} ELSE {file}

\* Node::init of a new node: update applies what the load declared.
InitNode(outcome, call, now) ==
    /\ inProject /\ scriptEnabled /\ runtime = None /\ rule = "passive" /\ dirty /\ queue = <<>>
    /\ stamp = None /\ declared = <<>> /\ Source # None
    /\ \E s \in {AfterLoad(outcome, call)} : record' = s.rec /\ queue' = s.q
    /\ IF outcome = "ok" THEN Loaded(now) ELSE Failed(outcome)
    /\ declared' = IF outcome = "ok" THEN Source.keys ELSE declared
    /\ file' = now
    /\ UNCHANGED <<inProject, scriptEnabled, config, index, present, kids, rule, dirty, unheard>>

-----------------------------------------------------------------------------
(* ScriptNode::update.  It ends by bringing the declared children that are in *)
(* the tree into their order, each after the one before it whatever their   *)
(* parents, and by the update callback.                                     *)
Moves(ks) ==
    LET upTo[i \in 0..Len(ks)] ==
          IF i = 0 THEN [q |-> <<>>, last |-> None]
          ELSE IF kids[ks[i]] # "in" THEN upTo[i - 1]
          ELSE [q |-> Append(upTo[i - 1].q, Edit("move", ks[i], upTo[i - 1].last)), last |-> ks[i]]
    IN  upTo[Len(ks)].q

Finish(s, keys, text, call) ==
    LET moved == [s EXCEPT !.q = s.q \o Moves(keys)]
    IN  IF text.ticks THEN Flush(moved, call) ELSE moved

Due == inProject /\ scriptEnabled /\ ~dirty /\ rule # "passive" /\ queue = <<>>
MustLoad == SourceChanged \/ runtime = None

Update(call) ==
    /\ Due /\ Source # None /\ ~MustLoad
    /\ \E s \in {Finish([rec |-> record, q |-> queue], declared, runtime, call)} :
          record' = s.rec /\ queue' = s.q
    /\ declared' = <<>>
    /\ UNCHANGED <<inProject, scriptEnabled, config, file, runtime, stamp, reload, managed,
                   index, present, kids, rule, dirty, ghosts>>

UpdateLoads(first, call, now) ==
    /\ Due /\ Source # None /\ MustLoad
    /\ \E s \in {Finish(AfterLoad("ok", first), Source.keys, Source, call)} :
          record' = s.rec /\ queue' = s.q
    /\ Loaded(now)
    /\ declared' = <<>> /\ file' = now
    /\ UNCHANGED <<inProject, scriptEnabled, config, index, present, kids, rule, dirty, unheard>>

UpdateFails(outcome, call) ==
    /\ Due /\ Source # None /\ MustLoad /\ outcome # "ok"
    /\ \E s \in {AfterLoad(outcome, call)} : record' = s.rec /\ queue' = s.q
    /\ Failed(outcome)
    /\ UNCHANGED <<inProject, scriptEnabled, config, file, declared, index, present, kids, rule, dirty, unheard>>

\* A file that cannot be read ends the update, whatever else there is to do.
UpdateUnreadable == Due /\ Source = None /\ UNCHANGED <<nodeVars, engineVars, ghosts>>

\* on_inbox
Inbox(call) ==
    /\ inProject /\ scriptEnabled /\ runtime # None /\ queue = <<>>
    /\ LET s == Flush([rec |-> record, q |-> queue], call)
       IN  record' = s.rec /\ queue' = s.q
    /\ UNCHANGED <<inProject, scriptEnabled, config, file, runtime, stamp, reload, managed, declared,
                   index, present, kids, rule, dirty, ghosts>>

-----------------------------------------------------------------------------
(* What others do to the node.                                              *)

\* set_config, by apply_set_script_config: nothing for the same configuration.
SetConfig(c, force) ==
    /\ inProject /\ (config # c \/ force)
    /\ config' = c
    /\ IF force
       THEN reload' = TRUE /\ stamp' = None /\ dirty' = TRUE /\ UNCHANGED unseen
       ELSE unseen' = TRUE /\ UNCHANGED <<reload, stamp, dirty>>
    /\ UNCHANGED <<inProject, scriptEnabled, file, runtime, managed, declared, record,
                   queue, index, present, kids, rule, torn, unheard, excused>>

\* ui_reload_script: the schedule is not resolved again.
RequestReload ==
    /\ inProject
    /\ reload' = TRUE /\ stamp' = None
    /\ UNCHANGED <<inProject, scriptEnabled, config, file, runtime, managed, declared, record,
                   engineVars, ghosts>>

\* PatchMeta: enabled.
Enable ==
    /\ inProject
    /\ scriptEnabled' = ~scriptEnabled /\ dirty' = TRUE
    /\ UNCHANGED <<inProject, config, file, runtime, stamp, reload, managed, declared, record,
                   queue, index, present, kids, rule, ghosts>>

\* run_node_destroy (the edits of the destroy callback go nowhere), the purge on
\* NodeDeleted, and undo of the removal, which runs no init.
Destroy ==
    /\ inProject
    /\ inProject' = FALSE
    /\ runtime' = None /\ stamp' = None /\ reload' = FALSE
    /\ record' = [t \in Targets |-> None] /\ index' = {}
    /\ dirty' = TRUE
    /\ unheard' = unheard \cup {e.on : e \in {x \in ToSet(queue) : x.op = "listen"}}
    /\ UNCHANGED <<scriptEnabled, config, file, managed, declared, queue, present, kids, rule,
                   unseen, torn, excused>>

Restore ==
    /\ ~inProject
    /\ inProject' = TRUE /\ dirty' = TRUE
    /\ UNCHANGED <<scriptEnabled, config, file, runtime, stamp, reload, managed, declared, record,
                   queue, index, present, kids, rule, ghosts>>

\* project_decode_data: the project as it was saved, in a new engine.
SaveAndLoad ==
    /\ inProject /\ queue = <<>>
    /\ runtime' = None /\ stamp' = None /\ reload' = FALSE
    /\ managed' = {} /\ declared' = <<>> /\ excused' = excused \cup managed
    /\ record' = [t \in Targets |-> None] /\ index' = {} /\ unheard' = {}
    /\ rule' = "passive" /\ dirty' = TRUE
    /\ kids' = [k \in Keys |-> IF kids[k] = "in" THEN "in" ELSE "absent"]
    /\ unseen' = FALSE /\ torn' = FALSE
    /\ UNCHANGED <<inProject, scriptEnabled, config, file, queue, present>>

WriteFile(text) ==
    /\ file' = text
    /\ stamp' = IF stamp = None THEN None ELSE [stamp EXCEPT !.same = FALSE]
    /\ torn' = FALSE
    /\ UNCHANGED <<inProject, scriptEnabled, config, runtime, reload, managed, declared, record,
                   engineVars, unseen, unheard, excused>>

\* A target, or a declared child, is removed by somebody else.
RemoveTarget(t) ==
    /\ t \in present
    /\ present' = present \ {t}
    /\ index' = {e \in index : e.on # t} /\ unheard' = unheard \cup {t}
    /\ dirty' = TRUE
    /\ UNCHANGED <<nodeVars, queue, kids, rule, unseen, torn, excused>>

RestoreTarget(t) ==
    /\ t \notin present
    /\ present' = present \cup {t} /\ dirty' = TRUE
    /\ UNCHANGED <<nodeVars, queue, index, kids, rule, ghosts>>

RemoveKid(k) ==
    /\ kids[k] = "in"
    /\ kids' = [kids EXCEPT ![k] = "absent"] /\ excused' = excused \cup {k}
    /\ dirty' = TRUE
    /\ UNCHANGED <<nodeVars, queue, index, present, rule, unseen, torn, unheard>>

-----------------------------------------------------------------------------
(* The engine: applying the queue, and resolving the schedule.              *)

\* apply_node_move detaches the node before it finds the sibling unusable.
Misplaced(e, ks) == e.arg # None /\ (ks[e.arg] # "in" \/ e.arg.home # e.on.home)

Fails(e, ks) ==
    CASE e.op = "listen" -> ~inProject \/ e.on \notin present
      [] e.op = "remove" -> ks[e.on] # "in"
      [] e.op = "move" -> ks[e.on] # "in" \/ Misplaced(e, ks)
      [] OTHER -> FALSE

Place(e, ks) ==
    CASE e.op = "add" -> [ks EXCEPT ![e.on] = "in"]
      [] e.op = "remove" -> [ks EXCEPT ![e.on] = "absent"]
      [] e.op = "move" /\ ks[e.on] = "in" /\ Misplaced(e, ks) -> [ks EXCEPT ![e.on] = "out"]
      [] OTHER -> ks

Subscribe(e, idx) ==
    CASE e.op = "listen" -> idx \cup {[on |-> e.on, level |-> e.arg]}
      [] e.op = "unlisten" -> idx \ {[on |-> e.on, level |-> e.arg]}
      [] OTHER -> idx

ApplyOne(e, acc) ==
    IF acc.failed THEN [acc EXCEPT !.dropped = @ \cup {e}]
    ELSE [failed |-> Fails(e, acc.kids),
          kids |-> Place(e, acc.kids),
          index |-> IF Fails(e, acc.kids) THEN acc.index ELSE Subscribe(e, acc.index),
          dirty |-> acc.dirty \/ (~Fails(e, acc.kids) /\ e.op \notin {"listen", "unlisten"}),
          dropped |-> IF Fails(e, acc.kids) THEN {e} ELSE {}]

\* The batch, edit by edit.
Applied ==
    LET upTo[i \in 0..Len(queue)] ==
          IF i = 0 THEN [failed |-> FALSE, kids |-> kids, index |-> index, dirty |-> dirty, dropped |-> {}]
          ELSE ApplyOne(queue[i], upTo[i - 1])
    IN  upTo[Len(queue)]

ApplyQueue ==
    /\ queue # <<>>
    /\ \E end \in {Applied} :
           /\ kids' = end.kids /\ index' = end.index /\ dirty' = end.dirty
           /\ unheard' = unheard \cup {e.on : e \in {x \in end.dropped : x.op \in {"listen", "unlisten"}}}
           /\ excused' = excused \cup {e.on : e \in {x \in end.dropped : x.op \in {"add", "remove", "move"}}}
    /\ queue' = <<>>
    /\ UNCHANGED <<nodeVars, present, rule, unseen, torn>>

\* resolve_graph: also for every other change of the structure.
Resolve ==
    /\ dirty
    /\ rule' = IF inProject THEN Rule ELSE "passive"
    /\ dirty' = FALSE
    /\ UNCHANGED <<nodeVars, queue, index, present, kids, ghosts>>

OtherChange ==
    /\ ~dirty
    /\ dirty' = TRUE
    /\ UNCHANGED <<nodeVars, queue, index, present, kids, rule, ghosts>>

ScriptStep ==
    \/ \E outcome \in Outcomes, call \in HostCalls :
          \E now \in Written(outcome) : InitNode(outcome, call, now)
    \/ \E call \in HostCalls : Update(call)
    \/ \E first, call \in HostCalls : \E now \in Written("ok") : UpdateLoads(first, call, now)
    \/ \E outcome \in Outcomes, call \in HostCalls : UpdateFails(outcome, call)
    \/ UpdateUnreadable
    \/ \E call \in HostCalls : Inbox(call)
    \/ ApplyQueue
    \/ Resolve

OtherStep ==
    \/ \E c \in Configs, force \in BOOLEAN : SetConfig(c, force)
    \/ RequestReload
    \/ Enable
    \/ Destroy
    \/ Restore
    \/ SaveAndLoad
    \/ \E text \in Texts \cup {None} : WriteFile(text)
    \/ \E t \in Targets : RemoveTarget(t) \/ RestoreTarget(t)
    \/ \E k \in Keys : RemoveKid(k)
    \/ OtherChange

ScriptsNext ==
    \/ ScriptStep /\ UNCHANGED moves
    \/ moves < MaxMoves /\ OtherStep /\ moves' = moves + 1

ScriptsSpec == ScriptsInit /\ [][ScriptsNext]_scriptVars

-----------------------------------------------------------------------------
(* Properties.                                                              *)

\* Will the node be updated, now or once the schedule is resolved?
Scheduled == (IF dirty THEN Rule ELSE rule) # "passive"

\* An enabled script whose source is not what its runtime was loaded from, or
\* that has no runtime, is scheduled to find out and will find out -- unless its
\* configuration was changed without force_reload, or its file was written while
\* it was being read.
FollowsSource ==
    inProject /\ scriptEnabled /\ Source # None /\ runtime # Source /\ ~unseen /\ ~torn
        => Scheduled /\ MustLoad

\* Once its edits are applied, the engine's listeners of the script are the ones
\* it keeps a record of, except for targets that were removed or whose edits
\* were in a batch that failed.
ListenersAgree ==
    queue = <<>> => \A t \in Targets \ unheard :
        {e.level : e \in {x \in index : x.on = t}} = {record[t]} \ {None}

\* Once its edits are applied, the children a loaded script has are the ones its
\* source declares, except for keys with a failed load, a failed batch, a forgotten
\* declaration (a project that was loaded) or a user's hand in them; and no child
\* leaves the tree while the script declares its children below one parent.
ChildrenAgree ==
    /\ queue = <<>> /\ runtime # None =>
        \A k \in Keys \ excused : (kids[k] = "in") <=> (k \in ToSet(runtime.keys))
    /\ \A k \in Keys : kids[k] = "out" => \E j \in Keys : j.home # k.home

\* The engine keeps what the script declared, its listeners and its children.
UpkeepAgrees == ListenersAgree /\ ChildrenAgree

\* request_reload: "Marks the runtime as dirty so next update reloads source and
\* callbacks" (script/mod.rs:3499); ui_reload_script promises the reload.
RequestedReloadComes == inProject /\ scriptEnabled /\ reload => Scheduled
=============================================================================
