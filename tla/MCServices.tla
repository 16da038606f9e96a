----------------------------- MODULE MCServices -----------------------------
(* TLC instance of parts that share no variables: the history under runtime  *)
(* edits, references and warnings, the project host, the children of an      *)
(* animation control, the samples of a curve, and a client of one subtree.   *)
(* A behaviour runs one of them and leaves the others alone.                 *)
EXTENDS MCGraphHistory, References, ProjectHost, AnimationControl, CurveSampling, ScopedView

CONSTANTS u1, n2
MCHinted == {<<u1, n2>>}
MCFiled == {Empty, Reference(u1, NoNode, NoNode), Reference(NoNode, NoNode, n2)}

VARIABLE part

\* top has s and b, s has a; x is yet to come.
MCPlanted ==
    {[kids |-> [Nothing.kids EXCEPT !["top"] = {"s", "b"}, !["s"] = {"a"}],
      value |-> [n \in Nodes |-> IF n = "x" THEN NotThere ELSE "v"]]}

\* Where the parts stand while another one runs.
ReferencesStill ==
    /\ used = {AtStart[n] : n \in Targets}
    /\ g = Synced([place |-> [n \in Targets |-> "absent"], uuid |-> AtStart, allowed |-> [n \in Targets |-> TRUE],
                   ref |-> [p \in Refs |-> Empty],
                   missing |-> [p \in Refs |-> FALSE], warning |-> [p \in Refs |-> Calm]])
    /\ queue = <<>> /\ past = <<>> /\ future = <<>>
    /\ outdated = {} /\ asked = [p \in Refs |-> Calm] /\ overtaken = FALSE
    /\ requests = 0 /\ batches = 0
HostStill ==
    /\ running = Down /\ engines = 0 /\ locked = FALSE
    /\ files = [p \in Paths |-> Missing] /\ prefsFile = Missing
    /\ path = NoPath /\ shown = [engine |-> 0, path |-> NoPath]
    /\ req = [r \in Callers |-> Idle]
    /\ asks = 0 /\ hostEdits = 0 /\ crashes = 0
    /\ chosen = Default /\ lost = FALSE /\ adrift = FALSE /\ halfway = FALSE /\ spoilt = {}
AnimationStill ==
    /\ wave = Curve /\ known = Curve /\ kids = {<<"curve", 1>>}
    /\ bound = [kind \in Kinds |-> IF kind = "curve" THEN 1 ELSE NoChild]
    /\ heard = <<>> /\ waiting = <<>> /\ later = <<>> /\ sent = <<>>
    /\ doing = "nothing" /\ undo = {} /\ sets = 0 /\ missed = FALSE

ServicesInit ==
    /\ part \in {"history", "references", "host", "animation", "samples", "scope"}
    /\ LoadedInit /\ SamplingInit /\ ScopeInit
    /\ IF part = "references" THEN ReferencesInit ELSE ReferencesStill
    /\ IF part = "host" THEN HostInit ELSE HostStill
    /\ IF part = "animation" THEN AnimationInit ELSE AnimationStill

ServicesNext ==
    /\ UNCHANGED part
    /\ \/ /\ part = "history" /\ HistoryNext
          /\ UNCHANGED <<referenceVars, hostVars, animationVars, samplingVars, scopeVars>>
       \/ /\ part = "references" /\ ReferencesNext
          /\ UNCHANGED <<vars, hostVars, animationVars, samplingVars, scopeVars>>
       \/ /\ part = "host" /\ HostNext
          /\ UNCHANGED <<vars, referenceVars, animationVars, samplingVars, scopeVars>>
       \/ /\ part = "animation" /\ AnimationNext
          /\ UNCHANGED <<vars, referenceVars, hostVars, samplingVars, scopeVars>>
       \/ /\ part = "samples" /\ SamplingNext
          /\ UNCHANGED <<vars, referenceVars, hostVars, animationVars, scopeVars>>
       \/ /\ part = "scope" /\ ScopeNext
          /\ UNCHANGED <<vars, referenceVars, hostVars, animationVars, samplingVars>>

ServicesSpec ==
    ServicesInit /\ [][ServicesNext]_<<part, vars, referenceVars, hostVars, animationVars, samplingVars, scopeVars>>
=============================================================================
