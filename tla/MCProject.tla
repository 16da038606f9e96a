----------------------------- MODULE MCProject ------------------------------
(* TLC instance of parts that share no variables: structural edits under     *)
(* undo and redo, the routing of events, the context registry, the project   *)
(* file and scripts.  A behaviour runs one of them and leaves the others     *)
(* alone.                                                                    *)
EXTENDS MCGraphHistory, EventRouting, Contexts, Persistence, Scripts

CONSTANT t1

VARIABLE part

\* Four nodes: group below root, leaf below group, aside below root.
MCHearers == {"root", "group", "leaf", "aside"}
MCAbove == [root |-> Nowhere, group |-> "root", leaf |-> "group", aside |-> "root"]
Kinding(i, b, p) == [interest |-> i, bubble |-> b, propagation |-> p]
Plain == Kinding(1, 1, "Notify")
MCKindings == {[root |-> r, group |-> g, leaf |-> l, aside |-> Plain] :
                 r \in {Plain, Kinding(2, 0, "Notify")},
                 g \in {Plain, Kinding(0, 0, "PassOn"), Kinding(1, 1, "Stop")},
                 l \in {Plain, Kinding(1, 0, "PassOn")}}
MCAsks == {<<"aside", "root", 1>>, <<"aside", "leaf", 0>>, <<"leaf", "group", 1>>}

MCKey(h, n) == [home |-> h, name |-> n]
MCKeys == {MCKey("host", "a"), MCKey("script", "b")}
MCTexts == {[id |-> 1, keys |-> <<MCKey("host", "a")>>, ticks |-> FALSE],
            [id |-> 2, keys |-> <<MCKey("host", "a"), MCKey("script", "b")>>, ticks |-> TRUE]}

AllPlain == kind = [n \in Hearers |-> Plain]

ProjectInit ==
    /\ part \in {"history", "routing", "contexts", "file", "scripts"}
    /\ LoadedInit
    /\ RoutingInit /\ (part # "routing" => AllPlain)
    /\ ContextsInit
    /\ PersistenceInit
    /\ ScriptsInit /\ (part # "scripts" => config = CHOOSE x \in Configs : x.kind = "inline")

Others(p) ==
    /\ p # "history" => UNCHANGED vars
    /\ p # "routing" => UNCHANGED routingVars
    /\ p # "contexts" => UNCHANGED contextVars
    /\ p # "file" => UNCHANGED projectVars
    /\ p # "scripts" => UNCHANGED scriptVars

ProjectNext ==
    /\ UNCHANGED part
    /\ \/ part = "history" /\ HistoryNext
       \/ part = "routing" /\ RoutingNext
       \/ part = "contexts" /\ ContextsNext
       \/ part = "file" /\ PersistenceNext
       \/ part = "scripts" /\ ScriptsNext
    /\ Others(part)

ProjectSpec ==
    ProjectInit /\ [][ProjectNext]_<<part, vars, routingVars, contextVars, projectVars, scriptVars>>
=============================================================================
