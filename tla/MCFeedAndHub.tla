---------------------------- MODULE MCFeedAndHub ----------------------------
(* TLC instance of the read model with several threads and of the hub's two  *)
(* parts, WsSessions and WsValues.  They share no variables, so a behaviour  *)
(* runs one of them and leaves the others alone.  The feed runs without its  *)
(* client, which nothing of the engine or the read model depends on.         *)
EXTENDS UiFeed, WsSessions, WsValues, TLC

VARIABLE part

Init ==
    /\ part \in {"feed", "sessions", "values"}
    /\ FeedInit /\ (part # "feed" => \A n \in Nodes : graph[n] = Gone)
    /\ SessionsInit
    /\ ValuesInit /\ (part # "values" => live = [n \in Nodes |-> Gone])

Next ==
    /\ UNCHANGED part
    /\ \/ part = "feed" /\ ServerNext /\ UNCHANGED <<sessionVars, valueVars>>
       \/ part = "sessions" /\ SessionsNext /\ UNCHANGED <<feedVars, valueVars>>
       \/ part = "values" /\ ValuesNext /\ UNCHANGED <<feedVars, sessionVars>>

Spec == Init /\ [][Next]_<<part, feedVars, sessionVars, valueVars>>

Symmetry == Permutations(Sockets) \cup Permutations(Values)
=============================================================================
