----------------------------- MODULE EventRing -----------------------------
(***************************************************************************)
(* The event sequences of the UI feed: the engine's replay log             *)
(* (engine/ui.rs) and the ring the read model retains (ui_read_model.rs).   *)
(* Both keep stamped events, drop an earlier value event of a parameter     *)
(* when a later one supersedes it, and forget their oldest events beyond a  *)
(* capacity.                                                                *)
(*                                                                          *)
(* A graph is abstracted to what the feed carries about it: for each node   *)
(* the value its parameter shows, or Gone.  Every parameter has the         *)
(* default event behaviour (Coalesce).                                      *)
(***************************************************************************)
EXTENDS Naturals, SequencesExt

CONSTANTS
    Nodes,   \* node identities
    Values,  \* parameter values
    Gone     \* "the graph has no such node"; also the node and value of an event about none

ASSUME GoneIsNoNode == Gone \notin Nodes \cup Values

NoTime == 0  \* Option<EngineTime>::None; events are stamped from 1 on

Graph == [Nodes -> Values \cup {Gone}]

(* "create" and "remove" stand for graph transactions, "set" for            *)
(* ParamChanged, "note" for a custom event (a log record, say) and          *)
(* "resync" for the custom event __transport.resync_required.               *)
Kinds == {"create", "remove", "set", "note", "resync"}

Event == [time: Nat, kind: Kinds, node: Nodes \cup {Gone}, value: Values \cup {Gone}]

Structural(e) == e.kind \in {"create", "remove"}

-----------------------------------------------------------------------------
(* What an event does to a graph that follows the feed.  A value for a node *)
(* the graph does not have is ignored.                                      *)
Patched(g, e) ==
    [n \in Nodes |->
        IF n # e.node THEN g[n]
        ELSE IF e.kind = "create" \/ (e.kind = "set" /\ g[n] # Gone) THEN e.value
        ELSE IF e.kind = "remove" THEN Gone
        ELSE g[n]]

PatchedBy(g, events) ==
    LET patched[k \in 0..Len(events)] ==
            IF k = 0 THEN g ELSE Patched(patched[k - 1], events[k])
    IN  patched[Len(events)]

-----------------------------------------------------------------------------
(* A value event is coalescable when the graph at hand knows its parameter. *)
Coalescable(e, g) == e.kind = "set" /\ g[e.node] # Gone

(* The earlier event that e supersedes: one of the same parameter in the    *)
(* trailing run of coalescable events.                                      *)
Superseded(s, g, e) ==
    { i \in 1..Len(s) :
        /\ \A j \in i..Len(s) : Coalescable(s[j], g)
        /\ s[i].node = e.node }

Push(s, g, e) ==
    LET old == Superseded(s, g, e)
    IN  IF Coalescable(e, g) /\ old # {}
        THEN Append(RemoveAt(s, CHOOSE i \in old : \A j \in old : j <= i), e)
        ELSE Append(s, e)

Trim(s, cap) == IF Len(s) > cap THEN SubSeq(s, Len(s) - cap + 1, Len(s)) ELSE s

After(s, cursor) ==
    LET after[k \in 0..Len(s)] ==
            IF k = 0 THEN <<>>
            ELSE IF s[k].time > cursor THEN Append(after[k - 1], s[k]) ELSE after[k - 1]
    IN  after[Len(s)]

LastTime(s) == IF s = <<>> THEN NoTime ELSE Last(s).time

Times(s) == { s[i].time : i \in 1..Len(s) }
=============================================================================
