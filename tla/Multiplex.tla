----------------------------- MODULE Multiplex -----------------------------
(* A multiplex of a user context: a count parameter and typed lists that hold *)
(* one entry per lane.  The engine keeps the lists at the count: while it     *)
(* applies the edit that sets the count or adds a list it compares the lists  *)
(* with the count and queues the missing or surplus entries, to be applied    *)
(* with a later batch.  (The multiplex node has handlers that compare them    *)
(* too, but it passes every event on, so that none of them is ever called.)   *)
EXTENDS Naturals, FiniteSets, SequencesExt

CONSTANTS Lists,    \* the typed lists the multiplex may have
          Counts,   \* the values the count parameter is given
          MaxWrites \* bound on the edits other threads send

VARIABLES laneCount,  \* value of the count parameter
          lanes,      \* per list of the multiplex: the entries it holds
          queued,     \* edits the engine has pending
          deferred,   \* structural edits put off to the next tick
          outside,    \* edits other threads have sent
          news,       \* the inbox is not empty
          stage,      \* where the engine's thread is
          writes
multiplexVars == <<laneCount, lanes, queued, deferred, outside, news, stage, writes>>

MultiplexInit ==
    /\ laneCount = 0 /\ lanes = [l \in {} |-> <<>>]
    /\ queued = <<>> /\ deferred = <<>> /\ outside = <<>>
    /\ news = FALSE /\ stage = "idle" /\ writes = 0

SetCount(n) == [op |-> "set", n |-> n]
AddList(l)  == [op |-> "list", l |-> l]
DropList(l) == [op |-> "unlist", l |-> l]
AddLane(l)  == [op |-> "add", l |-> l]
DropLane(e) == [op |-> "drop", e |-> e]

Structural(edit) == edit.op # "set"

\* The queue keeps the latest value for a parameter and one removal per node.
PushLane(q, edit) ==
    IF edit.op = "drop" /\ Contains(q, edit) THEN q
    ELSE IF edit.op = "set" THEN Append(SelectSeq(q, Structural), edit)
    ELSE Append(q, edit)
PushLanes(q, edits) == FoldLeft(PushLane, q, edits)

\* Edits that bring list l, holding the entries es, to n entries.
Resize(l, es, n) ==
    IF Len(es) > n
    THEN [i \in 1..Len(es) - n |-> DropLane(es[Len(es) + 1 - i])]
    ELSE [i \in 1..n - Len(es) |-> AddLane(l)]

ResizeAll(m, n) == FlattenSeq([i \in 1..Cardinality(DOMAIN m) |->
                       LET l == SetToSeq(DOMAIN m)[i] IN Resize(l, m[l], n)])

-----------------------------------------------------------------------------
(* Applying the queue.  A batch is [n, m, q, ok]: the count, the lists, what *)
(* is queued meanwhile, and whether no edit has failed: one that fails drops *)
(* those behind it.                                                          *)

EntriesOf(m) == UNION {Range(m[l]) : l \in DOMAIN m}

\* Node ids are never reused while something names them.
FreshLane(b, rest) ==
    LET taken == EntriesOf(b.m)
                 \cup {edit.e : edit \in {x \in Range(b.q \o rest \o deferred) : x.op = "drop"}}
    IN  CHOOSE e \in 0..Cardinality(taken) : e \notin taken

ApplyLane(b, edit, rest) ==
    CASE edit.op = "set" ->
           IF edit.n = b.n THEN b
           ELSE [b EXCEPT !.n = edit.n, !.q = PushLanes(@, ResizeAll(b.m, edit.n))]
      [] edit.op = "list" ->
           [b EXCEPT !.m = [l \in DOMAIN b.m \cup {edit.l} |->
                                IF l = edit.l THEN <<>> ELSE b.m[l]],
                     !.q = PushLanes(@, Resize(edit.l, <<>>, b.n))]
      [] edit.op = "unlist" ->
           IF edit.l \notin DOMAIN b.m THEN [b EXCEPT !.ok = FALSE]
           ELSE [b EXCEPT !.m = [l \in DOMAIN b.m \ {edit.l} |-> b.m[l]]]
      [] edit.op = "add" ->
           IF edit.l \notin DOMAIN b.m THEN [b EXCEPT !.ok = FALSE]
           ELSE [b EXCEPT !.m[edit.l] = Append(@, FreshLane(b, rest))]
      [] edit.op = "drop" ->
           IF edit.e \notin EntriesOf(b.m) THEN [b EXCEPT !.ok = FALSE]
           ELSE [b EXCEPT !.m = [l \in DOMAIN b.m |->
                                     SelectSeq(b.m[l], LAMBDA e : e # edit.e)]]

Batch(q) ==
    LET f[i \in 0..Len(q)] ==
            IF i = 0
            THEN [n |-> laneCount, m |-> lanes, q |-> <<>>, ok |-> TRUE]
            ELSE LET b == f[i - 1]
                 IN  IF b.ok THEN ApplyLane(b, q[i], SubSeq(q, i + 1, Len(q))) ELSE b
    IN  f[Len(q)]

Commit(b) ==
    /\ laneCount' = b.n /\ lanes' = b.m /\ queued' = b.q
    /\ news' = (news \/ b.n # laneCount \/ b.m # lanes)

\* An apply takes what other threads have sent as well.  It runs only on a
\* condition, and a failure ends the tick.
ApplyIf(due, next) ==
    IF ~due
    THEN stage' = next /\ UNCHANGED <<laneCount, lanes, queued, outside, news>>
    ELSE \E b \in {Batch(PushLanes(queued, outside))} :
             /\ Commit(b)
             /\ outside' = <<>>
             /\ stage' = IF b.ok THEN next ELSE "idle"

-----------------------------------------------------------------------------
(* One tick.                                                                 *)

TickStart ==
    /\ stage = "idle"
    /\ deferred # <<>> \/ queued # <<>> \/ outside # <<>> \/ news
    /\ queued' = PushLanes(PushLanes(queued, deferred), outside)
    /\ deferred' = <<>> /\ outside' = <<>>
    /\ stage' = "external"
    /\ UNCHANGED <<laneCount, lanes, news, writes>>

TickApplies ==
    /\ stage = "external"
    /\ ApplyIf(queued # <<>>, "preprocess")
    /\ UNCHANGED <<deferred, writes>>

\* The inbox is preprocessed without the nodes' callbacks, then what the
\* first apply queued is applied.
TickPreprocesses ==
    /\ stage = "preprocess"
    /\ ApplyIf(news /\ queued # <<>>, "control")
    /\ UNCHANGED <<deferred, writes>>

\* The control pass applies what is pending; a stabilization round starts with
\* what other threads have sent.
TickControls ==
    /\ stage = "control"
    /\ ApplyIf(queued # <<>>, "round")
    /\ UNCHANGED <<deferred, writes>>

RoundControls ==
    /\ stage = "round"
    /\ ApplyIf(queued # <<>> \/ outside # <<>>, "dispatch")
    /\ UNCHANGED <<deferred, writes>>

\* Then the round dispatches, and puts the structural edits off.  (No node
\* answers with an edit here, and a batch's own edits are all structural.)
RoundDispatches ==
    /\ stage = "dispatch"
    /\ deferred' = deferred \o queued
    /\ queued' = <<>> /\ news' = FALSE
    /\ stage' = IF news \/ queued # <<>> THEN "round" ELSE "idle"
    /\ UNCHANGED <<laneCount, lanes, outside, writes>>

\* Another thread sends an edit through the engine's channel.
LaneEdits == {SetCount(n) : n \in Counts} \cup {AddList(l) : l \in Lists}
             \cup {DropList(l) : l \in Lists}

SendLane(edit) ==
    /\ writes < MaxWrites
    /\ edit.op = "list" => edit.l \notin DOMAIN lanes /\ ~Contains(outside \o queued, edit)
    /\ outside' = Append(outside, edit)
    /\ writes' = writes + 1
    /\ UNCHANGED <<laneCount, lanes, queued, deferred, news, stage>>

MultiplexNext ==
    \/ TickStart \/ TickApplies \/ TickPreprocesses \/ TickControls
    \/ RoundControls \/ RoundDispatches
    \/ \E edit \in LaneEdits : SendLane(edit)

MultiplexSpec == MultiplexInit /\ [][MultiplexNext]_multiplexVars

-----------------------------------------------------------------------------
\* Every list has as many entries as the count says whenever the engine is at
\* rest: a new list is brought to the count at once, and a changed count
\* resizes every list.
ListsHaveCount ==
    (stage = "idle" /\ queued = <<>> /\ deferred = <<>> /\ outside = <<>>)
        => \A l \in DOMAIN lanes : Len(lanes[l]) = laneCount

=============================================================================
