----------------------------- MODULE Scheduler -----------------------------
(***************************************************************************)
(* Which nodes a runtime tick updates, how often, in which order and with    *)
(* what delta time: execution rules and the dirty flag (runtime/mod.rs), the *)
(* topological resolve (runtime/tick.rs), the rate buckets with their        *)
(* accumulators and catch-up (runtime/scheduler.rs), and the update loop     *)
(* (runtime/scheduled_updates.rs).                                           *)
(*                                                                          *)
(* A rate is named by its interval in time units.  Edits are abstracted to   *)
(* what they do to one node's rule; an update callback to whether it ran.    *)
(***************************************************************************)
EXTENDS Naturals, SequencesExt

CONSTANTS
    Updating,     \* nodes of the node store
    Intervals,    \* intervals of the valid update rates
    OnDemand,     \* update_rate: None
    ZeroRate,     \* update_rate: Some(0), refused by the scheduler
    Disabled,     \* a live node that is not effectively enabled: no rule
    Absent,       \* not in the node store
    MaxCatchUp,   \* max_bucket_catch_up_per_tick
    MaxStep,      \* bound on the time one tick absorbs
    MaxElapsed,   \* bound on the runtime clock
    MaxRuleEdits  \* bound on the edits

ASSUME SchedulerAssumption ==
    /\ IsFiniteSet(Updating)
    /\ Intervals \subseteq Nat \ {0} /\ OnDemand \notin Intervals /\ ZeroRate \notin Intervals
    /\ MaxCatchUp \in Nat \ {0} /\ MaxStep \in Nat /\ MaxElapsed \in Nat /\ MaxRuleEdits \in Nat

VARIABLES
    rule,     \* what collect_execution_rules sees of each node
    dirty,    \* runtime_resolve_pending
    order,    \* topo_order: the scheduled nodes, as the last resolve sorted them
    bucket,   \* runtime_schedule.buckets: the nodes of each rate, in that order
    acc,      \* their accumulators
    elapsed,  \* runtime_elapsed
    last,     \* last_update_elapsed_by_node
    phase,    \* where the tick is: idle, edits (its apply phases), updates
    due,      \* the nodes due in this tick, one entry per turn
    at,       \* the next entry of due
    owed,     \* remaining_delta_by_node
    step,     \* the time the tick absorbs
    ruleEdits, \* number of edits so far
    \* For the properties only.
    turns,    \* entries of each node in due since the last rebuild
    credit,   \* the time credited to the buckets since then
    skipped   \* nodes that skipped a turn of this tick

schedule == <<order, bucket, acc, turns, credit>>
turnVars == <<phase, step, due, at, owed, skipped>>
schedulerVars == <<rule, dirty, ruleEdits, schedule, elapsed, last, turnVars>>

Rules == [every: Intervals \cup {OnDemand, ZeroRate}, deps: {{}} \cup {{n} : n \in Updating}]

HasRule(n) == rule[n] \notin {Disabled, Absent}
Live == {n \in Updating : rule[n] # Absent}
Scheduled == UNION {ToSet(bucket[i]) : i \in Intervals}
NoBuckets == [i \in Intervals |-> <<>>]
NoTurns == [n \in Updating |-> 0]

(* A project that was just loaded, its schedule to be resolved.             *)
SchedulerInit ==
    /\ rule \in [Updating -> Rules]
    /\ dirty = TRUE
    /\ order = <<>> /\ bucket = NoBuckets /\ acc = [i \in Intervals |-> 0]
    /\ elapsed = 0 /\ last = NoTurns
    /\ phase = "idle" /\ step = 0 /\ due = <<>> /\ at = 1 /\ owed = NoTurns /\ skipped = {}
    /\ turns = NoTurns /\ credit = 0 /\ ruleEdits = 0

-----------------------------------------------------------------------------
(* An edit that marks the schedule dirty: a node is created, removed,        *)
(* enabled, disabled or has its rule changed.                               *)
EditGraph ==
    /\ phase \in {"idle", "edits"} /\ ruleEdits < MaxRuleEdits
    /\ ruleEdits' = ruleEdits + 1
    /\ \E n \in Updating, r \in Rules \cup {Disabled, Absent} :
        /\ rule[n] # r
        /\ rule' = [rule EXCEPT ![n] = r]
        /\ last' = IF r = Absent THEN [last EXCEPT ![n] = 0]
                   ELSE IF rule[n] = Absent THEN [last EXCEPT ![n] = elapsed]
                   ELSE last
    /\ dirty' = TRUE
    /\ UNCHANGED <<schedule, elapsed, turnVars>>

(* topological_sort: every order of the live nodes that puts a node behind   *)
(* its dependencies may come out, since the ready list is filled in the      *)
(* iteration order of hash maps.                                            *)
Sorted ==
    { s \in SetToSeqs(Live) :
        \A i, j \in 1..Len(s) : HasRule(s[j]) /\ s[i] \in rule[s[j]].deps => i < j }

MissingDependency == \E n \in Live : HasRule(n) /\ ~(rule[n].deps \subseteq Live)
BadRate == \E n \in Live : HasRule(n) /\ rule[n].every = ZeroRate

(* The nodes of s that are in T, in the order they have in s.               *)
Picked(s, T) ==
    LET pick[k \in 0..Len(s)] ==
            IF k = 0 THEN <<>>
            ELSE IF s[k] \in T THEN Append(pick[k - 1], s[k]) ELSE pick[k - 1]
    IN  pick[Len(s)]

BucketsOf(s) == [i \in Intervals |-> Picked(s, {n \in Live : HasRule(n) /\ rule[n].every = i})]

(* resolve: a rebuild starts all accumulators over; a node that was not      *)
(* scheduled before counts its time from now.                               *)
Resolve ==
    /\ dirty /\ phase \in {"idle", "edits"}
    /\ ~MissingDependency /\ ~BadRate
    /\ \E s \in Sorted :
        /\ bucket' = BucketsOf(s)
        /\ order' = Picked(s, Scheduled')
    /\ last' = [n \in Updating |-> IF n \in Scheduled' \ Scheduled THEN elapsed ELSE last[n]]
    /\ acc' = [i \in Intervals |-> 0] /\ credit' = 0
    /\ turns' = NoTurns
    /\ dirty' = FALSE
    /\ UNCHANGED <<rule, ruleEdits, elapsed, turnVars>>

(* A missing dependency or a cycle leaves the schedule as it was; a zero     *)
(* rate is noticed when the buckets have already been cleared.  Either way   *)
(* the tick ends and the schedule stays dirty.                              *)
ResolveFails ==
    /\ dirty /\ phase \in {"idle", "edits"}
    /\ \/ (MissingDependency \/ Sorted = {}) /\ UNCHANGED <<bucket, acc>>
       \/ /\ ~MissingDependency /\ Sorted # {} /\ BadRate
          /\ bucket' = NoBuckets /\ acc' = [i \in Intervals |-> 0]
    /\ phase' = "idle" /\ step' = 0
    /\ UNCHANGED <<rule, dirty, ruleEdits, order, turns, credit, elapsed, last,
                   due, at, owed, skipped>>

-----------------------------------------------------------------------------
(* run_tick, after its first resolve.                                       *)
StartTick ==
    /\ phase = "idle" /\ ~dirty
    /\ step' \in 0..MaxStep /\ elapsed + step' <= MaxElapsed
    /\ elapsed' = elapsed + step'
    /\ phase' = "edits"
    /\ UNCHANGED <<rule, dirty, ruleEdits, schedule, last, due, at, owed, skipped>>

(* An apply or a callback of the tick returns an error.                     *)
TickFails ==
    /\ phase = "edits"
    /\ phase' = "idle" /\ step' = 0
    /\ UNCHANGED <<rule, dirty, ruleEdits, schedule, elapsed, last, due, at, owed, skipped>>

(* How often a bucket fires, at most MaxCatchUp times a tick.               *)
Fires(i, a) ==
    LET most == a \div i
    IN  IF bucket[i] = <<>> THEN 0 ELSE IF most < MaxCatchUp THEN most ELSE MaxCatchUp

TopoIndex(n) == CHOOSE k \in 1..Len(order) : order[k] = n

(* Seeded fault: a round visits the due buckets one after the other.        *)
Merged_byBucket(firing) ==
    LET merge[left \in SUBSET firing] ==
            IF left = {} THEN <<>>
            ELSE LET i == CHOOSE j \in left : \A k \in left : j <= k
                 IN  bucket[i] \o merge[left \ {i}]
    IN  merge[firing]

(* One round: the k-way merge of the firing buckets, always taking the head  *)
(* that comes first in the topological order.                               *)
TakeFirst(firing, m) ==
    LET left == {i \in firing : m.taken[i] < Len(bucket[i])}
        head(i) == bucket[i][m.taken[i] + 1]
        first == CHOOSE j \in left : \A k \in left : TopoIndex(head(j)) <= TopoIndex(head(k))
    IN  IF left = {} THEN m
        ELSE [taken |-> [m.taken EXCEPT ![first] = @ + 1], out |-> Append(m.out, head(first))]

Merged(firing) ==
    LET merge[k \in 0..Len(order)] ==
            IF k = 0 THEN [taken |-> [i \in firing |-> 0], out |-> <<>>]
            ELSE TakeFirst(firing, merge[k - 1])
    IN  merge[Len(order)].out

(* Round k holds the buckets that fire at least k times.                    *)
DueNodes(fires) ==
    LET rounds[k \in 0..MaxCatchUp] ==
            IF k = 0 THEN <<>> ELSE rounds[k - 1] \o Merged({i \in Intervals : fires[i] >= k})
    IN  rounds[MaxCatchUp]

Turns(s, n) == Cardinality({k \in 1..Len(s) : s[k] = n})

(* Seeded fault: a bucket that fired starts its next interval from zero.     *)
Left_zero(i, a, fires) == IF fires > 0 THEN 0 ELSE a

(* What the accumulator keeps when its bucket fired.                        *)
Left(i, a, fires) == a - i * fires

(* collect_due_nodes_into, and the set-up of run_scheduled_updates.          *)
CollectDue ==
    /\ phase = "edits" /\ ~dirty
    /\ LET filled == [i \in Intervals |-> IF bucket[i] = <<>> THEN 0 ELSE acc[i] + step]
           fires == [i \in Intervals |-> Fires(i, filled[i])]
       IN  /\ acc' = [i \in Intervals |-> Left(i, filled[i], fires[i])]
           /\ due' = DueNodes(fires)
    /\ at' = 1 /\ skipped' = {}
    /\ owed' = [n \in Updating |-> elapsed - last[n]]
    /\ turns' = [n \in Updating |-> turns[n] + Turns(due', n)]
    /\ credit' = credit + step
    /\ phase' = "updates"
    /\ UNCHANGED <<rule, dirty, ruleEdits, order, bucket, elapsed, last, step>>

(* Seeded fault: each turn divides what is left by all turns of the tick.    *)
DeltaTime_byTotal(n, left) == owed[n] \div Turns(due, n)

(* The share of one of `left` turns that a node still has in this tick.      *)
DeltaTime(n, left) == IF left = 1 THEN owed[n] ELSE owed[n] \div left

Due == at <= Len(due)
TurnsToCome == SubSeq(due, at, Len(due))

(* One turn: its share is taken off what the node is owed, whether the node  *)
(* is updated or skipped because it needs no update.                        *)
Turn ==
    /\ phase = "updates" /\ Due
    /\ LET n == due[at]
           dt == DeltaTime(n, Turns(TurnsToCome, n))
       IN  /\ owed' = [owed EXCEPT ![n] = @ - dt]
           /\ \/ last' = [last EXCEPT ![n] = @ + dt] /\ UNCHANGED skipped
              \/ skipped' = skipped \cup {n} /\ UNCHANGED last
    /\ at' = at + 1
    /\ UNCHANGED <<rule, dirty, ruleEdits, schedule, elapsed, phase, step, due>>

LeaveUpdates ==
    /\ phase' = "idle" /\ step' = 0 /\ due' = <<>> /\ at' = 1 /\ owed' = NoTurns /\ skipped' = {}
    /\ UNCHANGED <<rule, dirty, ruleEdits, schedule, elapsed, last>>

(* The callback ran, but the budget is exceeded or its edits are refused:    *)
(* the tick ends before the node's time is noted.                           *)
TurnFails == phase = "updates" /\ Due /\ LeaveUpdates

(* Every turn was taken.  What the stabilization rounds do to the schedule   *)
(* is what an edit and a resolve do between two ticks.                      *)
EndUpdates == phase = "updates" /\ ~Due /\ LeaveUpdates

-----------------------------------------------------------------------------
SchedulerNext ==
    \/ EditGraph \/ Resolve \/ ResolveFails
    \/ StartTick \/ TickFails \/ CollectDue
    \/ Turn \/ TurnFails \/ EndUpdates

SchedulerSpec == SchedulerInit /\ [][SchedulerNext]_schedulerVars

-----------------------------------------------------------------------------
DueInOrder ==
    \A i, j \in 1..Len(due) :
        LET turn(k) == Turns(SubSeq(due, 1, k), due[k])
        IN  HasRule(due[j]) /\ due[i] \in rule[due[j]].deps /\ turn(i) = turn(j) => i < j

AllTimeGiven ==
    /\ \A n \in Updating : last[n] <= elapsed
    /\ phase = "updates" =>
        \A n \in (ToSet(due) \ ToSet(TurnsToCome)) \ skipped : last[n] = elapsed

EveryTurnPaid ==
    \A i \in Intervals : \A n \in ToSet(bucket[i]) : acc[i] + i * turns[n] = credit

(* A node's k-th turn of a tick comes after the k-th turn of each of its     *)
(* dependencies that has one, whatever the rates and the catch-up of the     *)
(* buckets they are in.  A node that was updated in all its turns of a tick  *)
(* was handed exactly the time since its last update: dividing it over       *)
(* several turns neither loses a remainder nor hands time twice.  Between    *)
(* two rebuilds every scheduled node had one turn for each interval its      *)
(* bucket was credited; what a limited catch-up holds back stays in the      *)
(* accumulator.                                                              *)
CatchUpIsExact == DueInOrder /\ AllTimeGiven /\ EveryTurnPaid
=============================================================================
