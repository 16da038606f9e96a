----------------------------- MODULE ParamValues -----------------------------
(***************************************************************************)
(* One parameter: its value, the constraints every value is normalized by  *)
(* (parameter/constraints.rs, parameter/parameter_node.rs), the edits that *)
(* set either (engine/apply_param.rs) and their undo history               *)
(* (engine/history.rs).  A user's edit is recorded; a script's or a node's *)
(* is not, so an entry may be undone under constraints it has never seen.  *)
(* Values and their conversions are those of ValueConversions.             *)
(***************************************************************************)
EXTENDS ValueConversions

CONSTANTS
    Starts,     \* the values the parameter may be declared with
    Inputs,     \* the values it is set to
    Rules,      \* the constraints it is given
    Free,       \* the default constraints, which forbid nothing
    Absent,     \* a bound, a step or a base that is not given
    MaxSets     \* bounds the edits

ASSUME ParamAssumption == Free \in Rules /\ MaxSets \in Nat

VARIABLES
    holding,      \* the parameter's value
    constraints,       \* its constraints
    cached,     \* the engine's copy of the value (parameter_values_cache)
    undos, redos,   \* the history: sequences of entries
    strayed,    \* TRUE once an edit was made that the history does not know
    sets        \* the edits made

paramVars == <<holding, constraints, cached, undos, redos, strayed, sets>>

\* Constraints: the policy, a range that is the same for every component or
\* one bound for each, a step with a base, the options of an enumeration and
\* the accepted file extensions.
Range_(shape, lo, hi) == [shape |-> shape, lo |-> lo, hi |-> hi]

Constraints(policy, range, step, base, options, files) ==
    [policy |-> policy, range |-> range, step |-> step, base |-> base,
     options |-> options, files |-> files]

-----------------------------------------------------------------------------
(* Normalization: the set of results, empty when the value is rejected.    *)

AbsOf(n) == IF n >= 0 THEN n ELSE -n

\* The nearest multiple of a unit; a half is rounded away from zero.
Nearest(n, unit) ==
    LET up == unit * ((2 * AbsOf(n) + unit) \div (2 * unit)) IN IF n >= 0 THEN up ELSE -up

Below(n, bound) == bound # Absent /\ n < bound
Above(n, bound) == bound # Absent /\ n > bound

Clamped(n, lo, hi) == IF Below(n, lo) THEN lo ELSE IF Above(n, hi) THEN hi ELSE n

\* The step starts at its base, at the lower bound or at zero.
StepBase(r, lo) == IF r.base # Absent THEN r.base ELSE IF lo # Absent THEN lo ELSE 0

Snapped(r, n, lo) ==
    IF r.step = Absent THEN n ELSE StepBase(r, lo) + Nearest(n - StepBase(r, lo), r.step)

\* Mutant: the value is clamped before the step only.
Number_clampedOnce(r, n, lo, hi) ==
    IF (lo # Absent /\ Above(lo, hi)) \/ (r.step # Absent /\ r.step <= 0) THEN {}
    ELSE IF r.policy = "clamp" THEN {Snapped(r, Clamped(n, lo, hi), lo)}
    ELSE IF Below(n, lo) \/ Above(n, hi) \/ Snapped(r, n, lo) # n THEN {} ELSE {n}

\* One number under its bounds: brought to them, to the nearest step, and to
\* the bounds again; or refused when it is not where that would bring it.
Number(r, n, lo, hi) ==
    IF (lo # Absent /\ Above(lo, hi)) \/ (r.step # Absent /\ r.step <= 0) THEN {}
    ELSE IF r.policy = "clamp" THEN {Clamped(Snapped(r, Clamped(n, lo, hi), lo), lo, hi)}
    ELSE IF Below(n, lo) \/ Above(n, hi) \/ Snapped(r, n, lo) # n THEN {} ELSE {n}

\* Bounds by component only bind a vector with that many components.
RangeApplies(r, len) ==
    r.range.shape # "parts" \/ (len > 1 /\ \A b \in {r.range.lo, r.range.hi} : b = Absent \/ Len(b) = len)

BoundAt(r, bound, i) ==
    IF r.range.shape = "parts" /\ bound # Absent THEN bound[i] ELSE bound

NumberAt(r, v, i) == Number(r, v[i], BoundAt(r, r.range.lo, i), BoundAt(r, r.range.hi, i))

Numbers(r, v) ==
    IF ~RangeApplies(r, Len(v)) \/ \E i \in 1 .. Len(v) : NumberAt(r, v, i) = {} THEN {}
    ELSE {[i \in 1 .. Len(v) |-> CHOOSE n \in NumberAt(r, v, i) : TRUE]}

\* An integer is rounded after the bounds were applied.
Whole(r, v) ==
    {<<Nearest(n[1], One)>> : n \in {n \in Numbers(r, v) : r.policy = "clamp" \/ n[1] % One = 0}}

\* Constraints on numbers and files.
Shaped(r, x) ==
    CASE x.kind = "int" -> {Num("int", v) : v \in Whole(r, x.v.nums)}
      [] x.kind \in {"float", "css", "vec2", "vec3"} -> {Num(x.kind, v) : v \in Numbers(r, x.v.nums)}
      [] x.kind = "file" -> IF r.files = {} \/ x.v.word \in r.files THEN {x} ELSE {}
      [] OTHER -> {x}

\* With options the value is one of them, or names one; text that names one
\* becomes an enumeration value.
Normalized(r, x) ==
    {IF y.kind = "text" /\ \E o \in r.options : o.id = y.v THEN Value("enum", y.v) ELSE y :
        y \in {y \in Shaped(r, x) :
                  \/ r.options = {}
                  \/ \E o \in r.options : o.value = y \/ (y.kind \in TextKinds /\ o.id = y.v)}}

\* What a value becomes when it is set: converted to the kind the parameter
\* has now, then normalized.
Prepared(r, x) == UNION {Normalized(r, y) : y \in Coerced(x, holding.kind)}

-----------------------------------------------------------------------------
(* Edits.                                                                  *)

Step(what, old, new) == [what |-> what, old |-> old, new |-> new]

State(v, r) == [value |-> v, rule |-> r]

\* Mutant: a restored state does not reach the engine's copy.
NowHolds_unheard(v, r) == holding' = v /\ constraints' = r /\ cached' = IF r = constraints THEN v ELSE cached

\* The parameter changes, and with it the engine's copy.
NowHolds(v, r) == holding' = v /\ constraints' = r /\ cached' = v

Recorded(what, v, r) ==
    /\ undos' = Append(undos, Step(what, State(holding, constraints), State(v, r)))
    /\ redos' = << >>
    /\ UNCHANGED strayed

Unrecorded == strayed' = TRUE /\ UNCHANGED <<undos, redos>>

Counted == sets < MaxSets /\ sets' = sets + 1

\* A value equal to the current one changes and records nothing.
SetValueOf(x) ==
    \E v \in Prepared(constraints, x) :
        /\ Counted
        /\ v # holding
        /\ NowHolds(v, constraints)
        /\ \/ Recorded("value", v, constraints)
           \/ Unrecorded

\* A script's write to "value" is normalized before it is converted, and
\* becomes an edit of the tick.
SetScriptValue(x) ==
    \E y \in Normalized(constraints, x) : \E v \in Prepared(constraints, y) :
        /\ Counted
        /\ v # holding
        /\ NowHolds(v, constraints)
        /\ Unrecorded

\* New constraints are refused when they refuse the current value.
SetConstraints(r) ==
    \E v \in Prepared(r, holding) :
        /\ Counted
        /\ v # holding \/ r # constraints
        /\ NowHolds(v, r)
        /\ \/ Recorded("rule", v, r)
           \/ Unrecorded

\* Mutant: undoing constraints brings back the constraints alone.
PutBack_ruleOnly(what, side) ==
    IF what = "value" THEN {State(v, constraints) : v \in Prepared(constraints, side.value)}
    ELSE {State(v, side.rule) : v \in Prepared(side.rule, holding)}

\* What restoring one side of a step makes of the parameter: a value goes
\* through the constraints there are now, a pair through its own.
PutBack(what, side) ==
    IF what = "value" THEN {State(v, constraints) : v \in Prepared(constraints, side.value)}
    ELSE {State(v, side.rule) : v \in Prepared(side.rule, side.value)}

\* The entry is taken from its stack before it is applied: one that is
\* refused is on neither stack any more.
Travel(entry, side, from, to) ==
    LET states == PutBack(entry.what, side)
    IN  IF states = {} THEN UNCHANGED <<holding, constraints, cached>> /\ UNCHANGED to
        ELSE /\ \E s \in states : NowHolds(s.value, s.rule)
             /\ to' = Append(to, entry)

Front_(s) == SubSeq(s, 1, Len(s) - 1)

Undo ==
    /\ undos # << >>
    /\ undos' = Front_(undos)
    /\ Travel(undos[Len(undos)], undos[Len(undos)].old, undos, redos)
    /\ UNCHANGED <<strayed, sets>>

Redo ==
    /\ redos # << >>
    /\ redos' = Front_(redos)
    /\ Travel(redos[Len(redos)], redos[Len(redos)].new, redos, undos)
    /\ UNCHANGED <<strayed, sets>>

-----------------------------------------------------------------------------
ParamInit ==
    /\ holding \in Starts
    /\ constraints = Free
    /\ cached = holding
    /\ undos = << >>
    /\ redos = << >>
    /\ strayed = FALSE
    /\ sets = 0

ParamNext ==
    \/ \E x \in Inputs : SetValueOf(x) \/ SetScriptValue(x)
    \/ \E r \in Rules : SetConstraints(r)
    \/ Undo
    \/ Redo

ParamSpec == ParamInit /\ [][ParamNext]_paramVars

-----------------------------------------------------------------------------
(* Properties.                                                             *)

\* What the constraints promise of a number, said without the algorithm: it
\* lies between the bounds, an integer between the rounded ones, and on a
\* step unless it is at a bound.
Within(r, kind, n, lo, hi) ==
    LET Edge(b) == IF kind = "int" THEN Nearest(b, One) ELSE b
    IN  /\ lo # Absent => n >= Edge(lo)
        /\ hi # Absent => n <= Edge(hi)
        /\ r.step # Absent /\ kind # "int" =>
                n \in {lo, hi} \/ \E k \in -20 .. 20 : n = StepBase(r, lo) + k * r.step

\* A parameter's value satisfies its constraints, whichever edits, undos and
\* redos set the one and the other and in whatever order: constraints.rs:363
\* runs on every path to the value (parameter_node.rs:566, 640, 650).  And the
\* engine's copy, which expressions and snapshots read, follows every change of
\* it (engine/mod.rs:211-216).
ValueFitsRule ==
    /\ holding.kind \in {"int", "float", "css", "vec2", "vec3"} =>
            \A i \in 1 .. Len(holding.v.nums) :
                Within(constraints, holding.kind, holding.v.nums[i],
                       BoundAt(constraints, constraints.range.lo, i), BoundAt(constraints, constraints.range.hi, i))
    /\ constraints.options # {} => \E o \in constraints.options :
            o.value = holding \/ (holding.kind \in TextKinds /\ o.id = holding.v)
    /\ holding.kind = "file" /\ constraints.files # {} => holding.v.word \in constraints.files
    /\ cached = holding

\* As long as the history has seen every change, undo brings back the value
\* and the constraints from before the entry and redo those from after it;
\* only text that options turned into an enumeration value keeps that kind.
SameAs(s) ==
    /\ constraints' = s.rule
    /\ holding'.v = s.value.v
    /\ holding'.kind = s.value.kind \/ {holding'.kind, s.value.kind} \subseteq TextKinds

TravelRestores ==
    [][~strayed /\ sets' = sets =>
        /\ Len(undos') < Len(undos) => SameAs(undos[Len(undos)].old)
        /\ Len(redos') < Len(redos) => SameAs(redos[Len(redos)].new)]_paramVars
=============================================================================
