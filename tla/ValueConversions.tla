-------------------------- MODULE ValueConversions --------------------------
(***************************************************************************)
(* Parameter values, their conversions from one kind to another and the    *)
(* projections a binding may choose (parameter/value.rs,                   *)
(* parameter/projection.rs), and two parameters kept equal by a binding    *)
(* (engine/controls.rs, convert_binding_for_target and                     *)
(* convert_for_target_with_direction).                                     *)
(*                                                                         *)
(* A number is counted in twelfths, so that the means of two and of three  *)
(* of the values used are exact; the i32 and f64 limits are not reached.   *)
(* The value of a kind with components is the sequence of them, a boolean  *)
(* is the number 0 or 1, and text is a word, or the numbers a conversion   *)
(* wrote into it or a parse reads from it.  CSS lengths have one unit.     *)
(* References convert only to themselves and are left to ParamControls;    *)
(* the HSV projections, and the conversion of an integer to a colour,      *)
(* compute outside this grid of numbers and are left out.                  *)
(***************************************************************************)
EXTENDS Integers, Sequences, FiniteSets

CONSTANTS
    Pairs,      \* the bound pairs to start from: source, target, projection
    Settings,   \* the values the user may give either side
    Direct,     \* no projection is selected
    MaxSettings \* bounds the user's changes

ASSUME ConversionAssumption == MaxSettings \in Nat

VARIABLES
    source,     \* value of the parameter that is bound to
    target,     \* value of the parameter that holds the binding
    via,        \* its projection
    fresher,    \* the side changed last, which the next pass reads
    settings    \* the user's changes made

bindingVars == <<source, target, via, fresher, settings>>

One == 12

\* The content of a value: a word, numbers, or numbers with a unit; a
\* trigger's is the word it is written as.
Word(w) == [word |-> w, nums |-> << >>]
Spelled(nums) == [word |-> "", nums |-> nums]

Value(kind, content) == [kind |-> kind, v |-> content]
Num(kind, nums) == Value(kind, Spelled(nums))

TextKinds == {"text", "enum"}
NumberKinds == {"int", "float", "css", "bool"}

-----------------------------------------------------------------------------
(* Conversions: the set of results, empty when there is none.              *)

Repeated(n, len) == [i \in 1 .. len |-> n]

\* Rust's cast of a float to an integer drops the fraction.
Truncated(n) == IF n >= 0 THEN One * (n \div One) ELSE -(One * ((-n) \div One))

\* The content of text that parses as so many numbers.
Parsed(x, len) ==
    IF x.kind \in TextKinds /\ x.v.word = "" /\ Len(x.v.nums) = len THEN {x.v} ELSE {}

AsInt(x) ==
    CASE x.kind \in {"float", "css"} -> {Spelled(<<Truncated(x.v.nums[1])>>)}
      [] x.kind \in {"int", "bool"} -> {x.v}
      [] OTHER -> {n \in Parsed(x, 1) : n.nums[1] % One = 0}

AsFloat(x) == IF x.kind \in NumberKinds THEN {x.v} ELSE Parsed(x, 1)

\* A number is written so that it parses back; a length keeps its unit.
AsText(x) ==
    CASE x.kind = "bool" -> {Word(IF x.v.nums[1] = 0 THEN "false" ELSE "true")}
      [] x.kind = "css" -> {[x.v EXCEPT !.word = "rem"]}
      [] OTHER -> {x.v}

AsEnum(x) == IF x.kind \in TextKinds THEN {x.v} ELSE {}

AsBool(x) ==
    CASE x.kind \in NumberKinds -> {Spelled(<<IF x.v.nums[1] = 0 THEN 0 ELSE One>>)}
      [] x.kind \in TextKinds /\ x.v = Word("true") -> {Spelled(<<One>>)}
      [] x.kind \in TextKinds /\ x.v = Word("false") -> {Spelled(<<0>>)}
      [] OTHER -> {}

AsCss(x) ==
    CASE x.kind \in NumberKinds -> {x.v}
      [] x.kind \in TextKinds \cup {"file"} /\ x.v.word \in {"", "rem"} /\ Len(x.v.nums) = 1 ->
            {Spelled(x.v.nums)}
      [] OTHER -> {}

AsVector(x, kind, len) ==
    CASE x.kind \in {"int", "float"} -> {Spelled(Repeated(x.v.nums[1], len))}
      [] x.kind = kind -> {x.v}
      [] kind = "vec3" /\ x.kind = "color" -> {Spelled(SubSeq(x.v.nums, 1, 3))}
      [] OTHER -> Parsed(x, len)

AsColor(x) ==
    CASE x.kind = "float" -> {Spelled(Append(Repeated(x.v.nums[1], 3), One))}
      [] x.kind = "color" -> {x.v}
      [] OTHER -> Parsed(x, 4)

\* The value as one of the wanted kind.
Coerced(x, kind) ==
    {Value(kind, v) : v \in
        CASE kind = "trigger" -> IF x.kind = "trigger" THEN {x.v} ELSE {}
          [] kind = "int" -> AsInt(x)
          [] kind = "float" -> AsFloat(x)
          [] kind \in {"text", "file"} -> AsText(x)
          [] kind = "enum" -> AsEnum(x)
          [] kind = "bool" -> AsBool(x)
          [] kind = "css" -> AsCss(x)
          [] kind = "vec2" -> AsVector(x, "vec2", 2)
          [] kind = "vec3" -> AsVector(x, "vec3", 3)
          [] kind = "color" -> AsColor(x)}

-----------------------------------------------------------------------------
(* Projections.  Each says from which kind to which it leads and which     *)
(* component of the source gives which component of the result.            *)

Projection(from, to, links) == [from |-> from, to |-> to, links |-> links]

FloatTo(kind, components) == Projection("float", kind, {<<1, i>> : i \in components})
Pick(kind, i) == Projection(kind, "float", {<<i, 1>>})
RGB == {<<1, 1>>, <<2, 2>>, <<3, 3>>}

\* The projections of every kind of source.
Projections ==
    {FloatTo("vec2", c) : c \in {{1}, {2}, {1, 2}}}
    \cup {FloatTo("vec3", c) : c \in {{1}, {2}, {3}, {1, 2, 3}}}
    \cup {Pick("vec2", i) : i \in 1 .. 2}
    \cup {Projection("vec2", "vec3", l) : l \in {{<<1, 1>>, <<2, 2>>}, {<<1, 1>>, <<2, 3>>}}}
    \cup {Pick("vec3", i) : i \in 1 .. 3}
    \cup {Projection("vec3", "vec2", l) :
            l \in {{<<1, 1>>, <<2, 2>>}, {<<1, 1>>, <<3, 2>>}, {<<2, 1>>, <<3, 2>>}}}
    \cup {Projection("vec3", "color", RGB), Projection("color", "vec3", RGB)}
    \cup {Pick("color", i) : i \in 1 .. 4}

Length(kind) == CASE kind = "vec2" -> 2 [] kind = "vec3" -> 3 [] kind = "color" -> 4 [] OTHER -> 1

\* What stands where a projection gives nothing: zero, and a full alpha.
Blank(kind) == [i \in 1 .. Length(kind) |-> IF kind = "color" /\ i = 4 THEN One ELSE 0]

\* The source seen through p: into the target's own components when it is of
\* the kind p leads to, into blank ones that are then converted otherwise.
Projected(x, y, p) ==
    IF x.kind # p.from THEN {}
    ELSE LET kept == IF y.kind = p.to THEN y.v.nums ELSE Blank(p.to)
             Given(i) == {l[1] : l \in {l \in p.links : l[2] = i}}
         IN  {Num(p.to, [i \in 1 .. Length(p.to) |->
                IF Given(i) = {} THEN kept[i] ELSE x.v.nums[CHOOSE j \in Given(i) : TRUE]])}

\* Sum of the components of v at the indices of a set.
RECURSIVE SumAt(_, _)
SumAt(v, set) ==
    IF set = {} THEN 0
    ELSE LET i == CHOOSE i \in set : TRUE IN v[i] + SumAt(v, set \ {i})

\* Mutant: the reverse direction reads the component with the same index.
ProjectedBack_sameIndex(x, y, p) ==
    IF x.kind # p.to \/ y.kind # p.from THEN {}
    ELSE LET Given(j) == {l[2] : l \in {l \in p.links : l[1] = j}}
         IN  {Num(p.from, [j \in 1 .. Length(p.from) |->
                IF Given(j) = {} THEN y.v.nums[j] ELSE x.v.nums[IF j > Length(p.to) THEN 1 ELSE j]])}

\* The reverse direction: x is of the kind p leads to and y, which keeps the
\* components p does not read, of the kind it reads; a component that gave
\* several gets their mean.
ProjectedBack(x, y, p) ==
    IF x.kind # p.to \/ y.kind # p.from THEN {}
    ELSE LET Given(j) == {l[2] : l \in {l \in p.links : l[1] = j}}
         IN  {Num(p.from, [j \in 1 .. Length(p.from) |->
                IF Given(j) = {} THEN y.v.nums[j]
                ELSE SumAt(x.v.nums, Given(j)) \div Cardinality(Given(j))])}

\* What the value x is written as into a parameter with the value y.
Forward(x, y, p) ==
    UNION {Coerced(z, y.kind) : z \in IF p = Direct THEN {x} ELSE Projected(x, y, p)}

Backward(x, y, p) ==
    UNION {Coerced(z, y.kind) : z \in IF p = Direct THEN {x} ELSE ProjectedBack(x, y, p)}

\* A binding may be made directly or through p when it can be written both
\* ways at that moment.
Bindable(x, y, p) ==
    /\ p # Direct => p \in Projections
    /\ Forward(x, y, p) # {}
    /\ Backward(y, x, p) # {}

-----------------------------------------------------------------------------
(* A bound pair.                                                           *)

BindingInit ==
    /\ \E b \in Pairs :
            /\ Bindable(b[1], b[2], b[3])
            /\ source = b[1] /\ target = b[2] /\ via = b[3]
    /\ fresher = "source"
    /\ settings = 0

UserSets ==
    /\ settings < MaxSettings
    /\ settings' = settings + 1
    /\ \/ /\ source' \in Settings \ {source}
          /\ source'.kind = source.kind
          /\ fresher' = "source"
          /\ UNCHANGED target
       \/ /\ target' \in Settings \ {target}
          /\ target'.kind = target.kind
          /\ fresher' = "target"
          /\ UNCHANGED source
    /\ UNCHANGED via

\* The pass writes the other side when the conversion exists and changes it.
WriteTarget ==
    /\ fresher = "source"
    /\ target' \in Forward(source, target, via) \ {target}
    /\ fresher' = "target"
    /\ UNCHANGED <<source, via, settings>>

WriteSource ==
    /\ fresher = "target"
    /\ source' \in Backward(target, source, via) \ {source}
    /\ fresher' = "source"
    /\ UNCHANGED <<target, via, settings>>

BindingNext == UserSets \/ WriteTarget \/ WriteSource

BindingSpec == BindingInit /\ [][BindingNext]_bindingVars

\* Once a binding has written one side and the other from it, both stay: a
\* second exchange would find nothing to change, so no rounding or projection
\* makes two bound parameters drift or trade values pass after pass
\* (projection.rs:329-449, controls.rs:1376-1496).
BindingsSettle ==
    /\ fresher = "source" =>
        \A t \in Forward(source, target, via) : \A s \in Backward(t, source, via) :
            Forward(s, t, via) = {t} /\ Backward(t, s, via) = {s}
    /\ fresher = "target" =>
        \A s \in Backward(target, source, via) : \A t \in Forward(s, target, via) :
            Backward(t, s, via) = {s} /\ Forward(s, t, via) = {t}
=============================================================================
