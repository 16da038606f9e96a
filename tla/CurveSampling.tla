---------------------------- MODULE CurveSampling -----------------------------
(***************************************************************************)
(* An animation curve as data (node/curve/model.rs): keys kept in order,   *)
(* the segments compiled from them, and the segment a position is sampled  *)
(* in, which a caller that samples one position after another finds with a *)
(* cursor it keeps, whatever happened to the curve in between.  And the    *)
(* fitting of a recorded path by few keys.                                 *)
(*                                                                         *)
(* Positions are integers, one unit for CURVE_EPSILON; values and easings  *)
(* are left out.                                                           *)
(***************************************************************************)
EXTENDS Integers, Sequences, SequencesExt, FiniteSetsExt

CONSTANTS
    Spots,      \* positions
    MaxKeys,    \* bounds the keys of the curve
    MaxCalls,   \* bounds the calls on the curve and its cursor
    Points,     \* length of a recorded path
    MaxFit      \* max_keys: keys a fit may use

ASSUME SamplingAssumption ==
    Spots \subseteq Int /\ MaxKeys \in Nat /\ MaxCalls \in Nat /\ Points \in Nat /\ MaxFit \in Nat

VARIABLES
    keys,       \* positions of the keys, in order
    cursor,     \* CurveCursor: used or not, and the index of a segment
    sampled,    \* the last position sampled with the cursor, and the segment found
    todo, marks,    \* the fit: stretches to look at, points taken as keys
    close,      \* stretches whose points are near enough to the curve between its ends
    calls       \* calls so far

samplingVars == <<keys, cursor, sampled, todo, marks, close, calls>>

Near(p, q) == q - p <= 1 /\ p - q <= 1
NotSampled == [position |-> 0, index |-> 0]

-----------------------------------------------------------------------------
(* Keys and segments.                                                      *)

\* normalize_keys: sorted, and of keys at one position the last one stays.
KeepLast(kept, p) ==
    IF kept # <<>> /\ Near(Last(kept), p) THEN [kept EXCEPT ![Len(kept)] = p] ELSE Append(kept, p)

Thinned(ps) == FoldLeft(KeepLast, <<>>, SortSeq(ps, <))

\* insert_key: only the key at or behind the position can be replaced.
Inserted(ks, p) ==
    LET i == Len(SelectSeq(ks, LAMBDA q : q < p)) + 1
    IN  IF i <= Len(ks) /\ Near(ks[i], p) THEN [ks EXCEPT ![i] = p] ELSE InsertAt(ks, i, p)

\* compile_segments: a span that is next to nothing gives no segment.
Segments(ks) ==
    LET spans == [i \in 1 .. Len(ks) - 1 |-> [from |-> ks[i], to |-> ks[i + 1]]]
    IN  SelectSeq(spans, LAMBDA s : s.to - s.from > 1)

\* resolve_segment_index.
SegmentAt(segments, p) == Min({Len(SelectSeq(segments, LAMBDA s : s.to <= p)) + 1, Len(segments)})

\* Mutant: the cursor only moves forwards.
Follow_forwards(segments, c, p) ==
    LET from == Min({c.index, Len(segments)})
    IN  Min({i \in from .. Len(segments) : i = Len(segments) \/ p < segments[i].to})

\* resolve_segment_index_with_cursor: from the segment of the last sample
\* forwards while it ends before the position, then backwards while it starts
\* behind it.
Follow(segments, c, p) ==
    LET from == Min({c.index, Len(segments)})
        ahead == Min({i \in from .. Len(segments) : i = Len(segments) \/ p < segments[i].to})
    IN  Max({i \in 1 .. ahead : i = 1 \/ p >= segments[i].from})

SamplingInit ==
    /\ keys = <<>> /\ cursor = [used |-> FALSE, index |-> 1] /\ sampled = NotSampled
    /\ todo = <<>> /\ marks = {} /\ close = {}
    /\ calls = 0

Count == calls < MaxCalls /\ calls' = calls + 1

Rekeyed(ks) ==
    /\ Count
    /\ keys' = ks
    /\ sampled' = NotSampled
    /\ UNCHANGED <<cursor, todo, marks, close>>

SetKeys(ps) == Rekeyed(Thinned(ps))
InsertKey(p) == Len(keys) < MaxKeys /\ Rekeyed(Inserted(keys, p))
RemoveKey(i) == i \in DOMAIN keys /\ Rekeyed(RemoveAt(keys, i))

\* sample_with_cursor.  Before the first key and behind the last one, and
\* without a segment, the cursor is not looked at.
Sample(p) ==
    LET segments == Segments(keys)
        index == IF cursor.used THEN Follow(segments, cursor, p) ELSE SegmentAt(segments, p)
    IN  /\ Len(keys) >= 2 /\ keys[1] < p /\ p < Last(keys) /\ segments # <<>>
        /\ Count
        /\ cursor' = [used |-> TRUE, index |-> index]
        /\ sampled' = [position |-> p, index |-> index]
        /\ UNCHANGED <<keys, todo, marks, close>>

-----------------------------------------------------------------------------
(* fit_points_to_bezier_keys.                                              *)

Most == Max({MaxFit, 2})

StartFit ==
    /\ marks = {} /\ calls = 0 /\ Points >= 2
    /\ todo' = <<<<1, Points>>>>
    /\ marks' = {1, Points}
    /\ close' = {}
    /\ UNCHANGED <<keys, cursor, sampled, calls>>

\* collect_curve_fit_breakpoints: the point of the stretch that is furthest
\* from the curve splits it, the stretch before it is looked at first.
Split(stretch, at) ==
    /\ Cardinality(marks) < Most
    /\ stretch[1] < at /\ at < stretch[2]
    /\ marks' = marks \cup {at}
    /\ todo' = <<<<stretch[1], at>>, <<at, stretch[2]>>>> \o Tail(todo)
    /\ UNCHANGED close

Accept(stretch) ==
    /\ close' = close \cup {stretch}
    /\ todo' = Tail(todo)
    /\ UNCHANGED marks

\* No more keys may be used.
Leave(stretch) ==
    /\ Cardinality(marks) >= Most
    /\ todo' = Tail(todo)
    /\ UNCHANGED <<marks, close>>

\* Mutant: the stretch behind the first split that succeeds is forgotten.
FitStretch_left(stretch) ==
    \/ \E at \in 1 .. Points :
          /\ Cardinality(marks) < Most /\ stretch[1] < at /\ at < stretch[2]
          /\ marks' = marks \cup {at}
          /\ todo' = <<<<stretch[1], at>>>> \o Tail(todo)
          /\ UNCHANGED close
    \/ Accept(stretch) \/ Leave(stretch)

FitStretch(stretch) ==
    \/ \E at \in 1 .. Points : Split(stretch, at)
    \/ Cardinality(marks) < Most /\ Accept(stretch)
    \/ Leave(stretch)

FitStep ==
    /\ todo # <<>>
    /\ FitStretch(todo[1])
    /\ UNCHANGED <<keys, cursor, sampled, calls>>

SamplingNext ==
    \/ StartFit \/ FitStep
    \/ /\ marks = {}
       /\ \/ \E ps \in BoundedSeq(Spots, 3) : SetKeys(ps)
          \/ \E p \in Spots : InsertKey(p) \/ Sample(p)
          \/ \E i \in 1 .. MaxKeys : RemoveKey(i)

SamplingSpec == SamplingInit /\ [][SamplingNext]_samplingVars

-----------------------------------------------------------------------------
(* Properties.                                                             *)

CursorAgrees ==
    sampled # NotSampled /\ (\A i \in 1 .. Len(keys) - 1 : keys[i + 1] - keys[i] > 1) =>
        LET segments == Segments(keys)
        IN  /\ sampled.index = SegmentAt(segments, sampled.position)
            /\ segments[sampled.index].from <= sampled.position
            /\ sampled.position < segments[sampled.index].to

FitUsesItsKeys ==
    /\ Cardinality(marks) <= Most
    /\ todo = <<>> /\ Cardinality(marks) < Most =>
          \A a, b \in marks : (a + 1 < b /\ ~\E m \in marks : a < m /\ m < b) => <<a, b>> \in close

\* Sampling with a cursor, wherever earlier samples and changes of the keys
\* left it, finds the segment a sample without cursor finds, and that segment
\* contains the position.  Keys can be so close together that they have no
\* segment between them (insert_key does not replace a key just before the new
\* one): there the two ways may part.  And a fit never uses more keys than it
\* may; when it uses fewer, every recorded point is near enough to the curve.
SamplesAgree == CursorAgrees /\ FitUsesItsKeys
=============================================================================
