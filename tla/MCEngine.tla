------------------------------ MODULE MCEngine ------------------------------
(* TLC instance of the phases of a tick, of the edit history, and of the     *)
(* keys and ranges of a curve.  They share no variables: a behaviour runs    *)
(* one of them and leaves the others alone.                                  *)
EXTENDS TickLoop, EditHistory, CurveKeys, TLC

CONSTANTS k1, k2, k3, g1, g2

VARIABLE part

\* Loaded curves: one without children, one with a range and keys out of
\* order, and one whose range is off.
Curve(kids, on, border, pos) ==
    [kids |-> kids, pos |-> pos, on |-> [g \in Ranges |-> on], border |-> [g \in Ranges |-> border]]
MCLoaded ==
    {Curve(<<>>, FALSE, Initial, [k \in KeyNodes |-> 0]),
     Curve(<<k2, g1, k1, g2>>, TRUE, <<2, 0>>, [k \in KeyNodes |-> IF k = k1 THEN 3 ELSE 0]),
     Curve(<<g1, k1, k2, k3>>, FALSE, <<2, 0>>, k1 :> 0 @@ k2 :> 1 @@ k3 :> 3)}
MCInitial == <<0, 1>>
MCBorders == {<<2, 0>>, <<1, 1>>}

\* Where the curve stands while another part runs.
CurveStill ==
    /\ tree = Curve(<<>>, FALSE, Initial, [k \in KeyNodes |-> 0]) /\ bound = NoKey
    /\ waiting = <<>> /\ heard = <<>> /\ later = <<>> /\ offered = <<>>
    /\ doing = "intent" /\ passes = 0 /\ undo = NoKey /\ others = 0

Init ==
    /\ part \in {"tick", "history", "curve"} /\ TickInit /\ HistoryInit
    /\ IF part = "curve" THEN CurveInit ELSE CurveStill

Next ==
    /\ UNCHANGED part
    /\ \/ part = "tick" /\ TickNext /\ UNCHANGED <<historyVars, curveVars>>
       \/ part = "history" /\ HistoryNext /\ UNCHANGED <<tickVars, curveVars>>
       \/ part = "curve" /\ CurveNext /\ UNCHANGED <<tickVars, historyVars>>

Spec == Init /\ [][Next]_<<part, tickVars, historyVars, curveVars>>
=============================================================================
