--------------------------- MODULE MCGraphHistory ---------------------------
(* TLC instance of GraphHistory.                                           *)
EXTENDS GraphHistory, TLC

\* From an empty tree the ids other than the root are alike.
Symmetry == Permutations(NodeId \ {Root})

\* A project that was loaded and started: two nodes below the root, no history
\* (clear_history at the end of the start-up).
CONSTANTS A, B

LoadedInit ==
    /\ links = Attach(Attach(NoLinks, A, Root, Nil), B, Root, Nil)
    /\ slot = [n \in NodeId |-> IF n \in {Root, A, B} THEN "live" ELSE "free"]
    /\ enabled = [n \in NodeId |-> TRUE]
    /\ effective = [n \in NodeId |-> TRUE]
    /\ gen = [n \in NodeId |-> 0]
    /\ nextGen = [n \in NodeId |-> 1]
    /\ uuidIndex = {<<n, 0>> : n \in {Root, A, B}}
    /\ paramCache = [n \in NodeId |-> IF n \in {Root, A, B} THEN 0 ELSE NoEntry]
    /\ undoStack = <<>> /\ redoStack = <<>>
    /\ tx = NoTx
    /\ at = 0
    /\ mode = "idle"
    /\ edits = 0

LoadedSpec == LoadedInit /\ [][HistoryNext]_vars
=============================================================================
