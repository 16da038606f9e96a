---------------------------- MODULE MCNodeGraph -----------------------------
(* TLC instance of NodeGraph: the ids other than the root are alike.       *)
EXTENDS NodeGraph, TLC

Symmetry == Permutations(NodeId \ {Root})
=============================================================================
