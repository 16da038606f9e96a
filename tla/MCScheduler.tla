---------------------------- MODULE MCScheduler ----------------------------
(* TLC instance of Scheduler.  Nodes are alike.                            *)
EXTENDS Scheduler, TLC

Symmetry == Permutations(Updating)
=============================================================================
