------------------------------ MODULE MCUiFeed ------------------------------
(* Instances of UiFeed for TLC: the model values are given by the .cfg files. *)
EXTENDS UiFeed

\* One project throughout; MCFeedAndHub also replaces it.
OneProject == FeedInit /\ [][FeedNext /\ UNCHANGED epoch]_feedVars /\ FeedFairness
=============================================================================
