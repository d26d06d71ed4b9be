---------------------------- MODULE MCCallForest ----------------------------
(* Two threads, three calls and up to six events: enough for a call with   *)
(* two children, for recursion, and for every interleaving of two threads. *)
EXTENDS CallForest
CONSTANTS t1, t2
MCTids == {t1, t2}
MCIds == {1, 2, 3}
MCKinds == {"k"}
=============================================================================
