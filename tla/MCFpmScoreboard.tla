---------------------------- MODULE MCFpmScoreboard ----------------------------
(* Instances of FpmScoreboard for TLC. *)
EXTENDS FpmScoreboard, TLC

CONSTANTS w1, w2

OneWorker == {w1}
TwoWorkers == {w1, w2}
Slots == Permutations(TwoWorkers)
================================================================================
