------------------------------- MODULE MCFpmPoll -------------------------------
(* Small instances of FpmPoll. *)
EXTENDS FpmPoll, TLC

CONSTANTS c1, c2

Symmetry == Permutations(Children)

================================================================================
