------------------------------- MODULE MCFpmEpoll -------------------------------
(* Instances of FpmEpoll for TLC. *)
EXTENDS FpmEpoll, TLC

CONSTANTS c1, c2, c3

TwoChildren == {c1, c2}
ThreeChildren == {c1, c2, c3}
Symmetry == Permutations(Children)
================================================================================
