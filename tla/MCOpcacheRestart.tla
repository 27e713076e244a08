---------------------------- MODULE MCOpcacheRestart ----------------------------
(* Instances of OpcacheRestart for TLC. *)
EXTENDS OpcacheRestart, TLC

CONSTANTS p1, p2, p3

TwoProcs == {p1, p2}
ThreeProcs == {p1, p2, p3}
NoForeign == {}
OneForeign == {p2}
================================================================================
