------------------------------- MODULE MCZendGc -------------------------------
(* Instances of ZendGc for TLC. *)
EXTENDS ZendGc

CONSTANTS o1, o2

TwoObjects == {o1, o2}
OneObject == {o1}
TwoSlots == 1..2
Capturing == {"capture", "collect"}
================================================================================
