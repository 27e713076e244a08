------------------------------ MODULE MCFpmMaster ------------------------------
(* Small instances of FpmMaster. *)
EXTENDS FpmMaster, TLC

CONSTANTS p1, p2, p3

TwoPids == {p1, p2}
ThreePids == {p1, p2, p3}
Symmetry == Permutations(Pids)

Static == <<"static">>
Dynamic == <<"dynamic">>
DynamicOndemand == <<"dynamic", "ondemand">>

One == <<1>>
Two == <<2>>
OneZero == <<1, 0>>
TwoOne == <<2, 1>>
================================================================================
