------------------------------ MODULE MCZendSignal ------------------------------
(* Instances of ZendSignal for TLC. *)
EXTENDS ZendSignal, TLC

CONSTANTS term, usr

TwoSignals == {term, usr}
TermKills == {term}
NoneKills == {}
================================================================================
