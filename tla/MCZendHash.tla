----------------------------- MODULE MCZendHash -----------------------------
(* An instance of ZendHash for TLC. *)
EXTENDS ZendHash

CONSTANT a

(* The string shares its slot with 1 in every table, with 3 in a table of  *)
(* two.                                                                    *)
Hashes == [s \in StrKey |-> 1]

Ints == 0..3
=============================================================================
