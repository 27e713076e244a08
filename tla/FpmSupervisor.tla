----------------------------- MODULE FpmSupervisor -----------------------------
(***************************************************************************)
(* What the php-fpm master promises, without saying how: a set of workers  *)
(* per pool that never outgrows its limits, a point from which on workers  *)
(* only leave, and an end that is reached with no worker left behind.      *)
(***************************************************************************)
EXTENDS Integers, FiniteSets

CONSTANTS Pools, Pids,
          Limit,        \* [Pools -> Nat]: pm.max_children
          Total         \* process.max, 0 for none

VARIABLES phase, workers

svars == <<phase, workers>>

AllWorkers == UNION {workers[wp] : wp \in Pools}

SInit == phase = "up" /\ workers = [wp \in Pools |-> {}]

Spawn(wp, p) ==
    /\ phase = "up"
    /\ p \notin AllWorkers
    /\ Cardinality(workers[wp]) < Limit[wp]
    /\ Total > 0 => Cardinality(AllWorkers) < Total
    /\ workers' = [workers EXCEPT ![wp] = @ \cup {p}]
    /\ UNCHANGED phase

\* The supervisor moves on; with no worker left it may end.
Later == [up |-> {"up", "draining", "gone"}, draining |-> {"draining", "gone"}]

Advance ==
    /\ phase # "gone"
    /\ phase' \in Later[phase]
    /\ phase' = "gone" => \A wp \in Pools : workers'[wp] = {}

\* A worker leaves, which may be what the supervisor was waiting for.
Leave(wp, p) ==
    /\ p \in workers[wp]
    /\ workers' = [workers EXCEPT ![wp] = @ \ {p}]
    /\ Advance

SNext ==
    \/ \E wp \in Pools, p \in Pids : Spawn(wp, p) \/ Leave(wp, p)
    \/ Advance /\ UNCHANGED workers

SSpec == SInit /\ [][SNext]_svars
================================================================================
