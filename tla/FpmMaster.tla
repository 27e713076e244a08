------------------------------- MODULE FpmMaster -------------------------------
(***************************************************************************)
(* The php-fpm master process (sapi/fpm/fpm): worker pools, the children   *)
(* it forks and buries, their scoreboard slots, the process-control state  *)
(* machine (reload, finish, terminate), idle-server maintenance, and the   *)
(* workers and the kernel it interacts with.                               *)
(*                                                                         *)
(* The master is one thread running an event loop: a handler starts at     *)
(* pc = "loop" and returns there.  A handler that loops over children or   *)
(* forks takes one step per iteration, so that workers, signals and        *)
(* connections interleave with it as they do in the program.               *)
(***************************************************************************)
EXTENDS Integers, Sequences, FiniteSets, Functions

CONSTANTS
    NPools,                 \* pools are numbered in the order of fpm_worker_all_pools
    Pids,                   \* process identifiers; one is reused once it has been reaped
    pm,                     \* [Pools -> Styles]
    pm_max_children,
    pm_start_servers,
    pm_min_spare_servers,
    pm_max_spare_servers,
    process_max,            \* 0: no global limit
    EmergencyRestart,       \* emergency_restart_threshold and _interval are both set
    RequestTerminate,       \* request_terminate_timeout is set
    MaxRequests,            \* pm.max_requests is set
    MaxConn,                \* bound: connections that clients open
    MaxFault,               \* bound: workers that fault or fail to initialise
    MaxForkFail,            \* bound: failures of malloc, pipe or fork
    MaxAdmin                \* bound: signals the administrator sends

Pools == 1..NPools
Styles == {"static", "dynamic", "ondemand"}
FPM_MAX_SPAWN_RATE == 32
Slots(wp) == 0..(pm_max_children[wp] - 1)

\* What fpm_conf.c accepts: the limits of each process-manager style.
ASSUME ConfigAssumption ==
    /\ NPools \in Nat \ {0}
    /\ pm \in [Pools -> Styles]
    /\ pm_max_children \in [Pools -> Nat \ {0}]
    /\ pm_start_servers \in [Pools -> Nat]
    /\ pm_min_spare_servers \in [Pools -> Nat]
    /\ pm_max_spare_servers \in [Pools -> Nat]
    /\ \A wp \in Pools : pm[wp] = "dynamic" =>
          /\ 0 < pm_min_spare_servers[wp]
          /\ pm_min_spare_servers[wp] <= pm_start_servers[wp]
          /\ pm_start_servers[wp] <= pm_max_spare_servers[wp]
          /\ pm_max_spare_servers[wp] <= pm_max_children[wp]
    /\ process_max \in Nat

ASSUME BoundAssumption ==
    /\ {EmergencyRestart, RequestTerminate, MaxRequests} \subseteq BOOLEAN
    /\ {MaxConn, MaxFault, MaxForkFail, MaxAdmin} \subseteq Nat

VARIABLES
    pc,                 \* where the master is: see PcSet
    cur,                \* the pool that a loop over all pools has reached
    mk,                 \* fpm_children_make in progress: pool, max, where it returns
    fpm_state,
    fpm_signal_sent,
    pctl_event,         \* pctl_event is in the timer queue
    children,           \* wp->children, newest first
    running_children,   \* wp->running_children
    globals_running,    \* fpm_globals.running_children
    idle_spawn_rate,
    used,               \* scoreboard slots whose "used" flag is set
    free_proc,          \* scoreboard->free_proc
    stage,              \* request_stage of each scoreboard slot
    child,              \* struct fpm_child_s of each pid
    wstate,             \* what the process is doing, or "zombie", or "free"
    wstatus,            \* wait status of a zombie
    psig,               \* signals sent to the process and not yet delivered
    aged,               \* ondemand children idle for pm_process_idle_timeout
    in_shutdown,        \* processes whose fastcgi layer has been told to stop
    sigpipe,            \* characters in the master's signal pipe
    backlog,            \* connections waiting on each listening socket
    edge,               \* an edge-triggered accept event is pending
    budget              \* what is left of the environment's bounds

masterVars == <<pc, cur, mk, fpm_state, fpm_signal_sent, pctl_event>>
poolVars   == <<children, running_children, globals_running, idle_spawn_rate>>
sbVars     == <<used, free_proc, stage>>
procVars   == <<child, wstate, wstatus, psig, aged, in_shutdown>>
envVars    == <<sigpipe, backlog, edge, budget>>
vars       == <<masterVars, poolVars, sbVars, procVars, envVars>>

PcSet == {"start", "loop", "bury", "maint", "make", "gone"}
States == {"normal", "reloading", "finishing", "terminating"}
Signals == {"QUIT", "TERM", "KILL"}
Live == {"newborn", "ready", "accepting", "accepted", "busy"}
Stages == {"zero", "accepting", "active", "finished"}
NoChild == [wp |-> 1, scoreboard_i |-> -1, idle_kill |-> FALSE]
NoMake == [wp |-> 1, max |-> 0, ret |-> "loop"]

Linked(wp) == Range(children[wp])
AllLinked == UNION {Linked(wp) : wp \in Pools}

MasterType ==
    /\ pc \in PcSet
    /\ cur \in Pools
    /\ mk \in [wp : Pools, max : Nat, ret : {"start", "bury", "maint", "loop"}]
    /\ fpm_state \in States
    /\ fpm_signal_sent \in Signals \cup {"none"}
    /\ pctl_event \in BOOLEAN

PoolType ==
    /\ children \in [Pools -> Seq(Pids)]
    /\ running_children \in [Pools -> Nat]
    /\ globals_running \in Nat
    /\ idle_spawn_rate \in [Pools -> {1, 2, 4, 8, 16, FPM_MAX_SPAWN_RATE}]

ScoreboardType ==
    /\ DOMAIN used = Pools /\ DOMAIN free_proc = Pools /\ DOMAIN stage = Pools
    /\ \A wp \in Pools :
          /\ used[wp] \subseteq Slots(wp)
          /\ free_proc[wp] \in Slots(wp)
          /\ stage[wp] \in [Slots(wp) -> Stages]

ProcType ==
    /\ child \in [Pids -> [wp : Pools, scoreboard_i : Int, idle_kill : BOOLEAN]]
    /\ wstate \in [Pids -> Live \cup {"zombie", "free"}]
    /\ wstatus \in [Pids -> {"exit", "TERM", "KILL", "SEGV"}]
    /\ psig \in [Pids -> SUBSET Signals]
    /\ aged \subseteq Pids /\ in_shutdown \subseteq Pids

EnvType ==
    /\ sigpipe \subseteq {"C", "T", "Q", "2"}
    /\ backlog \in [Pools -> Nat]
    /\ edge \in [Pools -> BOOLEAN]
    /\ budget \in [{"conn", "fault", "fork", "admin"} -> Nat]

\* The variables have their types: no counter of children goes below zero, and a pool's
\* slots, with the one that free_proc supposes free, are slots of its scoreboard.
TypeOK == MasterType /\ PoolType /\ ScoreboardType /\ ProcType /\ EnvType

Init ==
    /\ pc = "start" /\ cur = 1
    /\ mk = NoMake
    /\ fpm_state = "normal" /\ fpm_signal_sent = "none" /\ pctl_event = FALSE
    /\ children = [wp \in Pools |-> <<>>]
    /\ running_children = [wp \in Pools |-> 0] /\ globals_running = 0
    /\ idle_spawn_rate = [wp \in Pools |-> 1]
    /\ used = [wp \in Pools |-> {}] /\ free_proc = [wp \in Pools |-> 0]
    /\ stage = [wp \in Pools |-> [i \in Slots(wp) |-> "zero"]]
    /\ child = [p \in Pids |-> NoChild]
    /\ wstate = [p \in Pids |-> "free"] /\ wstatus = [p \in Pids |-> "exit"]
    /\ psig = [p \in Pids |-> {}] /\ aged = {} /\ in_shutdown = {}
    /\ sigpipe = {}
    /\ backlog = [wp \in Pools |-> 0] /\ edge = [wp \in Pools |-> FALSE]
    /\ budget = [conn |-> MaxConn, fault |-> MaxFault,
                 fork |-> MaxForkFail, admin |-> MaxAdmin]
--------------------------------------------------------------------------------
(* The scoreboard slots of a pool (fpm_scoreboard.c). *)

FreeSlots(wp) == Slots(wp) \ used[wp]

\* fpm_scoreboard_proc_alloc takes i: the slot supposed to be free, else the first free one.
Allocates(wp, i) ==
    /\ i \in FreeSlots(wp)
    /\ IF free_proc[wp] \in FreeSlots(wp) THEN i = free_proc[wp]
                                         ELSE \A j \in FreeSlots(wp) : i <= j

\* Where proc_alloc points free_proc once it has taken slot i.
NextFree(wp, i) == IF i + 1 >= pm_max_children[wp] THEN 0 ELSE i + 1

proc_alloc(wp, i) ==
    /\ used' = [used EXCEPT ![wp] = @ \cup {i}]
    /\ free_proc' = [free_proc EXCEPT ![wp] = NextFree(wp, i)]
    /\ UNCHANGED stage

\* Variant: the slot's memory is not cleared.
proc_free_keeps(wp, i) ==
    /\ free_proc' = [free_proc EXCEPT ![wp] = i]
    /\ UNCHANGED <<used, stage>>

proc_free(wp, i) ==
    /\ used' = [used EXCEPT ![wp] = @ \ {i}]
    /\ free_proc' = [free_proc EXCEPT ![wp] = i]
    /\ stage' = [stage EXCEPT ![wp][i] = "zero"]

--------------------------------------------------------------------------------
(* The list of children of a pool (fpm_children.c). *)

\* Variant: the global count is forgotten.
link_local(wp, p) ==
    /\ children' = [children EXCEPT ![wp] = <<p>> \o @]
    /\ running_children' = [running_children EXCEPT ![wp] = @ + 1]
    /\ UNCHANGED globals_running

link(wp, p) ==
    /\ children' = [children EXCEPT ![wp] = <<p>> \o @]
    /\ running_children' = [running_children EXCEPT ![wp] = @ + 1]
    /\ globals_running' = globals_running + 1

Without(s, p) ==
    LET k == CHOOSE i \in DOMAIN s : s[i] = p
    IN  [i \in 1..(Len(s) - 1) |-> IF i < k THEN s[i] ELSE s[i + 1]]

unlink(wp, p) ==
    /\ children' = [children EXCEPT ![wp] = Without(@, p)]
    /\ running_children' = [running_children EXCEPT ![wp] = @ - 1]
    /\ globals_running' = globals_running - 1

\* kill(2) on every process of a set: nothing is delivered to a zombie.
Kill(procs, sig) ==
    psig' = [p \in Pids |-> IF p \in procs /\ wstate[p] \in Live
                            THEN psig[p] \cup {sig} ELSE psig[p]]

--------------------------------------------------------------------------------
(* Process control (fpm_process_ctl.c). *)

\* Variant: only a terminating master stops forking.
can_spawn_unless_terminating == fpm_state # "terminating"

can_spawn_children == fpm_state = "normal"

\* The states that a new state may override.
Overrides(new) ==
    [reloading   |-> {"normal"},
     finishing   |-> {"normal", "reloading"},
     terminating |-> {"normal", "reloading", "finishing"}][new]

\* Variant: the last signal is SIGTERM.
NextSignalGentle(state, sent) ==
    IF sent = "none" /\ state # "terminating" THEN "QUIT" ELSE "TERM"

NextSignal(state, sent) ==
    CASE sent = "none" -> IF state = "terminating" THEN "TERM" ELSE "QUIT"
      [] sent = "QUIT" -> "TERM"
      [] OTHER         -> "KILL"

\* fpm_pctl_action_next when some child is left: signal all, remember what was sent.
SignalAll(state, sent, procs) ==
    /\ fpm_signal_sent' = NextSignal(state, sent)
    /\ Kill(procs, NextSignal(state, sent))

\* fpm_pctl(new, SET).  It runs outside the timer loop, so that fpm_pctl_timeout_set
\* does put pctl_event in the timer queue.  With no child left the master exits or
\* executes its new image.  n and procs are the children linked at the call.
pctl_set(new, n, procs, next) ==
    IF fpm_state \in Overrides(new)
    THEN /\ fpm_state' = new
         /\ IF n = 0
            THEN /\ pc' = "gone"
                 /\ fpm_signal_sent' = "none"
                 /\ UNCHANGED <<psig, pctl_event>>
            ELSE /\ pc' = next
                 /\ SignalAll(new, "none", procs)
                 /\ pctl_event' = TRUE
    ELSE /\ pc' = next
         /\ UNCHANGED <<fpm_state, fpm_signal_sent, psig, pctl_event>>

\* pctl_event fires.  fpm_pctl_timeout_set re-arms it while it is still queued, which
\* fpm_event_queue_add takes for "already there"; the event loop then deletes it.
TimerFires ==
    /\ pc = "loop" /\ pctl_event
    /\ pctl_event' = FALSE
    /\ IF globals_running = 0
       THEN pc' = "gone" /\ UNCHANGED <<fpm_signal_sent, psig>>
       ELSE SignalAll(fpm_state, fpm_signal_sent, AllLinked) /\ UNCHANGED pc
    /\ UNCHANGED <<cur, mk, fpm_state, poolVars, sbVars,
                   child, wstate, wstatus, aged, in_shutdown, envVars>>

\* fpm_got_signal, SIGTERM or SIGINT, SIGQUIT and SIGUSR2.
StateOf(c) ==
    CASE c = "T" -> "terminating" [] c = "Q" -> "finishing" [] c = "2" -> "reloading"

GotControlSignal(c) ==
    /\ pc = "loop" /\ c \in sigpipe \cap {"T", "Q", "2"}
    /\ sigpipe' = sigpipe \ {c}
    /\ pctl_set(StateOf(c), globals_running, AllLinked, "loop")
    /\ UNCHANGED <<cur, mk, poolVars, sbVars,
                   child, wstate, wstatus, aged, in_shutdown, backlog, edge, budget>>

\* fpm_got_signal, SIGCHLD: fpm_children_bury starts its waitpid loop.
GotSigchld ==
    /\ pc = "loop" /\ "C" \in sigpipe
    /\ sigpipe' = sigpipe \ {"C"}
    /\ pc' = "bury"
    /\ UNCHANGED <<cur, mk, fpm_state, fpm_signal_sent, pctl_event,
                   poolVars, sbVars, procVars, backlog, edge, budget>>

--------------------------------------------------------------------------------
(* Forking (fpm_children_make) and its callers' continuation. *)

\* The number of children up to which fpm_children_make forks in the event loop,
\* n being wp->running_children at the call.
MakeTarget(wp, n, nb_to_spawn) ==
    IF pm[wp] = "static" THEN pm_max_children[wp] ELSE n + nb_to_spawn

\* ... and before the event loop runs.
StartTarget(wp) ==
    CASE pm[wp] = "static"   -> pm_max_children[wp]
      [] pm[wp] = "dynamic"  -> pm_start_servers[wp]
      [] pm[wp] = "ondemand" -> 0

EnterMake(wp, max, ret) ==
    /\ pc' = "make"
    /\ mk' = [wp |-> wp, max |-> max, ret |-> ret]

\* A loop over all pools goes on with the next one, or ends.
NextPool(phase) ==
    IF cur < NPools THEN pc' = phase /\ cur' = cur + 1
                    ELSE pc' = "loop" /\ cur' = 1

\* The pool's first children.  An ondemand pool only registers its accept event.
CreateInitial ==
    /\ pc = "start"
    /\ EnterMake(cur, StartTarget(cur), "start")
    /\ UNCHANGED <<cur, fpm_state, fpm_signal_sent, pctl_event,
                   poolVars, sbVars, procVars, envVars>>

\* Variant: process.max is not looked at.
MayForkUnlimited(wp, max) == can_spawn_children /\ running_children[wp] < max

MayFork(wp, max) ==
    /\ can_spawn_children
    /\ running_children[wp] < max
    /\ process_max < 1 \/ globals_running < process_max

Fork(p) ==
    /\ pc = "make" /\ MayFork(mk.wp, mk.max)
    /\ wstate[p] = "free"
    /\ \E i \in Slots(mk.wp) :
          /\ Allocates(mk.wp, i)
          /\ proc_alloc(mk.wp, i)
          /\ child' = [child EXCEPT ![p] = [wp |-> mk.wp, scoreboard_i |-> i, idle_kill |-> FALSE]]
    /\ wstate' = [wstate EXCEPT ![p] = "newborn"]
    /\ link(mk.wp, p)
    /\ UNCHANGED <<masterVars, idle_spawn_rate, wstatus, psig, aged, in_shutdown, envVars>>

\* What the caller does with the value 2: fpm_run terminates, the others ignore it.
ReturnFailure ==
    IF mk.ret = "start"
    THEN /\ pctl_set("terminating", globals_running, AllLinked, "loop")
         /\ cur' = 1
    ELSE /\ IF mk.ret = "maint" THEN NextPool("maint") ELSE pc' = mk.ret /\ UNCHANGED cur
         /\ UNCHANGED <<fpm_state, fpm_signal_sent, psig, pctl_event>>

\* malloc, pipe or the scoreboard fails in fpm_resources_prepare.
PrepareFails ==
    /\ pc = "make" /\ MayFork(mk.wp, mk.max)
    /\ FreeSlots(mk.wp) # {} => budget["fork"] > 0
    /\ budget' = [budget EXCEPT !["fork"] = IF @ > 0 THEN @ - 1 ELSE 0]
    /\ mk' = NoMake
    /\ ReturnFailure
    /\ UNCHANGED <<poolVars, sbVars, child, wstate, wstatus, aged, in_shutdown,
                   sigpipe, backlog, edge>>

\* fork fails: fpm_resources_discard gives the slot back.
ForkFails ==
    /\ pc = "make" /\ MayFork(mk.wp, mk.max)
    /\ budget["fork"] > 0
    /\ budget' = [budget EXCEPT !["fork"] = @ - 1]
    /\ \E i \in Slots(mk.wp) :
          Allocates(mk.wp, i) /\ free_proc' = [free_proc EXCEPT ![mk.wp] = i]
    /\ mk' = NoMake
    /\ ReturnFailure
    /\ UNCHANGED <<poolVars, used, stage, child, wstate, wstatus, aged, in_shutdown,
                   sigpipe, backlog, edge>>

MakeDone ==
    /\ pc = "make" /\ ~MayFork(mk.wp, mk.max)
    /\ mk' = NoMake
    /\ IF mk.ret \in {"start", "maint"} THEN NextPool(mk.ret)
                                        ELSE pc' = mk.ret /\ UNCHANGED cur
    /\ UNCHANGED <<fpm_state, fpm_signal_sent, pctl_event,
                   poolVars, sbVars, procVars, envVars>>

--------------------------------------------------------------------------------
(* Burying (fpm_children_bury): one step for each zombie that waitpid returns. *)

\* Variant: a reaped child is replaced like any other.
RestartChildAlways(p) == wstatus[p] \in {"exit", "TERM", "KILL", "SEGV"}

\* A child that process management asked to quit is not replaced.
RestartChild(p) == ~(child[p].idle_kill /\ wstatus[p] = "exit")

Reap(p) ==
    /\ pc = "bury" /\ wstate[p] = "zombie"
    /\ unlink(child[p].wp, p)
    /\ proc_free(child[p].wp, child[p].scoreboard_i)
    /\ child' = [child EXCEPT ![p] = NoChild]
    /\ wstate' = [wstate EXCEPT ![p] = "free"]
    /\ wstatus' = [wstatus EXCEPT ![p] = "exit"]
    /\ aged' = aged \ {p}
    /\ in_shutdown' = in_shutdown \ {p}
    /\ UNCHANGED <<cur, idle_spawn_rate, envVars>>

\* fpm_pctl_child_exited: the last child of a stopping master.
BuryLast(p) ==
    /\ Reap(p)
    /\ fpm_state # "normal" /\ globals_running = 1
    /\ pc' = "gone"
    /\ UNCHANGED <<mk, fpm_state, fpm_signal_sent, pctl_event, psig>>

Stays == fpm_state = "normal" \/ globals_running # 1

\* The threshold of SIGSEGV and SIGBUS deaths is reached: a reload is initiated.
BuryEmergency(p) ==
    /\ Reap(p) /\ Stays
    /\ EmergencyRestart /\ wstatus[p] = "SEGV"
    /\ pctl_set("reloading", globals_running - 1, AllLinked \ {p}, "bury")
    /\ UNCHANGED mk

BuryRestart(p) ==
    /\ Reap(p) /\ Stays /\ RestartChild(p)
    /\ EnterMake(child[p].wp,
                 MakeTarget(child[p].wp, running_children[child[p].wp] - 1, 1), "bury")
    /\ UNCHANGED <<fpm_state, fpm_signal_sent, pctl_event, psig>>

BuryNoRestart(p) ==
    /\ Reap(p) /\ Stays /\ ~RestartChild(p)
    /\ UNCHANGED <<pc, mk, fpm_state, fpm_signal_sent, pctl_event, psig>>

BuryEnd ==
    /\ pc = "bury" /\ \A p \in Pids : wstate[p] # "zombie"
    /\ pc' = "loop"
    /\ UNCHANGED <<cur, mk, fpm_state, fpm_signal_sent, pctl_event,
                   poolVars, sbVars, procVars, envVars>>
--------------------------------------------------------------------------------
(* Idle-server maintenance, the accept event and the request timeouts. *)

\* fpm_request_is_idle: an unlocked read of the slot's request stage.
IsIdle(p) == stage[child[p].wp][child[p].scoreboard_i] = "accepting"

IdleAt(wp) == {i \in DOMAIN children[wp] : IsIdle(children[wp][i])}
idle(wp) == Cardinality(IdleAt(wp))

\* The idle child that was started first: the list is ordered newest first.
last_idle_child(wp) ==
    children[wp][CHOOSE i \in IdleAt(wp) : \A j \in IdleAt(wp) : j <= i]

\* The maintenance timer persists; it does nothing while the master is stopping.
MaintenanceStarts ==
    /\ pc = "loop" /\ can_spawn_children
    /\ pc' = "maint" /\ cur' = 1
    /\ UNCHANGED <<mk, fpm_state, fpm_signal_sent, pctl_event,
                   poolVars, sbVars, procVars, envVars>>

SetSpawnRate(wp, r) == idle_spawn_rate' = [idle_spawn_rate EXCEPT ![wp] = r]

\* idle_kill is set and SIGQUIT sent, whatever the child has begun since it was read.
QuitIdle(p) ==
    /\ child' = [child EXCEPT ![p].idle_kill = TRUE]
    /\ Kill({p}, "QUIT")

maintUnchanged == <<mk, fpm_state, fpm_signal_sent, pctl_event, children,
                    running_children, globals_running, sbVars,
                    wstate, wstatus, aged, in_shutdown, envVars>>

\* fpm_request_last_activity of the oldest idle child of an ondemand pool.
IdleTooLong(wp) == idle(wp) > 0 /\ last_idle_child(wp) \in aged

ReapOndemand ==
    /\ pc = "maint" /\ pm[cur] = "ondemand" /\ IdleTooLong(cur)
    /\ QuitIdle(last_idle_child(cur))
    /\ NextPool("maint")
    /\ UNCHANGED idle_spawn_rate /\ UNCHANGED maintUnchanged

MaintainNothing ==
    /\ pc = "maint" /\ pm[cur] # "dynamic"
    /\ pm[cur] = "ondemand" => ~IdleTooLong(cur)
    /\ NextPool("maint")
    /\ UNCHANGED <<idle_spawn_rate, child, psig>> /\ UNCHANGED maintUnchanged

ReapSpare ==
    /\ pc = "maint" /\ pm[cur] = "dynamic" /\ idle(cur) > pm_max_spare_servers[cur]
    /\ QuitIdle(last_idle_child(cur))
    /\ SetSpawnRate(cur, 1)
    /\ NextPool("maint")
    /\ UNCHANGED maintUnchanged

\* Enough spare children, or pm.max_children is reached.
KeepSpare ==
    /\ pc = "maint" /\ pm[cur] = "dynamic" /\ idle(cur) <= pm_max_spare_servers[cur]
    /\ \/ idle(cur) >= pm_min_spare_servers[cur]
       \/ running_children[cur] >= pm_max_children[cur]
    /\ SetSpawnRate(cur, 1)
    /\ NextPool("maint")
    /\ UNCHANGED <<child, psig>> /\ UNCHANGED maintUnchanged

MinOf(a, b) == IF a <= b THEN a ELSE b

children_to_fork(wp) ==
    MinOf(MinOf(idle_spawn_rate[wp], pm_min_spare_servers[wp] - idle(wp)),
          pm_max_children[wp] - running_children[wp])

SpawnSpare ==
    /\ pc = "maint" /\ pm[cur] = "dynamic"
    /\ idle(cur) < pm_min_spare_servers[cur]
    /\ running_children[cur] < pm_max_children[cur]
    /\ EnterMake(cur, MakeTarget(cur, running_children[cur], children_to_fork(cur)), "maint")
    /\ SetSpawnRate(cur, IF idle_spawn_rate[cur] < FPM_MAX_SPAWN_RATE
                         THEN 2 * idle_spawn_rate[cur] ELSE idle_spawn_rate[cur])
    /\ UNCHANGED <<cur, fpm_state, fpm_signal_sent, pctl_event, children, running_children,
                   globals_running, sbVars, procVars, envVars>>

\* fpm_pctl_on_socket_accept of an ondemand pool: one more child, unless the pool is
\* full or some child is idle and "will handle the connection".
OnSocketAccept(wp) ==
    /\ pc = "loop" /\ edge[wp]
    /\ edge' = [edge EXCEPT ![wp] = FALSE]
    /\ IF running_children[wp] >= pm_max_children[wp] \/ idle(wp) > 0
       THEN UNCHANGED <<pc, mk>>
       ELSE EnterMake(wp, MakeTarget(wp, running_children[wp], 1), "loop")
    /\ UNCHANGED <<cur, fpm_state, fpm_signal_sent, pctl_event, poolVars, sbVars,
                   procVars, sigpipe, backlog, budget>>

\* fpm_pctl_check_request_timeout: a request has run for request_terminate_timeout.
TerminateRequest(p) ==
    /\ pc = "loop" /\ RequestTerminate /\ p \in AllLinked
    /\ stage[child[p].wp][child[p].scoreboard_i] = "active"
    /\ Kill({p}, "TERM")
    /\ UNCHANGED <<masterVars, poolVars, sbVars, child, wstate, wstatus, aged, in_shutdown, envVars>>

--------------------------------------------------------------------------------
(* The worker: fpm_child_init, then the fastcgi loop of fpm_main.c. *)

\* A new request stage comes with a new time stamp.
SetStage(p, st) ==
    /\ stage' = [stage EXCEPT ![child[p].wp][child[p].scoreboard_i] = st]
    /\ aged' = aged \ {p}

Becomes(p, st) == wstate' = [wstate EXCEPT ![p] = st]

\* The process ends; the master is told by SIGCHLD.
Dies(p, status) ==
    /\ Becomes(p, "zombie")
    /\ wstatus' = [wstatus EXCEPT ![p] = status]
    /\ psig' = [psig EXCEPT ![p] = {}]
    /\ sigpipe' = sigpipe \cup {"C"}
    /\ UNCHANGED <<child, aged, in_shutdown>>

\* fpm_signals_init_child replaces the master's handlers.
WorkerInit(p) ==
    /\ wstate[p] = "newborn"
    /\ Becomes(p, "ready")
    /\ UNCHANGED <<masterVars, poolVars, sbVars, child, wstatus, psig, aged, in_shutdown, envVars>>

\* fcgi_accept_request reaches accept(): the slot now reads as idle.
WorkerWaits(p) ==
    /\ wstate[p] = "ready" /\ p \notin in_shutdown
    /\ Becomes(p, "accepting") /\ SetStage(p, "accepting")
    /\ UNCHANGED <<masterVars, poolVars, used, free_proc, child, wstatus, psig,
                   in_shutdown, envVars>>

WorkerAccepts(p) ==
    /\ wstate[p] = "accepting" /\ p \notin in_shutdown
    /\ backlog[child[p].wp] > 0
    /\ backlog' = [backlog EXCEPT ![child[p].wp] = @ - 1]
    /\ Becomes(p, "accepted")
    /\ UNCHANGED <<masterVars, poolVars, sbVars, child, wstatus, psig, aged, in_shutdown,
                   sigpipe, edge, budget>>

\* pm_process_idle_timeout goes by.  It is at least a second, far more than a worker
\* takes to accept a connection that is waiting.
WorkerAges(p) ==
    /\ wstate[p] = "accepting" /\ p \notin aged
    /\ pm[child[p].wp] = "ondemand" /\ backlog[child[p].wp] = 0
    /\ aged' = aged \cup {p}
    /\ UNCHANGED <<masterVars, poolVars, sbVars, child, wstate, wstatus, psig,
                   in_shutdown, envVars>>

\* Data arrives on the connection: on_read marks the slot as active.
WorkerReads(p) ==
    /\ wstate[p] = "accepted"
    /\ Becomes(p, "busy") /\ SetStage(p, "active")
    /\ UNCHANGED <<masterVars, poolVars, used, free_proc, child, wstatus, psig,
                   in_shutdown, envVars>>

\* The request is over, or nothing came and the connection is closed.
WorkerFinishes(p) ==
    /\ wstate[p] \in {"accepted", "busy"}
    /\ Becomes(p, "ready") /\ SetStage(p, "finished")
    /\ UNCHANGED <<masterVars, poolVars, used, free_proc, child, wstatus, psig,
                   in_shutdown, envVars>>

\* fcgi_accept_request returns -1 once it has been told to stop.
WorkerQuits(p) ==
    /\ wstate[p] \in {"ready", "accepting"} /\ p \in in_shutdown
    /\ Dies(p, "exit")
    /\ UNCHANGED <<masterVars, poolVars, sbVars, backlog, edge, budget>>

\* The worker has served pm.max_requests requests.
WorkerRetires(p) ==
    /\ MaxRequests /\ wstate[p] = "busy"
    /\ Dies(p, "exit")
    /\ stage' = [stage EXCEPT ![child[p].wp][child[p].scoreboard_i] = "finished"]
    /\ UNCHANGED <<masterVars, poolVars, used, free_proc, backlog, edge, budget>>

\* fpm_child_init fails and the child exits.
WorkerInitFails(p) ==
    /\ wstate[p] = "newborn" /\ budget["fault"] > 0
    /\ Dies(p, "exit")
    /\ budget' = [budget EXCEPT !["fault"] = @ - 1]
    /\ UNCHANGED <<masterVars, poolVars, sbVars, backlog, edge>>

WorkerFaults(p) ==
    /\ wstate[p] \in Live /\ budget["fault"] > 0
    /\ Dies(p, "SEGV")
    /\ budget' = [budget EXCEPT !["fault"] = @ - 1]
    /\ UNCHANGED <<masterVars, poolVars, sbVars, backlog, edge>>
--------------------------------------------------------------------------------
(* Signal delivery and the environment. *)

\* Before fpm_signals_init_child a child still has the master's sig_handler, which
\* returns at once in a process that is not the master: the signal is lost.
SignalIgnored(p, s) ==
    /\ wstate[p] = "newborn" /\ s \in psig[p] \ {"KILL"}
    /\ psig' = [psig EXCEPT ![p] = @ \ {s}]
    /\ UNCHANGED <<masterVars, poolVars, sbVars, child, wstate, wstatus, aged, in_shutdown, envVars>>

\* Variant: the listening socket is closed but the fastcgi layer is not told.
SoftQuitUntold(p) ==
    /\ wstate[p] \in Live \ {"newborn"} /\ "QUIT" \in psig[p]
    /\ psig' = [psig EXCEPT ![p] = @ \ {"QUIT"}]
    /\ UNCHANGED <<masterVars, poolVars, sbVars, child, wstate, wstatus, aged, in_shutdown, envVars>>

\* sig_soft_quit.
SoftQuit(p) ==
    /\ wstate[p] \in Live \ {"newborn"} /\ "QUIT" \in psig[p]
    /\ psig' = [psig EXCEPT ![p] = @ \ {"QUIT"}]
    /\ in_shutdown' = in_shutdown \cup {p}
    /\ UNCHANGED <<masterVars, poolVars, sbVars, child, wstate, wstatus, aged, envVars>>

\* SIGTERM has its default action in an initialised worker, SIGKILL always.
SignalKills(p, s) ==
    /\ wstate[p] \in (IF s = "KILL" THEN Live ELSE Live \ {"newborn"})
    /\ s \in psig[p] \cap {"TERM", "KILL"}
    /\ Dies(p, s)
    /\ UNCHANGED <<masterVars, poolVars, sbVars, backlog, edge, budget>>

Connect(wp) ==
    /\ pc # "gone" /\ budget["conn"] > 0
    /\ budget' = [budget EXCEPT !["conn"] = @ - 1]
    /\ backlog' = [backlog EXCEPT ![wp] = @ + 1]
    /\ edge' = [edge EXCEPT ![wp] = pm[wp] = "ondemand"]
    /\ UNCHANGED <<masterVars, poolVars, sbVars, procVars, sigpipe>>

\* sig_handler writes one character to the signal pipe.
AdminSignal(c) ==
    /\ pc # "gone" /\ budget["admin"] > 0
    /\ budget' = [budget EXCEPT !["admin"] = @ - 1]
    /\ sigpipe' = sigpipe \cup {c}
    /\ UNCHANGED <<masterVars, poolVars, sbVars, procVars, backlog, edge>>

--------------------------------------------------------------------------------
Handler ==
    \/ TimerFires \/ GotSigchld \/ MaintenanceStarts
    \/ \E c \in {"T", "Q", "2"} : GotControlSignal(c)
    \/ \E wp \in Pools : OnSocketAccept(wp)
    \/ \E p \in Pids : TerminateRequest(p)

\* The steps of a handler that has begun.
Make == PrepareFails \/ ForkFails \/ MakeDone \/ \E p \in Pids : Fork(p)

Bury ==
    BuryEnd \/ \E p \in Pids : BuryLast(p) \/ BuryEmergency(p) \/ BuryRestart(p) \/ BuryNoRestart(p)

Maintain == ReapOndemand \/ MaintainNothing \/ ReapSpare \/ KeepSpare \/ SpawnSpare

Worker(p) ==
    \/ WorkerInit(p) \/ WorkerWaits(p) \/ WorkerAccepts(p) \/ WorkerReads(p)
    \/ WorkerFinishes(p) \/ WorkerQuits(p) \/ WorkerRetires(p) \/ WorkerFaults(p)
    \/ WorkerAges(p) \/ WorkerInitFails(p)

Deliver(p) == SoftQuit(p) \/ \E s \in Signals : SignalIgnored(p, s) \/ SignalKills(p, s)

Environment ==
    \/ \E wp \in Pools : Connect(wp)
    \/ \E c \in {"T", "Q", "2"} : AdminSignal(c)

Next ==
    \/ CreateInitial \/ Make \/ Bury \/ Maintain \/ Handler
    \/ \E p \in Pids : Worker(p) \/ Deliver(p)
    \/ Environment

Spec == Init /\ [][Next]_vars

\* Every iteration of the event loop polls the signal pipe and the listening sockets
\* and then walks the timers, so that a handler which stays due is run even though
\* others run in between; a handler that has begun goes on; workers and signal
\* delivery are scheduled by the kernel.  A request need not end.
Fairness ==
    /\ WF_vars(CreateInitial) /\ WF_vars(Make) /\ WF_vars(Bury) /\ WF_vars(Maintain)
    /\ SF_vars(TimerFires) /\ SF_vars(GotSigchld) /\ SF_vars(MaintenanceStarts)
    /\ \A c \in {"T", "Q", "2"} : SF_vars(GotControlSignal(c))
    /\ \A wp \in Pools : SF_vars(OnSocketAccept(wp))
    /\ \A p \in Pids :
          /\ WF_vars(WorkerInit(p)) /\ WF_vars(WorkerWaits(p)) /\ WF_vars(WorkerQuits(p))
          /\ WF_vars(WorkerAccepts(p))
          /\ WF_vars(WorkerReads(p) \/ (wstate[p] = "accepted" /\ WorkerFinishes(p)))
          /\ WF_vars(Deliver(p))

\* Requests end, and idle time goes by.
RequestsEnd ==
    \A p \in Pids : WF_vars(WorkerFinishes(p) \/ WorkerRetires(p)) /\ WF_vars(WorkerAges(p))

FairSpec == Spec /\ Fairness
ServingSpec == FairSpec /\ RequestsEnd

--------------------------------------------------------------------------------
(* Properties. *)

\* No pool ever has more children than pm.max_children, and all pools together no
\* more than process.max, whichever handler forks (fpm_children_make is called at
\* start-up, by bury, by maintenance and by the accept event).
Capacity ==
    /\ \A wp \in Pools : running_children[wp] <= pm_max_children[wp]
    /\ process_max > 0 => globals_running <= process_max

\* Two children of a pool never share a scoreboard slot, and the slots in use are
\* those of the linked children: none leaks when a child dies or a fork fails.
SlotsOwned ==
    \A wp \in Pools :
        /\ used[wp] = {child[p].scoreboard_i : p \in Linked(wp)}
        /\ \A p, q \in Linked(wp) : child[p].scoreboard_i = child[q].scoreboard_i => p = q

\* "no free scoreboard slot" (fpm_scoreboard_proc_alloc) is never logged.
SlotAvailable == pc = "make" /\ MayFork(mk.wp, mk.max) => FreeSlots(mk.wp) # {}

\* The processes that exist are exactly the children in the pools' lists, each once:
\* bury never meets an "unknown child" and no signal goes to a reaped pid.
NoUnknownChild ==
    /\ \A p \in Pids : wstate[p] # "free" <=> p \in AllLinked
    /\ \A wp \in Pools : running_children[wp] = Cardinality(Linked(wp))
    /\ globals_running = Cardinality(AllLinked)

\* No child is listed twice or in another pool's list, and there are as many slots in
\* use as children.
Listed ==
    /\ \A wp \in Pools :
          /\ \A i, j \in DOMAIN children[wp] : children[wp][i] = children[wp][j] => i = j
          /\ \A p \in Linked(wp) : child[p].wp = wp
          /\ IsFiniteSet(Linked(wp)) /\ IsFiniteSet(used[wp])
          /\ Cardinality(used[wp]) = running_children[wp]
    /\ IsFiniteSet(AllLinked)

\* What ties a pool's list, its counter, its slots and a fork in progress together, and
\* makes the invariants around it inductive: fpm_child_link, unlink and the scoreboard
\* agree, and no caller of fpm_children_make asks for more than pm.max_children.
Bookkeeping == Listed /\ mk.max <= pm_max_children[mk.wp]

\* The master exits or executes its new image only when no worker is left.
NoOrphan == pc = "gone" => \A p \in Pids : wstate[p] = "free"

\* Once the master leaves the normal state it forks no more: children only go.
DrainOnly == [][fpm_state # "normal" => AllLinked' \subseteq AllLinked]_vars

\* A master told to terminate does end: SIGTERM is followed by SIGKILL, and the
\* death of the last child ends the master.
TerminateCompletes == fpm_state = "terminating" ~> pc = "gone"

\* Once requests and faults have ceased, a dynamic pool settles with its idle children
\* between pm.min_spare_servers and pm.max_spare_servers, however many newborn, quitting
\* or dead children maintenance miscounts on the way.
SpareConverges ==
    \A wp \in Pools : pm[wp] = "dynamic" =>
        <>[](fpm_state = "normal" =>
             idle(wp) \in pm_min_spare_servers[wp]..pm_max_spare_servers[wp])

\* A child that process management chose to reap is gone in the end, also when it
\* has accepted a connection before SIGQUIT reached it.
ReapCompletes == \A p \in Pids : child[p].idle_kill ~> ~child[p].idle_kill

\* Once clients have gone, an ondemand pool gets rid of all its children, also of those
\* that replaced a child which retired or whose request was terminated.
OndemandReaped ==
    \A wp \in Pools : pm[wp] = "ondemand" =>
        <>[](fpm_state = "normal" => running_children[wp] = 0)

\* Claim of php-fpm.8: SIGQUIT is a "graceful stop" and SIGUSR2 a "graceful reload of all
\* workers"; fpm_pctl_action_next escalates to SIGKILL so that either ends.
GracefulCompletes ==
    fpm_state \in {"finishing", "reloading"} ~> pc = "gone" \/ fpm_state = "terminating"

\* Claim of fpm_pctl_on_socket_accept: when some child is idle "it will handle the
\* connection", so that a connection to an ondemand pool does not wait for another.
OndemandServed ==
    \A wp \in Pools : pm[wp] = "ondemand" =>
        (backlog[wp] > 0 ~> backlog[wp] = 0 \/ fpm_state # "normal")

\* Claim of www.conf: a static pool has "a fixed number (pm.max_children) of child
\* processes", so that it is brought back to that number after a child has died.
StaticRestored ==
    \A wp \in Pools : pm[wp] = "static" =>
        (running_children[wp] < pm_max_children[wp]
            ~> running_children[wp] = pm_max_children[wp] \/ fpm_state # "normal")

\* What the master shows of itself as a supervisor of its workers.
Phase == IF pc = "gone" THEN "gone" ELSE IF fpm_state = "normal" THEN "up" ELSE "draining"
Workers == [wp \in Pools |-> Linked(wp)]

Supervisor == INSTANCE FpmSupervisor WITH
    Limit <- pm_max_children, Total <- process_max, phase <- Phase, workers <- Workers

\* Forking, burying and stopping implement FpmSupervisor: limits, no spawn once the
\* master is stopping, and no worker left when it exits or executes its new image.
Supervises == Supervisor!SSpec
================================================================================
