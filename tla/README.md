# A TLA+ verification project for php-fpm

The repository (`src/`) is a collection of learning material. The only large concurrent
program in it is PHP 7.2.2, and in PHP the part whose correctness rests on a protocol
between processes is **php-fpm** (`src/php-7.2.2/sapi/fpm/fpm`): a master that forks,
counts, signals and buries workers, while the workers accept connections, write their
state into shared memory and die at any moment. This project models php-fpm.

## 1. Inventory

| part | state | operations | interacts with | what is hard |
|---|---|---|---|---|
| children of a pool (`fpm_children.c`, `fpm_worker_pool.c`) | list of children, two counters, ring of fault times | link, unlink, make (fork), bury, create_initial | scoreboard, process control, kernel | fork and pipe fail half-way; a child dies at any step; the emergency reload starts inside the bury loop |
| process control (`fpm_process_ctl.c`, `fpm.c`) | `fpm_state`, `fpm_signal_sent`, timer `pctl_event`, `idle_spawn_rate` | set a state, escalate signals, maintenance, accept event, request timeouts | children, events, scoreboard | signals in any order, decisions on stale request stages, a timer re-armed from its own callback |
| scoreboard (`fpm_scoreboard.c`, `fpm_atomic.h`) | slots (`used`, `free_proc`, `request_stage`), spin locks, idle/active counters | proc_alloc, proc_free, acquire, release, update | every process of a pool | wrap-round, a lock held by a process that is killed, counters clamped at zero |
| request stages (`fpm_request.c`) | stage and time stamps of a slot | accepting ... finished, is_idle, check_timed_out | scoreboard | unlocked reads by the master |
| signals (`fpm_signals.c`) | signal pipe, handlers | sig_handler, init_main, init_child, soft_quit | kernel, events | a newborn child with the master's handlers |
| worker (`fpm_main.c`, `main/fastcgi.c`) | `in_shutdown`, the connection | accept, read, finish, quit, retire | listening socket | SIGQUIT between accept and read |
| event loop (`fpm_events.c`) | queues of fd and timer events | add, del, fire, loop | all handlers | a callback that deletes or re-adds events |
| event back ends (`events/*.c`) | pollfd table, epoll set | add, remove, wait | event loop | the index an event remembers; events freed within a batch |
| worker output (`fpm_stdio.c`) | two pipes and events per child | prepare, parent_use, child_said, discard | events, children | a callback that deletes its own event |
| status page (`fpm_status.c`) | none | copy of the scoreboard | scoreboard | unlocked copies |
| configuration (`fpm_conf.c`) | pool limits | validation | all | the limits every bound rests on |
| sockets, environment, logs, tracing, systemd | none that is shared | set-up, formatting | - | sequential |
| Zend engine, TSRM, opcache, extensions, other SAPIs | large | - | - | see section 8 |
| book examples (Hadoop, HBase, unpv13, Docker, matplotlib) | - | - | - | a page of sequential code each |

`PROJECT.json` lists the hazards of this code at the line where each one bites, with the
properties that would catch it.

## 2. Plan

1. **FpmMaster** (done): master, pools, slots, workers, signals, ondemand accept;
   **FpmSupervisor** (done): what the master promises; **FpmMasterProofs** (done).
2. **FpmPoll** (done, without proofs): the pollfd table of `events/poll.c` and the events of
   `fpm_stdio.c`.
3. **FpmScoreboard**: the spin locks, stages and counters, with workers killed at any step.
4. **FpmEvents**: the doubly linked queues of `fpm_events.c` with callbacks that add and
   delete while the queue is walked, against an abstract set of events.
5. **FpmFaults**: the ring of fault times of `fpm_children_bury` against the history of
   faults it stands for, to replace the nondeterministic choice in FpmMaster.
6. **Fastcgi**: keep-alive connections and `in_shutdown` in `main/fastcgi.c`.
7. Outside php-fpm: the restart protocol of opcache's shared memory, `zend_signal.c`, the
   root buffer of `zend_gc.c`.
8. Proofs: invariants of the modules of 2 to 5.

## 3. Modules

| module | what it is |
|---|---|
| `FpmMaster` | php-fpm's master and its workers as one specification, with its properties |
| `FpmSupervisor` | abstract: pools with limits, a phase (up, draining, gone), spawn and leave |
| `MCFpmMaster` | values of the constants for TLC |
| `FpmMasterProofs` | the inductive invariant, its proof, and the refinement of FpmSupervisor |
| `FpmPoll` | the output of workers on the poll() back end: table, event queue, pipes |
| `MCFpmPoll` | its values of the constants for TLC |

### FpmMaster

*State.* `pc` says where the master's only thread is: before its event loop (`start`), in it
(`loop`), inside `fpm_children_bury` (`bury`), maintenance (`maint`), `fpm_children_make`
(`make`, with `mk` its pool, its target and where it returns), or ended (`gone`: exited or
executing its new image). `children`, `running_children`, `globals_running`,
`idle_spawn_rate`, `fpm_state`, `fpm_signal_sent` are the variables of the same names;
`used`, `free_proc` and `stage` are the scoreboard; `child[p]` is `struct fpm_child_s`;
`wstate`, `wstatus`, `psig` are what the kernel knows of a process; `backlog` and `edge`
are the listening sockets and the edge-triggered event of ondemand pools.

*Granularity.* A handler is entered at `pc = "loop"`. Handlers that fork or bury take one step
per child, so that workers, signals and connections interleave with them. Maintenance of
one pool is one step (then a `make` loop if it forks): it reads request stages without
locks, and reading them at one instant is one of the orders the program may see.

*Abstractions.*
- The signal pipe is a set of characters: order and duplicates are dropped. Every order is
  possible in the model, and a second SIGCHLD adds nothing to a waitpid loop.
- The oldest idle child is the last idle one of the newest-first list (ties of the start
  time are ignored).
- Whether a fault reaches `emergency_restart_threshold` is a choice.
- Time is abstract: a timer in the queue may fire, a request may exceed its timeout. An idle
  child becomes `aged` only while nothing waits on the socket: the idle timeout is at least a second.
- A kept-alive connection counts as one request. SIGINT is SIGTERM. SIGUSR1, the slow log, the
  tracer branch and warnings are left out.
- `children_to_fork <= 0` and "no free scoreboard slot" are unreachable; the second is a theorem.

*Environment.* `MaxConn`, `MaxFault`, `MaxForkFail` and `MaxAdmin` bound the connections, the
faults, the failures of malloc, pipe and fork, and the administrator's signals of a behaviour.

### FpmSupervisor

Two variables: `phase` and the set of workers of each pool. Workers are spawned only while
the phase is `up` and below both limits, they leave at any time, `draining` is never left except to
`gone`, and `gone` is reached only with no worker. FpmMaster implements it with
`phase` read off `pc` and `fpm_state`, and `workers` off the lists.

### FpmPoll

A model of its own, on the side of FpmMaster: it takes from it that a pool never exceeds
pm.max_children, and leaves out everything of the master that does not touch descriptors.

*State.* `reg` is the registration state that one handler may change several times: the slots
of `pollfds`, `next_free_slot`, the queue (newest first, as `fpm_event_queue_add` builds it),
the index of each event and the pipes that are open. `worker`, `said` and `sigpipe` are the processes, what they wrote and the
signal pipe. `pc` and `q` say where the master is: start-up, timers, the walk of
`fpm_event_poll_wait` at event `q`, `fpm_children_bury`, `fpm_children_make`. `active` is the copy
of the table that poll() filled in before the walk.

*Actions.* Fork, EnterLoop, Poll, one visit of the walk (Skip, Read, ReadEnd, GotSignal), Bury,
Made, Buried; workers Say and Die between any two of them. The functions of `poll.c` are operators on
`reg` with the same branches, the search and its index included. After ReadEnd the code reads `q->next` from the element it
has freed; the model takes every outcome: the old value, the end of the list, a wild pointer (after which
the master does nothing).

*Abstractions.* A descriptor is named by its event; names are used again by the next child, as descriptors are.
Linux reports the end of an empty pipe as POLLHUP only, other systems also as POLLIN: both are taken. No descendant of a
worker is assumed to keep its pipes open. `catch_workers_output` is on, and the pool is not ondemand, which poll() does not support.

*Properties.* Polled (table and queue agree whatever the index says, and the table is never too
small), NoDangling (no event of a freed child is queued), DeathHeard (no death is missed, and the signal event itself keeps the right index).

## 4. Runs

All runs of FpmMaster say `CHECK_DEADLOCK FALSE`: the master may exit, after which nothing happens.

| run | instance | checks | result |
|---|---|---|---|
| `dynamic` | 1 dynamic pool of 2, spare 1..1; one connection, fault, failed fork, control signal | TypeOK, SlotsOwned, NoUnknownChild, Bookkeeping, NoOrphan, DrainOnly | holds, 369431 states |
| `terminate` | 1 static pool of 2; two control signals | TerminateCompletes | holds, 33012 states |
| `spare` | 1 dynamic pool of 2; one connection, fault, failed fork | SpareConverges, ReapCompletes | holds, 15836 states |
| `ondemand` | 1 ondemand pool of 2; two connections, request termination, max_requests | OndemandReaped | holds, 10690 states |
| `pools` | static (1) and dynamic (2) pools, process.max 2, three pids | Capacity | holds, 6495 states |
| `emergency` | 1 static pool of 2; two faults, emergency reload, failed fork, control signal | SlotAvailable, Supervises | holds, 37020 states |
| `graceful` | 1 static pool; one SIGQUIT or SIGUSR2 | GracefulCompletes | **violated** |
| `ondemand_wakeup` | 1 ondemand pool of 2, two connections | OndemandServed | **violated** |
| `static_restore` | 1 static pool; one death, one failed fork | StaticRestored | **violated** |
| `poll` | 2 children, symmetric; unlimited writes, deaths and forks | TypeOK, Polled, NoDangling, DeathHeard | holds, 3629653 states |
| `poll_index` | the same | PlaceRemembered | **violated** |

The runs of FpmPoll say `CHECK_DEADLOCK FALSE` because of the wild pointer. They have no counters, so that nothing
but the number of children is bounded; two are enough for a slot of a dead child to lie before, between and behind taken ones.

*Bounds.* Two processes per pool are enough for slots to be shared or leaked, for one child to die
while another is forked, and for the oldest idle child to differ from the newest. Two pools are
needed only where they meet, in process.max. A third pid lets a child be forked while two are
zombies. One event of each kind already meets every step of every handler; two
control signals are needed for one state to override another, two faults for a fault
during an emergency reload, two connections for an idle child to be taken by the other
connection. The proofs of section 6 do not depend on any bound.

*Symmetry* over the pids is used only in runs without liveness properties.

Each property also comes with a mutant in `PROJECT.json`: a variant of one definition, as a
plausible mistake in the code would change it, under which TLC reports that property.

## 5. Fairness

`Fairness` assumes: the master goes on with a handler it has begun (weak fairness); a handler that
is due again and again is run (strong fairness), because each iteration of
`fpm_event_loop` polls all descriptors and then walks all timers, whatever else was due; workers
run and signals are delivered (the kernel). A request need not end. `ServingSpec` adds
that requests end and that idle time passes; it is used where the promise is about the load
having gone (SpareConverges, ReapCompletes, OndemandReaped, OndemandServed, StaticRestored).

## 6. Proofs

`FpmMasterProofs` proves, for any number of pools and processes and every configuration that
satisfies `ConfigAssumption` (the checks of `fpm_conf.c`): TypeOK, Capacity, SlotsOwned,
SlotAvailable, NoUnknownChild, Bookkeeping, NoOrphan, DrainOnly and the refinement of FpmSupervisor.

The inductive invariant is

    IInv == TypeOK /\ Lists /\ Capacity /\ mk.max <= pm_max_children[mk.wp]
                   /\ (pc = "gone" => globals_running = 0)

- `Lists` joins SlotsOwned, NoUnknownChild and Listed. None is inductive alone: that
  `running_children` counts the list needs that no pid is on it twice, which needs
  that a free pid is on no list, which needs that unlinking removes exactly one entry.
- `mk.max <= pm_max_children` carries the limit across the steps of a `make` loop: the target was
  computed from a counter when the loop was entered.
- SlotAvailable is a counting argument: as many slots in use as children, fewer children
  than pm.max_children, so some slot is free. This is where FiniteSetTheorems are used.
- `gone => globals_running = 0` gives NoOrphan through NoUnknownChild.

The proof has one lemma per group of actions for the types, one for the lists (a step that
neither links nor unlinks, Fork, Reap), one for the limits; the refinement uses that only Fork and
Reap change the lists and that nothing leads back to the normal state.

Only model-checked: every liveness property (fairness is outside the prover's reach), and FpmPoll.

## 7. Findings

- `graceful`: **a graceful stop or reload can hang.** `fpm_pctl_timeout_set` runs in the callback of
  the very timer it re-arms. The event is still queued, so `fpm_event_queue_add` leaves it, and
  `fpm_event_loop` deletes it after the callback. The escalation ends after its second
  signal: SIGQUIT, SIGTERM, and no SIGKILL. A child that was newborn when both came has
  ignored them (`sig_handler` returns in a process that is not the master) and goes on serving.
  `terminate` shows why SIGTERM is not affected: its second signal is SIGKILL.
- `ondemand_wakeup`: **a connection to an ondemand pool can wait for ever** although the pool is below its limit, because
  the idle child on which `fpm_pctl_on_socket_accept` relies takes another connection or is reaped.
- `static_restore`: **a static pool can stay short of a child** after a failed fork.
- `poll_index`: **the output of a replaced worker is not read** on the poll() back end. A worker forked at start-up has slots
  n and n+1; slot n+2 belongs to the next worker or to the signal pipe. When it is replaced, the new
  stdout takes slot n+1, the new stderr finds n+2 taken and is put into slot n by the search, but its
  index is set to n+2. `fpm_event_poll_wait` then never recognises it. `poll` shows what is not affected: removal, which falls back to a search.

## 8. Not modelled

Formatting, logging, set-up of sockets and users, reading of configuration files, and ptrace: sequential, or input/output.
The Zend engine's compiler and virtual machine are generated or far beyond TLC; parts with a
protocol of their own (opcache, `zend_signal.c`, `zend_gc.c`) are in the plan. The extensions are libraries, many of them bundled third-party code.
The book examples have no state worth a model.
