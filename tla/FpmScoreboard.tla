----------------------------- MODULE FpmScoreboard -----------------------------
(***************************************************************************)
(* The shared memory of a php-fpm pool, step by step: the pool's counters  *)
(* and the slots of its workers, each under a spin lock that is a word of  *)
(* the same memory (fpm_scoreboard.c, fpm_atomic.h, fpm_request.c,         *)
(* fpm_status.c), with the master's maintenance and its check of request   *)
(* timeouts (fpm_process_ctl.c).  A worker may be killed between any two   *)
(* of its steps, and nothing releases a lock but the code that took it.    *)
(*                                                                         *)
(* FpmMaster takes these operations for atomic.  Here the pool is fixed: a *)
(* slot belongs to one worker after another.                               *)
(***************************************************************************)
EXTENDS Integers, FiniteSets

CONSTANTS
  Workers,       \* the slots of the pool, pm.max_children of them
  MaxRequests,   \* bound: connections, and further requests on one, in a behaviour
  MaxKills,      \* bound: workers killed by something other than the master
  Terminate,     \* request_terminate_timeout is set
  Slowlog,       \* request_slowlog_timeout is set
  MayStop        \* the administrator may send SIGTERM to the master

ASSUME ScoreboardAssumption ==
  /\ IsFiniteSet(Workers) /\ Workers # {}
  /\ MaxRequests \in Nat /\ MaxKills \in Nat
  /\ {Terminate, Slowlog, MayStop} \subseteq BOOLEAN

\* enum fpm_request_stage_e; FPM_REQUEST_END is never set.
Stages == {"accepting", "reading", "info", "executing", "finished"}
InService == {"reading", "info", "executing"}

VARIABLES
  pool,      \* struct fpm_scoreboard_s: lock, idle, active, active_max, requests
  slot,      \* struct fpm_scoreboard_proc_s of each worker: lock, used, stage, accepted
  fn,        \* the function of fpm_request.c that a worker is in, or left last
  at,        \* how far it is
  reg,       \* what a worker has loaded from the pool's counters
  mpc,       \* where the master is
  todo,      \* the children that its loop has still to visit
  seen,      \* its counts of idle and active children
  copy,      \* its copy of a slot, in fpm_request_check_timed_out
  visiting,  \* the child that it visits
  sigterm,   \* SIGTERM waits in the signal pipe
  doomed,    \* workers to which the master sent SIGTERM
  trace,     \* of each child: tracer, and slow_logged against the request in service
  attached,  \* workers to which the master has attached with ptrace
  stopped,   \* workers that the attachment has stopped
  counted,   \* requests whose update of the pool is complete
  requests, kills   \* how much of the bounds is used

vars == <<pool, slot, fn, at, reg, mpc, todo, seen, copy, visiting, sigterm, doomed,
          trace, attached, stopped, counted, requests, kills>>
worker == <<fn, at, reg>>
master == <<mpc, todo, seen, copy, visiting>>
tracing == <<attached, stopped>>
signals == <<sigterm, doomed>>
bounds == <<requests, kills>>

\* What memset leaves in a slot.  The time of acceptance is "zero", that of the
\* request being served ("current"), or that of an earlier one ("old").
Cleared == [lock |-> 0, used |-> FALSE, stage |-> "none", accepted |-> "zero"]

\* A slot after fpm_scoreboard_proc_alloc and fpm_scoreboard_child_use.
Allocated == [lock |-> 0, used |-> TRUE, stage |-> "none", accepted |-> "zero"]

NoWorker == "nobody"
Counts == [idle |-> 0, active |-> 0, requests |-> 0]
Untraced == [tracer |-> FALSE, slow_logged |-> "none", times |-> 0]

Init ==
  /\ pool = [lock |-> 0, idle |-> 0, active |-> 0, active_max |-> 0, requests |-> 0]
  /\ slot = [w \in Workers |-> Allocated]
  /\ fn = [w \in Workers |-> "born"]
  /\ at = [w \in Workers |-> "out"]
  /\ reg = [w \in Workers |-> Counts]
  /\ mpc = "loop"
  /\ todo = {}
  /\ seen = Counts
  /\ copy = Cleared
  /\ visiting = NoWorker
  /\ sigterm = FALSE
  /\ doomed = {}
  /\ trace = [w \in Workers |-> Untraced]
  /\ attached = {}
  /\ stopped = {}
  /\ counted = 0
  /\ requests = 0
  /\ kills = 0

--------------------------------------------------------------------------------
(* Workers. *)

\* The functions of fpm_request.c that may be called next by the loop of fpm_main.c and
\* by fcgi_accept_request.  An accept that is interrupted, or whose client may not
\* connect, is tried again; a connection that stays silent, or whose request cannot be
\* read, is closed (finished); one whose request ends may stay open, and the next
\* request is then read without accepting.
Follows(f) ==
  CASE f \in {"born", "finished"} -> {"accepting"}
    [] f = "accepting" -> {"accepting", "reading", "finished"}
    [] f = "reading"   -> {"info", "finished"}
    [] f = "info"      -> {"executing", "end"}
    [] f \in {"executing", "status"} -> {"end"}
    [] f = "end"       -> {"finished", "reading"}

\* fpm_scoreboard_proc_acquire: spins until the lock of its own slot is free.
ProcAcquire(w) ==
  /\ at[w] = "out"
  /\ slot[w].lock = 0
  /\ \E f \in Follows(fn[w]) :
       /\ IF fn[w] = "accepting" \/ f = "reading"
            THEN requests < MaxRequests /\ requests' = requests + 1
            ELSE UNCHANGED requests
       /\ fn' = [fn EXCEPT ![w] = f]
  /\ slot' = [slot EXCEPT ![w].lock = 1]
  /\ at' = [at EXCEPT ![w] = "stage"]
  /\ UNCHANGED <<pool, reg, master, trace, tracing, signals, counted, kills>>

\* The stage is written.  With a new request, every copy of the time at which the one
\* before it was accepted is an old time.
ProcStage(w) ==
  LET Aged(t) == IF fn[w] = "reading" /\ t = "current" THEN "old" ELSE t
  IN
  /\ at[w] = "stage"
  /\ slot' = [slot EXCEPT ![w].stage = IF fn[w] = "end" THEN "finished" ELSE fn[w],
                           ![w].accepted = Aged(@)]
  /\ copy' = IF visiting = w THEN [copy EXCEPT !.accepted = Aged(@)] ELSE copy
  /\ trace' = [trace EXCEPT ![w].slow_logged = Aged(@),
                            ![w].times = IF fn[w] = "reading" THEN 0 ELSE @]
  /\ at' = [at EXCEPT ![w] = "rest"]
  /\ UNCHANGED <<pool, fn, reg, mpc, todo, seen, visiting, tracing, signals, counted, bounds>>

\* The other fields are written and the lock is released; fpm_request_accepting and
\* fpm_request_reading_headers go on to fpm_scoreboard_update.
ProcRelease(w) ==
  /\ at[w] = "rest"
  /\ slot' = [slot EXCEPT
       ![w].accepted = IF fn[w] = "reading" THEN "current" ELSE @,
       ![w].lock = 0]
  /\ at' = [at EXCEPT ![w] = IF fn[w] \in {"accepting", "reading"} THEN "update" ELSE "out"]
  /\ UNCHANGED <<pool, fn, reg, master, trace, tracing, signals, counted, bounds>>

\* PoolAcquire that does not look whether the lock is free.
PoolAcquire_any(w) ==
  /\ at[w] = "update"
  /\ pool' = [pool EXCEPT !.lock = 1]
  /\ at' = [at EXCEPT ![w] = "load"]
  /\ UNCHANGED <<slot, fn, reg, master, trace, tracing, signals, counted, bounds>>

\* fpm_spinlock on the pool's lock.
PoolAcquire(w) ==
  /\ at[w] = "update"
  /\ pool.lock = 0
  /\ pool' = [pool EXCEPT !.lock = 1]
  /\ at' = [at EXCEPT ![w] = "load"]
  /\ UNCHANGED <<slot, fn, reg, master, trace, tracing, signals, counted, bounds>>

\* fpm_scoreboard_update with FPM_SCOREBOARD_ACTION_INC reads the counters ...
PoolLoad(w) ==
  /\ at[w] = "load"
  /\ reg' = [reg EXCEPT ![w] = [idle |-> pool.idle, active |-> pool.active,
                                requests |-> pool.requests]]
  /\ at' = [at EXCEPT ![w] = "store"]
  /\ UNCHANGED <<pool, slot, fn, master, trace, tracing, signals, counted, bounds>>

Clamp(n) == IF n > 0 THEN n ELSE 0
Larger(m, n) == IF m > n THEN m ELSE n

\* ... and writes them back, never below zero, with the maximum; then it unlocks.
PoolStore(w) ==
  LET d == IF fn[w] = "accepting" THEN [idle |-> 1, active |-> -1, requests |-> 0]
                                  ELSE [idle |-> -1, active |-> 1, requests |-> 1]
      active == Clamp(reg[w].active + d.active)
  IN  /\ at[w] = "store"
      /\ pool' = [lock |-> 0, idle |-> Clamp(reg[w].idle + d.idle), active |-> active,
                  active_max |-> Larger(pool.active_max, active),
                  requests |-> reg[w].requests + d.requests]
      /\ counted' = counted + d.requests
      /\ reg' = [reg EXCEPT ![w] = Counts]
      /\ at' = [at EXCEPT ![w] = "out"]
      /\ UNCHANGED <<slot, fn, master, trace, tracing, signals, bounds>>

\* fpm_status_handle_request: a single attempt at the pool's lock, else "busy".
StatusTry(w) ==
  /\ at[w] = "out" /\ fn[w] = "executing"
  /\ pool.lock = 0
  /\ pool' = [pool EXCEPT !.lock = 1]
  /\ fn' = [fn EXCEPT ![w] = "status"]
  /\ at' = [at EXCEPT ![w] = "status"]
  /\ UNCHANGED <<slot, reg, master, trace, tracing, signals, counted, bounds>>

\* The counters are copied and the lock is released.
StatusCopy(w) ==
  /\ at[w] = "status"
  /\ pool' = [pool EXCEPT !.lock = 0]
  /\ at' = [at EXCEPT ![w] = "out"]
  /\ UNCHANGED <<slot, fn, reg, master, trace, tracing, signals, counted, bounds>>

\* A worker ends between two of its steps: on the SIGTERM of the master, which a
\* stopped process does not receive, or through a fault or a SIGKILL.
Killed(w) ==
  /\ at[w] # "dead" /\ slot[w].used
  /\ \/ w \in doomed \ stopped /\ kills' = kills
     \/ kills < MaxKills /\ kills' = kills + 1
  /\ at' = [at EXCEPT ![w] = "dead"]
  /\ reg' = [reg EXCEPT ![w] = Counts]
  /\ doomed' = doomed \ {w}
  /\ attached' = attached \ {w}
  /\ stopped' = stopped \ {w}
  /\ UNCHANGED <<pool, slot, fn, master, trace, sigterm, counted, requests>>

\* The signal of PTRACE_ATTACH reaches a worker, wherever it is.
Stop(w) ==
  /\ w \in attached
  /\ attached' = attached \ {w}
  /\ stopped' = stopped \cup {w}
  /\ UNCHANGED <<pool, slot, worker, master, trace, signals, counted, bounds>>

Worker(w) ==
  /\ w \notin stopped
  /\ \/ ProcAcquire(w) \/ ProcStage(w) \/ ProcRelease(w)
     \/ PoolAcquire(w) \/ PoolLoad(w) \/ PoolStore(w)
     \/ StatusTry(w) \/ StatusCopy(w)

--------------------------------------------------------------------------------
(* The master: one callback of its event loop at a time. *)

Children == {w \in Workers : slot[w].used}

\* fpm_pctl_perform_idle_server_maintenance: a walk of the children ...
Maintenance ==
  /\ mpc = "loop"
  /\ mpc' = "scan"
  /\ todo' = Children
  /\ seen' = Counts
  /\ UNCHANGED <<pool, slot, worker, copy, visiting, trace, tracing, signals, counted, bounds>>

\* ... that reads the stage of each without a lock (fpm_request_is_idle) ...
ScanOne(w) ==
  /\ mpc = "scan" /\ w \in todo
  /\ todo' = todo \ {w}
  /\ seen' = IF slot[w].stage = "accepting" THEN [seen EXCEPT !.idle = @ + 1]
                                            ELSE [seen EXCEPT !.active = @ + 1]
  /\ UNCHANGED <<pool, slot, worker, mpc, copy, visiting, trace, tracing, signals, counted, bounds>>

\* ... and fpm_scoreboard_update with FPM_SCOREBOARD_ACTION_SET: it spins on the lock,
SetAcquire ==
  /\ mpc = "scan" /\ todo = {}
  /\ pool.lock = 0
  /\ pool' = [pool EXCEPT !.lock = 1]
  /\ mpc' = "set"
  /\ UNCHANGED <<slot, worker, todo, seen, copy, visiting, trace, tracing, signals, counted, bounds>>

\* stores both counts and the maximum, and unlocks.
SetStore ==
  /\ mpc = "set"
  /\ pool' = [lock |-> 0, idle |-> seen.idle, active |-> seen.active,
              active_max |-> Larger(pool.active_max, seen.active),
              requests |-> pool.requests]
  /\ mpc' = "loop"
  /\ seen' = Counts
  /\ UNCHANGED <<slot, worker, todo, copy, visiting, trace, tracing, signals, counted, bounds>>

\* fpm_pctl_check_request_timeout walks the children ...
CheckTimeouts ==
  /\ mpc = "loop" /\ (Terminate \/ Slowlog)
  /\ mpc' = "check"
  /\ todo' = Children
  /\ UNCHANGED <<pool, slot, worker, seen, copy, visiting, trace, tracing, signals, counted, bounds>>

\* CheckTry that reads the slot without its lock, as fpm_request_is_idle does.
CheckTry_unlocked(w) ==
  /\ mpc = "check" /\ w \in todo
  /\ todo' = todo \ {w}
  /\ mpc' = "copy"
  /\ visiting' = w
  /\ UNCHANGED <<pool, slot, worker, seen, copy, trace, tracing, signals, counted, bounds>>

\* ... and fpm_request_check_timed_out tries the lock of each once, and passes over a
\* child whose lock is taken.
CheckTry(w) ==
  /\ mpc = "check" /\ w \in todo
  /\ todo' = todo \ {w}
  /\ IF slot[w].lock = 0
       THEN /\ slot' = [slot EXCEPT ![w].lock = 1]
            /\ mpc' = "copy"
            /\ visiting' = w
       ELSE UNCHANGED <<slot, mpc, visiting>>
  /\ UNCHANGED <<pool, worker, seen, copy, trace, tracing, signals, counted, bounds>>

\* The slot is copied, not in one instruction: here the stage, then the rest.
CopyStage ==
  /\ mpc = "copy"
  /\ copy' = [copy EXCEPT !.stage = slot[visiting].stage]
  /\ mpc' = "copying"
  /\ UNCHANGED <<pool, slot, worker, todo, seen, visiting, trace, tracing, signals, counted, bounds>>

CopyRest ==
  /\ mpc = "copying"
  /\ copy' = [copy EXCEPT !.accepted = slot[visiting].accepted]
  /\ slot' = [slot EXCEPT ![visiting].lock = 0]
  /\ mpc' = "decide"
  /\ UNCHANGED <<pool, worker, todo, seen, visiting, trace, tracing, signals, counted, bounds>>

\* Renewed that drops the note on every check.
Renewed_always(t) == [t EXCEPT !.slow_logged = "none"]

\* A note of a slow request is dropped once the slot shows another request.
Renewed(t) == IF t.slow_logged # "none" /\ t.slow_logged # copy.accepted
                THEN [t EXCEPT !.slow_logged = "none"] ELSE t

\* The copy alone decides: the child may have gone on to another request, or be dead.
\* How long the request has run is up to the clock.
Decide ==
  LET t == Renewed(trace[visiting])
      Attach ==
        /\ Slowlog /\ copy.stage = "executing" /\ t.slow_logged = "none"
        /\ trace' = [trace EXCEPT ![visiting] =
             [tracer |-> TRUE, slow_logged |-> copy.accepted,
              times |-> t.times + (IF copy.accepted = "current" THEN 1 ELSE 0)]]
        /\ attached' = IF at[visiting] = "dead" \/ visiting \in stopped
                         THEN attached ELSE attached \cup {visiting}
        /\ UNCHANGED <<doomed, stopped>>
      Term ==
        /\ Terminate /\ copy.stage \in InService
        /\ trace' = [trace EXCEPT ![visiting] = t]
        /\ doomed' = IF at[visiting] = "dead" THEN doomed ELSE doomed \cup {visiting}
        /\ UNCHANGED tracing
      Spare ==
        /\ trace' = [trace EXCEPT ![visiting] = t]
        /\ UNCHANGED <<doomed, tracing>>
  IN  /\ mpc = "decide"
      /\ Attach \/ Term \/ Spare
      /\ mpc' = "check"
      /\ visiting' = NoWorker
      /\ copy' = Cleared
      /\ UNCHANGED <<pool, slot, worker, todo, seen, sigterm, counted, bounds>>

CheckDone ==
  /\ mpc = "check" /\ todo = {}
  /\ mpc' = "loop"
  /\ UNCHANGED <<pool, slot, worker, todo, seen, copy, visiting, trace, tracing, signals, counted, bounds>>

\* Bury that clears the slot but for its lock.
Bury_keeping(w) ==
  /\ mpc = "loop" /\ at[w] = "dead"
  /\ slot' = [slot EXCEPT ![w] = [Allocated EXCEPT !.lock = slot[w].lock]]
  /\ fn' = [fn EXCEPT ![w] = "born"]
  /\ at' = [at EXCEPT ![w] = "out"]
  /\ trace' = [trace EXCEPT ![w] = Untraced]
  /\ UNCHANGED <<pool, reg, master, tracing, signals, counted, bounds>>

\* fpm_children_bury, for a child that ended: fpm_scoreboard_proc_free clears the slot,
\* its lock included, and fpm_children_make puts a new child there.
Bury(w) ==
  /\ mpc = "loop" /\ at[w] = "dead"
  /\ slot' = [slot EXCEPT ![w] = Allocated]
  /\ fn' = [fn EXCEPT ![w] = "born"]
  /\ at' = [at EXCEPT ![w] = "out"]
  /\ trace' = [trace EXCEPT ![w] = Untraced]
  /\ UNCHANGED <<pool, reg, master, tracing, signals, counted, bounds>>

\* fpm_children_bury, for a child that stopped: fpm_php_trace.  It first counts the slow
\* request, under the lock of the pool, ...
Trace(w) ==
  /\ mpc = "loop" /\ w \in stopped /\ trace[w].tracer
  /\ mpc' = "trace"
  /\ visiting' = w
  /\ UNCHANGED <<pool, slot, worker, todo, seen, copy, trace, tracing, signals, counted, bounds>>

TraceAcquire ==
  /\ mpc = "trace"
  /\ pool.lock = 0
  /\ pool' = [pool EXCEPT !.lock = 1]
  /\ mpc' = "slow"
  /\ UNCHANGED <<slot, worker, todo, seen, copy, visiting, trace, tracing, signals, counted, bounds>>

TraceRelease ==
  /\ mpc = "slow"
  /\ pool' = [pool EXCEPT !.lock = 0]
  /\ mpc' = "dump"
  /\ UNCHANGED <<slot, worker, todo, seen, copy, visiting, trace, tracing, signals, counted, bounds>>

\* ... then writes the backtrace, detaches and lets the child go on.
TraceDump ==
  /\ mpc = "dump"
  /\ stopped' = stopped \ {visiting}
  /\ trace' = [trace EXCEPT ![visiting].tracer = FALSE]
  /\ mpc' = "loop"
  /\ visiting' = NoWorker
  /\ UNCHANGED <<pool, slot, worker, todo, seen, copy, attached, signals, counted, bounds>>

\* sig_handler, at any time.
Sigterm ==
  /\ MayStop /\ ~sigterm /\ mpc # "terminating"
  /\ sigterm' = TRUE
  /\ UNCHANGED <<pool, slot, worker, master, trace, tracing, doomed, counted, bounds>>

\* fpm_got_signal: the master begins to terminate; FpmMaster takes it from here.
GotSignal ==
  /\ mpc = "loop" /\ sigterm
  /\ sigterm' = FALSE
  /\ mpc' = "terminating"
  /\ doomed' = {w \in Children : at[w] # "dead"}
  /\ UNCHANGED <<pool, slot, worker, todo, seen, copy, visiting, trace, tracing, counted, bounds>>

Callback ==
  \/ \E w \in Workers : ScanOne(w) \/ CheckTry(w)
  \/ SetAcquire \/ SetStore
  \/ CopyStage \/ CopyRest \/ Decide \/ CheckDone
  \/ TraceAcquire \/ TraceRelease \/ TraceDump

Next ==
  \/ \E w \in Workers : Worker(w) \/ Killed(w) \/ Stop(w) \/ Bury(w) \/ Trace(w)
  \/ Callback
  \/ Maintenance \/ CheckTimeouts \/ Sigterm \/ GotSignal

Spec == Init /\ [][Next]_vars

\* Every process that can run runs: the kernel's scheduler, to which a spinning process
\* yields.  A worker need not call the next function: its accept, or its script, may
\* take for ever.  One that spins gets a lock that is free again and again, since the
\* others hold it for a few instructions.  The event loop gets back to the timer
\* of maintenance, to a signal and to a child that has ended.
Fairness ==
  /\ \A w \in Workers :
       /\ WF_vars(/\ w \notin stopped
                  /\ \/ ProcStage(w) \/ ProcRelease(w) \/ PoolLoad(w) \/ PoolStore(w)
                     \/ StatusCopy(w))
       /\ SF_vars(w \notin stopped /\ PoolAcquire(w))
       /\ SF_vars(Bury(w))
  /\ SF_vars(Callback)
  /\ SF_vars(Maintenance) /\ SF_vars(GotSignal)

FairSpec == Spec /\ Fairness

--------------------------------------------------------------------------------
(* Properties. *)

Times == {"zero", "old", "current"}
PoolType == [lock : 0..1, idle : Nat, active : Nat, active_max : Nat, requests : Nat]
SlotType == [lock : 0..1, used : BOOLEAN, stage : Stages \cup {"none"}, accepted : Times]
CountType == [idle : Nat, active : Nat, requests : Nat]
TraceType == [tracer : BOOLEAN, slow_logged : Times \cup {"none"}, times : Nat]
Functions == Stages \cup {"born", "end", "status"}
Places == {"out", "stage", "rest", "update", "load", "store", "status", "dead"}

\* The type of the state: the counters are never negative (fpm_scoreboard_update clamps
\* them), and nothing is in a place that the code has not.
TypeOK ==
  /\ pool \in PoolType
  /\ slot \in [Workers -> SlotType]
  /\ fn \in [Workers -> Functions]
  /\ at \in [Workers -> Places]
  /\ \A w \in Workers : at[w] = "stage" => fn[w] \in Stages \cup {"end"}
  /\ reg \in [Workers -> CountType]
  /\ mpc \in {"loop", "scan", "set", "check", "copy", "copying", "decide", "trace", "slow",
              "dump", "terminating"}
  /\ todo \subseteq Workers
  /\ seen \in CountType
  /\ copy \in SlotType
  /\ visiting \in Workers \cup {NoWorker}
  /\ mpc \in {"copy", "copying", "decide", "trace", "slow", "dump"} => visiting \in Workers
  /\ trace \in [Workers -> TraceType]
  /\ doomed \subseteq Workers /\ attached \subseteq Workers /\ stopped \subseteq Workers
  /\ sigterm \in BOOLEAN
  /\ counted \in Nat /\ requests \in 0..MaxRequests /\ kills \in 0..MaxKills

\* No update of the pool is lost: "accepted conn" of the status page is the number of
\* requests whose fpm_scoreboard_update is complete, whoever else held the lock, was
\* stopped in it or was killed (fpm_scoreboard_update, fpm_spinlock).
NoLostRequest == pool.requests = counted

\* The lock of a slot is held by its own worker between acquire and release, by the
\* master while it copies the slot, or by a worker that died there and is not buried
\* yet; so burying recovers it, and the worker that inherits the slot never spins on
\* the lock of a dead one (fpm_scoreboard_proc_free clears the whole slot).
SlotLockOwned ==
  \A w \in Workers : slot[w].lock = 1 =>
    \/ at[w] \in {"stage", "rest", "dead"}
    \/ mpc \in {"copy", "copying"} /\ visiting = w

\* The copy on which fpm_request_check_timed_out decides is never torn: when it shows a
\* request in service, its time of acceptance is that of the request the worker then
\* served, not that of an earlier one, nor zero, either of which would end the worker
\* at the start of a request.
TimeoutSound ==
  [][mpc = "copying" /\ mpc' = "decide" /\ copy'.stage \in InService
       => copy'.accepted = "current"]_vars

\* One request is put in the slow log at most once, whatever the master's copies and
\* the worker's progress (child->slow_logged).
SlowOnce == \A w \in Workers : trace[w].times <= 1

\* The maximum of active processes is no more than there are processes.
\* www.conf.in: "max active processes - the maximum number of active processes since
\* FPM has started".
ActiveMaxReal == pool.active_max <= Cardinality(Workers)

\* The two counters of the pool describe its children.
Agree ==
  LET accepting == {w \in Children : slot[w].stage = "accepting"}
  IN  /\ pool.idle = Cardinality(accepting)
      /\ pool.active = Cardinality(Children \ accepting)

\* Once no more requests come, the counters of the status page become true and stay
\* so: the races between the unlocked scan, the clamped increments and the master's
\* SET leave no lasting error (fpm_pctl_perform_idle_server_maintenance).
CountersSettle == <>[]Agree

\* The master begins to terminate once SIGTERM has come.
\* php-fpm.8.in: "SIGINT,SIGTERM   immediate termination".
TerminationHeard == sigterm ~> mpc = "terminating"

\* The trace of a child that was stopped for it ends, with its backtrace written.
\* www.conf.in: "The timeout for serving a single request after which a PHP backtrace
\* will be dumped to the 'slowlog' file."
TraceEnds == mpc = "trace" ~> mpc = "loop"
================================================================================
