----------------------------- MODULE OpcacheRestart -----------------------------
(***************************************************************************)
(* The shared opcode cache of ext/opcache: the processes of a pool that    *)
(* look scripts up, store and invalidate them, schedule a restart of the   *)
(* cache and carry it out (ZendAccelerator.c, zend_accelerator_module.c).  *)
(*                                                                         *)
(* A restart wipes the memory from which other processes may be running    *)
(* scripts.  Three fcntl locks on bytes of one file guard it: byte 0, held *)
(* by whoever writes; byte 1, shared by everyone who uses the memory; byte *)
(* 2, held during a restart.  A process that looks whether byte 1 is       *)
(* locked does not lock it, and every flag in the shared memory is read    *)
(* and written without a lock in some of the places that use it.           *)
(***************************************************************************)
EXTENDS Integers, FiniteSets

CONSTANTS
  Procs,         \* the processes that share the cache
  Foreign,       \* those that belong to another user and cannot be killed
  Nobody,        \* the owner of a free lock
  Forced,        \* opcache.force_restart_timeout is not 0
  MaxScheduled,  \* bound: restarts scheduled in a behaviour
  MaxCrashes     \* bound: processes killed from outside

ASSUME OpcacheAssumption ==
  /\ Nobody \notin Procs
  /\ Foreign \subseteq Procs
  /\ Forced \in BOOLEAN
  /\ MaxScheduled \in Nat /\ MaxCrashes \in Nat

VARIABLES
  pending, inProgress,   \* restart_pending, restart_in_progress
  enabled, before,       \* accelerator_enabled, cache_status_before_restart
  force,                 \* force_restart_time is set
  exhausted,             \* memory_exhausted
  script,                \* the one script, in the hash table: "none", "valid" or "corrupted"
  epoch,                 \* how often the memory has been wiped, plus one
  writer,                \* who holds byte 0
  usage,                 \* who holds byte 1
  restarter,             \* who holds byte 2
  pc,                    \* where a process is
  then,                  \* where it goes on after a call of zend_accel_schedule_restart
  counted,               \* ZCG(counted)
  ptr,                   \* the epoch of the oldest script that its request has a pointer to, or 0
  since,                 \* the epoch in which it took byte 1 while nobody was restarting, or 0
  granted,               \* the epoch in which accelerator_shm_read_lock took the lock and succeeded, or 0
  scheduled, restarted,  \* how many restarts were scheduled and begun
  crashes

flags == <<pending, inProgress, enabled, before, force, exhausted>>
memory == <<script, epoch>>
locks == <<writer, usage, restarter>>
own == <<counted, ptr, since, granted>>
counts == <<scheduled, restarted, crashes>>
vars == <<flags, memory, locks, pc, then, own, counts>>

\* A process that has found nobody using the memory, up to the end of its restart.
Restarting == {"clear", "enter", "raise", "vars", "wipe", "enable", "lower", "leave"}
Scheduling == {"pend", "save", "disable", "time"}
\* What is done while byte 0 is locked.
Writing == {"recheck", "killing", "unlock", "key", "mark", "store"} \union Restarting

Init ==
  /\ pending = FALSE /\ inProgress = FALSE /\ enabled = TRUE /\ before = FALSE
  /\ force = FALSE /\ exhausted = FALSE
  /\ script = "none" /\ epoch = 1
  /\ writer = Nobody /\ usage = {} /\ restarter = Nobody
  /\ pc = [p \in Procs |-> "idle"]
  /\ then = [p \in Procs |-> "run"]
  /\ counted = [p \in Procs |-> FALSE]
  /\ ptr = [p \in Procs |-> 0]
  /\ since = [p \in Procs |-> 0]
  /\ granted = [p \in Procs |-> 0]
  /\ scheduled = 0 /\ restarted = 0 /\ crashes = 0

Goto(p, there) == pc' = [pc EXCEPT ![p] = there]
Free(lock, p) == IF lock = p THEN Nobody ELSE lock

\* All that a process has of the cache, given up.
Forget(p) ==
  /\ usage' = usage \ {p}
  /\ writer' = Free(writer, p)
  /\ restarter' = Free(restarter, p)
  /\ counted' = [counted EXCEPT ![p] = FALSE]
  /\ ptr' = [ptr EXCEPT ![p] = 0]
  /\ since' = [since EXCEPT ![p] = 0]
  /\ granted' = [granted EXCEPT ![p] = 0]

\* accel_activate_add
AddUsage(p) ==
  /\ usage' = usage \union {p}
  /\ since' = [since EXCEPT ![p] = IF \E q \in Procs : pc[q] \in Restarting THEN 0 ELSE epoch]

--------------------------------------------------------------------------------
\* accel_activate: a stuck count is dropped, and a pending restart attempted.
Activate(p) ==
  /\ pc[p] = "idle"
  /\ Forget(p)
  /\ Goto(p, IF pending THEN "lock" ELSE "run")
  /\ UNCHANGED <<flags, memory, then, counts>>

ActivateLock(p) ==
  /\ pc[p] = "lock" /\ writer = Nobody
  /\ writer' = p
  /\ Goto(p, "recheck")
  /\ UNCHANGED <<flags, memory, usage, restarter, then, own, counts>>

\* Mutant: the wrong byte of the lock file is looked at.
IsInactive_wrongByte(p) == restarter \in {p, Nobody}

\* The process itself holds no lock on byte 1 here, and F_GETLK would not tell it.
IsInactive(p) == usage \ {p} = {}

\* Mutant: restart_pending is not looked at again under the lock.
Recheck_once(p) ==
  /\ pc[p] = "recheck"
  /\ Goto(p, IF IsInactive(p) THEN "clear" ELSE "unlock")
  /\ UNCHANGED <<flags, memory, locks, then, own, counts>>

Recheck(p) ==
  /\ pc[p] = "recheck"
  /\ \/ pending /\ IsInactive(p) /\ Goto(p, "clear") /\ UNCHANGED force
     \/ pending /\ ~IsInactive(p) /\ Goto(p, "unlock") /\ UNCHANGED force
     \/ pending /\ ~IsInactive(p) /\ Forced /\ force /\ Goto(p, "killing") /\ force' = FALSE
     \/ ~pending /\ Goto(p, "unlock") /\ UNCHANGED force
  /\ UNCHANGED <<pending, inProgress, enabled, before, exhausted, memory, locks, then, own, counts>>

Killed(q) ==
  /\ Forget(q)
  /\ Goto(q, "idle")

\* kill_all_lockers.  A process that is dead but not yet reaped counts as not
\* killed, and the request for a forced restart is restored.
KillLocker(p) ==
  /\ pc[p] = "killing"
  /\ \E q \in usage \ {p} :
       \/ q \in Foreign /\ force' = TRUE /\ UNCHANGED <<locks, own, pc>>
       \/ q \notin Foreign /\ force' \in {force, TRUE} /\ Killed(q)
  /\ UNCHANGED <<pending, inProgress, enabled, before, exhausted, memory, then, counts>>

KillDone(p) ==
  /\ pc[p] = "killing" /\ usage \ {p} = {}
  /\ Goto(p, "unlock")
  /\ UNCHANGED <<flags, memory, locks, then, own, counts>>

ActivateUnlock(p) ==
  /\ pc[p] = "unlock"
  /\ writer' = Free(writer, p)
  /\ Goto(p, "run")
  /\ UNCHANGED <<flags, memory, usage, restarter, then, own, counts>>

\* The restart itself, one step for each write that another process can see.
Clear(p) ==
  /\ pc[p] = "clear"
  /\ pending' = FALSE /\ restarted' = restarted + 1
  /\ Goto(p, "enter")
  /\ UNCHANGED <<inProgress, enabled, before, force, exhausted, memory, locks, then, own, scheduled, crashes>>

RestartEnter(p) ==
  /\ pc[p] = "enter"
  /\ restarter' = IF restarter = Nobody THEN p ELSE restarter
  /\ Goto(p, "raise")
  /\ UNCHANGED <<flags, memory, writer, usage, then, own, counts>>

RaiseFlag(p) ==
  /\ pc[p] = "raise"
  /\ inProgress' = TRUE
  /\ Goto(p, "vars")
  /\ UNCHANGED <<pending, enabled, before, force, exhausted, memory, locks, then, own, counts>>

ResetCacheVars(p) ==
  /\ pc[p] = "vars"
  /\ exhausted' = FALSE /\ pending' = FALSE /\ force' = FALSE
  /\ Goto(p, "wipe")
  /\ UNCHANGED <<inProgress, enabled, before, memory, locks, then, own, counts>>

Wipe(p) ==
  /\ pc[p] = "wipe"
  /\ script' = "none" /\ epoch' = epoch + 1
  /\ Goto(p, "enable")
  /\ UNCHANGED <<flags, locks, then, own, counts>>

Enable(p) ==
  /\ pc[p] = "enable"
  /\ enabled' = before
  /\ Goto(p, "lower")
  /\ UNCHANGED <<pending, inProgress, before, force, exhausted, memory, locks, then, own, counts>>

LowerFlag(p) ==
  /\ pc[p] = "lower"
  /\ inProgress' = FALSE
  /\ Goto(p, "leave")
  /\ UNCHANGED <<pending, enabled, before, force, exhausted, memory, locks, then, own, counts>>

RestartLeave(p) ==
  /\ pc[p] = "leave"
  /\ restarter' = Free(restarter, p)
  /\ Goto(p, "unlock")
  /\ UNCHANGED <<flags, memory, writer, usage, then, own, counts>>

--------------------------------------------------------------------------------
\* zend_accel_schedule_restart, behind its test of restart_pending.
Pend(p) ==
  /\ pc[p] = "pend"
  /\ pending' = TRUE /\ scheduled' = scheduled + 1
  /\ Goto(p, "save")
  /\ UNCHANGED <<inProgress, enabled, before, force, exhausted, memory, locks, then, own, restarted, crashes>>

SaveStatus(p) ==
  /\ pc[p] = "save"
  /\ before' = enabled
  /\ Goto(p, "disable")
  /\ UNCHANGED <<pending, inProgress, enabled, force, exhausted, memory, locks, then, own, counts>>

Disable(p) ==
  /\ pc[p] = "disable"
  /\ enabled' = FALSE
  /\ Goto(p, "time")
  /\ UNCHANGED <<pending, inProgress, before, force, exhausted, memory, locks, then, own, counts>>

\* Callers other than opcache_reset hold byte 0 and release it next.
SetForceTime(p) ==
  /\ pc[p] = "time"
  /\ force' = Forced
  /\ writer' = Free(writer, p)
  /\ Goto(p, then[p])
  /\ UNCHANGED <<pending, inProgress, enabled, before, exhausted, memory, usage, restarter, then, own, counts>>

MaySchedule ==
  scheduled + Cardinality({p \in Procs : pc[p] \in {"asked", "pend"}}) < MaxScheduled

\* zend_accel_schedule_restart_if_necessary, under byte 0: too little memory is
\* wasted, a restart is pending already, or one is scheduled.
ScheduleIfNecessary(p, next) ==
  \/ Goto(p, next) /\ writer' = Free(writer, p) /\ UNCHANGED then
  \/ /\ ~pending /\ MaySchedule
     /\ Goto(p, "pend") /\ then' = [then EXCEPT ![p] = next] /\ UNCHANGED writer

\* opcache_reset
Reset(p) ==
  /\ pc[p] = "run" /\ enabled /\ MaySchedule
  /\ Goto(p, "asked")
  /\ UNCHANGED <<flags, memory, locks, then, own, counts>>

ResetSchedule(p) ==
  /\ pc[p] = "asked"
  /\ Goto(p, IF pending THEN "run" ELSE "pend")
  /\ then' = [then EXCEPT ![p] = "run"]
  /\ UNCHANGED <<flags, memory, locks, own, counts>>

--------------------------------------------------------------------------------
\* persistent_compile_file.  Where the cache is not to be used the script is
\* compiled as without it, which changes nothing here; so is a script from a
\* stream that cannot be cached, and a process may then be in "run" uncounted.
Compile(p) ==
  /\ pc[p] = "run" /\ (counted[p] \/ enabled)
  /\ \/ ~inProgress /\ Goto(p, "lookup")
     \/ inProgress /\ restarter = Nobody /\ Goto(p, "orphaned")
  /\ UNCHANGED <<flags, memory, locks, then, own, counts>>

\* accel_restart_is_active: the process that was restarting has died.
ClearOrphan(p) ==
  /\ pc[p] = "orphaned"
  /\ inProgress' = FALSE
  /\ Goto(p, "lookup")
  /\ UNCHANGED <<pending, enabled, before, force, exhausted, memory, locks, then, own, counts>>

Hold(p) == ptr' = [ptr EXCEPT ![p] = IF @ = 0 THEN epoch ELSE @]

\* Found by its key; found by its path, so that the key is to be added; not found.
Lookup(p) ==
  /\ pc[p] = "lookup"
  /\ \/ script = "valid" /\ Hold(p) /\ \E next \in {"found", "keylock"} : Goto(p, next)
     \/ script # "valid" /\ UNCHANGED ptr /\ Goto(p, "notfound")
  /\ UNCHANGED <<flags, memory, locks, then, counted, since, granted, counts>>

\* The waits for byte 0, and what is done under it.
Awaiting == [keylock |-> "key", marklock |-> "mark", storelock |-> "store"]

AllocLock(p) ==
  /\ pc[p] \in DOMAIN Awaiting /\ writer = Nobody
  /\ writer' = p
  /\ Goto(p, Awaiting[pc[p]])
  /\ UNCHANGED <<flags, memory, usage, restarter, then, own, counts>>

\* zend_accel_add_key: there may be no room in the hash table or in the memory.
AddKey(p) ==
  /\ pc[p] = "key"
  /\ exhausted' \in {exhausted, TRUE} /\ ScheduleIfNecessary(p, "found")
  /\ UNCHANGED <<pending, inProgress, enabled, before, force, memory, usage, restarter, own, counts>>

\* The process is counted once in a request, without another look at the flags.
Count(p) ==
  /\ pc[p] \in {"found", "notfound"}
  /\ IF counted[p] THEN UNCHANGED <<usage, since>> ELSE AddUsage(p)
  /\ counted' = [counted EXCEPT ![p] = TRUE]
  /\ Goto(p, IF pc[p] = "found" THEN "hit" ELSE "miss")
  /\ UNCHANGED <<flags, memory, writer, restarter, then, ptr, granted, counts>>

\* The script is used, or its file has changed.
Hit(p) ==
  /\ pc[p] = "hit"
  /\ \/ Goto(p, "run") /\ UNCHANGED then
     \/ Goto(p, "marklock") /\ then' = [then EXCEPT ![p] = "miss"]
  /\ UNCHANGED <<flags, memory, locks, own, counts>>

\* A script is marked as corrupted through the pointer the process has to it;
\* what the marks do to a memory that has been wiped since is anybody's guess.
Mark(p) ==
  /\ pc[p] = "mark"
  /\ script' \in IF script # "valid" THEN {script}
                 ELSE IF ptr[p] = epoch THEN {"corrupted"} ELSE {script, "corrupted"}
  /\ IF exhausted /\ script = "valid"
       THEN ScheduleIfNecessary(p, then[p])
       ELSE Goto(p, then[p]) /\ writer' = Free(writer, p) /\ UNCHANGED then
  /\ UNCHANGED <<flags, epoch, usage, restarter, own, counts>>

Miss(p) ==
  /\ pc[p] = "miss"
  /\ Goto(p, IF exhausted \/ pending THEN "run" ELSE "storelock")
  /\ UNCHANGED <<flags, memory, locks, then, own, counts>>

\* cache_script_in_shared_memory: stored by another process meanwhile, or no
\* room; stored; stored, but no room for its key.
Store(p) ==
  /\ pc[p] = "store"
  /\ \/ /\ exhausted' \in {exhausted, TRUE} /\ ScheduleIfNecessary(p, "run")
        /\ UNCHANGED <<script, ptr>>
     \/ /\ script # "valid" /\ script' = "valid" /\ Hold(p)
        /\ Goto(p, "run") /\ writer' = Free(writer, p)
        /\ UNCHANGED <<exhausted, then>>
     \/ /\ script # "valid" /\ script' = "valid" /\ Hold(p)
        /\ exhausted' = TRUE /\ ScheduleIfNecessary(p, "run")
  /\ UNCHANGED <<pending, inProgress, enabled, before, force, epoch, usage, restarter,
                 counted, since, granted, counts>>

--------------------------------------------------------------------------------
\* zend_accel_invalidate and accelerator_shm_read_lock
Invalidate(p) ==
  /\ pc[p] = "run" /\ enabled
  /\ Goto(p, IF counted[p] THEN "find" ELSE "readlock")
  /\ UNCHANGED <<flags, memory, locks, then, own, counts>>

ReadLock(p) ==
  /\ pc[p] = "readlock"
  /\ AddUsage(p)
  /\ Goto(p, "readcheck")
  /\ UNCHANGED <<flags, memory, writer, restarter, then, counted, ptr, granted, counts>>

ReadCheck(p) ==
  /\ pc[p] = "readcheck"
  /\ IF inProgress
       THEN /\ usage' = usage \ {p} /\ since' = [since EXCEPT ![p] = 0]
            /\ Goto(p, "run") /\ UNCHANGED <<counted, granted>>
       ELSE /\ counted' = [counted EXCEPT ![p] = TRUE]
            /\ granted' = [granted EXCEPT ![p] = epoch]
            /\ Goto(p, "find") /\ UNCHANGED <<usage, since>>
  /\ UNCHANGED <<flags, memory, writer, restarter, then, ptr, counts>>

Find(p) ==
  /\ pc[p] = "find"
  /\ \/ script = "valid" /\ Hold(p) /\ Goto(p, "marklock") /\ then' = [then EXCEPT ![p] = "run"]
     \/ Goto(p, "run") /\ UNCHANGED <<ptr, then>>
  /\ UNCHANGED <<flags, memory, locks, counted, since, granted, counts>>

\* accel_post_deactivate
PostDeactivate(p) ==
  /\ pc[p] = "run"
  /\ Forget(p)
  /\ Goto(p, "idle")
  /\ UNCHANGED <<flags, memory, then, counts>>

\* A process killed by the master of its pool, by a fault, or by hand.
Crash(p) ==
  /\ pc[p] # "idle" /\ crashes < MaxCrashes
  /\ crashes' = crashes + 1
  /\ Killed(p)
  /\ UNCHANGED <<flags, memory, then, scheduled, restarted>>

AccelActivate(p) ==
  \/ Activate(p) \/ ActivateLock(p) \/ Recheck(p) \/ KillLocker(p) \/ KillDone(p)
  \/ Clear(p) \/ RestartEnter(p) \/ RaiseFlag(p) \/ ResetCacheVars(p) \/ Wipe(p)
  \/ Enable(p) \/ LowerFlag(p) \/ RestartLeave(p) \/ ActivateUnlock(p)
ScheduleRestart(p) ==
  \/ Reset(p) \/ ResetSchedule(p) \/ Pend(p) \/ SaveStatus(p) \/ Disable(p) \/ SetForceTime(p)
CompileFile(p) ==
  \/ Compile(p) \/ ClearOrphan(p) \/ Lookup(p) \/ AllocLock(p) \/ AddKey(p) \/ Count(p)
  \/ Hit(p) \/ Mark(p) \/ Miss(p) \/ Store(p)
InvalidateScript(p) ==
  \/ Invalidate(p) \/ ReadLock(p) \/ ReadCheck(p) \/ Find(p)

Next ==
  \E p \in Procs :
    \/ AccelActivate(p) \/ ScheduleRestart(p) \/ CompileFile(p) \/ InvalidateScript(p)
    \/ PostDeactivate(p) \/ Crash(p)

Spec == Init /\ [][Next]_vars

\* Processes run, requests end, a process gets another request, and the kernel
\* does not pass over for ever a process that waits for byte 0.
Step(p) == AccelActivate(p) \/ ScheduleRestart(p) \/ CompileFile(p) \/ InvalidateScript(p) \/ PostDeactivate(p)
FairSpec ==
  Spec /\ \A p \in Procs : WF_vars(Step(p)) /\ SF_vars(PostDeactivate(p)) /\ SF_vars(AllocLock(p))
\* The same of accel_activate alone: a script may run for ever.
KillerSpec == Spec /\ \A p \in Procs : WF_vars(AccelActivate(p))

--------------------------------------------------------------------------------
Places == Restarting \union Scheduling \union Writing \union
  {"idle", "lock", "run", "asked", "lookup", "orphaned", "found", "notfound", "keylock",
   "marklock", "storelock", "hit", "miss", "readlock", "readcheck", "find"}

\* Every variable has a value of its type, and byte 0 of the lock file is held
\* by each process that is where zend_shared_alloc_lock has been called.
TypeOK ==
  /\ pending \in BOOLEAN /\ inProgress \in BOOLEAN /\ enabled \in BOOLEAN /\ before \in BOOLEAN
  /\ force \in BOOLEAN /\ exhausted \in BOOLEAN
  /\ script \in {"none", "valid", "corrupted"} /\ epoch \in Nat \ {0}
  /\ writer \in Procs \union {Nobody} /\ restarter \in Procs \union {Nobody}
  /\ usage \in SUBSET Procs
  /\ pc \in [Procs -> Places] /\ then \in [Procs -> {"run", "miss", "found"}]
  /\ counted \in [Procs -> BOOLEAN] /\ ptr \in [Procs -> Nat]
  /\ since \in [Procs -> Nat] /\ granted \in [Procs -> Nat]
  /\ scheduled \in Nat /\ restarted \in Nat /\ crashes \in Nat
  /\ \A p \in Procs : pc[p] \in Writing => writer = p

\* However many processes find a restart pending in accel_activate, each
\* restart that was scheduled is carried out at most once.
OneRestart == restarted <= scheduled

\* The memory is not wiped under a process that took the usage lock before
\* anybody found the cache inactive, whatever is killed meanwhile.
RestartWaits == \A p \in Procs : since[p] \in {0, epoch}

\* A restart that was scheduled begins, if requests end and new ones arrive:
\* no request that starts after zend_accel_schedule_restart uses the memory.
RestartHappens == pending ~> ~pending

\* "counted means we are holding read lock for SHM, so that nothing bad can
\* happen": the scripts that a counted process runs are in memory that has not
\* been wiped since it found them.
NothingBad == \A p \in Procs : counted[p] => ptr[p] \in {0, epoch}

\* accelerator_shm_read_lock: once it has succeeded the "restart would not
\* begin until we remove usage lock".
ReadLockHolds == \A p \in Procs : granted[p] \in {0, epoch}

\* zend_accel_schedule_restart does not "schedule twice": what it saved for the
\* end of the restart is that the cache was enabled.
StatusSaved ==
  pending /\ (\A p \in Procs : pc[p] \notin Scheduling \union Restarting) => before

\* kill_all_lockers, when it "cannot kill the locker", will "bail out".
BailsOut == \A p \in Procs : pc[p] = "killing" ~> pc[p] # "killing"
================================================================================
