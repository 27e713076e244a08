-------------------------- MODULE OpcacheRestartProofs --------------------------
(***************************************************************************)
(* Proofs about OpcacheRestart, for any number of processes, of restarts   *)
(* and of crashes.  TypeOK is inductive by itself.  OneRestart needs that  *)
(* a process on its way to clear restart_pending still finds it set, which *)
(* byte 0 ensures; RestartWaits needs that nobody restarts while somebody  *)
(* has the usage lock from before.                                         *)
(***************************************************************************)
EXTENDS OpcacheRestart, TLAPS

\* The steps of one process.
Acts(p) ==
  \/ AccelActivate(p) \/ ScheduleRestart(p) \/ CompileFile(p) \/ InvalidateScript(p)
  \/ PostDeactivate(p) \/ Crash(p)

\* A function of processes to numbers remains one when a process is set to 0.
LEMMA Zeroed ==
  ASSUME NEW f \in [Procs -> Nat], NEW q \in Procs PROVE [f EXCEPT ![q] = 0] \in [Procs -> Nat]
OBVIOUS

\* A step of any process preserves the types and the exclusion by byte 0.
LEMMA TypeStep ==
  ASSUME NEW p \in Procs, TypeOK, Acts(p) PROVE TypeOK'
<1> USE OpcacheAssumption
<1> USE DEF TypeOK, Places, Restarting, Scheduling, Writing
<1>1. CASE Activate(p)
  BY <1>1 DEF Activate, Forget, Goto, Free, flags, memory, locks, own, counts
<1>2. CASE ActivateLock(p)
  BY <1>2 DEF ActivateLock, Goto, Free, flags, memory, locks, own, counts
<1>3. CASE Recheck(p)
  <2>1. pending' \in BOOLEAN /\ inProgress' \in BOOLEAN /\ enabled' \in BOOLEAN
    BY <1>3 DEF Recheck, IsInactive, flags
  <2>2. before' \in BOOLEAN /\ force' \in BOOLEAN /\ exhausted' \in BOOLEAN
    BY <1>3 DEF Recheck, IsInactive, flags
  <2>3. script' \in {"none", "valid", "corrupted"} /\ epoch' \in Nat \ {0}
    BY <1>3 DEF Recheck, IsInactive, memory
  <2>4. scheduled' \in Nat /\ restarted' \in Nat /\ crashes' \in Nat
    BY <1>3 DEF Recheck, IsInactive, counts
  <2>5. writer' \in Procs \union {Nobody} /\ restarter' \in Procs \union {Nobody}
    BY <1>3 DEF Recheck, IsInactive, Free, locks
  <2>6. usage' \in SUBSET Procs
    BY <1>3 DEF Recheck, IsInactive, locks
  <2>7. counted' \in [Procs -> BOOLEAN]
    BY <1>3 DEF Recheck, IsInactive, own
  <2>8. ptr' \in [Procs -> Nat]
    BY <1>3 DEF Recheck, IsInactive, own
  <2>9. since' \in [Procs -> Nat]
    BY <1>3 DEF Recheck, IsInactive, own
  <2>10. granted' \in [Procs -> Nat]
    BY <1>3 DEF Recheck, IsInactive, own
  <2>11. pc' \in [Procs -> Places]
    BY <1>3 DEF Recheck, IsInactive, Goto
  <2>12. then' \in [Procs -> {"run", "miss", "found"}]
    BY <1>3 DEF Recheck, IsInactive
  <2>13. \A r \in Procs : pc'[r] \in Writing => writer' = r
    BY <1>3 DEF Recheck, IsInactive, Goto, Free, locks
  <2> QED  BY <2>1, <2>2, <2>3, <2>4, <2>5, <2>6, <2>7, <2>8, <2>9, <2>10, <2>11, <2>12, <2>13
<1>4. CASE KillLocker(p)
  <2>1. PICK q \in usage \ {p} :
          /\ pc[p] = "killing"
          /\ \/ q \in Foreign /\ force' = TRUE /\ UNCHANGED <<locks, own, pc>>
             \/ q \notin Foreign /\ force' \in {force, TRUE} /\ Killed(q)
          /\ UNCHANGED <<pending, inProgress, enabled, before, exhausted, memory, then, counts>>
    BY <1>4 DEF KillLocker
  <2>2. CASE q \in Foreign
    <3>1. pending' \in BOOLEAN /\ inProgress' \in BOOLEAN /\ enabled' \in BOOLEAN
      BY <2>1, <2>2 DEF flags
    <3>2. before' \in BOOLEAN /\ force' \in BOOLEAN /\ exhausted' \in BOOLEAN
      BY <2>1, <2>2 DEF flags
    <3>3. script' \in {"none", "valid", "corrupted"} /\ epoch' \in Nat \ {0}
      BY <2>1, <2>2 DEF memory
    <3>4. scheduled' \in Nat /\ restarted' \in Nat /\ crashes' \in Nat
      BY <2>1, <2>2 DEF counts
    <3>5. writer' \in Procs \union {Nobody} /\ restarter' \in Procs \union {Nobody}
      BY <2>1, <2>2 DEF Killed, Forget, Free, locks
    <3>6. usage' \in SUBSET Procs
      BY <2>1, <2>2 DEF Killed, Forget, locks
    <3>7. counted' \in [Procs -> BOOLEAN]
      BY <2>1, <2>2 DEF Killed, Forget, own
    <3>8. ptr' \in [Procs -> Nat]
      <4>1. ptr' = ptr \/ ptr' = [ptr EXCEPT ![q] = 0]
        BY <2>1, <2>2 DEF Killed, Forget, own
      <4> QED  BY <4>1, <2>1, Zeroed
    <3>9. since' \in [Procs -> Nat]
      <4>1. since' = since \/ since' = [since EXCEPT ![q] = 0]
        BY <2>1, <2>2 DEF Killed, Forget, own
      <4> QED  BY <4>1, <2>1, Zeroed
    <3>10. granted' \in [Procs -> Nat]
      <4>1. granted' = granted \/ granted' = [granted EXCEPT ![q] = 0]
        BY <2>1, <2>2 DEF Killed, Forget, own
      <4> QED  BY <4>1, <2>1, Zeroed
    <3>11. pc' \in [Procs -> Places]
      BY <2>1, <2>2 DEF Killed, Goto
    <3>12. then' \in [Procs -> {"run", "miss", "found"}]
      BY <2>1, <2>2 DEF Killed
    <3>13. \A r \in Procs : pc'[r] \in Writing => writer' = r
      BY <2>1, <2>2 DEF Killed, Forget, Goto, Free, locks
    <3> QED  BY <3>1, <3>2, <3>3, <3>4, <3>5, <3>6, <3>7, <3>8, <3>9, <3>10, <3>11, <3>12, <3>13
  <2>3. CASE q \notin Foreign
    <3>1. pending' \in BOOLEAN /\ inProgress' \in BOOLEAN /\ enabled' \in BOOLEAN
      BY <2>1, <2>3 DEF flags
    <3>2. before' \in BOOLEAN /\ force' \in BOOLEAN /\ exhausted' \in BOOLEAN
      BY <2>1, <2>3 DEF flags
    <3>3. script' \in {"none", "valid", "corrupted"} /\ epoch' \in Nat \ {0}
      BY <2>1, <2>3 DEF memory
    <3>4. scheduled' \in Nat /\ restarted' \in Nat /\ crashes' \in Nat
      BY <2>1, <2>3 DEF counts
    <3>5. writer' \in Procs \union {Nobody} /\ restarter' \in Procs \union {Nobody}
      BY <2>1, <2>3 DEF Killed, Forget, Free, locks
    <3>6. usage' \in SUBSET Procs
      BY <2>1, <2>3 DEF Killed, Forget, locks
    <3>7. counted' \in [Procs -> BOOLEAN]
      BY <2>1, <2>3 DEF Killed, Forget, own
    <3>8. ptr' \in [Procs -> Nat]
      <4>1. ptr' = ptr \/ ptr' = [ptr EXCEPT ![q] = 0]
        BY <2>1, <2>3 DEF Killed, Forget, own
      <4> QED  BY <4>1, <2>1, Zeroed
    <3>9. since' \in [Procs -> Nat]
      <4>1. since' = since \/ since' = [since EXCEPT ![q] = 0]
        BY <2>1, <2>3 DEF Killed, Forget, own
      <4> QED  BY <4>1, <2>1, Zeroed
    <3>10. granted' \in [Procs -> Nat]
      <4>1. granted' = granted \/ granted' = [granted EXCEPT ![q] = 0]
        BY <2>1, <2>3 DEF Killed, Forget, own
      <4> QED  BY <4>1, <2>1, Zeroed
    <3>11. pc' \in [Procs -> Places]
      BY <2>1, <2>3 DEF Killed, Goto
    <3>12. then' \in [Procs -> {"run", "miss", "found"}]
      BY <2>1, <2>3 DEF Killed
    <3>13. \A r \in Procs : pc'[r] \in Writing => writer' = r
      BY <2>1, <2>3 DEF Killed, Forget, Goto, Free, locks
    <3> QED  BY <3>1, <3>2, <3>3, <3>4, <3>5, <3>6, <3>7, <3>8, <3>9, <3>10, <3>11, <3>12, <3>13
  <2> QED  BY <2>2, <2>3
<1>5. CASE KillDone(p)
  BY <1>5 DEF KillDone, Goto, Free, flags, memory, locks, own, counts
<1>6. CASE Clear(p)
  <2>1. pending' \in BOOLEAN /\ inProgress' \in BOOLEAN /\ enabled' \in BOOLEAN
    BY <1>6 DEF Clear, flags
  <2>2. before' \in BOOLEAN /\ force' \in BOOLEAN /\ exhausted' \in BOOLEAN
    BY <1>6 DEF Clear, flags
  <2>3. script' \in {"none", "valid", "corrupted"} /\ epoch' \in Nat \ {0}
    BY <1>6 DEF Clear, memory
  <2>4. scheduled' \in Nat /\ restarted' \in Nat /\ crashes' \in Nat
    BY <1>6 DEF Clear, counts
  <2>5. writer' \in Procs \union {Nobody} /\ restarter' \in Procs \union {Nobody}
    BY <1>6 DEF Clear, Free, locks
  <2>6. usage' \in SUBSET Procs
    BY <1>6 DEF Clear, locks
  <2>7. counted' \in [Procs -> BOOLEAN]
    BY <1>6 DEF Clear, own
  <2>8. ptr' \in [Procs -> Nat]
    BY <1>6 DEF Clear, own
  <2>9. since' \in [Procs -> Nat]
    BY <1>6 DEF Clear, own
  <2>10. granted' \in [Procs -> Nat]
    BY <1>6 DEF Clear, own
  <2>11. pc' \in [Procs -> Places]
    BY <1>6 DEF Clear, Goto
  <2>12. then' \in [Procs -> {"run", "miss", "found"}]
    BY <1>6 DEF Clear
  <2>13. \A r \in Procs : pc'[r] \in Writing => writer' = r
    BY <1>6 DEF Clear, Goto, Free, locks
  <2> QED  BY <2>1, <2>2, <2>3, <2>4, <2>5, <2>6, <2>7, <2>8, <2>9, <2>10, <2>11, <2>12, <2>13
<1>7. CASE RestartEnter(p)
  BY <1>7 DEF RestartEnter, Goto, Free, flags, memory, locks, own, counts
<1>8. CASE RaiseFlag(p)
  BY <1>8 DEF RaiseFlag, Goto, Free, flags, memory, locks, own, counts
<1>9. CASE ResetCacheVars(p)
  BY <1>9 DEF ResetCacheVars, Goto, Free, flags, memory, locks, own, counts
<1>10. CASE Wipe(p)
  BY <1>10 DEF Wipe, Goto, Free, flags, memory, locks, own, counts
<1>11. CASE Enable(p)
  BY <1>11 DEF Enable, Goto, Free, flags, memory, locks, own, counts
<1>12. CASE LowerFlag(p)
  BY <1>12 DEF LowerFlag, Goto, Free, flags, memory, locks, own, counts
<1>13. CASE RestartLeave(p)
  BY <1>13 DEF RestartLeave, Goto, Free, flags, memory, locks, own, counts
<1>14. CASE ActivateUnlock(p)
  BY <1>14 DEF ActivateUnlock, Goto, Free, flags, memory, locks, own, counts
<1>15. CASE Reset(p)
  BY <1>15 DEF Reset, Goto, Free, flags, memory, locks, own, counts
<1>16. CASE ResetSchedule(p)
  BY <1>16 DEF ResetSchedule, Goto, Free, flags, memory, locks, own, counts
<1>17. CASE Pend(p)
  BY <1>17 DEF Pend, Goto, Free, flags, memory, locks, own, counts
<1>18. CASE SaveStatus(p)
  BY <1>18 DEF SaveStatus, Goto, Free, flags, memory, locks, own, counts
<1>19. CASE Disable(p)
  BY <1>19 DEF Disable, Goto, Free, flags, memory, locks, own, counts
<1>20. CASE SetForceTime(p)
  BY <1>20 DEF SetForceTime, Goto, Free, flags, memory, locks, own, counts
<1>21. CASE Compile(p)
  BY <1>21 DEF Compile, Goto, Free, flags, memory, locks, own, counts
<1>22. CASE ClearOrphan(p)
  BY <1>22 DEF ClearOrphan, Goto, Free, flags, memory, locks, own, counts
<1>23. CASE Lookup(p)
  BY <1>23 DEF Lookup, Hold, Goto, Free, flags, memory, locks, own, counts
<1>24. CASE AllocLock(p)
  BY <1>24 DEF AllocLock, Awaiting, Goto, Free, flags, memory, locks, own, counts
<1>25. CASE AddKey(p)
  <2>1. pending' \in BOOLEAN /\ inProgress' \in BOOLEAN /\ enabled' \in BOOLEAN
    BY <1>25 DEF AddKey, flags
  <2>2. before' \in BOOLEAN /\ force' \in BOOLEAN /\ exhausted' \in BOOLEAN
    BY <1>25 DEF AddKey, flags
  <2>3. script' \in {"none", "valid", "corrupted"} /\ epoch' \in Nat \ {0}
    BY <1>25 DEF AddKey, memory
  <2>4. scheduled' \in Nat /\ restarted' \in Nat /\ crashes' \in Nat
    BY <1>25 DEF AddKey, counts
  <2>5. writer' \in Procs \union {Nobody} /\ restarter' \in Procs \union {Nobody}
    BY <1>25 DEF AddKey, ScheduleIfNecessary, Free, locks
  <2>6. usage' \in SUBSET Procs
    BY <1>25 DEF AddKey, ScheduleIfNecessary, locks
  <2>7. counted' \in [Procs -> BOOLEAN]
    BY <1>25 DEF AddKey, own
  <2>8. ptr' \in [Procs -> Nat]
    BY <1>25 DEF AddKey, own
  <2>9. since' \in [Procs -> Nat]
    BY <1>25 DEF AddKey, own
  <2>10. granted' \in [Procs -> Nat]
    BY <1>25 DEF AddKey, own
  <2>11. pc' \in [Procs -> Places]
    BY <1>25 DEF AddKey, ScheduleIfNecessary, Goto
  <2>12. then' \in [Procs -> {"run", "miss", "found"}]
    BY <1>25 DEF AddKey, ScheduleIfNecessary
  <2>13. \A r \in Procs : pc'[r] \in Writing => writer' = r
    BY <1>25 DEF AddKey, ScheduleIfNecessary, Goto, Free, locks
  <2> QED  BY <2>1, <2>2, <2>3, <2>4, <2>5, <2>6, <2>7, <2>8, <2>9, <2>10, <2>11, <2>12, <2>13
<1>26. CASE Count(p)
  BY <1>26 DEF Count, AddUsage, Goto, Free, flags, memory, locks, own, counts
<1>27. CASE Hit(p)
  BY <1>27 DEF Hit, Goto, Free, flags, memory, locks, own, counts
<1>28. CASE Mark(p)
  BY <1>28 DEF Mark, ScheduleIfNecessary, Goto, Free, flags, memory, locks, own, counts
<1>29. CASE Miss(p)
  BY <1>29 DEF Miss, Goto, Free, flags, memory, locks, own, counts
<1>30. CASE Store(p)
  <2>1. pending' \in BOOLEAN /\ inProgress' \in BOOLEAN /\ enabled' \in BOOLEAN
    BY <1>30 DEF Store, flags
  <2>2. before' \in BOOLEAN /\ force' \in BOOLEAN /\ exhausted' \in BOOLEAN
    BY <1>30 DEF Store, flags
  <2>3. script' \in {"none", "valid", "corrupted"} /\ epoch' \in Nat \ {0}
    BY <1>30 DEF Store, memory
  <2>4. scheduled' \in Nat /\ restarted' \in Nat /\ crashes' \in Nat
    BY <1>30 DEF Store, counts
  <2>5. writer' \in Procs \union {Nobody} /\ restarter' \in Procs \union {Nobody}
    BY <1>30 DEF Store, ScheduleIfNecessary, Free, locks
  <2>6. usage' \in SUBSET Procs
    BY <1>30 DEF Store, ScheduleIfNecessary, locks
  <2>7. counted' \in [Procs -> BOOLEAN]
    BY <1>30 DEF Store, Hold, own
  <2>8. ptr' \in [Procs -> Nat]
    BY <1>30 DEF Store, Hold, own
  <2>9. since' \in [Procs -> Nat]
    BY <1>30 DEF Store, own
  <2>10. granted' \in [Procs -> Nat]
    BY <1>30 DEF Store, own
  <2>11. pc' \in [Procs -> Places]
    BY <1>30 DEF Store, ScheduleIfNecessary, Goto
  <2>12. then' \in [Procs -> {"run", "miss", "found"}]
    BY <1>30 DEF Store, ScheduleIfNecessary
  <2>13. \A r \in Procs : pc'[r] \in Writing => writer' = r
    BY <1>30 DEF Store, ScheduleIfNecessary, Goto, Free, locks
  <2> QED  BY <2>1, <2>2, <2>3, <2>4, <2>5, <2>6, <2>7, <2>8, <2>9, <2>10, <2>11, <2>12, <2>13
<1>31. CASE Invalidate(p)
  BY <1>31 DEF Invalidate, Goto, Free, flags, memory, locks, own, counts
<1>32. CASE ReadLock(p)
  BY <1>32 DEF ReadLock, AddUsage, Goto, Free, flags, memory, locks, own, counts
<1>33. CASE ReadCheck(p)
  <2>1. pending' \in BOOLEAN /\ inProgress' \in BOOLEAN /\ enabled' \in BOOLEAN
    BY <1>33 DEF ReadCheck, flags
  <2>2. before' \in BOOLEAN /\ force' \in BOOLEAN /\ exhausted' \in BOOLEAN
    BY <1>33 DEF ReadCheck, flags
  <2>3. script' \in {"none", "valid", "corrupted"} /\ epoch' \in Nat \ {0}
    BY <1>33 DEF ReadCheck, memory
  <2>4. scheduled' \in Nat /\ restarted' \in Nat /\ crashes' \in Nat
    BY <1>33 DEF ReadCheck, counts
  <2>5. writer' \in Procs \union {Nobody} /\ restarter' \in Procs \union {Nobody}
    BY <1>33 DEF ReadCheck, Free, locks
  <2>6. usage' \in SUBSET Procs
    BY <1>33 DEF ReadCheck, locks
  <2>7. counted' \in [Procs -> BOOLEAN]
    BY <1>33 DEF ReadCheck, own
  <2>8. ptr' \in [Procs -> Nat]
    BY <1>33 DEF ReadCheck, own
  <2>9. since' \in [Procs -> Nat]
    BY <1>33 DEF ReadCheck, own
  <2>10. granted' \in [Procs -> Nat]
    BY <1>33 DEF ReadCheck, own
  <2>11. pc' \in [Procs -> Places]
    BY <1>33 DEF ReadCheck, Goto
  <2>12. then' \in [Procs -> {"run", "miss", "found"}]
    BY <1>33 DEF ReadCheck
  <2>13. \A r \in Procs : pc'[r] \in Writing => writer' = r
    BY <1>33 DEF ReadCheck, Goto, Free, locks
  <2> QED  BY <2>1, <2>2, <2>3, <2>4, <2>5, <2>6, <2>7, <2>8, <2>9, <2>10, <2>11, <2>12, <2>13
<1>34. CASE Find(p)
  BY <1>34 DEF Find, Hold, Goto, Free, flags, memory, locks, own, counts
<1>35. CASE PostDeactivate(p)
  BY <1>35 DEF PostDeactivate, Forget, Goto, Free, flags, memory, locks, own, counts
<1>36. CASE Crash(p)
  BY <1>36 DEF Crash, Killed, Forget, Goto, Free, flags, memory, locks, own, counts
<1>q. QED  BY <1>1, <1>2, <1>3, <1>4, <1>5, <1>6, <1>7, <1>8, <1>9, <1>10, <1>11, <1>12, <1>13, <1>14, <1>15, <1>16, <1>17, <1>18, <1>19, <1>20, <1>21, <1>22, <1>23, <1>24, <1>25, <1>26, <1>27, <1>28, <1>29, <1>30, <1>31, <1>32, <1>33, <1>34, <1>35, <1>36, Zenon DEF Acts, AccelActivate, ScheduleRestart, CompileFile, InvalidateScript

\* The restarts that are owed, the pending one included; a process about to
\* clear restart_pending has it set, since byte 0 keeps all others from doing so.
OnceInv ==
  /\ restarted + (IF pending THEN 1 ELSE 0) <= scheduled
  /\ \A p \in Procs : pc[p] = "clear" => pending

\* Whoever took the usage lock before the cache was found inactive still has it,
\* and nobody has found the cache inactive since.  A process in accel_activate
\* has no such lock itself.
WaitInv ==
  \A p \in Procs :
    /\ since[p] # 0 => since[p] = epoch /\ p \in usage /\ \A q \in Procs : pc[q] \notin Restarting
    /\ pc[p] \in {"idle", "lock", "recheck"} => since[p] = 0

\* A step of any process preserves what OneRestart rests on.
LEMMA OnceStep ==
  ASSUME NEW p \in Procs, TypeOK, OnceInv, Acts(p) PROVE OnceInv'
<1> USE OpcacheAssumption
<1> USE DEF TypeOK, OnceInv, Restarting, Writing
<1>1. CASE Activate(p)
  BY <1>1 DEF Activate, Forget, Goto, Free, flags, memory, locks, own, counts
<1>2. CASE ActivateLock(p)
  BY <1>2 DEF ActivateLock, Goto, Free, flags, memory, locks, own, counts
<1>3. CASE Recheck(p)
  BY <1>3 DEF Recheck, IsInactive, Goto, Free, flags, memory, locks, own, counts
<1>4. CASE KillLocker(p)
  BY <1>4 DEF KillLocker, Killed, Forget, Goto, Free, flags, memory, locks, own, counts
<1>5. CASE KillDone(p)
  BY <1>5 DEF KillDone, Goto, Free, flags, memory, locks, own, counts
<1>6. CASE Clear(p)
  BY <1>6 DEF Clear, Goto, Free, flags, memory, locks, own, counts
<1>7. CASE RestartEnter(p)
  BY <1>7 DEF RestartEnter, Goto, Free, flags, memory, locks, own, counts
<1>8. CASE RaiseFlag(p)
  BY <1>8 DEF RaiseFlag, Goto, Free, flags, memory, locks, own, counts
<1>9. CASE ResetCacheVars(p)
  BY <1>9 DEF ResetCacheVars, Goto, Free, flags, memory, locks, own, counts
<1>10. CASE Wipe(p)
  BY <1>10 DEF Wipe, Goto, Free, flags, memory, locks, own, counts
<1>11. CASE Enable(p)
  BY <1>11 DEF Enable, Goto, Free, flags, memory, locks, own, counts
<1>12. CASE LowerFlag(p)
  BY <1>12 DEF LowerFlag, Goto, Free, flags, memory, locks, own, counts
<1>13. CASE RestartLeave(p)
  BY <1>13 DEF RestartLeave, Goto, Free, flags, memory, locks, own, counts
<1>14. CASE ActivateUnlock(p)
  BY <1>14 DEF ActivateUnlock, Goto, Free, flags, memory, locks, own, counts
<1>15. CASE Reset(p)
  BY <1>15 DEF Reset, Goto, Free, flags, memory, locks, own, counts
<1>16. CASE ResetSchedule(p)
  BY <1>16 DEF ResetSchedule, Goto, Free, flags, memory, locks, own, counts
<1>17. CASE Pend(p)
  BY <1>17 DEF Pend, Goto, Free, flags, memory, locks, own, counts
<1>18. CASE SaveStatus(p)
  BY <1>18 DEF SaveStatus, Goto, Free, flags, memory, locks, own, counts
<1>19. CASE Disable(p)
  BY <1>19 DEF Disable, Goto, Free, flags, memory, locks, own, counts
<1>20. CASE SetForceTime(p)
  BY <1>20 DEF SetForceTime, Goto, Free, flags, memory, locks, own, counts
<1>21. CASE Compile(p)
  BY <1>21 DEF Compile, Goto, Free, flags, memory, locks, own, counts
<1>22. CASE ClearOrphan(p)
  BY <1>22 DEF ClearOrphan, Goto, Free, flags, memory, locks, own, counts
<1>23. CASE Lookup(p)
  BY <1>23 DEF Lookup, Hold, Goto, Free, flags, memory, locks, own, counts
<1>24. CASE AllocLock(p)
  BY <1>24 DEF AllocLock, Awaiting, Goto, Free, flags, memory, locks, own, counts
<1>25. CASE AddKey(p)
  BY <1>25 DEF AddKey, ScheduleIfNecessary, Goto, Free, flags, memory, locks, own, counts
<1>26. CASE Count(p)
  BY <1>26 DEF Count, AddUsage, Goto, Free, flags, memory, locks, own, counts
<1>27. CASE Hit(p)
  BY <1>27 DEF Hit, Goto, Free, flags, memory, locks, own, counts
<1>28. CASE Mark(p)
  BY <1>28 DEF Mark, ScheduleIfNecessary, Goto, Free, flags, memory, locks, own, counts
<1>29. CASE Miss(p)
  BY <1>29 DEF Miss, Goto, Free, flags, memory, locks, own, counts
<1>30. CASE Store(p)
  <2>1. UNCHANGED <<restarted, scheduled, pending>> /\ \A q \in Procs : pc'[q] = "clear" => pc[q] = "clear"
    BY <1>30 DEF Store, ScheduleIfNecessary, Goto, counts
  <2> QED  BY <2>1
<1>31. CASE Invalidate(p)
  BY <1>31 DEF Invalidate, Goto, Free, flags, memory, locks, own, counts
<1>32. CASE ReadLock(p)
  BY <1>32 DEF ReadLock, AddUsage, Goto, Free, flags, memory, locks, own, counts
<1>33. CASE ReadCheck(p)
  BY <1>33 DEF ReadCheck, Goto, Free, flags, memory, locks, own, counts
<1>34. CASE Find(p)
  BY <1>34 DEF Find, Hold, Goto, Free, flags, memory, locks, own, counts
<1>35. CASE PostDeactivate(p)
  BY <1>35 DEF PostDeactivate, Forget, Goto, Free, flags, memory, locks, own, counts
<1>36. CASE Crash(p)
  BY <1>36 DEF Crash, Killed, Forget, Goto, Free, flags, memory, locks, own, counts
<1>q. QED  BY <1>1, <1>2, <1>3, <1>4, <1>5, <1>6, <1>7, <1>8, <1>9, <1>10, <1>11, <1>12, <1>13, <1>14, <1>15, <1>16, <1>17, <1>18, <1>19, <1>20, <1>21, <1>22, <1>23, <1>24, <1>25, <1>26, <1>27, <1>28, <1>29, <1>30, <1>31, <1>32, <1>33, <1>34, <1>35, <1>36, Zenon DEF Acts, AccelActivate, ScheduleRestart, CompileFile, InvalidateScript

\* A step of any process preserves what RestartWaits rests on.
LEMMA WaitStep ==
  ASSUME NEW p \in Procs, TypeOK, WaitInv, Acts(p) PROVE WaitInv'
<1> USE OpcacheAssumption
<1> USE DEF TypeOK, WaitInv, Restarting
<1>1. CASE Activate(p)
  BY <1>1 DEF Activate, Forget, Goto, Free, flags, memory, locks, own, counts
<1>2. CASE ActivateLock(p)
  BY <1>2 DEF ActivateLock, Goto, Free, flags, memory, locks, own, counts
<1>3. CASE Recheck(p)
  BY <1>3 DEF Recheck, IsInactive, Goto, Free, flags, memory, locks, own, counts
<1>4. CASE KillLocker(p)
  <2>1. PICK q \in usage \ {p} :
          /\ pc[p] = "killing"
          /\ \/ q \in Foreign /\ force' = TRUE /\ UNCHANGED <<locks, own, pc>>
             \/ q \notin Foreign /\ force' \in {force, TRUE} /\ Killed(q)
          /\ UNCHANGED <<pending, inProgress, enabled, before, exhausted, memory, then, counts>>
    BY <1>4 DEF KillLocker
  <2>2. CASE q \in Foreign
    BY <2>1, <2>2 DEF Killed, Forget, Goto, Free, flags, memory, locks, own, counts
  <2>3. CASE q \notin Foreign
    BY <2>1, <2>3 DEF Killed, Forget, Goto, Free, flags, memory, locks, own, counts
  <2> QED  BY <2>2, <2>3
<1>5. CASE KillDone(p)
  BY <1>5 DEF KillDone, Goto, Free, flags, memory, locks, own, counts
<1>6. CASE Clear(p)
  BY <1>6 DEF Clear, Goto, Free, flags, memory, locks, own, counts
<1>7. CASE RestartEnter(p)
  BY <1>7 DEF RestartEnter, Goto, Free, flags, memory, locks, own, counts
<1>8. CASE RaiseFlag(p)
  BY <1>8 DEF RaiseFlag, Goto, Free, flags, memory, locks, own, counts
<1>9. CASE ResetCacheVars(p)
  BY <1>9 DEF ResetCacheVars, Goto, Free, flags, memory, locks, own, counts
<1>10. CASE Wipe(p)
  BY <1>10 DEF Wipe, Goto, Free, flags, memory, locks, own, counts
<1>11. CASE Enable(p)
  BY <1>11 DEF Enable, Goto, Free, flags, memory, locks, own, counts
<1>12. CASE LowerFlag(p)
  BY <1>12 DEF LowerFlag, Goto, Free, flags, memory, locks, own, counts
<1>13. CASE RestartLeave(p)
  BY <1>13 DEF RestartLeave, Goto, Free, flags, memory, locks, own, counts
<1>14. CASE ActivateUnlock(p)
  BY <1>14 DEF ActivateUnlock, Goto, Free, flags, memory, locks, own, counts
<1>15. CASE Reset(p)
  BY <1>15 DEF Reset, Goto, Free, flags, memory, locks, own, counts
<1>16. CASE ResetSchedule(p)
  BY <1>16 DEF ResetSchedule, Goto, Free, flags, memory, locks, own, counts
<1>17. CASE Pend(p)
  BY <1>17 DEF Pend, Goto, Free, flags, memory, locks, own, counts
<1>18. CASE SaveStatus(p)
  BY <1>18 DEF SaveStatus, Goto, Free, flags, memory, locks, own, counts
<1>19. CASE Disable(p)
  BY <1>19 DEF Disable, Goto, Free, flags, memory, locks, own, counts
<1>20. CASE SetForceTime(p)
  BY <1>20 DEF SetForceTime, Goto, Free, flags, memory, locks, own, counts
<1>21. CASE Compile(p)
  BY <1>21 DEF Compile, Goto, Free, flags, memory, locks, own, counts
<1>22. CASE ClearOrphan(p)
  BY <1>22 DEF ClearOrphan, Goto, Free, flags, memory, locks, own, counts
<1>23. CASE Lookup(p)
  BY <1>23 DEF Lookup, Hold, Goto, Free, flags, memory, locks, own, counts
<1>24. CASE AllocLock(p)
  BY <1>24 DEF AllocLock, Awaiting, Goto, Free, flags, memory, locks, own, counts
<1>25. CASE AddKey(p)
  BY <1>25 DEF AddKey, ScheduleIfNecessary, Goto, Free, flags, memory, locks, own, counts
<1>26. CASE Count(p)
  BY <1>26 DEF Count, AddUsage, Goto, Free, flags, memory, locks, own, counts
<1>27. CASE Hit(p)
  BY <1>27 DEF Hit, Goto, Free, flags, memory, locks, own, counts
<1>28. CASE Mark(p)
  BY <1>28 DEF Mark, ScheduleIfNecessary, Goto, Free, flags, memory, locks, own, counts
<1>29. CASE Miss(p)
  BY <1>29 DEF Miss, Goto, Free, flags, memory, locks, own, counts
<1>30. CASE Store(p)
  <2>1. UNCHANGED <<since, usage, epoch>>
    BY <1>30 DEF Store
  <2>2. \A q \in Procs : pc'[q] = pc[q] \/ pc'[q] \in {"run", "pend"}
    BY <1>30 DEF Store, ScheduleIfNecessary, Goto
  <2> QED  BY <2>1, <2>2
<1>31. CASE Invalidate(p)
  BY <1>31 DEF Invalidate, Goto, Free, flags, memory, locks, own, counts
<1>32. CASE ReadLock(p)
  BY <1>32 DEF ReadLock, AddUsage, Goto, Free, flags, memory, locks, own, counts
<1>33. CASE ReadCheck(p)
  BY <1>33 DEF ReadCheck, Goto, Free, flags, memory, locks, own, counts
<1>34. CASE Find(p)
  BY <1>34 DEF Find, Hold, Goto, Free, flags, memory, locks, own, counts
<1>35. CASE PostDeactivate(p)
  BY <1>35 DEF PostDeactivate, Forget, Goto, Free, flags, memory, locks, own, counts
<1>36. CASE Crash(p)
  BY <1>36 DEF Crash, Killed, Forget, Goto, Free, flags, memory, locks, own, counts
<1>q. QED  BY <1>1, <1>2, <1>3, <1>4, <1>5, <1>6, <1>7, <1>8, <1>9, <1>10, <1>11, <1>12, <1>13, <1>14, <1>15, <1>16, <1>17, <1>18, <1>19, <1>20, <1>21, <1>22, <1>23, <1>24, <1>25, <1>26, <1>27, <1>28, <1>29, <1>30, <1>31, <1>32, <1>33, <1>34, <1>35, <1>36, Zenon DEF Acts, AccelActivate, ScheduleRestart, CompileFile, InvalidateScript

\* TypeOK, for any constants: types, and whoever is where
\* zend_shared_alloc_lock has been called holds byte 0.
THEOREM TypeCorrect == Spec => []TypeOK
<1>1. Init => TypeOK
  <2> SUFFICES ASSUME Init PROVE TypeOK
    OBVIOUS
  <2>1. pc \in [Procs -> Places] /\ \A p \in Procs : pc[p] \notin Writing
    BY DEF Init, Places, Writing, Restarting
  <2>2. then \in [Procs -> {"run", "miss", "found"}]
    BY DEF Init
  <2>3. counted \in [Procs -> BOOLEAN]
    BY DEF Init
  <2>4. ptr \in [Procs -> Nat] /\ since \in [Procs -> Nat] /\ granted \in [Procs -> Nat]
    BY DEF Init
  <2>5. /\ pending \in BOOLEAN /\ inProgress \in BOOLEAN /\ enabled \in BOOLEAN /\ before \in BOOLEAN
        /\ force \in BOOLEAN /\ exhausted \in BOOLEAN
    BY DEF Init
  <2>6. /\ script \in {"none", "valid", "corrupted"} /\ epoch \in Nat \ {0}
        /\ writer \in Procs \union {Nobody} /\ restarter \in Procs \union {Nobody}
        /\ usage \in SUBSET Procs
        /\ scheduled \in Nat /\ restarted \in Nat /\ crashes \in Nat
    BY DEF Init
  <2> QED  BY <2>1, <2>2, <2>3, <2>4, <2>5, <2>6 DEF TypeOK
<1>2. TypeOK /\ [Next]_vars => TypeOK'
  <2> SUFFICES ASSUME TypeOK, [Next]_vars PROVE TypeOK'
    OBVIOUS
  <2>1. CASE UNCHANGED vars
    BY <2>1 DEF TypeOK, vars, flags, memory, locks, own, counts
  <2>2. CASE Next
    BY <2>2, TypeStep DEF Next, Acts
  <2> QED  BY <2>1, <2>2
<1> QED  BY <1>1, <1>2, PTL DEF Spec

\* OneRestart, for any constants: no scheduled restart is carried out twice,
\* however many processes find restart_pending set in accel_activate.
THEOREM OneRestartHolds == Spec => []OneRestart
<1>1. Init => OnceInv
  BY DEF Init, OnceInv
<1>2. TypeOK /\ OnceInv /\ [Next]_vars => OnceInv'
  <2> SUFFICES ASSUME TypeOK, OnceInv, [Next]_vars PROVE OnceInv'
    OBVIOUS
  <2>1. CASE UNCHANGED vars
    BY <2>1 DEF OnceInv, vars, flags, counts
  <2>2. CASE Next
    BY <2>2, OnceStep DEF Next, Acts
  <2> QED  BY <2>1, <2>2
<1>3. TypeOK /\ OnceInv => OneRestart
  BY DEF TypeOK, OnceInv, OneRestart
<1> QED  BY <1>1, <1>2, <1>3, TypeCorrect, PTL DEF Spec

\* RestartWaits, for any constants: accel_activate does not wipe the memory
\* under a process that had the usage lock before the cache was found inactive.
THEOREM RestartWaitsHolds == Spec => []RestartWaits
<1>1. Init => WaitInv
  BY DEF Init, WaitInv
<1>2. TypeOK /\ WaitInv /\ [Next]_vars => WaitInv'
  <2> SUFFICES ASSUME TypeOK, WaitInv, [Next]_vars PROVE WaitInv'
    OBVIOUS
  <2>1. CASE UNCHANGED vars
    BY <2>1 DEF WaitInv, vars, memory, locks, own
  <2>2. CASE Next
    BY <2>2, WaitStep DEF Next, Acts
  <2> QED  BY <2>1, <2>2
<1>3. WaitInv => RestartWaits
  BY DEF WaitInv, RestartWaits
<1> QED  BY <1>1, <1>2, <1>3, TypeCorrect, PTL DEF Spec
================================================================================
