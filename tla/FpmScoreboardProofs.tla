-------------------------- MODULE FpmScoreboardProofs --------------------------
(***************************************************************************)
(* Proofs that the locks of FpmScoreboard do their work for any number of  *)
(* workers, requests and deaths: the pool's lock makes its updates atomic, *)
(* and the lock of a slot makes the master's copy of it consistent.        *)
(***************************************************************************)
EXTENDS FpmScoreboard, TLAPS

--------------------------------------------------------------------------------
(* The inductive invariant, in three parts that are proved one after the other. *)

\* The processes inside the section of the pool's lock.
InPool(w) == at[w] \in {"load", "store", "status"}
MasterInPool == mpc \in {"set", "slow"}

\* The lock of the pool excludes: a free lock has nobody inside, two processes are never
\* inside together, and what a worker has loaded is still what the pool holds.
PoolInv ==
  /\ pool.requests = counted
  /\ pool.lock = 0 => ~MasterInPool
  /\ \A w \in Workers :
       /\ InPool(w) => pool.lock # 0 /\ ~MasterInPool
       /\ at[w] = "store" => reg[w].requests = pool.requests
  /\ \A v, w \in Workers : InPool(v) /\ InPool(w) => v = w

\* The master holds the lock of the slot of w.
Copying(w) == mpc \in {"copy", "copying"} /\ visiting = w

\* A slot that shows a request in service has the time of that request.
Intact(w) == slot[w].stage \in InService => slot[w].accepted = "current"

\* A slot is intact whenever its lock is free or the master's, and its worker and the
\* master never hold it together.
SlotInv ==
  \A w \in Workers :
    /\ at[w] \in {"stage", "rest"} => slot[w].lock = 1 /\ ~Copying(w)
    /\ slot[w].lock = 1 => at[w] \in {"stage", "rest", "dead"} \/ Copying(w)
    /\ slot[w].lock = 0 \/ at[w] = "stage" \/ Copying(w) => Intact(w)
    /\ Copying(w) => slot[w].lock = 1
    /\ mpc = "copying" /\ visiting = w => copy.stage = slot[w].stage
    /\ at[w] # "dead" /\ fn[w] \in {"reading", "info", "executing"}
         /\ ~(fn[w] = "reading" /\ at[w] \in {"stage", "rest"})
       => slot[w].accepted = "current"

\* A request that has been traced is noted, and no time but its own is about.
TraceInv ==
  \A w \in Workers :
    /\ trace[w].times <= 1
    /\ trace[w].times # 0 => trace[w].slow_logged = "current"
    /\ slot[w].accepted # "current" => trace[w].times = 0
    /\ mpc = "decide" /\ visiting = w =>
         IF copy.accepted = "current" THEN slot[w].accepted = "current"
                                      ELSE trace[w].times = 0

--------------------------------------------------------------------------------
(* Steps. *)

\* A slot whose lock and time change is still one.
LEMMA SlotFields ==
  ASSUME NEW s \in SlotType, NEW a \in Times, NEW l \in 0..1
  PROVE  [s EXCEPT !.accepted = a, !.lock = l] \in SlotType
  BY DEF SlotType

\* Every step keeps the types.
LEMMA TypeStep ==
  ASSUME TypeOK, [Next]_vars
  PROVE  TypeOK'
<1> USE DEF TypeOK, worker, master, tracing, signals, bounds
<1>0. CASE UNCHANGED vars
  BY <1>0 DEF vars
<1>1. ASSUME NEW w \in Workers, ProcAcquire(w) PROVE TypeOK'
  <2>1. slot' \in [Workers -> SlotType]
    <3>1. slot[w] \in SlotType /\ [slot[w] EXCEPT !.lock = 1] \in SlotType
      BY DEF SlotType
    <3>2. slot' = [slot EXCEPT ![w] = [slot[w] EXCEPT !.lock = 1]]
      BY <1>1 DEF ProcAcquire
    <3> QED
      BY <3>1, <3>2
  <2>2. PICK f \in Follows(fn[w]) :
          /\ fn' = [fn EXCEPT ![w] = f]
          /\ \/ requests < MaxRequests /\ requests' = requests + 1
             \/ requests' = requests
    BY <1>1 DEF ProcAcquire
  <2>3. f \in Stages \cup {"end"}
    <3>1. fn[w] \in Functions
      OBVIOUS
    <3> QED
      BY <3>1, <2>2 DEF Follows, Functions, Stages
  <2>4. fn' \in [Workers -> Functions]
    BY <2>2, <2>3 DEF Functions
  <2>5. requests' \in 0..MaxRequests
    BY <2>2, ScoreboardAssumption
  <2>6. /\ at' \in [Workers -> Places]
        /\ \A v \in Workers : at'[v] = "stage" => fn'[v] \in Stages \cup {"end"}
    BY <1>1, <2>2, <2>3 DEF ProcAcquire, Places
  <2> QED
    BY <1>1, <2>1, <2>4, <2>5, <2>6 DEF ProcAcquire
<1>2. ASSUME NEW w \in Workers, ProcStage(w) PROVE TypeOK'
  <2>1. slot' \in [Workers -> SlotType]
    <3> DEFINE g == IF fn[w] = "end" THEN "finished" ELSE fn[w]
               a == IF fn[w] = "reading" /\ slot[w].accepted = "current" THEN "old"
                                                                        ELSE slot[w].accepted
    <3>1. g \in Stages
      BY <1>2 DEF ProcStage, Stages
    <3>2. slot[w] \in SlotType /\ a \in Times
      BY DEF SlotType, Times
    <3>3. [slot[w] EXCEPT !.stage = g, !.accepted = a] \in SlotType
      BY <3>1, <3>2 DEF SlotType
    <3>4. slot' = [slot EXCEPT ![w] = [slot[w] EXCEPT !.stage = g, !.accepted = a]]
      BY <1>2 DEF ProcStage
    <3> QED
      BY <3>3, <3>4
  <2>2. copy' \in SlotType
    <3> DEFINE a == IF fn[w] = "reading" /\ copy.accepted = "current" THEN "old"
                                                                      ELSE copy.accepted
    <3>1. a \in Times /\ [copy EXCEPT !.accepted = a] \in SlotType
      BY DEF SlotType, Times
    <3> QED
      BY <1>2, <3>1 DEF ProcStage
  <2>3. trace' \in [Workers -> TraceType]
    <3> DEFINE l == IF fn[w] = "reading" /\ trace[w].slow_logged = "current" THEN "old"
                                                          ELSE trace[w].slow_logged
               n == IF fn[w] = "reading" THEN 0 ELSE trace[w].times
    <3>1. [trace[w] EXCEPT !.slow_logged = l, !.times = n] \in TraceType
      BY DEF TraceType, Times
    <3>2. trace' = [trace EXCEPT ![w] = [trace[w] EXCEPT !.slow_logged = l, !.times = n]]
      BY <1>2 DEF ProcStage
    <3> QED
      BY <3>1, <3>2
  <2>4. at' \in [Workers -> Places]
    BY <1>2 DEF ProcStage, Places
  <2> QED
    BY <1>2, <2>1, <2>2, <2>3, <2>4 DEF ProcStage
<1>3. ASSUME NEW w \in Workers, ProcRelease(w) PROVE TypeOK'
  <2>1. slot' \in [Workers -> SlotType]
    <3> DEFINE a == IF fn[w] = "reading" THEN "current" ELSE slot[w].accepted
    <3>0. slot[w] \in SlotType /\ a \in Times
      BY DEF SlotType, Times
    <3>1. [slot[w] EXCEPT !.accepted = a, !.lock = 0] \in SlotType
      <4> HIDE DEF a
      <4>1. 0 \in 0..1
        OBVIOUS
      <4> QED
        BY <3>0, <4>1, SlotFields
    <3>2. slot' = [slot EXCEPT ![w] = [slot[w] EXCEPT !.accepted = a, !.lock = 0]]
      BY <1>3 DEF ProcRelease
    <3> QED
      BY <3>1, <3>2
  <2>2. at' \in [Workers -> Places]
    BY <1>3 DEF ProcRelease, Places
  <2> QED
    BY <1>3, <2>1, <2>2 DEF ProcRelease
<1>4. ASSUME NEW w \in Workers, PoolAcquire(w) PROVE TypeOK'
  <2>1. pool' \in PoolType
    BY <1>4 DEF PoolAcquire, PoolType
  <2>2. at' \in [Workers -> Places] /\ fn' \in [Workers -> Functions]
    BY <1>4 DEF PoolAcquire, Places, Functions
  <2> QED
    BY <1>4, <2>1, <2>2 DEF PoolAcquire
<1>5. ASSUME NEW w \in Workers, PoolLoad(w) PROVE TypeOK'
  <2>1. reg' \in [Workers -> CountType] /\ at' \in [Workers -> Places]
    BY <1>5 DEF PoolLoad, PoolType, CountType, Places
  <2> QED
    BY <1>5, <2>1 DEF PoolLoad
<1>6. ASSUME NEW w \in Workers, PoolStore(w) PROVE TypeOK'
  <2>1. pool' \in PoolType /\ counted' \in Nat
    BY <1>6 DEF PoolStore, PoolType, CountType, Clamp, Larger
  <2>2. reg' \in [Workers -> CountType] /\ at' \in [Workers -> Places]
    BY <1>6 DEF PoolStore, Counts, CountType, Places
  <2> QED
    BY <1>6, <2>1, <2>2 DEF PoolStore
<1>7. ASSUME NEW w \in Workers, StatusTry(w) PROVE TypeOK'
  <2>1. pool' \in PoolType
    BY <1>7 DEF StatusTry, PoolType
  <2>2. at' \in [Workers -> Places] /\ fn' \in [Workers -> Functions]
    BY <1>7 DEF StatusTry, Places, Functions
  <2> QED
    BY <1>7, <2>1, <2>2 DEF StatusTry
<1>8. ASSUME NEW w \in Workers, StatusCopy(w) PROVE TypeOK'
  <2>1. pool' \in PoolType
    BY <1>8 DEF StatusCopy, PoolType
  <2>2. at' \in [Workers -> Places] /\ fn' \in [Workers -> Functions]
    BY <1>8 DEF StatusCopy, Places, Functions
  <2> QED
    BY <1>8, <2>1, <2>2 DEF StatusCopy
<1>9. ASSUME NEW w \in Workers, Killed(w) PROVE TypeOK'
  <2>1. reg' \in [Workers -> CountType] /\ at' \in [Workers -> Places]
    BY <1>9 DEF Killed, Counts, CountType, Places
  <2>2. kills' \in 0..MaxKills
    BY <1>9, ScoreboardAssumption DEF Killed
  <2> QED
    BY <1>9, <2>1, <2>2 DEF Killed
<1>10. ASSUME NEW w \in Workers, Stop(w) PROVE TypeOK'
  BY <1>10 DEF Stop
<1>11. ASSUME NEW w \in Workers, Bury(w) PROVE TypeOK'
  <2>1. slot' \in [Workers -> SlotType]
    <3>1. Allocated \in SlotType
      BY DEF Allocated, SlotType, Times
    <3> QED
      BY <1>11, <3>1 DEF Bury
  <2>0. trace' \in [Workers -> TraceType]
    <3>1. Untraced \in TraceType
      BY DEF Untraced, TraceType
    <3> QED
      BY <1>11, <3>1 DEF Bury
  <2>2. fn' \in [Workers -> Functions] /\ at' \in [Workers -> Places]
    BY <1>11 DEF Bury, Functions, Places
  <2> QED
    BY <1>11, <2>0, <2>1, <2>2 DEF Bury
<1>12. ASSUME NEW w \in Workers, Trace(w) PROVE TypeOK'
  BY <1>12 DEF Trace
<1>13. ASSUME NEW w \in Workers, ScanOne(w) PROVE TypeOK'
  <2>1. seen' \in CountType
    BY <1>13 DEF ScanOne, CountType
  <2> QED
    BY <1>13, <2>1 DEF ScanOne
<1>14. ASSUME NEW w \in Workers, CheckTry(w) PROVE TypeOK'
  <2>1. slot' \in [Workers -> SlotType]
    <3>1. slot[w] \in SlotType /\ [slot[w] EXCEPT !.lock = 1] \in SlotType
      BY DEF SlotType
    <3>2. slot' = slot \/ slot' = [slot EXCEPT ![w] = [slot[w] EXCEPT !.lock = 1]]
      BY <1>14 DEF CheckTry
    <3> QED
      BY <3>1, <3>2
  <2> QED
    BY <1>14, <2>1 DEF CheckTry
<1>15. CASE SetAcquire
  <2>1. pool' \in PoolType
    BY <1>15 DEF SetAcquire, PoolType
  <2> QED
    BY <1>15, <2>1 DEF SetAcquire
<1>16. CASE SetStore
  <2>1. pool' \in PoolType /\ seen' \in CountType
    <3>1. Larger(pool.active_max, seen.active) \in Nat
      BY DEF PoolType, CountType, Larger
    <3> QED
      BY <1>16, <3>1 DEF SetStore, PoolType, CountType, Counts
  <2> QED
    BY <1>16, <2>1 DEF SetStore
<1>17. CASE CopyStage
  <2>1. copy' \in SlotType
    BY <1>17 DEF CopyStage, SlotType
  <2> QED
    BY <1>17, <2>1 DEF CopyStage
<1>18. CASE CopyRest
  <2>1. copy' \in SlotType
    BY <1>18 DEF CopyRest, SlotType
  <2>2. slot' \in [Workers -> SlotType]
    BY <1>18 DEF CopyRest, SlotType
  <2> QED
    BY <1>18, <2>1, <2>2 DEF CopyRest
<1>19. CASE Decide
  <2>1. copy' \in SlotType
    BY <1>19 DEF Decide, Cleared, SlotType, Times
  <2>2. trace' \in [Workers -> TraceType]
    <3> DEFINE t == Renewed(trace[visiting])
    <3>1. visiting \in Workers
      BY <1>19 DEF Decide
    <3>2. t \in TraceType
      BY <3>1 DEF Renewed, TraceType
    <3>3. copy.accepted \in Times \cup {"none"}
      BY DEF SlotType
    <3>4. ASSUME NEW n \in Nat
          PROVE  [tracer |-> TRUE, slow_logged |-> copy.accepted, times |-> n] \in TraceType
      BY <3>3 DEF TraceType
    <3>5. t.times + (IF copy.accepted = "current" THEN 1 ELSE 0) \in Nat
      BY <3>2 DEF TraceType
    <3>6. \/ trace' = [trace EXCEPT ![visiting] = t]
          \/ trace' = [trace EXCEPT ![visiting] =
               [tracer |-> TRUE, slow_logged |-> copy.accepted,
                times |-> t.times + (IF copy.accepted = "current" THEN 1 ELSE 0)]]
      BY <1>19 DEF Decide
    <3> QED
      BY <3>1, <3>2, <3>4, <3>5, <3>6
  <2> QED
    BY <1>19, <2>1, <2>2 DEF Decide
<1>20. CASE CheckDone
  BY <1>20 DEF CheckDone
<1>21. CASE TraceAcquire
  <2>1. pool' \in PoolType
    BY <1>21 DEF TraceAcquire, PoolType
  <2> QED
    BY <1>21, <2>1 DEF TraceAcquire
<1>22. CASE TraceRelease
  <2>1. pool' \in PoolType
    BY <1>22 DEF TraceRelease, PoolType
  <2> QED
    BY <1>22, <2>1 DEF TraceRelease
<1>23. CASE TraceDump
  <2>1. trace' \in [Workers -> TraceType]
    BY <1>23 DEF TraceDump, TraceType
  <2> QED
    BY <1>23, <2>1 DEF TraceDump
<1>24. CASE Maintenance
  <2>1. seen' \in CountType
    BY <1>24 DEF Maintenance, Counts, CountType
  <2> QED
    BY <1>24, <2>1 DEF Maintenance, Children
<1>25. CASE CheckTimeouts
  BY <1>25 DEF CheckTimeouts, Children
<1>26. CASE Sigterm
  BY <1>26 DEF Sigterm
<1>27. CASE GotSignal
  BY <1>27 DEF GotSignal, Children
<1> QED
  BY <1>0, <1>1, <1>2, <1>3, <1>4, <1>5, <1>6, <1>7, <1>8, <1>9, <1>10, <1>11, <1>12, <1>13, <1>14, <1>15, <1>16, <1>17, <1>18, <1>19, <1>20, <1>21, <1>22, <1>23, <1>24, <1>25, <1>26, <1>27 DEF Next, Worker, Callback

\* Every step keeps the exclusion of the pool's lock.
LEMMA PoolStep ==
  ASSUME TypeOK, PoolInv, [Next]_vars
  PROVE  PoolInv'
<1> USE DEF TypeOK, PoolType, CountType, Places, PoolInv, InPool, MasterInPool, worker, master, tracing, signals, bounds
<1>0. CASE UNCHANGED vars
  BY <1>0 DEF vars
<1>1. ASSUME NEW w \in Workers, ProcAcquire(w) PROVE PoolInv'
  BY <1>1 DEF ProcAcquire, Follows
<1>2. ASSUME NEW w \in Workers, ProcStage(w) PROVE PoolInv'
  BY <1>2 DEF ProcStage
<1>3. ASSUME NEW w \in Workers, ProcRelease(w) PROVE PoolInv'
  BY <1>3 DEF ProcRelease
<1>4. ASSUME NEW w \in Workers, PoolAcquire(w) PROVE PoolInv'
  BY <1>4 DEF PoolAcquire
<1>5. ASSUME NEW w \in Workers, PoolLoad(w) PROVE PoolInv'
  BY <1>5 DEF PoolLoad
<1>6. ASSUME NEW w \in Workers, PoolStore(w) PROVE PoolInv'
  BY <1>6 DEF PoolStore, Clamp, Larger, Counts
<1>7. ASSUME NEW w \in Workers, StatusTry(w) PROVE PoolInv'
  BY <1>7 DEF StatusTry
<1>8. ASSUME NEW w \in Workers, StatusCopy(w) PROVE PoolInv'
  BY <1>8 DEF StatusCopy
<1>9. ASSUME NEW w \in Workers, Killed(w) PROVE PoolInv'
  BY <1>9 DEF Killed, Counts
<1>10. ASSUME NEW w \in Workers, Stop(w) PROVE PoolInv'
  BY <1>10 DEF Stop
<1>11. ASSUME NEW w \in Workers, Bury(w) PROVE PoolInv'
  BY <1>11 DEF Bury, Allocated, Untraced
<1>12. ASSUME NEW w \in Workers, Trace(w) PROVE PoolInv'
  BY <1>12 DEF Trace
<1>13. ASSUME NEW w \in Workers, ScanOne(w) PROVE PoolInv'
  BY <1>13 DEF ScanOne
<1>14. ASSUME NEW w \in Workers, CheckTry(w) PROVE PoolInv'
  BY <1>14 DEF CheckTry
<1>15. CASE SetAcquire
  BY <1>15 DEF SetAcquire
<1>16. CASE SetStore
  BY <1>16 DEF SetStore, Larger, Counts
<1>17. CASE CopyStage
  BY <1>17 DEF CopyStage
<1>18. CASE CopyRest
  BY <1>18 DEF CopyRest
<1>19. CASE Decide
  BY <1>19 DEF Decide, Renewed, Cleared
<1>20. CASE CheckDone
  BY <1>20 DEF CheckDone
<1>21. CASE TraceAcquire
  BY <1>21 DEF TraceAcquire
<1>22. CASE TraceRelease
  BY <1>22 DEF TraceRelease
<1>23. CASE TraceDump
  BY <1>23 DEF TraceDump
<1>24. CASE Maintenance
  BY <1>24 DEF Maintenance, Counts, Children
<1>25. CASE CheckTimeouts
  BY <1>25 DEF CheckTimeouts, Children
<1>26. CASE Sigterm
  BY <1>26 DEF Sigterm
<1>27. CASE GotSignal
  BY <1>27 DEF GotSignal, Children
<1> QED
  BY <1>0, <1>1, <1>2, <1>3, <1>4, <1>5, <1>6, <1>7, <1>8, <1>9, <1>10, <1>11, <1>12, <1>13, <1>14, <1>15, <1>16, <1>17, <1>18, <1>19, <1>20, <1>21, <1>22, <1>23, <1>24, <1>25, <1>26, <1>27 DEF Next, Worker, Callback

\* Every step keeps the slots intact.
LEMMA SlotStep ==
  ASSUME TypeOK, SlotInv, [Next]_vars
  PROVE  SlotInv'
<1> USE DEF TypeOK, SlotType, Times, Functions, Places, SlotInv, Intact, Copying, Stages, InService, worker, master, tracing, signals, bounds
<1>0. CASE UNCHANGED vars
  BY <1>0 DEF vars
<1>1. ASSUME NEW w \in Workers, ProcAcquire(w) PROVE SlotInv'
  BY <1>1 DEF ProcAcquire, Follows
<1>2. ASSUME NEW w \in Workers, ProcStage(w) PROVE SlotInv'
  BY <1>2 DEF ProcStage
<1>3. ASSUME NEW w \in Workers, ProcRelease(w) PROVE SlotInv'
  BY <1>3 DEF ProcRelease
<1>4. ASSUME NEW w \in Workers, PoolAcquire(w) PROVE SlotInv'
  BY <1>4 DEF PoolAcquire
<1>5. ASSUME NEW w \in Workers, PoolLoad(w) PROVE SlotInv'
  BY <1>5 DEF PoolLoad
<1>6. ASSUME NEW w \in Workers, PoolStore(w) PROVE SlotInv'
  BY <1>6 DEF PoolStore, Clamp, Larger, Counts
<1>7. ASSUME NEW w \in Workers, StatusTry(w) PROVE SlotInv'
  BY <1>7 DEF StatusTry
<1>8. ASSUME NEW w \in Workers, StatusCopy(w) PROVE SlotInv'
  BY <1>8 DEF StatusCopy
<1>9. ASSUME NEW w \in Workers, Killed(w) PROVE SlotInv'
  BY <1>9 DEF Killed, Counts
<1>10. ASSUME NEW w \in Workers, Stop(w) PROVE SlotInv'
  BY <1>10 DEF Stop
<1>11. ASSUME NEW w \in Workers, Bury(w) PROVE SlotInv'
  BY <1>11 DEF Bury, Allocated, Untraced
<1>12. ASSUME NEW w \in Workers, Trace(w) PROVE SlotInv'
  BY <1>12 DEF Trace
<1>13. ASSUME NEW w \in Workers, ScanOne(w) PROVE SlotInv'
  BY <1>13 DEF ScanOne
<1>14. ASSUME NEW w \in Workers, CheckTry(w) PROVE SlotInv'
  BY <1>14 DEF CheckTry
<1>15. CASE SetAcquire
  BY <1>15 DEF SetAcquire
<1>16. CASE SetStore
  BY <1>16 DEF SetStore, Larger, Counts
<1>17. CASE CopyStage
  BY <1>17 DEF CopyStage
<1>18. CASE CopyRest
  BY <1>18 DEF CopyRest
<1>19. CASE Decide
  BY <1>19 DEF Decide, Renewed, Cleared
<1>20. CASE CheckDone
  BY <1>20 DEF CheckDone
<1>21. CASE TraceAcquire
  BY <1>21 DEF TraceAcquire
<1>22. CASE TraceRelease
  BY <1>22 DEF TraceRelease
<1>23. CASE TraceDump
  BY <1>23 DEF TraceDump
<1>24. CASE Maintenance
  BY <1>24 DEF Maintenance, Counts, Children
<1>25. CASE CheckTimeouts
  BY <1>25 DEF CheckTimeouts, Children
<1>26. CASE Sigterm
  BY <1>26 DEF Sigterm
<1>27. CASE GotSignal
  BY <1>27 DEF GotSignal, Children
<1> QED
  BY <1>0, <1>1, <1>2, <1>3, <1>4, <1>5, <1>6, <1>7, <1>8, <1>9, <1>10, <1>11, <1>12, <1>13, <1>14, <1>15, <1>16, <1>17, <1>18, <1>19, <1>20, <1>21, <1>22, <1>23, <1>24, <1>25, <1>26, <1>27 DEF Next, Worker, Callback

\* A number that is at most one.
LEMMA AtMostOne == ASSUME NEW n \in Nat, n <= 1 PROVE n \in {0, 1}
  OBVIOUS

\* Every step keeps the notes of the slow log.
LEMMA TraceStep ==
  ASSUME TypeOK, TraceInv, [Next]_vars
  PROVE  TraceInv'
<1> USE DEF TypeOK, SlotType, TraceType, Times, TraceInv, worker, master, tracing, signals, bounds
<1>0. CASE UNCHANGED vars
  BY <1>0 DEF vars
<1>1. ASSUME NEW w \in Workers, ProcAcquire(w) PROVE TraceInv'
  BY <1>1 DEF ProcAcquire, Follows
<1>2. ASSUME NEW w \in Workers, ProcStage(w) PROVE TraceInv'
  BY <1>2 DEF ProcStage
<1>3. ASSUME NEW w \in Workers, ProcRelease(w) PROVE TraceInv'
  BY <1>3 DEF ProcRelease
<1>4. ASSUME NEW w \in Workers, PoolAcquire(w) PROVE TraceInv'
  BY <1>4 DEF PoolAcquire
<1>5. ASSUME NEW w \in Workers, PoolLoad(w) PROVE TraceInv'
  BY <1>5 DEF PoolLoad
<1>6. ASSUME NEW w \in Workers, PoolStore(w) PROVE TraceInv'
  BY <1>6 DEF PoolStore, Clamp, Larger, Counts
<1>7. ASSUME NEW w \in Workers, StatusTry(w) PROVE TraceInv'
  BY <1>7 DEF StatusTry
<1>8. ASSUME NEW w \in Workers, StatusCopy(w) PROVE TraceInv'
  BY <1>8 DEF StatusCopy
<1>9. ASSUME NEW w \in Workers, Killed(w) PROVE TraceInv'
  BY <1>9 DEF Killed, Counts
<1>10. ASSUME NEW w \in Workers, Stop(w) PROVE TraceInv'
  BY <1>10 DEF Stop
<1>11. ASSUME NEW w \in Workers, Bury(w) PROVE TraceInv'
  BY <1>11 DEF Bury, Allocated, Untraced
<1>12. ASSUME NEW w \in Workers, Trace(w) PROVE TraceInv'
  BY <1>12 DEF Trace
<1>13. ASSUME NEW w \in Workers, ScanOne(w) PROVE TraceInv'
  BY <1>13 DEF ScanOne
<1>14. ASSUME NEW w \in Workers, CheckTry(w) PROVE TraceInv'
  BY <1>14 DEF CheckTry
<1>15. CASE SetAcquire
  BY <1>15 DEF SetAcquire
<1>16. CASE SetStore
  BY <1>16 DEF SetStore, Larger, Counts
<1>17. CASE CopyStage
  BY <1>17 DEF CopyStage
<1>18. CASE CopyRest
  BY <1>18 DEF CopyRest
<1>19. CASE Decide
  <2> DEFINE t == Renewed(trace[visiting])
  <2>1. visiting \in Workers /\ mpc = "decide" /\ mpc' = "check" /\ slot' = slot
    BY <1>19 DEF Decide
  <2> HIDE DEF t
  <2>2. /\ t.times = trace[visiting].times /\ t.times \in {0, 1}
        /\ t.times = 1 => t.slow_logged = "current" /\ copy.accepted = "current"
    <3>0. trace[visiting] \in TraceType
      BY <2>1
    <3>1. trace[visiting].times \in {0, 1}
      <4>1. trace[visiting].times \in Nat /\ trace[visiting].times <= 1
        BY <2>1, <3>0
      <4> QED
        BY <4>1, AtMostOne
    <3>2. trace[visiting].times = 1 => /\ trace[visiting].slow_logged = "current"
                                      /\ copy.accepted = "current"
      BY <2>1
    <3>3. t = trace[visiting] \/ t = [trace[visiting] EXCEPT !.slow_logged = "none"]
      BY DEF t, Renewed
    <3>4. trace[visiting].slow_logged = copy.accepted => t = trace[visiting]
      BY DEF t, Renewed
    <3> QED
      BY <3>0, <3>1, <3>2, <3>3, <3>4
  <2>3. \/ trace' = [trace EXCEPT ![visiting] = t]
        \/ /\ t.slow_logged = "none"
           /\ trace' = [trace EXCEPT ![visiting] =
                [tracer |-> TRUE, slow_logged |-> copy.accepted,
                 times |-> t.times + (IF copy.accepted = "current" THEN 1 ELSE 0)]]
    BY <1>19 DEF Decide, t
  <2>4. CASE trace' = [trace EXCEPT ![visiting] = t]
    BY <2>1, <2>2, <2>4
  <2>5. CASE /\ t.slow_logged = "none"
             /\ trace' = [trace EXCEPT ![visiting] =
                  [tracer |-> TRUE, slow_logged |-> copy.accepted,
                   times |-> t.times + (IF copy.accepted = "current" THEN 1 ELSE 0)]]
    <3>1. t.times = 0
      BY <2>2, <2>5
    <3>2. ASSUME slot[visiting].accepted # "current" PROVE copy.accepted # "current"
      BY <2>1, <3>2
    <3> QED
      BY <2>1, <2>5, <3>1, <3>2
  <2> QED
    BY <2>3, <2>4, <2>5
<1>20. CASE CheckDone
  BY <1>20 DEF CheckDone
<1>21. CASE TraceAcquire
  BY <1>21 DEF TraceAcquire
<1>22. CASE TraceRelease
  BY <1>22 DEF TraceRelease
<1>23. CASE TraceDump
  BY <1>23 DEF TraceDump
<1>24. CASE Maintenance
  BY <1>24 DEF Maintenance, Counts, Children
<1>25. CASE CheckTimeouts
  BY <1>25 DEF CheckTimeouts, Children
<1>26. CASE Sigterm
  BY <1>26 DEF Sigterm
<1>27. CASE GotSignal
  BY <1>27 DEF GotSignal, Children
<1> QED
  BY <1>0, <1>1, <1>2, <1>3, <1>4, <1>5, <1>6, <1>7, <1>8, <1>9, <1>10, <1>11, <1>12, <1>13, <1>14, <1>15, <1>16, <1>17, <1>18, <1>19, <1>20, <1>21, <1>22, <1>23, <1>24, <1>25, <1>26, <1>27 DEF Next, Worker, Callback

--------------------------------------------------------------------------------
(* Theorems. *)

\* The types hold always: no counter of the pool is ever negative, so that the status
\* page never answers "invalid status values" (fpm_status.c).
THEOREM TypeCorrect == Spec => []TypeOK
<1>1. Init => TypeOK
  <2> SUFFICES ASSUME Init PROVE TypeOK
    OBVIOUS
  <2>1. Cleared \in SlotType /\ Allocated \in SlotType
    BY DEF Cleared, Allocated, SlotType, Times
  <2>2. Untraced \in TraceType /\ Counts \in CountType
    BY DEF Untraced, TraceType, Counts, CountType
  <2>3. pool \in PoolType
    BY DEF Init, PoolType
  <2>4. /\ slot \in [Workers -> SlotType] /\ copy \in SlotType
        /\ trace \in [Workers -> TraceType]
        /\ reg \in [Workers -> CountType] /\ seen \in CountType
    BY <2>1, <2>2 DEF Init
  <2>5. /\ fn \in [Workers -> Functions] /\ at \in [Workers -> Places]
        /\ \A w \in Workers : at[w] # "stage"
    BY DEF Init, Functions, Places
  <2>6. counted \in Nat /\ requests \in 0..MaxRequests /\ kills \in 0..MaxKills
    BY ScoreboardAssumption DEF Init
  <2> QED
    BY <2>3, <2>4, <2>5, <2>6 DEF Init, TypeOK
<1>2. TypeOK /\ [Next]_vars => TypeOK'
  BY TypeStep
<1> QED
  BY <1>1, <1>2, PTL DEF Spec

\* The updates of the pool are atomic, whatever process is killed or stopped in them: no
\* request is lost from the count (fpm_scoreboard_update under fpm_spinlock).
THEOREM NoLostRequestHolds == Spec => []NoLostRequest
<1>1. Init => PoolInv
  BY DEF Init, PoolInv, InPool, MasterInPool
<1>2. TypeOK /\ PoolInv /\ [Next]_vars => PoolInv'
  BY PoolStep
<1>3. PoolInv => NoLostRequest
  BY DEF PoolInv, NoLostRequest
<1> QED
  BY <1>1, <1>2, <1>3, TypeCorrect, PTL DEF Spec

\* SlotInv is an invariant.
LEMMA SlotsIntact == Spec => []SlotInv
<1>1. Init => SlotInv
  BY DEF Init, SlotInv, Intact, Copying, Allocated, InService
<1>2. TypeOK /\ SlotInv /\ [Next]_vars => SlotInv'
  BY SlotStep
<1> QED
  BY <1>1, <1>2, TypeCorrect, PTL DEF Spec

\* The lock of a slot never outlives the burial of the worker that took it
\* (fpm_scoreboard_proc_free).
THEOREM SlotLockOwnedHolds == Spec => []SlotLockOwned
<1>1. SlotInv => SlotLockOwned
  BY DEF SlotInv, SlotLockOwned, Copying
<1> QED
  BY <1>1, SlotsIntact, PTL

\* The copy on which a timeout is decided is never torn (fpm_request_check_timed_out).
THEOREM TimeoutSoundHolds == Spec => TimeoutSound
<1>1. TypeOK /\ SlotInv /\ [Next]_vars =>
        [mpc = "copying" /\ mpc' = "decide" /\ copy'.stage \in InService
           => copy'.accepted = "current"]_vars
  <2> SUFFICES ASSUME TypeOK, SlotInv, Next, mpc = "copying", mpc' = "decide",
                      copy'.stage \in InService
               PROVE  copy'.accepted = "current"
    BY DEF vars
  <2>1. CopyRest
    BY DEF Next, Worker, Callback, ProcAcquire, ProcStage, ProcRelease, PoolAcquire, PoolLoad,
           PoolStore, StatusTry, StatusCopy, Killed, Stop, Bury, Trace, ScanOne, CheckTry,
           SetAcquire, SetStore, CopyStage, Decide, CheckDone, TraceAcquire, TraceRelease,
           TraceDump, Maintenance, CheckTimeouts, Sigterm, GotSignal, master
  <2>2. visiting \in Workers /\ copy \in SlotType
    BY DEF TypeOK
  <2>3. copy'.stage = copy.stage /\ copy'.accepted = slot[visiting].accepted
    BY <2>1, <2>2 DEF CopyRest, SlotType
  <2>4. copy.stage = slot[visiting].stage /\ Intact(visiting)
    BY <2>2 DEF SlotInv, Copying
  <2> QED
    BY <2>3, <2>4 DEF Intact
<1> QED
  BY <1>1, TypeCorrect, SlotsIntact, PTL DEF Spec, TimeoutSound

\* A request is traced at most once (child->slow_logged in fpm_request_check_timed_out).
THEOREM SlowOnceHolds == Spec => []SlowOnce
<1>1. Init => TraceInv
  BY DEF Init, TraceInv, Untraced
<1>2. TypeOK /\ TraceInv /\ [Next]_vars => TraceInv'
  BY TraceStep
<1>3. TraceInv => SlowOnce
  BY DEF TraceInv, SlowOnce
<1> QED
  BY <1>1, <1>2, <1>3, TypeCorrect, PTL DEF Spec
================================================================================
