---------------------------- MODULE FpmMasterProofs ----------------------------
(* Proofs about FpmMaster, for every configuration that fpm_conf.c accepts. *)
EXTENDS FpmMaster, FiniteSetTheorems, TLAPS

--------------------------------------------------------------------------------
(* The list of children. *)

\* fpm_child_link puts the child at the head of the list and keeps the others.
LEMMA PushProperties ==
    ASSUME NEW S, NEW s \in Seq(S), NEW p \in S
    PROVE  /\ <<p>> \o s \in Seq(S)
           /\ Range(<<p>> \o s) = Range(s) \cup {p}
           /\ (/\ p \notin Range(s)
               /\ \A i, j \in DOMAIN s : s[i] = s[j] => i = j)
              => \A i, j \in DOMAIN (<<p>> \o s) :
                    (<<p>> \o s)[i] = (<<p>> \o s)[j] => i = j
<1> DEFINE t == <<p>> \o s
<1>1. /\ t \in Seq(S) /\ Len(t) = Len(s) + 1 /\ DOMAIN t = 1..(Len(s) + 1)
      /\ Len(s) \in Nat /\ DOMAIN s = 1..Len(s)
  OBVIOUS
<1>2. t[1] = p /\ \A i \in 2..(Len(s) + 1) : t[i] = s[i - 1]
  OBVIOUS
<1> HIDE DEF t
<1>3. \A i \in 1..Len(s) : t[i + 1] = s[i]
  BY <1>1, <1>2
<1>4. Range(t) = Range(s) \cup {p}
  <2>1. ASSUME NEW i \in DOMAIN t PROVE t[i] \in Range(s) \cup {p}
    <3>1. CASE i = 1
      BY <1>2, <3>1
    <3>2. CASE i # 1
      <4>1. i - 1 \in DOMAIN s /\ t[i] = s[i - 1]
        BY <1>1, <1>2, <3>2
      <4> QED
        BY <4>1 DEF Range
    <3> QED
      BY <3>1, <3>2
  <2>2. \A x \in Range(s) : x \in Range(t)
    <3>1. TAKE x \in Range(s)
    <3>2. PICK i \in 1..Len(s) : s[i] = x
      BY <1>1 DEF Range
    <3>3. i + 1 \in DOMAIN t /\ t[i + 1] = x
      BY <1>1, <1>3, <3>2
    <3> QED
      BY <3>3 DEF Range
  <2>3. p \in Range(t)
    BY <1>1, <1>2 DEF Range
  <2> QED
    BY <2>1, <2>2, <2>3 DEF Range
<1>5. ASSUME p \notin Range(s), \A i, j \in DOMAIN s : s[i] = s[j] => i = j,
             NEW i \in DOMAIN t, NEW j \in DOMAIN t, t[i] = t[j]
      PROVE  i = j
  <2>1. ASSUME NEW n \in DOMAIN t, n # 1
        PROVE  n - 1 \in DOMAIN s /\ t[n] = s[n - 1] /\ t[n] # p
    <3>1. n - 1 \in DOMAIN s /\ t[n] = s[n - 1]
      BY <1>1, <1>2, <2>1
    <3> QED
      BY <1>5, <3>1 DEF Range
  <2>2. CASE i = 1 \/ j = 1
    BY <1>2, <1>5, <2>1, <2>2
  <2>3. CASE i # 1 /\ j # 1
    <3>1. i - 1 = j - 1
      BY <1>5, <2>1, <2>3
    <3> QED
      BY <1>1, <3>1
  <2> QED
    BY <2>2, <2>3
<1> QED
  BY <1>1, <1>4, <1>5 DEF t

\* The part of it that is about the set of children.
LEMMA PushRange ==
    ASSUME NEW S, NEW s \in Seq(S), NEW p \in S
    PROVE  Range(<<p>> \o s) = Range(s) \cup {p}
  BY Zenon, PushProperties

\* fpm_child_unlink takes the child out of the list and keeps the others.
LEMMA WithoutProperties ==
    ASSUME NEW S, NEW s \in Seq(S), NEW p \in Range(s),
           \A i, j \in DOMAIN s : s[i] = s[j] => i = j
    PROVE  /\ Without(s, p) \in Seq(S)
           /\ Range(Without(s, p)) = Range(s) \ {p}
           /\ \A i, j \in DOMAIN Without(s, p) : Without(s, p)[i] = Without(s, p)[j] => i = j
<1> DEFINE k == CHOOSE i \in DOMAIN s : s[i] = p
           t == Without(s, p)
<1>1. k \in DOMAIN s /\ s[k] = p
  BY DEF Range
<1>2. /\ Len(s) \in Nat \ {0} /\ DOMAIN s = 1..Len(s) /\ k \in 1..Len(s)
      /\ \A i \in 1..Len(s) : s[i] \in S
  BY <1>1
<1>3. t = [i \in 1..(Len(s) - 1) |-> IF i < k THEN s[i] ELSE s[i + 1]]
  BY DEF Without
<1> HIDE DEF k, t
<1>4. t \in Seq(S) /\ DOMAIN t = 1..(Len(s) - 1)
  <2>1. Len(s) - 1 \in Nat /\ \A i \in 1..(Len(s) - 1) : t[i] \in S
    BY <1>2, <1>3
  <2> QED
    BY <2>1, <1>3
<1>5. Range(t) = Range(s) \ {p}
  <2>1. ASSUME NEW x \in Range(t) PROVE x \in Range(s) \ {p}
    <3>1. PICK i \in 1..(Len(s) - 1) : t[i] = x
      BY <1>4 DEF Range
    <3>2. CASE i < k
      BY <1>1, <1>2, <1>3, <3>1, <3>2 DEF Range
    <3>3. CASE ~(i < k)
      <4>1. x = s[i + 1] /\ i + 1 \in 1..Len(s) /\ i + 1 # k
        BY <1>2, <1>3, <3>1, <3>3
      <4> QED
        BY <1>1, <1>2, <4>1 DEF Range
    <3> QED
      BY <3>2, <3>3
  <2>2. ASSUME NEW x \in Range(s), x # p PROVE x \in Range(t)
    <3>1. PICK i \in 1..Len(s) : s[i] = x
      BY <1>2 DEF Range
    <3>2. CASE i < k
      <4>1. i \in DOMAIN t /\ t[i] = x
        BY <1>2, <1>3, <1>4, <3>1, <3>2
      <4> QED
        BY <4>1 DEF Range
    <3>3. CASE i > k
      <4>1. i - 1 \in DOMAIN t /\ t[i - 1] = x
        BY <1>2, <1>3, <1>4, <3>1, <3>3
      <4> QED
        BY <4>1 DEF Range
    <3> QED
      BY <1>1, <1>2, <2>2, <3>1, <3>2, <3>3
  <2> QED
    BY <2>1, <2>2
<1>6. ASSUME NEW i \in DOMAIN t, NEW j \in DOMAIN t, t[i] = t[j] PROVE i = j
  <2> DEFINE src(n) == IF n < k THEN n ELSE n + 1
  <2>1. /\ t[i] = s[src(i)] /\ src(i) \in 1..Len(s)
        /\ t[j] = s[src(j)] /\ src(j) \in 1..Len(s)
    BY <1>2, <1>3, <1>4, <1>6
  <2>2. src(i) = src(j)
    BY Zenon, <1>2, <1>6, <2>1
  <2> QED
    BY <1>2, <1>4, <1>6, <2>2
<1> QED
  BY <1>4, <1>5, <1>6 DEF t

--------------------------------------------------------------------------------
(* The inductive invariant. *)

\* The lists, the counters, the slots and the processes agree.
Lists == SlotsOwned /\ NoUnknownChild /\ Listed

IInv ==
    /\ TypeOK
    /\ Lists
    /\ Capacity
    /\ mk.max <= pm_max_children[mk.wp]
    /\ pc = "gone" => globals_running = 0

\* A linked child has a slot of its pool's scoreboard.
LEMMA SlotOfLinked ==
    ASSUME TypeOK, Lists, NEW p \in Pids, wstate[p] # "free"
    PROVE  /\ child[p].wp \in Pools
           /\ p \in Linked(child[p].wp)
           /\ child[p].scoreboard_i \in used[child[p].wp]
           /\ child[p].scoreboard_i \in Slots(child[p].wp)
<1>1. child[p].wp \in Pools
  BY DEF TypeOK, ProcType
<1>2. PICK wp \in Pools : p \in Linked(wp)
  BY DEF Lists, NoUnknownChild, AllLinked
<1>3. child[p].wp = wp
  BY <1>2 DEF Lists, Listed
<1>4. child[p].scoreboard_i \in used[wp]
  BY <1>2 DEF Lists, SlotsOwned
<1>5. used[wp] \subseteq Slots(wp)
  BY DEF TypeOK, ScoreboardType
<1> QED
  BY <1>1, <1>2, <1>3, <1>4, <1>5

\* The number of idle children that maintenance counts is a natural number.
LEMMA IdleType ==
    ASSUME PoolType, NEW wp \in Pools
    PROVE  idle(wp) \in Nat
<1>1. children[wp] \in Seq(Pids)
  BY DEF PoolType
<1>2. Len(children[wp]) \in Nat /\ DOMAIN children[wp] = 1..Len(children[wp])
  BY <1>1
<1>3. IsFiniteSet(1..Len(children[wp]))
  BY <1>2, FS_Interval
<1>4. IsFiniteSet(IdleAt(wp))
  BY <1>2, <1>3, FS_Subset DEF IdleAt
<1> QED
  BY <1>4, FS_CardinalityType DEF idle

\* fpm_pctl(new_state, SET) keeps the types of the variables it sets.
LEMMA PctlSetType ==
    ASSUME MasterType, ProcType, NEW new \in States \ {"normal"}, NEW n, NEW procs,
           NEW next \in PcSet, pctl_set(new, n, procs, next)
    PROVE  /\ pc' \in PcSet
           /\ fpm_state' \in States
           /\ fpm_signal_sent' \in Signals \cup {"none"}
           /\ pctl_event' \in BOOLEAN
           /\ psig' \in [Pids -> SUBSET Signals]
<1>1. ASSUME NEW sent PROVE NextSignal(new, sent) \in Signals
  BY DEF NextSignal, Signals
<1>2. ASSUME SignalAll(new, "none", procs)
      PROVE  fpm_signal_sent' \in Signals /\ psig' \in [Pids -> SUBSET Signals]
  BY <1>1, <1>2 DEF SignalAll, Kill, ProcType
<1> QED
  BY Zenon, <1>2 DEF pctl_set, MasterType, ProcType, PcSet

\* The invariant holds when fpm_run starts: no child, every slot free.
LEMMA InitIInv == Init => IInv
<1> SUFFICES ASSUME Init PROVE IInv
  OBVIOUS
<1> USE ConfigAssumption, BoundAssumption
<1>1. \A wp \in Pools : 0 \in Slots(wp)
  BY DEF Slots
<1>2. \A wp \in Pools : Linked(wp) = {}
  BY DEF Init, Linked, Range
<1>3. AllLinked = {}
  BY <1>2 DEF AllLinked
<1>4. MasterType /\ PoolType
  <2>1. MasterType
    <3>1. 1 \in Pools
      BY DEF Pools
    <3>2. NoMake \in [wp : Pools, max : Nat, ret : {"start", "bury", "maint", "loop"}]
      BY <3>1 DEF NoMake
    <3>3. pctl_event \in BOOLEAN
      BY Zenon DEF Init
    <3> QED
      BY <3>1, <3>2, <3>3 DEF Init, MasterType, PcSet, States
  <2>2. <<>> \in Seq(Pids)
    OBVIOUS
  <2>3. PoolType
    BY <2>2 DEF Init, PoolType
  <2> QED
    BY <2>1, <2>3
<1>5. ScoreboardType
  BY <1>1 DEF Init, ScoreboardType, Stages
<1>6. ProcType /\ EnvType
  BY DEF Init, ProcType, EnvType, NoChild, Live, Pools
<1>7. Lists
  <2>1. IsFiniteSet({}) /\ Cardinality({}) = 0
    BY FS_EmptySet
  <2>2. SlotsOwned /\ NoUnknownChild
    BY Zenon, <1>2, <1>3, <2>1 DEF Init, SlotsOwned, NoUnknownChild
  <2>3. Listed
    <3>1. ASSUME NEW wp \in Pools
          PROVE  DOMAIN children[wp] = {} /\ used[wp] = {} /\ running_children[wp] = 0
      BY DEF Init
    <3> QED
      BY Zenon, <1>2, <1>3, <2>1, <3>1 DEF Listed
  <2> QED
    BY <2>2, <2>3 DEF Lists
<1>8. Capacity /\ mk.max <= pm_max_children[mk.wp] /\ pc # "gone"
  <2>1. 1 \in Pools
    BY DEF Pools
  <2>2. \A wp \in Pools : pm_max_children[wp] \in Nat /\ running_children[wp] = 0
    BY DEF Init
  <2>3. Capacity
    BY <2>2 DEF Init, Capacity
  <2> QED
    BY <2>1, <2>2, <2>3 DEF Init, NoMake
<1> QED
  BY <1>4, <1>5, <1>6, <1>7, <1>8 DEF IInv, TypeOK

--------------------------------------------------------------------------------
(* Every step keeps the types. *)

\* fpm_children_make: a slot is taken or given back, a child is linked.
LEMMA MakeType == IInv /\ Make => TypeOK'
<1> SUFFICES ASSUME IInv, Make PROVE TypeOK'
  OBVIOUS
<1> USE ConfigAssumption
<1>0. MasterType /\ PoolType /\ ScoreboardType /\ ProcType /\ EnvType /\ mk.wp \in Pools
  BY DEF IInv, TypeOK, MasterType
<1>1. ASSUME NEW i \in Slots(mk.wp)
      PROVE  NextFree(mk.wp, i) \in Slots(mk.wp)
  BY <1>0 DEF NextFree, Slots
<1>2. NPools \in Nat /\ cur \in 1..NPools
  BY <1>0 DEF MasterType, Pools
<1>3. ASSUME NEW ph \in PcSet, NextPool(ph) PROVE pc' \in PcSet /\ cur' \in Pools
  BY <1>2, <1>3 DEF NextPool, Pools, PcSet
<1>4. NoMake \in [wp : Pools, max : Nat, ret : {"start", "bury", "maint", "loop"}]
  BY DEF NoMake, Pools
<1>5. ASSUME ReturnFailure, mk' = NoMake
      PROVE  MasterType' /\ psig' \in [Pids -> SUBSET Signals]
  <2>1. CASE mk.ret = "start"
    <3>1. pctl_set("terminating", globals_running, AllLinked, "loop") /\ cur' = 1
      BY <1>5, <2>1 DEF ReturnFailure
    <3>2. "terminating" \in States \ {"normal"} /\ "loop" \in PcSet /\ 1 \in Pools
      BY DEF States, PcSet, Pools
    <3> QED
      BY <1>0, <1>4, <1>5, <3>1, <3>2, PctlSetType DEF MasterType
  <2>2. CASE mk.ret # "start"
    <3>1. pc' \in PcSet /\ cur' \in Pools
      BY <1>0, <1>3, <1>5, <2>2 DEF ReturnFailure, MasterType, PcSet
    <3> QED
      BY <1>0, <1>4, <1>5, <2>2, <3>1 DEF ReturnFailure, MasterType, ProcType
  <2> QED
    BY <2>1, <2>2
<1>6. CASE PrepareFails
  <2>1. MasterType' /\ psig' \in [Pids -> SUBSET Signals]
    BY <1>5, <1>6 DEF PrepareFails
  <2>2. PoolType' /\ ScoreboardType'
    BY <1>0, <1>6 DEF PrepareFails, PoolType, ScoreboardType, poolVars, sbVars
  <2>3. ProcType'
    BY <1>0, <1>6, <2>1 DEF PrepareFails, ProcType
  <2>4. EnvType'
    BY <1>0, <1>6 DEF PrepareFails, EnvType
  <2> QED
    BY <2>1, <2>2, <2>3, <2>4 DEF TypeOK
<1>7. CASE ForkFails
  <2>1. MasterType' /\ psig' \in [Pids -> SUBSET Signals]
    BY <1>5, <1>7 DEF ForkFails
  <2>2. PoolType'
    BY <1>0, <1>7 DEF ForkFails, PoolType, poolVars
  <2>3. ScoreboardType'
    BY <1>0, <1>7 DEF ForkFails, ScoreboardType
  <2>4. ProcType'
    BY <1>0, <1>7, <2>1 DEF ForkFails, ProcType
  <2>5. EnvType'
    BY <1>0, <1>7 DEF ForkFails, EnvType
  <2> QED
    BY <2>1, <2>2, <2>3, <2>4, <2>5 DEF TypeOK
<1>8. CASE MakeDone
  <2>1. pc' \in PcSet /\ cur' \in Pools
    BY <1>0, <1>3, <1>8 DEF MakeDone, MasterType, PcSet
  <2>2. MasterType'
    BY Zenon, <1>0, <1>4, <1>8, <2>1 DEF MakeDone, MasterType
  <2>3. PoolType' /\ ScoreboardType' /\ ProcType' /\ EnvType'
    BY <1>0, <1>8 DEF MakeDone, PoolType, ScoreboardType, ProcType, EnvType,
                      poolVars, sbVars, procVars, envVars
  <2> QED
    BY <2>2, <2>3 DEF TypeOK
<1>9. ASSUME NEW p \in Pids, Fork(p) PROVE TypeOK'
  <2>1. PICK i \in Slots(mk.wp) :
           /\ proc_alloc(mk.wp, i)
           /\ child' = [child EXCEPT ![p] = [wp |-> mk.wp, scoreboard_i |-> i, idle_kill |-> FALSE]]
    BY Zenon, <1>9 DEF Fork
  <2>2. MasterType' /\ EnvType'
    BY <1>0, <1>9 DEF Fork, MasterType, EnvType, masterVars, envVars
  <2>3. PoolType'
    <3>1. children[mk.wp] \in Seq(Pids)
      BY <1>0 DEF PoolType
    <3>2. <<p>> \o children[mk.wp] \in Seq(Pids)
      BY <3>1
    <3> QED
      BY <1>0, <1>9, <3>2 DEF Fork, PoolType, link
  <2>4. ScoreboardType'
    BY <1>0, <1>1, <2>1 DEF ScoreboardType, proc_alloc
  <2>5. ProcType'
    <3>1. i \in Int
      BY <1>0 DEF Slots
    <3> QED
      BY <1>0, <1>9, <2>1, <3>1 DEF Fork, ProcType, Live
  <2> QED
    BY <2>2, <2>3, <2>4, <2>5 DEF TypeOK
<1> QED
  BY <1>6, <1>7, <1>8, <1>9 DEF Make

\* fpm_children_bury: a child is unlinked and its slot cleared.
LEMMA BuryType == IInv /\ Bury => TypeOK'
<1> SUFFICES ASSUME IInv, Bury PROVE TypeOK'
  OBVIOUS
<1> USE ConfigAssumption
<1>0. /\ TypeOK /\ Lists /\ Capacity
      /\ MasterType /\ PoolType /\ ScoreboardType /\ ProcType /\ EnvType
  BY DEF IInv, TypeOK
<1>1. ASSUME NEW p \in Pids, Reap(p)
      PROVE  /\ cur' \in Pools
             /\ PoolType' /\ ScoreboardType' /\ EnvType'
             /\ psig' \in [Pids -> SUBSET Signals] => ProcType'
  <2> DEFINE wp == child[p].wp
             i == child[p].scoreboard_i
  <2>1. wp \in Pools /\ p \in Linked(wp) /\ i \in Slots(wp)
    BY <1>0, <1>1, SlotOfLinked DEF Reap
  <2>2. running_children[wp] \in Nat \ {0} /\ globals_running \in Nat \ {0}
    <3>1. /\ IsFiniteSet(Linked(wp)) /\ IsFiniteSet(AllLinked) /\ p \in AllLinked
          /\ running_children[wp] = Cardinality(Linked(wp))
          /\ globals_running = Cardinality(AllLinked)
      BY <1>0, <2>1 DEF Lists, Listed, NoUnknownChild, AllLinked
    <3> QED
      BY <2>1, <3>1, FS_CardinalityType, FS_EmptySet
  <2>3. PoolType'
    <3>1. Without(children[wp], p) \in Seq(Pids)
      BY Zenon, <1>0, <2>1, WithoutProperties DEF Lists, Listed, Linked, PoolType
    <3> QED
      BY <1>0, <1>1, <2>1, <2>2, <3>1 DEF PoolType, Reap, unlink
  <2>4. ScoreboardType'
    BY <1>0, <1>1, <2>1 DEF ScoreboardType, Reap, proc_free, Stages
  <2>5. cur' \in Pools /\ EnvType'
    BY <1>0, <1>1 DEF Reap, MasterType, EnvType, envVars
  <2>6. NoChild \in [wp : Pools, scoreboard_i : Int, idle_kill : BOOLEAN]
    BY DEF NoChild, Pools
  <2>7. psig' \in [Pids -> SUBSET Signals] => ProcType'
    BY Zenon, <1>0, <1>1, <2>6 DEF Reap, ProcType
  <2> QED
    BY <2>3, <2>4, <2>5, <2>7
<1>2. CASE BuryEnd
  BY Zenon, <1>0, <1>2 DEF BuryEnd, TypeOK, MasterType, PoolType, ScoreboardType, ProcType, EnvType,
                    PcSet, poolVars, sbVars, procVars, envVars
<1>3. ASSUME NEW p \in Pids, BuryLast(p) PROVE TypeOK'
  <2>1. psig' \in [Pids -> SUBSET Signals] /\ Reap(p)
    BY <1>0, <1>3 DEF BuryLast, ProcType
  <2>2. MasterType'
    BY <1>0, <1>1, <1>3, <2>1 DEF BuryLast, MasterType, PcSet
  <2> QED
    BY <1>1, <2>1, <2>2 DEF TypeOK
<1>4. ASSUME NEW p \in Pids, BuryEmergency(p) PROVE TypeOK'
  <2>1. "reloading" \in States \ {"normal"} /\ "bury" \in PcSet
    BY DEF States, PcSet
  <2>2. /\ Reap(p) /\ mk' = mk
        /\ pctl_set("reloading", globals_running - 1, AllLinked \ {p}, "bury")
    BY <1>4 DEF BuryEmergency
  <2>3. MasterType' /\ psig' \in [Pids -> SUBSET Signals]
    BY <1>0, <1>1, <2>1, <2>2, PctlSetType DEF MasterType
  <2> QED
    BY <1>1, <2>2, <2>3 DEF TypeOK
<1>5. ASSUME NEW p \in Pids, BuryRestart(p) PROVE TypeOK'
  <2>1. psig' \in [Pids -> SUBSET Signals] /\ Reap(p)
    BY <1>0, <1>5 DEF BuryRestart, ProcType
  <2>2. child[p].wp \in Pools
    BY <1>0 DEF ProcType
  <2>3. MakeTarget(child[p].wp, running_children[child[p].wp] - 1, 1) \in Nat
    BY <1>0, <2>2 DEF MakeTarget, PoolType
  <2>4. MasterType'
    BY <1>0, <1>1, <1>5, <2>1, <2>2, <2>3 DEF BuryRestart, EnterMake, MasterType, PcSet
  <2> QED
    BY <1>1, <2>1, <2>4 DEF TypeOK
<1>6. ASSUME NEW p \in Pids, BuryNoRestart(p) PROVE TypeOK'
  <2>1. psig' \in [Pids -> SUBSET Signals] /\ Reap(p)
    BY <1>0, <1>6 DEF BuryNoRestart, ProcType
  <2>2. MasterType'
    BY <1>0, <1>1, <1>6, <2>1 DEF BuryNoRestart, MasterType
  <2> QED
    BY <1>1, <2>1, <2>2 DEF TypeOK
<1> QED
  BY <1>2, <1>3, <1>4, <1>5, <1>6 DEF Bury

\* fpm_pctl_perform_idle_server_maintenance: the spawn rate stays a power of two.
LEMMA MaintainType == IInv /\ Maintain => TypeOK'
<1> SUFFICES ASSUME IInv, Maintain PROVE TypeOK'
  OBVIOUS
<1> USE ConfigAssumption
<1>0. MasterType /\ PoolType /\ ScoreboardType /\ ProcType /\ EnvType /\ cur \in Pools
  BY DEF IInv, TypeOK, MasterType
<1>1. ASSUME NextPool("maint") PROVE pc' \in PcSet /\ cur' \in Pools
  BY <1>0, <1>1 DEF NextPool, Pools, PcSet
<1>2. ASSUME UNCHANGED maintUnchanged, NextPool("maint")
      PROVE  MasterType' /\ ScoreboardType' /\ EnvType'
  BY Zenon, <1>0, <1>1, <1>2 DEF maintUnchanged, MasterType, ScoreboardType, EnvType, sbVars, envVars
<1>3. ASSUME NEW r \in {1, 2, 4, 8, 16, FPM_MAX_SPAWN_RATE}, SetSpawnRate(cur, r),
             UNCHANGED maintUnchanged
      PROVE  PoolType'
  BY <1>0, <1>3 DEF SetSpawnRate, PoolType, maintUnchanged
<1>4. ASSUME NEW p, QuitIdle(p), UNCHANGED maintUnchanged PROVE ProcType'
  BY Zenon, <1>0, <1>4 DEF QuitIdle, Kill, ProcType, maintUnchanged, Signals
<1>5. CASE ReapOndemand
  <2>1. PoolType'
    BY <1>0, <1>5 DEF ReapOndemand, PoolType, maintUnchanged
  <2> QED
    BY <1>2, <1>4, <1>5, <2>1 DEF ReapOndemand, TypeOK
<1>6. CASE MaintainNothing
  <2>1. PoolType' /\ ProcType'
    BY <1>0, <1>6 DEF MaintainNothing, PoolType, ProcType, maintUnchanged
  <2> QED
    BY <1>2, <1>6, <2>1 DEF MaintainNothing, TypeOK
<1>7. CASE ReapSpare
  BY <1>2, <1>3, <1>4, <1>7 DEF ReapSpare, TypeOK
<1>8. CASE KeepSpare
  <2>1. ProcType'
    BY <1>0, <1>8 DEF KeepSpare, ProcType, maintUnchanged
  <2> QED
    BY <1>2, <1>3, <1>8, <2>1 DEF KeepSpare, TypeOK
<1>9. CASE SpawnSpare
  <2>1. idle(cur) \in Nat
    BY <1>0, IdleType
  <2>2. MakeTarget(cur, running_children[cur], children_to_fork(cur)) \in Nat
    <3>1. /\ running_children[cur] \in Nat /\ idle_spawn_rate[cur] \in Nat
          /\ pm_min_spare_servers[cur] \in Nat /\ pm_max_children[cur] \in Nat
      <4>1. idle_spawn_rate[cur] \in {1, 2, 4, 8, 16, 32}
        BY <1>0 DEF PoolType, FPM_MAX_SPAWN_RATE
      <4>2. idle_spawn_rate[cur] \in Nat
        BY <4>1
      <4> QED
        BY <1>0, <4>2 DEF PoolType
    <3>2. idle(cur) < pm_min_spare_servers[cur] /\ running_children[cur] < pm_max_children[cur]
      BY Zenon, <1>9 DEF SpawnSpare
    <3>3. children_to_fork(cur) \in Nat
      BY <2>1, <3>1, <3>2 DEF children_to_fork, MinOf
    <3> QED
      BY <3>1, <3>3 DEF MakeTarget
  <2>3. MasterType'
    BY <1>0, <1>9, <2>2 DEF SpawnSpare, EnterMake, MasterType, PcSet
  <2>4. PoolType'
    <3> DEFINE rate == idle_spawn_rate[cur]
    <3>1. (IF rate < FPM_MAX_SPAWN_RATE THEN 2 * rate ELSE rate)
          \in {1, 2, 4, 8, 16, FPM_MAX_SPAWN_RATE}
      <4>1. rate \in {1, 2, 4, 8, 16, 32}
        BY <1>0 DEF PoolType, FPM_MAX_SPAWN_RATE
      <4> HIDE DEF rate
      <4> QED
        BY <4>1 DEF FPM_MAX_SPAWN_RATE
    <3> QED
      BY <1>0, <1>9, <3>1 DEF SpawnSpare, SetSpawnRate, PoolType
  <2>5. ScoreboardType' /\ ProcType' /\ EnvType'
    BY Zenon, <1>0, <1>9 DEF SpawnSpare, ScoreboardType, ProcType, EnvType, sbVars, procVars, envVars
  <2> QED
    BY <2>3, <2>4, <2>5 DEF TypeOK
<1> QED
  BY <1>5, <1>6, <1>7, <1>8, <1>9 DEF Maintain

\* Start-up and the first step of each handler of the event loop.
LEMMA HandlerType == IInv /\ (CreateInitial \/ Handler) => TypeOK'
<1> SUFFICES ASSUME IInv, CreateInitial \/ Handler PROVE TypeOK'
  OBVIOUS
<1> USE ConfigAssumption
<1>0. MasterType /\ PoolType /\ ScoreboardType /\ ProcType /\ EnvType
  BY Zenon DEF IInv, TypeOK
<1>1. CASE CreateInitial
  <2>1. StartTarget(cur) \in Nat /\ cur \in Pools
    BY <1>0 DEF StartTarget, MasterType, Styles
  <2>2. MasterType'
    BY <1>0, <1>1, <2>1 DEF CreateInitial, EnterMake, MasterType, PcSet
  <2> QED
    BY Zenon, <1>0, <1>1, <2>2 DEF CreateInitial, TypeOK, PoolType, ScoreboardType, ProcType, EnvType,
                            poolVars, sbVars, procVars, envVars
<1>2. CASE TimerFires
  <2>1. ASSUME SignalAll(fpm_state, fpm_signal_sent, AllLinked)
        PROVE  fpm_signal_sent' \in Signals /\ psig' \in [Pids -> SUBSET Signals]
    <3>1. NextSignal(fpm_state, fpm_signal_sent) \in Signals
      BY DEF NextSignal, Signals
    <3> QED
      BY <1>0, <2>1, <3>1 DEF SignalAll, Kill, ProcType
  <2>2. psig' \in [Pids -> SUBSET Signals]
    BY <1>0, <1>2, <2>1 DEF TimerFires, ProcType
  <2>3. MasterType'
    <3>1. pc' \in PcSet /\ fpm_signal_sent' \in Signals \cup {"none"}
      BY <1>0, <1>2, <2>1 DEF TimerFires, MasterType, PcSet
    <3> QED
      BY Zenon, <1>0, <1>2, <3>1 DEF TimerFires, MasterType
  <2>4. ProcType'
    BY Zenon, <1>0, <1>2, <2>2 DEF TimerFires, ProcType
  <2>5. PoolType' /\ ScoreboardType' /\ EnvType'
    BY Zenon, <1>0, <1>2 DEF TimerFires, PoolType, ScoreboardType, EnvType, poolVars, sbVars, envVars
  <2> QED
    BY <2>3, <2>4, <2>5 DEF TypeOK
<1>3. CASE GotSigchld
  BY Zenon, <1>0, <1>3 DEF GotSigchld, TypeOK, MasterType, PoolType, ScoreboardType, ProcType, EnvType,
                    PcSet, poolVars, sbVars, procVars
<1>4. CASE MaintenanceStarts
  <2>1. 1 \in Pools
    BY DEF Pools
  <2>2. MasterType'
    BY Zenon, <1>0, <1>4, <2>1 DEF MaintenanceStarts, MasterType, PcSet
  <2>3. PoolType' /\ ScoreboardType' /\ ProcType' /\ EnvType'
    BY Zenon, <1>0, <1>4 DEF MaintenanceStarts, PoolType, ScoreboardType, ProcType, EnvType,
                      poolVars, sbVars, procVars, envVars
  <2> QED
    BY <2>2, <2>3 DEF TypeOK
<1>5. ASSUME NEW c \in {"T", "Q", "2"}, GotControlSignal(c) PROVE TypeOK'
  <2>1. StateOf(c) \in States \ {"normal"} /\ "loop" \in PcSet
    BY DEF StateOf, States, PcSet
  <2>2. /\ pctl_set(StateOf(c), globals_running, AllLinked, "loop")
        /\ cur' = cur /\ mk' = mk
    BY <1>5 DEF GotControlSignal
  <2>3. MasterType' /\ psig' \in [Pids -> SUBSET Signals]
    BY <1>0, <2>1, <2>2, PctlSetType DEF MasterType
  <2>4. ProcType'
    BY Zenon, <1>0, <1>5, <2>3 DEF GotControlSignal, ProcType
  <2>5. PoolType' /\ ScoreboardType' /\ EnvType'
    BY <1>0, <1>5 DEF GotControlSignal, PoolType, ScoreboardType, EnvType, poolVars, sbVars
  <2> QED
    BY <2>3, <2>4, <2>5 DEF TypeOK
<1>6. ASSUME NEW wp \in Pools, OnSocketAccept(wp) PROVE TypeOK'
  <2>1. MakeTarget(wp, running_children[wp], 1) \in Nat
    BY <1>0 DEF MakeTarget, PoolType
  <2>2. MasterType'
    BY <1>0, <1>6, <2>1 DEF OnSocketAccept, EnterMake, MasterType, PcSet
  <2>3. EnvType'
    BY <1>0, <1>6 DEF OnSocketAccept, EnvType
  <2>4. PoolType' /\ ScoreboardType' /\ ProcType'
    BY ZenonT(60), <1>0, <1>6 DEF OnSocketAccept, PoolType, ScoreboardType, ProcType,
                      poolVars, sbVars, procVars
  <2> QED
    BY <2>2, <2>3, <2>4 DEF TypeOK
<1>7. ASSUME NEW p \in Pids, TerminateRequest(p) PROVE TypeOK'
  <2>1. ProcType'
    BY <1>0, <1>7 DEF TerminateRequest, Kill, ProcType, Signals
  <2> QED
    BY Zenon, <1>0, <1>7, <2>1 DEF TerminateRequest, TypeOK, MasterType, PoolType, ScoreboardType,
                            EnvType, masterVars, poolVars, sbVars, envVars
<1> QED
  BY <1>1, <1>2, <1>3, <1>4, <1>5, <1>6, <1>7 DEF Handler

\* What a worker does, and what the signals sent to it do.
LEMMA WorkerType == ASSUME IInv, NEW p \in Pids, Worker(p) \/ Deliver(p) PROVE TypeOK'
<1>0. MasterType /\ PoolType /\ ScoreboardType /\ ProcType /\ EnvType
  BY DEF IInv, TypeOK
<1>1. MasterType' /\ PoolType'
  <2>1. UNCHANGED <<masterVars, poolVars>>
    BY DEF Worker, Deliver, WorkerInit, WorkerWaits, WorkerAccepts, WorkerReads, WorkerFinishes,
           WorkerQuits, WorkerRetires, WorkerFaults, WorkerAges, WorkerInitFails,
           SoftQuit, SignalIgnored, SignalKills
  <2> QED
    BY Zenon, <1>0, <2>1 DEF MasterType, PoolType, masterVars, poolVars
<1>2. ASSUME NEW st \in Stages,
             stage' = [stage EXCEPT ![child[p].wp][child[p].scoreboard_i] = st],
             UNCHANGED <<used, free_proc>>
      PROVE  ScoreboardType'
  BY Zenon, <1>0, <1>2 DEF ScoreboardType
<1>3. UNCHANGED sbVars => ScoreboardType'
  BY Zenon, <1>0 DEF ScoreboardType, sbVars
<1>4. UNCHANGED envVars => EnvType'
  BY <1>0 DEF EnvType, envVars
<1>5. ASSUME NEW st \in {"exit", "TERM", "KILL", "SEGV"}, Dies(p, st)
      PROVE  ProcType' /\ sigpipe' \subseteq {"C", "T", "Q", "2"}
  BY <1>0, <1>5 DEF Dies, Becomes, ProcType, EnvType, Live
<1>6. CASE WorkerInit(p)
  BY <1>0, <1>1, <1>3, <1>4, <1>6 DEF WorkerInit, Becomes, TypeOK, ProcType, Live
<1>7. CASE WorkerWaits(p)
  <2>1. ProcType'
    BY <1>0, <1>7 DEF WorkerWaits, Becomes, SetStage, ProcType, Live
  <2> QED
    BY <1>1, <1>2, <1>4, <1>7, <2>1 DEF WorkerWaits, SetStage, TypeOK, Stages
<1>8. CASE WorkerAccepts(p)
  <2>1. ProcType' /\ EnvType'
    BY <1>0, <1>8 DEF WorkerAccepts, Becomes, ProcType, EnvType, Live
  <2> QED
    BY Zenon, <1>1, <1>3, <1>8, <2>1 DEF WorkerAccepts, TypeOK
<1>9. CASE WorkerAges(p)
  BY Zenon, <1>0, <1>1, <1>3, <1>4, <1>9 DEF WorkerAges, TypeOK, ProcType
<1>10. CASE WorkerReads(p)
  <2>1. ProcType'
    BY <1>0, <1>10 DEF WorkerReads, Becomes, SetStage, ProcType, Live
  <2> QED
    BY <1>1, <1>2, <1>4, <1>10, <2>1 DEF WorkerReads, SetStage, TypeOK, Stages
<1>11. CASE WorkerFinishes(p)
  <2>1. ProcType'
    BY <1>0, <1>11 DEF WorkerFinishes, Becomes, SetStage, ProcType, Live
  <2> QED
    BY <1>1, <1>2, <1>4, <1>11, <2>1 DEF WorkerFinishes, SetStage, TypeOK, Stages
<1>12. CASE WorkerQuits(p)
  BY Zenon, <1>0, <1>1, <1>3, <1>5, <1>12 DEF WorkerQuits, TypeOK, EnvType
<1>13. CASE WorkerRetires(p)
  BY <1>0, <1>1, <1>2, <1>5, <1>13 DEF WorkerRetires, TypeOK, EnvType, Stages
<1>14. CASE WorkerFaults(p) \/ WorkerInitFails(p)
  <2>1. budget' \in [{"conn", "fault", "fork", "admin"} -> Nat]
    BY <1>0, <1>14 DEF WorkerFaults, WorkerInitFails, EnvType
  <2> QED
    BY <1>0, <1>1, <1>3, <1>5, <1>14, <2>1 DEF WorkerFaults, WorkerInitFails, TypeOK, EnvType
<1>15. CASE SoftQuit(p)
  BY Zenon, <1>0, <1>1, <1>3, <1>4, <1>15 DEF SoftQuit, TypeOK, ProcType
<1>16. ASSUME NEW s \in Signals, SignalIgnored(p, s) PROVE TypeOK'
  BY Zenon, <1>0, <1>1, <1>3, <1>4, <1>16 DEF SignalIgnored, TypeOK, ProcType
<1>17. ASSUME NEW s \in Signals, SignalKills(p, s) PROVE TypeOK'
  BY Zenon, <1>0, <1>1, <1>3, <1>5, <1>17 DEF SignalKills, TypeOK, EnvType
<1> QED
  BY Zenon, <1>6, <1>7, <1>8, <1>9, <1>10, <1>11, <1>12, <1>13, <1>14, <1>15, <1>16, <1>17
     DEF Worker, Deliver

\* Connections and the administrator's signals.
LEMMA EnvironmentType == IInv /\ Environment => TypeOK'
<1> SUFFICES ASSUME IInv, Environment PROVE TypeOK'
  OBVIOUS
<1>0. MasterType /\ PoolType /\ ScoreboardType /\ ProcType /\ EnvType
  BY DEF IInv, TypeOK
<1>1. UNCHANGED <<masterVars, poolVars, sbVars, procVars>>
  BY Zenon DEF Environment, Connect, AdminSignal
<1>2. MasterType' /\ PoolType' /\ ScoreboardType' /\ ProcType'
  BY Zenon, <1>0, <1>1 DEF MasterType, PoolType, ScoreboardType, ProcType,
                    masterVars, poolVars, sbVars, procVars
<1>3. EnvType'
  <2>1. ASSUME NEW wp \in Pools, Connect(wp) PROVE EnvType'
    <3>1. (pm[wp] = "ondemand") \in BOOLEAN
      OBVIOUS
    <3>2. edge' \in [Pools -> BOOLEAN]
      BY <1>0, <2>1, <3>1 DEF Connect, EnvType
    <3> QED
      BY <1>0, <2>1, <3>2 DEF Connect, EnvType
  <2>2. ASSUME NEW c \in {"T", "Q", "2"}, AdminSignal(c) PROVE EnvType'
    BY <1>0, <2>2 DEF AdminSignal, EnvType
  <2> QED
    BY <2>1, <2>2 DEF Environment
<1> QED
  BY <1>2, <1>3 DEF TypeOK

--------------------------------------------------------------------------------
(* Every step keeps the lists, the counters, the slots and the processes in agreement. *)

\* Every element of a list of children is a process identifier.
LEMMA LinkedPids ==
    ASSUME PoolType, NEW wp \in Pools
    PROVE  Linked(wp) \subseteq Pids /\ Linked(wp) \subseteq AllLinked
<1>1. children[wp] \in Seq(Pids)
  BY DEF PoolType
<1>2. \A i \in DOMAIN children[wp] : children[wp][i] \in Pids
  BY <1>1
<1> QED
  BY <1>2 DEF Linked, AllLinked, Range

\* A step that neither links nor unlinks a child, and lets no process begin or vanish.
LEMMA FrameLists ==
    ASSUME PoolType, Lists,
           UNCHANGED <<children, running_children, globals_running, used>>,
           \A p \in Pids : /\ child'[p].wp = child[p].wp
                           /\ child'[p].scoreboard_i = child[p].scoreboard_i
                           /\ wstate'[p] = "free" <=> wstate[p] = "free"
    PROVE  Lists'
<1>1. \A wp \in Pools : Linked(wp)' = Linked(wp)
  BY DEF Linked
<1>2. AllLinked' = AllLinked
  BY <1>1 DEF AllLinked
<1>3. \A wp \in Pools : Linked(wp) \subseteq Pids
  BY Zenon, LinkedPids
<1>4. SlotsOwned'
  <2>1. ASSUME NEW wp \in Pools
        PROVE  {child[p].scoreboard_i : p \in Linked(wp)}' = {child[p].scoreboard_i : p \in Linked(wp)}
    BY Zenon, <1>1, <1>3
  <2> QED
    BY Zenon, <1>1, <1>3, <2>1 DEF SlotsOwned, Lists
<1>5. NoUnknownChild'
  BY Zenon, <1>1, <1>2 DEF NoUnknownChild, Lists
<1>6. Listed'
  BY <1>1, <1>2, <1>3 DEF Listed, Lists
<1> QED
  BY <1>4, <1>5, <1>6 DEF Lists

\* Children whose records are the same have the same slots.
LEMMA ImageFrame ==
    ASSUME NEW S, NEW f, NEW g, \A q \in S : f[q] = g[q]
    PROVE  {f[q].scoreboard_i : q \in S} = {g[q].scoreboard_i : q \in S}
  OBVIOUS

\* fork: a new child, on the list and in a slot of its own.
LEMMA ForkLists == ASSUME IInv, NEW p \in Pids, Fork(p) PROVE Lists'
<1>w. PICK w \in Pools : w = mk.wp
  BY DEF IInv, TypeOK, MasterType
<1>0. TypeOK /\ PoolType /\ ScoreboardType /\ ProcType /\ Lists
  BY DEF IInv, TypeOK
<1>1. PICK i \in Slots(w) :
         /\ i \notin used[w]
         /\ proc_alloc(w, i)
         /\ child' = [child EXCEPT ![p] = [wp |-> w, scoreboard_i |-> i, idle_kill |-> FALSE]]
  BY ZenonT(60), <1>w DEF Fork, Allocates, FreeSlots
<1>2. /\ p \notin AllLinked
      /\ wstate' = [wstate EXCEPT ![p] = "newborn"]
      /\ link(w, p)
  BY Zenon, <1>w, <1>0 DEF Fork, Lists, NoUnknownChild
<1>3. \A wp \in Pools : Linked(wp) \subseteq Pids /\ Linked(wp) \subseteq AllLinked
  BY <1>0, LinkedPids
<1>4. children[w] \in Seq(Pids) /\ children'[w] = <<p>> \o children[w]
      /\ \A wp \in Pools \ {w} : children'[wp] = children[wp]
  BY <1>0, <1>2 DEF link, PoolType
<1>5. Linked(w)' = Linked(w) \cup {p} /\ \A wp \in Pools \ {w} : Linked(wp)' = Linked(wp)
  <2>1. Range(<<p>> \o children[w]) = Range(children[w]) \cup {p}
    BY <1>4, PushRange
  <2> QED
    BY Zenon, <1>4, <2>1 DEF Linked
<1>6. AllLinked' = AllLinked \cup {p}
  BY Zenon, <1>0, <1>5 DEF AllLinked
<1>7. /\ child'[p].wp = w /\ child'[p].scoreboard_i = i
      /\ \A q \in Pids \ {p} : child'[q] = child[q]
  BY Zenon, <1>0, <1>1 DEF ProcType
<1>8. used'[w] = used[w] \cup {i} /\ \A wp \in Pools \ {w} : used'[wp] = used[wp]
  BY Zenon, <1>0, <1>1 DEF proc_alloc, ScoreboardType
<1>9. SlotsOwned'
  <2>1. SlotsOwned
    BY Zenon, <1>0 DEF Lists
  <2>2. \A wp \in Pools : \A q \in Linked(wp) : q # p /\ child'[q] = child[q]
    BY Zenon, <1>2, <1>3, <1>7
  <2>3. ASSUME NEW wp \in Pools, wp # w
        PROVE  /\ used'[wp] = {child'[q].scoreboard_i : q \in Linked(wp)'}
               /\ \A q, r \in Linked(wp)' : child'[q].scoreboard_i = child'[r].scoreboard_i => q = r
    <3>1. /\ used[wp] = {child[q].scoreboard_i : q \in Linked(wp)}
          /\ \A q, r \in Linked(wp) : child[q].scoreboard_i = child[r].scoreboard_i => q = r
      BY Zenon, <2>1 DEF SlotsOwned
    <3>2. {child'[q].scoreboard_i : q \in Linked(wp)} = {child[q].scoreboard_i : q \in Linked(wp)}
      BY <2>2, ImageFrame
    <3>3. Linked(wp)' = Linked(wp) /\ used'[wp] = used[wp]
      BY Zenon, <1>5, <1>8, <2>3
    <3>4. \A q, r \in Linked(wp) : child'[q].scoreboard_i = child'[r].scoreboard_i => q = r
      BY Zenon, <2>2, <3>1
    <3>5. used'[wp] = {child'[q].scoreboard_i : q \in Linked(wp)}
      BY Zenon, <3>1, <3>2, <3>3
    <3>6. used'[wp] = {child'[q].scoreboard_i : q \in Linked(wp)'}
      BY Zenon, <3>3, <3>5
    <3>7. \A q, r \in Linked(wp)' : child'[q].scoreboard_i = child'[r].scoreboard_i => q = r
      BY Zenon, <3>3, <3>4
    <3> QED
      BY Zenon, <3>6, <3>7
  <2>4. used'[w] = {child'[q].scoreboard_i : q \in Linked(w)'}
    <3>1. used[w] = {child'[q].scoreboard_i : q \in Linked(w)}
      <4>1. used[w] = {child[q].scoreboard_i : q \in Linked(w)}
        BY Zenon, <2>1 DEF SlotsOwned
      <4>2. {child'[q].scoreboard_i : q \in Linked(w)} = {child[q].scoreboard_i : q \in Linked(w)}
        BY <2>2, ImageFrame
      <4> QED
        BY Zenon, <4>1, <4>2
    <3> QED
      BY <1>5, <1>7, <1>8, <3>1
  <2>5. \A q, r \in Linked(w)' : child'[q].scoreboard_i = child'[r].scoreboard_i => q = r
    <3>1. \A q \in Linked(w) : child'[q].scoreboard_i \in used[w]
      BY <1>0, <2>1, <2>2 DEF SlotsOwned
    <3>2. \A q, r \in Linked(w) : child'[q].scoreboard_i = child'[r].scoreboard_i => q = r
      BY <1>0, <2>1, <2>2 DEF SlotsOwned
    <3> QED
      <4>1. \A q \in Linked(w) : child'[q].scoreboard_i # i
        BY Zenon, <1>1, <3>1
      <4> QED
        BY Zenon, <1>5, <1>7, <3>2, <4>1
  <2> QED
    BY <2>3, <2>4, <2>5 DEF SlotsOwned
<1>10. NoUnknownChild'
  <2>1. NoUnknownChild /\ IsFiniteSet(Linked(w)) /\ IsFiniteSet(AllLinked) /\ p \notin Linked(w)
    BY Zenon, <1>0, <1>2, <1>3 DEF Lists, Listed
  <2>2. /\ Cardinality(Linked(w) \cup {p}) = Cardinality(Linked(w)) + 1
        /\ Cardinality(AllLinked \cup {p}) = Cardinality(AllLinked) + 1
    BY Zenon, <1>2, <2>1, FS_AddElement
  <2>3. /\ running_children'[w] = running_children[w] + 1
        /\ \A wp \in Pools \ {w} : running_children'[wp] = running_children[wp]
        /\ globals_running' = globals_running + 1
    BY <1>0, <1>2 DEF link, PoolType
  <2>4. \A q \in Pids : wstate'[q] # "free" <=> q \in AllLinked'
    BY Zenon, <1>0, <1>2, <1>6, <2>1 DEF NoUnknownChild, ProcType
  <2>5. \A wp \in Pools : running_children'[wp] = Cardinality(Linked(wp)')
    BY Zenon, <1>0, <1>5, <2>1, <2>2, <2>3 DEF NoUnknownChild
  <2>6. globals_running' = Cardinality(AllLinked')
    BY Zenon, <1>6, <2>1, <2>2, <2>3 DEF NoUnknownChild
  <2> QED
    BY Zenon, <2>4, <2>5, <2>6 DEF NoUnknownChild
<1>11. Listed'
  <2>1. Listed
    BY <1>0 DEF Lists
  <2>2. /\ IsFiniteSet(Linked(w) \cup {p}) /\ IsFiniteSet(AllLinked \cup {p})
        /\ IsFiniteSet(used[w] \cup {i})
        /\ Cardinality(used[w] \cup {i}) = Cardinality(used[w]) + 1
    BY Zenon, <1>0, <1>1, <2>1, FS_AddElement DEF Listed
  <2>3. /\ running_children'[w] = running_children[w] + 1
        /\ \A wp \in Pools \ {w} : running_children'[wp] = running_children[wp]
    BY Zenon, <1>0, <1>2 DEF link, PoolType
  <2>4. \A n, m \in DOMAIN children'[w] : children'[w][n] = children'[w][m] => n = m
    <3>1. p \notin Range(children[w])
      BY Zenon, <1>0, <1>2, <1>3 DEF Linked
    <3>2. \A n, m \in DOMAIN children[w] : children[w][n] = children[w][m] => n = m
      BY <2>1 DEF Listed
    <3>3. \A n, m \in DOMAIN (<<p>> \o children[w]) :
             (<<p>> \o children[w])[n] = (<<p>> \o children[w])[m] => n = m
      BY <1>4, <3>1, <3>2, PushProperties, Zenon
    <3> QED
      BY Zenon, <1>4, <3>3
  <2>5. \A wp \in Pools : \A q \in Linked(wp)' : child'[q].wp = wp
    BY <1>0, <1>2, <1>3, <1>5, <1>7, <2>1 DEF Listed
  <2>6. ASSUME NEW wp \in Pools, wp # w
        PROVE  /\ \A n, m \in DOMAIN children'[wp] : children'[wp][n] = children'[wp][m] => n = m
               /\ IsFiniteSet(Linked(wp)') /\ IsFiniteSet(used'[wp])
               /\ Cardinality(used'[wp]) = running_children'[wp]
    <3>1. /\ \A n, m \in DOMAIN children[wp] : children[wp][n] = children[wp][m] => n = m
          /\ IsFiniteSet(Linked(wp)) /\ IsFiniteSet(used[wp])
          /\ Cardinality(used[wp]) = running_children[wp]
      BY Zenon, <2>1 DEF Listed
    <3>2. wp \in Pools \ {w}
      BY Zenon, <2>6
    <3>3. /\ children'[wp] = children[wp] /\ Linked(wp)' = Linked(wp)
          /\ used'[wp] = used[wp] /\ running_children'[wp] = running_children[wp]
      BY Zenon, <1>4, <1>5, <1>8, <2>3, <3>2
    <3> QED
      BY Zenon, <3>1, <3>3
  <2>7. /\ IsFiniteSet(Linked(w)') /\ IsFiniteSet(used'[w])
        /\ Cardinality(used'[w]) = running_children'[w] /\ IsFiniteSet(AllLinked')
    BY Zenon, <1>0, <1>5, <1>6, <1>8, <2>1, <2>2, <2>3 DEF Listed
  <2> QED
    BY Zenon, <2>4, <2>5, <2>6, <2>7 DEF Listed
<1> QED
  BY <1>9, <1>10, <1>11 DEF Lists

\* bury: a child leaves its list, its slot and the process table.
LEMMA ReapLists == ASSUME IInv, NEW p \in Pids, Reap(p) PROVE Lists'
<1>0. TypeOK /\ PoolType /\ ScoreboardType /\ ProcType /\ Lists
  BY DEF IInv, TypeOK
<1>w. PICK w \in Pools : w = child[p].wp
  BY Zenon, <1>0 DEF ProcType
<1>i. PICK i \in Slots(w) : i = child[p].scoreboard_i
  BY Zenon, <1>0, <1>w, SlotOfLinked DEF Reap
<1>1. p \in Linked(w) /\ p \in AllLinked /\ i \in used[w]
  BY Zenon, <1>0, <1>w, <1>i, SlotOfLinked DEF Reap, AllLinked
<1>2. /\ unlink(w, p) /\ proc_free(w, i)
      /\ child' = [child EXCEPT ![p] = NoChild]
      /\ wstate' = [wstate EXCEPT ![p] = "free"]
  BY <1>w, <1>i DEF Reap
<1>3. \A wp \in Pools : Linked(wp) \subseteq Pids /\ Linked(wp) \subseteq AllLinked
  BY <1>0, LinkedPids
<1>4. /\ children[w] \in Seq(Pids) /\ children'[w] = Without(children[w], p)
      /\ \A wp \in Pools \ {w} : children'[wp] = children[wp]
      /\ \A n, m \in DOMAIN children[w] : children[w][n] = children[w][m] => n = m
  BY Zenon, <1>0, <1>2 DEF unlink, PoolType, Lists, Listed
<1>5. \A wp \in Pools \ {w} : Linked(wp)' = Linked(wp) /\ p \notin Linked(wp)
  BY ZenonT(60), <1>0, <1>4, <1>w DEF Linked, Lists, Listed
<1>6. /\ Linked(w)' = Linked(w) \ {p}
      /\ \A n, m \in DOMAIN children'[w] : children'[w][n] = children'[w][m] => n = m
  <2>1. /\ Range(Without(children[w], p)) = Range(children[w]) \ {p}
        /\ \A n, m \in DOMAIN Without(children[w], p) :
              Without(children[w], p)[n] = Without(children[w], p)[m] => n = m
    BY <1>1, <1>4, WithoutProperties, Zenon DEF Linked
  <2> QED
    BY <1>4, <2>1 DEF Linked
<1>7. AllLinked' = AllLinked \ {p}
  BY <1>5, <1>6 DEF AllLinked
<1>8. \A q \in Pids \ {p} : child'[q] = child[q]
  BY Zenon, <1>0, <1>2 DEF ProcType
<1>9. used'[w] = used[w] \ {i} /\ \A wp \in Pools \ {w} : used'[wp] = used[wp]
  BY Zenon, <1>0, <1>2 DEF proc_free, ScoreboardType
<1>10. /\ running_children'[w] = running_children[w] - 1
       /\ \A wp \in Pools \ {w} : running_children'[wp] = running_children[wp]
       /\ globals_running' = globals_running - 1
  BY Zenon, <1>0, <1>2 DEF unlink, PoolType
<1>11. SlotsOwned'
  <2>1. SlotsOwned
    BY Zenon, <1>0 DEF Lists
  <2>2. \A wp \in Pools : \A q \in Linked(wp)' : q \in Linked(wp) /\ q # p /\ child'[q] = child[q]
    BY Zenon, <1>3, <1>5, <1>6, <1>8
  <2>3. ASSUME NEW wp \in Pools, wp # w
        PROVE  used'[wp] = {child'[q].scoreboard_i : q \in Linked(wp)'}
    <3>1. used[wp] = {child[q].scoreboard_i : q \in Linked(wp)}
      BY Zenon, <2>1 DEF SlotsOwned
    <3>2. Linked(wp)' = Linked(wp) /\ used'[wp] = used[wp]
      BY Zenon, <1>5, <1>9, <2>3
    <3>3. \A q \in Linked(wp) : child'[q] = child[q]
      BY Zenon, <2>2, <3>2
    <3>4. {child'[q].scoreboard_i : q \in Linked(wp)} = {child[q].scoreboard_i : q \in Linked(wp)}
      BY <3>3, ImageFrame
    <3> QED
      BY Zenon, <3>1, <3>2, <3>4
  <2>4. used'[w] = {child'[q].scoreboard_i : q \in Linked(w)'}
    <3>1. used[w] = {child[q].scoreboard_i : q \in Linked(w)}
      BY Zenon, <2>1 DEF SlotsOwned
    <3>2. \A q \in Linked(w) : child[q].scoreboard_i = i => q = p
      BY Zenon, <1>1, <1>i, <2>1 DEF SlotsOwned
    <3>3. used[w] \ {i} = {child[q].scoreboard_i : q \in Linked(w) \ {p}}
      BY Zenon, <1>i, <3>1, <3>2
    <3> QED
      BY <1>6, <1>9, <2>2, <3>3
  <2>5. \A wp \in Pools : \A q, r \in Linked(wp)' :
           child'[q].scoreboard_i = child'[r].scoreboard_i => q = r
    BY Zenon, <2>1, <2>2 DEF SlotsOwned
  <2> QED
    BY <2>3, <2>4, <2>5 DEF SlotsOwned
<1>12. NoUnknownChild'
  <2>1. NoUnknownChild /\ IsFiniteSet(Linked(w)) /\ IsFiniteSet(AllLinked)
    BY <1>0 DEF Lists, Listed
  <2>2. /\ Cardinality(Linked(w) \ {p}) = Cardinality(Linked(w)) - 1
        /\ Cardinality(AllLinked \ {p}) = Cardinality(AllLinked) - 1
    BY Zenon, <1>1, <2>1, FS_RemoveElement
  <2>3. \A q \in Pids : wstate'[q] # "free" <=> q \in AllLinked'
    BY <1>0, <1>2, <1>7, <2>1 DEF NoUnknownChild, ProcType
  <2>4. \A wp \in Pools : running_children'[wp] = Cardinality(Linked(wp)')
    BY Zenon, <1>5, <1>6, <1>10, <2>1, <2>2 DEF NoUnknownChild
  <2>5. globals_running' = Cardinality(AllLinked')
    BY Zenon, <1>7, <1>10, <2>1, <2>2 DEF NoUnknownChild
  <2> QED
    BY <2>3, <2>4, <2>5 DEF NoUnknownChild
<1>13. Listed'
  <2>1. Listed
    BY Zenon, <1>0 DEF Lists
  <2>2. /\ IsFiniteSet(Linked(w) \ {p}) /\ IsFiniteSet(AllLinked \ {p})
        /\ IsFiniteSet(used[w] \ {i})
        /\ Cardinality(used[w] \ {i}) = Cardinality(used[w]) - 1
    BY Zenon, <1>1, <2>1, FS_RemoveElement DEF Listed
  <2>3. \A wp \in Pools : \A q \in Linked(wp)' : child'[q].wp = wp
    <3>1. \A wp \in Pools : \A q \in Linked(wp)' : q \in Linked(wp) /\ child'[q] = child[q]
      BY Zenon, <1>3, <1>5, <1>6, <1>8
    <3>2. \A wp \in Pools : \A q \in Linked(wp) : child[q].wp = wp
      BY Zenon, <2>1 DEF Listed
    <3> QED
      BY Zenon, <3>1, <3>2
  <2>4. ASSUME NEW wp \in Pools, wp # w
        PROVE  /\ \A n, m \in DOMAIN children'[wp] : children'[wp][n] = children'[wp][m] => n = m
               /\ IsFiniteSet(Linked(wp)') /\ IsFiniteSet(used'[wp])
               /\ Cardinality(used'[wp]) = running_children'[wp]
    <3>1. /\ \A n, m \in DOMAIN children[wp] : children[wp][n] = children[wp][m] => n = m
          /\ IsFiniteSet(Linked(wp)) /\ IsFiniteSet(used[wp])
          /\ Cardinality(used[wp]) = running_children[wp]
      BY Zenon, <2>1 DEF Listed
    <3>2. wp \in Pools \ {w}
      BY Zenon, <2>4
    <3>3. /\ children'[wp] = children[wp] /\ Linked(wp)' = Linked(wp)
          /\ used'[wp] = used[wp] /\ running_children'[wp] = running_children[wp]
      BY Zenon, <1>4, <1>5, <1>9, <1>10, <3>2
    <3> QED
      BY Zenon, <3>1, <3>3
  <2>5. /\ IsFiniteSet(Linked(w)') /\ IsFiniteSet(used'[w])
        /\ Cardinality(used'[w]) = running_children'[w] /\ IsFiniteSet(AllLinked')
    BY Zenon, <1>6, <1>7, <1>9, <1>10, <2>1, <2>2 DEF Listed
  <2> QED
    BY Zenon, <1>6, <2>3, <2>4, <2>5 DEF Listed
<1> QED
  BY Zenon, <1>11, <1>12, <1>13 DEF Lists

\* Every step.
LEMMA ListsStep == IInv /\ Next => Lists'
<1> SUFFICES ASSUME IInv, Next PROVE Lists'
  OBVIOUS
<1>0. PoolType /\ ProcType /\ Lists
  BY DEF IInv, TypeOK
<1>1. ASSUME UNCHANGED <<children, running_children, globals_running, used, child, wstate>>
      PROVE  Lists'
  BY Zenon, <1>0, <1>1, FrameLists
<1>2. CASE CreateInitial \/ Handler
  BY Zenon, <1>1, <1>2 DEF CreateInitial, Handler, TimerFires, GotSigchld, MaintenanceStarts,
                    GotControlSignal, OnSocketAccept, TerminateRequest, poolVars, sbVars, procVars
<1>3. CASE Make
  <2>1. CASE PrepareFails \/ ForkFails \/ MakeDone
    BY <1>1, <2>1 DEF PrepareFails, ForkFails, MakeDone, poolVars, sbVars, procVars
  <2> QED
    BY Zenon, <1>3, <2>1, ForkLists DEF Make
<1>4. CASE Bury
  <2>1. CASE BuryEnd
    BY <1>1, <2>1 DEF BuryEnd, poolVars, sbVars, procVars
  <2> QED
    BY Zenon, <1>4, <2>1, ReapLists DEF Bury, BuryLast, BuryEmergency, BuryRestart, BuryNoRestart
<1>5. CASE Maintain
  <2>1. ASSUME NEW q, QuitIdle(q), UNCHANGED maintUnchanged PROVE Lists'
    <3>1. \A p \in Pids : child'[p].wp = child[p].wp /\ child'[p].scoreboard_i = child[p].scoreboard_i
      BY Zenon, <1>0, <2>1 DEF QuitIdle, ProcType
    <3> QED
      BY Zenon, <1>0, <2>1, <3>1, FrameLists DEF maintUnchanged, sbVars
  <2>2. CASE ReapOndemand \/ ReapSpare
    BY <2>1, <2>2 DEF ReapOndemand, ReapSpare
  <2>3. CASE MaintainNothing \/ KeepSpare \/ SpawnSpare
    BY ZenonT(60), <1>1, <2>3 DEF MaintainNothing, KeepSpare, SpawnSpare, maintUnchanged, sbVars, procVars
  <2> QED
    BY <1>5, <2>2, <2>3 DEF Maintain
<1>6. ASSUME NEW p \in Pids, Worker(p) \/ Deliver(p) PROVE Lists'
  <2>1. UNCHANGED <<children, running_children, globals_running, used, child>>
    BY Zenon, <1>6 DEF Worker, Deliver, WorkerInit, WorkerWaits, WorkerAccepts, WorkerReads,
         WorkerFinishes, WorkerQuits, WorkerRetires, WorkerFaults, WorkerAges, WorkerInitFails,
         SoftQuit, SignalIgnored, SignalKills, Dies, poolVars, sbVars
  <2>2. \A q \in Pids : wstate'[q] = "free" <=> wstate[q] = "free"
    <3>1. \/ wstate' = wstate
          \/ wstate[p] # "free" /\ \E st \in {"ready", "accepting", "accepted", "busy", "zombie"} :
                                      wstate' = [wstate EXCEPT ![p] = st]
      BY Zenon, <1>6 DEF Worker, Deliver, WorkerInit, WorkerWaits, WorkerAccepts, WorkerReads,
           WorkerFinishes, WorkerQuits, WorkerRetires, WorkerFaults, WorkerAges, WorkerInitFails,
           SoftQuit, SignalIgnored, SignalKills, Dies, Becomes, Live
    <3> QED
      BY <1>0, <3>1 DEF ProcType
  <2> QED
    BY <1>0, <2>1, <2>2, FrameLists
<1>7. CASE Environment
  BY Zenon, <1>1, <1>7 DEF Environment, Connect, AdminSignal, poolVars, sbVars, procVars
<1> QED
  BY <1>2, <1>3, <1>4, <1>5, <1>6, <1>7 DEF Next

--------------------------------------------------------------------------------
(* Every step keeps the limits, and the master ends only without children. *)

\* What a step must show besides types and lists.
Control ==
    /\ Capacity
    /\ mk.max <= pm_max_children[mk.wp]
    /\ pc = "gone" => globals_running = 0

\* A fork keeps within pm.max_children and process.max; a failed one changes no count.
LEMMA ControlMake == IInv /\ Make => Control'
<1> SUFFICES ASSUME IInv, Make PROVE Control'
  OBVIOUS
<1> USE ConfigAssumption
<1>0. MasterType /\ PoolType /\ Control
  BY DEF IInv, TypeOK, Control
<1>1. mk' = NoMake => mk'.max <= pm_max_children[mk'.wp]
  BY DEF NoMake, Pools
<1>2. ASSUME UNCHANGED <<running_children, globals_running>> PROVE Capacity'
  BY <1>0, <1>2 DEF Control, Capacity
<1>3. ASSUME ReturnFailure, UNCHANGED globals_running PROVE pc' = "gone" => globals_running' = 0
  BY Zenon, <1>0, <1>3 DEF ReturnFailure, pctl_set, NextPool, MasterType
<1>4. CASE PrepareFails \/ ForkFails
  BY Zenon, <1>1, <1>2, <1>3, <1>4 DEF PrepareFails, ForkFails, Control, poolVars
<1>5. CASE MakeDone
  <2>1. pc' # "gone"
    BY Zenon, <1>0, <1>5 DEF MakeDone, NextPool, MasterType
  <2> QED
    BY Zenon, <1>1, <1>2, <1>5, <2>1 DEF MakeDone, Control, poolVars
<1>6. ASSUME NEW p \in Pids, Fork(p) PROVE Control'
  <2>1. PICK w \in Pools : w = mk.wp
    BY Zenon, <1>0 DEF MasterType
  <2>2. /\ running_children' = [running_children EXCEPT ![w] = @ + 1]
        /\ globals_running' = globals_running + 1
        /\ running_children[w] < mk.max /\ mk.max <= pm_max_children[w]
        /\ process_max < 1 \/ globals_running < process_max
    BY <1>0, <1>6, <2>1 DEF Fork, link, MayFork, Control
  <2>3. running_children[w] + 1 <= pm_max_children[w]
    <3>1. /\ running_children[w] \in Nat /\ mk.max \in Nat /\ pm_max_children[w] \in Nat
      BY Zenon, <1>0 DEF PoolType, MasterType
    <3> QED
      BY <2>2, <3>1
  <2>4. Capacity'
    BY <1>0, <2>2, <2>3 DEF Capacity, Control, PoolType
  <2>5. UNCHANGED <<pc, mk>> /\ pc # "gone"
    BY <1>6 DEF Fork, masterVars
  <2> QED
    BY <1>0, <2>4, <2>5 DEF Control
<1> QED
  BY <1>4, <1>5, <1>6 DEF Make

\* A burial makes room, and a restart asks for the one child that went.
LEMMA ControlBury == IInv /\ Bury => Control'
<1> SUFFICES ASSUME IInv, Bury PROVE Control'
  OBVIOUS
<1> USE ConfigAssumption
<1>0. MasterType /\ PoolType /\ ProcType /\ Control
  BY Zenon DEF IInv, TypeOK, Control
<1>1. ASSUME NEW p \in Pids, Reap(p)
      PROVE  Capacity' /\ globals_running' = globals_running - 1 /\ pc # "gone"
  <2>1. PICK w \in Pools : w = child[p].wp
    BY Zenon, <1>0 DEF ProcType
  <2>2. /\ running_children' = [running_children EXCEPT ![w] = @ - 1]
        /\ globals_running' = globals_running - 1 /\ pc = "bury"
    BY Zenon, <1>1, <2>1 DEF Reap, unlink
  <2> QED
    BY <1>0, <2>2 DEF Capacity, Control, PoolType
<1>2. CASE BuryEnd
  BY <1>0, <1>2 DEF BuryEnd, Control, Capacity, poolVars
<1>3. ASSUME NEW p \in Pids, BuryLast(p) PROVE Control'
  BY <1>0, <1>1, <1>3 DEF BuryLast, Control
<1>4. ASSUME NEW p \in Pids, BuryEmergency(p) PROVE Control'
  <2>1. pc' = "gone" => globals_running - 1 = 0
    BY Zenon, <1>4 DEF BuryEmergency, pctl_set
  <2> QED
    BY Zenon, <1>0, <1>1, <1>4, <2>1 DEF BuryEmergency, Control
<1>5. ASSUME NEW p \in Pids, BuryRestart(p) PROVE Control'
  <2>1. PICK w \in Pools : w = child[p].wp
    BY <1>0 DEF ProcType
  <2>2. Reap(p) /\ EnterMake(w, MakeTarget(w, running_children[w] - 1, 1), "bury")
    BY <1>5, <2>1 DEF BuryRestart
  <2>3. MakeTarget(w, running_children[w] - 1, 1) <= pm_max_children[w]
    BY <1>0 DEF MakeTarget, Control, Capacity, PoolType
  <2> QED
    BY Zenon, <1>1, <2>2, <2>3 DEF EnterMake, Control
<1>6. ASSUME NEW p \in Pids, BuryNoRestart(p) PROVE Control'
  BY Zenon, <1>0, <1>1, <1>6 DEF BuryNoRestart, Control
<1> QED
  BY <1>2, <1>3, <1>4, <1>5, <1>6 DEF Bury

\* The other steps change no count; maintenance and accept ask within the limit.
LEMMA ControlRest == IInv /\ Next /\ ~Make /\ ~Bury => Control'
<1> SUFFICES ASSUME IInv, Next, ~Make, ~Bury PROVE Control'
  OBVIOUS
<1> USE ConfigAssumption
<1>0. MasterType /\ PoolType /\ Control
  BY Zenon DEF IInv, TypeOK, Control
<1>1. ASSUME UNCHANGED <<running_children, globals_running, mk>>,
             pc' = "gone" => pc = "gone" \/ globals_running = 0
      PROVE  Control'
  BY Zenon, <1>0, <1>1 DEF Control, Capacity
<1>2. ASSUME UNCHANGED <<running_children, globals_running>>,
             NEW w \in Pools, NEW max, NEW ret, max <= pm_max_children[w], EnterMake(w, max, ret)
      PROVE  Control'
  BY Zenon, <1>0, <1>2 DEF Control, Capacity, EnterMake
<1>3. CASE CreateInitial
  <2>1. PICK w \in Pools : w = cur
    BY <1>0 DEF MasterType
  <2>2. StartTarget(w) <= pm_max_children[w]
    <3>1. pm[w] \in Styles /\ pm_max_children[w] \in Nat /\ pm_start_servers[w] \in Nat
          /\ pm_max_spare_servers[w] \in Nat
      OBVIOUS
    <3> QED
      BY <3>1 DEF StartTarget, Styles
  <2> QED
    BY Zenon, <1>2, <1>3, <2>1, <2>2 DEF CreateInitial, poolVars
<1>4. CASE TimerFires \/ GotSigchld \/ MaintenanceStarts
  BY Zenon, <1>1, <1>4 DEF TimerFires, GotSigchld, MaintenanceStarts, poolVars
<1>5. ASSUME NEW c \in {"T", "Q", "2"}, GotControlSignal(c) PROVE Control'
  BY <1>1, <1>5 DEF GotControlSignal, pctl_set, poolVars
<1>6. ASSUME NEW w \in Pools, OnSocketAccept(w) PROVE Control'
  <2>1. CASE running_children[w] >= pm_max_children[w] \/ idle(w) > 0
    BY ZenonT(60), <1>1, <1>6, <2>1 DEF OnSocketAccept, poolVars
  <2>2. CASE ~(running_children[w] >= pm_max_children[w] \/ idle(w) > 0)
    <3>1. MakeTarget(w, running_children[w], 1) <= pm_max_children[w]
      BY <1>0, <2>2 DEF MakeTarget, PoolType
    <3> QED
      BY Zenon, <1>2, <1>6, <2>2, <3>1 DEF OnSocketAccept, poolVars
  <2> QED
    BY <2>1, <2>2
<1>7. ASSUME NEW p \in Pids, TerminateRequest(p) PROVE Control'
  BY Zenon, <1>1, <1>7 DEF TerminateRequest, masterVars, poolVars
<1>8. CASE Maintain
  <2>1. CASE ReapOndemand \/ MaintainNothing \/ ReapSpare \/ KeepSpare
    BY <1>1, <2>1 DEF ReapOndemand, MaintainNothing, ReapSpare, KeepSpare, maintUnchanged, NextPool
  <2>2. CASE SpawnSpare
    <3>1. PICK w \in Pools : w = cur
      BY <1>0 DEF MasterType
    <3>2. MakeTarget(w, running_children[w], children_to_fork(w)) <= pm_max_children[w]
      <4>1. idle(w) \in Nat
        BY <1>0, IdleType
      <4>2. idle_spawn_rate[w] \in {1, 2, 4, 8, 16, 32}
        BY <1>0 DEF PoolType, FPM_MAX_SPAWN_RATE
      <4>3. idle_spawn_rate[w] \in Int
        BY <4>2
      <4>4. running_children[w] \in Nat /\ pm_max_children[w] \in Nat /\ pm_min_spare_servers[w] \in Nat
        BY Zenon, <1>0 DEF PoolType
      <4>5. /\ children_to_fork(w) \in Int
            /\ children_to_fork(w) <= pm_max_children[w] - running_children[w]
        BY <4>1, <4>3, <4>4 DEF children_to_fork, MinOf
      <4> QED
        BY <4>4, <4>5 DEF MakeTarget
    <3> QED
      BY ZenonT(60), <1>2, <2>2, <3>1, <3>2 DEF SpawnSpare
  <2> QED
    BY Zenon, <1>8, <2>1, <2>2 DEF Maintain
<1>9. ASSUME NEW p \in Pids, Worker(p) \/ Deliver(p) PROVE Control'
  <2>1. UNCHANGED <<masterVars, poolVars>>
    BY ZenonT(60), <1>9 DEF Worker, Deliver, WorkerInit, WorkerWaits, WorkerAccepts, WorkerReads,
         WorkerFinishes, WorkerQuits, WorkerRetires, WorkerFaults, WorkerAges, WorkerInitFails,
         SoftQuit, SignalIgnored, SignalKills
  <2> QED
    BY <1>1, <2>1 DEF masterVars, poolVars
<1>10. CASE Environment
  BY <1>1, <1>10 DEF Environment, Connect, AdminSignal, masterVars, poolVars
<1> QED
  BY <1>3, <1>4, <1>5, <1>6, <1>7, <1>8, <1>9, <1>10 DEF Next, Handler

--------------------------------------------------------------------------------
(* The results. *)

\* IInv is inductive.
THEOREM Invariance == Spec => []IInv
<1>1. IInv /\ [Next]_vars => IInv'
  <2> SUFFICES ASSUME IInv, [Next]_vars PROVE IInv'
    OBVIOUS
  <2>1. CASE Next
    <3>1. TypeOK'
      BY <2>1, MakeType, BuryType, MaintainType, HandlerType, WorkerType, EnvironmentType DEF Next
    <3>2. Lists'
      BY <2>1, ListsStep
    <3>3. Control'
      BY Zenon, <2>1, ControlMake, ControlBury, ControlRest
    <3> QED
      BY Zenon, <3>1, <3>2, <3>3 DEF IInv, Control
  <2>2. CASE UNCHANGED vars
    <3>1. TypeOK'
      BY ZenonT(60), <2>2 DEF IInv, TypeOK, MasterType, PoolType, ScoreboardType, ProcType, EnvType, vars,
                  masterVars, poolVars, sbVars, procVars, envVars
    <3>2. Lists'
      BY Zenon, <2>2, FrameLists DEF IInv, TypeOK, vars, poolVars, sbVars, procVars
    <3>3. Control'
      BY <2>2 DEF IInv, Control, Capacity, vars, masterVars, poolVars
    <3> QED
      BY <3>1, <3>2, <3>3 DEF IInv, Control
  <2> QED
    BY <2>1, <2>2
<1> QED
  BY <1>1, InitIInv, PTL DEF Spec

\* The type invariant, for every configuration.
THEOREM TypeCorrect == Spec => []TypeOK
<1>1. IInv => TypeOK
  BY DEF IInv
<1> QED
  BY <1>1, Invariance, PTL

\* pm.max_children and process.max are never exceeded.
THEOREM CapacityHolds == Spec => []Capacity
<1>1. IInv => Capacity
  BY DEF IInv
<1> QED
  BY <1>1, Invariance, PTL

\* Slots are neither shared nor leaked.
THEOREM SlotsOwnedHolds == Spec => []SlotsOwned
<1>1. IInv => SlotsOwned
  BY DEF IInv, Lists
<1> QED
  BY <1>1, Invariance, PTL

\* waitpid never returns a child that is not on a list.
THEOREM NoUnknownChildHolds == Spec => []NoUnknownChild
<1>1. IInv => NoUnknownChild
  BY DEF IInv, Lists
<1> QED
  BY <1>1, Invariance, PTL

\* The lists, the counters, the slots and a fork in progress agree.
THEOREM BookkeepingHolds == Spec => []Bookkeeping
<1>1. IInv => Bookkeeping
  BY DEF IInv, Lists, Bookkeeping
<1> QED
  BY <1>1, Invariance, PTL

\* The master leaves no worker behind.
THEOREM NoOrphanHolds == Spec => []NoOrphan
<1>1. IInv => NoOrphan
  <2> SUFFICES ASSUME IInv, pc = "gone" PROVE \A p \in Pids : wstate[p] = "free"
    BY Zenon DEF NoOrphan
  <2>1. IsFiniteSet(AllLinked) /\ Cardinality(AllLinked) = 0
    BY DEF IInv, Lists, Listed, NoUnknownChild
  <2>2. AllLinked = {}
    BY <2>1, FS_EmptySet
  <2> QED
    BY <2>2 DEF IInv, Lists, NoUnknownChild
<1> QED
  BY <1>1, Invariance, PTL

\* A pool below its limit has a free slot: "no free scoreboard slot" is never logged.
THEOREM SlotAvailableHolds == Spec => []SlotAvailable
<1>1. IInv => SlotAvailable
  <2> SUFFICES ASSUME IInv, pc = "make", MayFork(mk.wp, mk.max) PROVE FreeSlots(mk.wp) # {}
    BY DEF SlotAvailable
  <2> USE ConfigAssumption
  <2> DEFINE w == mk.wp
  <2>1. w \in Pools /\ mk.max \in Nat /\ mk.max <= pm_max_children[w]
    BY DEF IInv, TypeOK, MasterType
  <2>2. running_children[w] < pm_max_children[w]
    BY <2>1 DEF IInv, TypeOK, PoolType, MayFork
  <2>3. Cardinality(used[w]) < pm_max_children[w]
    BY Zenon, <2>1, <2>2 DEF IInv, Lists, Listed
  <2>4. Cardinality(Slots(w)) = pm_max_children[w]
    <3>1. pm_max_children[w] \in Nat \ {0}
      BY <2>1
    <3> QED
      BY <3>1, FS_Interval DEF Slots
  <2>5. used[w] # Slots(w) /\ used[w] \subseteq Slots(w)
    <3>1. used[w] \subseteq Slots(w)
      BY Zenon, <2>1 DEF IInv, TypeOK, ScoreboardType
    <3>2. pm_max_children[w] \in Nat
      BY <2>1
    <3> QED
      BY <2>3, <2>4, <3>1, <3>2
  <2> QED
    BY ZenonT(60), <2>5 DEF FreeSlots
<1> QED
  BY <1>1, Invariance, PTL

--------------------------------------------------------------------------------
(* The master implements FpmSupervisor. *)

\* Nothing brings a stopping master back to normal.
LEMMA StateStep ==
    ASSUME Next, fpm_state # "normal"
    PROVE  fpm_state' # "normal"
<1>1. ASSUME NEW new \in States \ {"normal"}, NEW n, NEW procs, NEW next, pctl_set(new, n, procs, next)
      PROVE  fpm_state' # "normal"
  BY <1>1 DEF pctl_set
<1>2. CASE CreateInitial
  BY Zenon, <1>2 DEF CreateInitial
<1>3. CASE Make
  <2>1. ASSUME ReturnFailure PROVE fpm_state' # "normal"
    <3>1. "terminating" \in States \ {"normal"}
      BY DEF States
    <3> QED
      BY <1>1, <2>1, <3>1 DEF ReturnFailure
  <2> QED
    BY <1>3, <2>1 DEF Make, PrepareFails, ForkFails, MakeDone, Fork, masterVars
<1>4. CASE Bury
  <2>1. "reloading" \in States \ {"normal"}
    BY DEF States
  <2> QED
    BY Zenon, <1>1, <1>4, <2>1 DEF Bury, BuryEnd, BuryLast, BuryEmergency, BuryRestart, BuryNoRestart
<1>5. CASE Maintain
  BY Zenon, <1>5 DEF Maintain, ReapOndemand, MaintainNothing, ReapSpare, KeepSpare, SpawnSpare, maintUnchanged
<1>6. CASE Handler
  <2>1. \A c \in {"T", "Q", "2"} : StateOf(c) \in States \ {"normal"}
    BY DEF StateOf, States
  <2> QED
    BY Zenon, <1>1, <1>6, <2>1 DEF Handler, TimerFires, GotSigchld, MaintenanceStarts, GotControlSignal,
                            OnSocketAccept, TerminateRequest, masterVars
<1>7. ASSUME NEW p \in Pids, Worker(p) \/ Deliver(p) PROVE fpm_state' # "normal"
  BY Zenon, <1>7 DEF Worker, Deliver, WorkerInit, WorkerWaits, WorkerAccepts, WorkerReads,
       WorkerFinishes, WorkerQuits, WorkerRetires, WorkerFaults, WorkerAges, WorkerInitFails,
       SoftQuit, SignalIgnored, SignalKills, masterVars
<1>8. CASE Environment
  BY Zenon, <1>8 DEF Environment, Connect, AdminSignal, masterVars
<1> QED
  BY <1>2, <1>3, <1>4, <1>5, <1>6, <1>7, <1>8 DEF Next

\* Only forking and burying change the lists.
LEMMA ChildrenStep ==
    ASSUME Next
    PROVE  UNCHANGED children \/ \E p \in Pids : Fork(p) \/ Reap(p)
<1>1. CASE CreateInitial \/ Handler
  BY ZenonT(60), <1>1 DEF CreateInitial, Handler, TimerFires, GotSigchld, MaintenanceStarts,
              GotControlSignal, OnSocketAccept, TerminateRequest, poolVars
<1>2. CASE Make
  BY <1>2 DEF Make, PrepareFails, ForkFails, MakeDone, poolVars
<1>3. CASE Bury
  BY Zenon, <1>3 DEF Bury, BuryEnd, BuryLast, BuryEmergency, BuryRestart, BuryNoRestart, poolVars
<1>4. CASE Maintain
  BY Zenon, <1>4 DEF Maintain, ReapOndemand, MaintainNothing, ReapSpare, KeepSpare, SpawnSpare, maintUnchanged
<1>5. ASSUME NEW p \in Pids, Worker(p) \/ Deliver(p) PROVE UNCHANGED children
  BY ZenonT(60), <1>5 DEF Worker, Deliver, WorkerInit, WorkerWaits, WorkerAccepts, WorkerReads,
       WorkerFinishes, WorkerQuits, WorkerRetires, WorkerFaults, WorkerAges, WorkerInitFails,
       SoftQuit, SignalIgnored, SignalKills, poolVars
<1>6. CASE Environment
  BY <1>6 DEF Environment, Connect, AdminSignal, poolVars
<1> QED
  BY <1>1, <1>2, <1>3, <1>4, <1>5, <1>6 DEF Next

\* A master that is gone does nothing.
LEMMA GoneStep ==
    ASSUME Next, pc = "gone"
    PROVE  UNCHANGED <<masterVars, poolVars>>
<1>1. ~CreateInitial /\ ~Make /\ ~Bury /\ ~Maintain /\ ~Handler
  BY ZenonT(60) DEF CreateInitial, Make, PrepareFails, ForkFails, MakeDone, Fork,
         Bury, BuryEnd, BuryLast, BuryEmergency, BuryRestart, BuryNoRestart, Reap,
         Maintain, ReapOndemand, MaintainNothing, ReapSpare, KeepSpare, SpawnSpare,
         Handler, TimerFires, GotSigchld, MaintenanceStarts, GotControlSignal, OnSocketAccept,
         TerminateRequest
<1>2. ASSUME NEW p \in Pids, Worker(p) \/ Deliver(p) PROVE UNCHANGED <<masterVars, poolVars>>
  BY <1>2 DEF Worker, Deliver, WorkerInit, WorkerWaits, WorkerAccepts, WorkerReads,
       WorkerFinishes, WorkerQuits, WorkerRetires, WorkerFaults, WorkerAges, WorkerInitFails,
       SoftQuit, SignalIgnored, SignalKills
<1>3. CASE Environment
  BY Zenon, <1>3 DEF Environment, Connect, AdminSignal
<1> QED
  BY <1>1, <1>2, <1>3 DEF Next

\* A fork adds its child to one pool's list.
LEMMA ForkWorkers ==
    ASSUME IInv, NEW p \in Pids, Fork(p), NEW w \in Pools, w = mk.wp
    PROVE  Workers' = [Workers EXCEPT ![w] = @ \cup {p}]
<1>1. /\ children[w] \in Seq(Pids) /\ children'[w] = <<p>> \o children[w]
      /\ \A wp \in Pools \ {w} : children'[wp] = children[wp]
  BY Zenon DEF IInv, TypeOK, PoolType, Fork, link
<1>2. Linked(w)' = Linked(w) \cup {p} /\ \A wp \in Pools \ {w} : Linked(wp)' = Linked(wp)
  <2>1. Range(<<p>> \o children[w]) = Range(children[w]) \cup {p}
    BY <1>1, PushRange
  <2> QED
    BY Zenon, <1>1, <2>1 DEF Linked
<1> QED
  BY Zenon, <1>2 DEF Workers

\* A burial takes its child off its pool's list.
LEMMA ReapWorkers ==
    ASSUME IInv, NEW p \in Pids, Reap(p), NEW w \in Pools, w = child[p].wp
    PROVE  p \in Linked(w) /\ Workers' = [Workers EXCEPT ![w] = @ \ {p}]
<1>1. p \in Linked(w)
  BY Zenon, SlotOfLinked DEF IInv, Reap
<1>2. /\ children[w] \in Seq(Pids) /\ children'[w] = Without(children[w], p)
      /\ \A wp \in Pools \ {w} : children'[wp] = children[wp]
      /\ \A n, m \in DOMAIN children[w] : children[w][n] = children[w][m] => n = m
  <2>1. children' = [children EXCEPT ![w] = Without(@, p)] /\ children \in [Pools -> Seq(Pids)]
    BY Zenon DEF IInv, TypeOK, PoolType, Reap, unlink
  <2> QED
    BY ZenonT(60), <2>1 DEF IInv, Lists, Listed
<1>3. Range(Without(children[w], p)) = Range(children[w]) \ {p}
  <2>1. p \in Range(children[w]) /\ children[w] \in Seq(Pids)
    BY ZenonT(60), <1>1, <1>2 DEF Linked
  <2>2. \A n, m \in DOMAIN children[w] : children[w][n] = children[w][m] => n = m
    BY Zenon, <1>2
  <2> QED
    BY ZenonT(60), <2>1, <2>2, WithoutProperties
<1>4. Linked(w)' = Linked(w) \ {p}
  BY Zenon, <1>2, <1>3 DEF Linked
<1>5. \A wp \in Pools \ {w} : Linked(wp)' = Linked(wp)
  BY Zenon, <1>2 DEF Linked
<1> QED
  BY Zenon, <1>1, <1>4, <1>5 DEF Workers

\* Once the master leaves the normal state, no child is added.
THEOREM DrainOnlyHolds == Spec => DrainOnly
<1>1. IInv /\ [Next]_vars => [fpm_state # "normal" => AllLinked' \subseteq AllLinked]_vars
  <2> SUFFICES ASSUME IInv, Next, fpm_state # "normal" PROVE AllLinked' \subseteq AllLinked
    OBVIOUS
  <2>1. ASSUME UNCHANGED children PROVE AllLinked' \subseteq AllLinked
    BY Zenon, <2>1 DEF AllLinked, Linked
  <2>2. ASSUME NEW p \in Pids PROVE ~Fork(p)
    BY Zenon DEF Fork, MayFork, can_spawn_children
  <2>3. ASSUME NEW p \in Pids, Reap(p) PROVE AllLinked' \subseteq AllLinked
    <3>1. PICK w \in Pools : w = child[p].wp
      BY DEF IInv, TypeOK, ProcType
    <3>2. Workers' = [Workers EXCEPT ![w] = @ \ {p}]
      BY <2>3, <3>1, ReapWorkers
    <3>3. \A wp \in Pools : Linked(wp)' \subseteq Linked(wp)
      BY Zenon, <3>2 DEF Workers
    <3> QED
      BY Zenon, <3>3 DEF AllLinked
  <2> QED
    BY <2>1, <2>2, <2>3, ChildrenStep
<1> QED
  BY <1>1, Invariance, PTL DEF Spec, DrainOnly

\* The master implements the abstract supervisor.
THEOREM Refinement == Spec => Supervises
<1>1. Init => Supervisor!SInit
  <2> SUFFICES ASSUME Init PROVE Supervisor!SInit
    OBVIOUS
  <2>1. Phase = "up"
    BY Zenon DEF Init, Phase
  <2>2. Workers = [wp \in Pools |-> {}]
    BY DEF Init, Workers, Linked, Range
  <2> QED
    BY Zenon, <2>1, <2>2 DEF Supervisor!SInit
<1>2. IInv /\ IInv' /\ [Next]_vars => [Supervisor!SNext]_(Supervisor!svars)
  <2> SUFFICES ASSUME IInv, IInv', [Next]_vars
               PROVE  Supervisor!SNext \/ UNCHANGED <<Phase, Workers>>
    BY DEF Supervisor!svars
  <2>1. Supervisor!AllWorkers = AllLinked
    BY Zenon DEF Supervisor!AllWorkers, Workers, AllLinked
  <2>2. CASE UNCHANGED vars
    BY Zenon, <2>2 DEF vars, masterVars, poolVars, Phase, Workers, Linked
  <2>3. CASE Next /\ pc = "gone"
    BY <2>3, GoneStep DEF masterVars, poolVars, Phase, Workers, Linked
  <2>4. CASE Next /\ pc # "gone"
    <3>1. Supervisor!Advance
      <4>1. Phase # "gone" /\ Phase' \in Supervisor!Later[Phase]
        BY <2>4, StateStep DEF Phase, Supervisor!Later
      <4>2. Phase' = "gone" => AllLinked' = {}
        <5>1. ASSUME Phase' = "gone" PROVE IsFiniteSet(AllLinked') /\ Cardinality(AllLinked') = 0
          BY Zenon, <5>1 DEF IInv, Lists, Listed, NoUnknownChild, Phase
        <5> QED
          BY <5>1, FS_EmptySet
      <4>3. Phase' = "gone" => \A wp \in Pools : Workers'[wp] = {}
        BY <4>2 DEF AllLinked, Workers
      <4> QED
        BY Zenon, <4>1, <4>3 DEF Supervisor!Advance
    <3>2. CASE UNCHANGED children
      <4>1. UNCHANGED Workers
        BY <3>2 DEF Workers, Linked
      <4> QED
        BY <3>1, <4>1 DEF Supervisor!SNext
    <3>3. ASSUME NEW p \in Pids, Reap(p) PROVE Supervisor!SNext
      <4>1. PICK w \in Pools : w = child[p].wp
        BY Zenon DEF IInv, TypeOK, ProcType
      <4>2. p \in Workers[w] /\ Workers' = [Workers EXCEPT ![w] = @ \ {p}]
        BY <3>3, <4>1, ReapWorkers DEF Workers
      <4>3. Supervisor!Leave(w, p)
        BY <3>1, <4>2 DEF Supervisor!Leave
      <4> QED
        BY Zenon, <4>3 DEF Supervisor!SNext
    <3>4. ASSUME NEW p \in Pids, Fork(p) PROVE Supervisor!SNext
      <4>1. PICK w \in Pools : w = mk.wp
        BY DEF IInv, TypeOK, MasterType
      <4>2. Workers' = [Workers EXCEPT ![w] = @ \cup {p}]
        BY Zenon, <3>4, <4>1, ForkWorkers
      <4>3. Phase = "up" /\ Phase' = "up"
        BY Zenon, <2>4, <3>4 DEF Fork, MayFork, can_spawn_children, Phase, masterVars
      <4>4. p \notin AllLinked
        BY ZenonT(60), <3>4 DEF Fork, IInv, Lists, NoUnknownChild
      <4>5. Cardinality(Workers[w]) < pm_max_children[w]
        <5>1. /\ running_children[w] < mk.max /\ mk.max <= pm_max_children[w]
              /\ running_children[w] = Cardinality(Linked(w))
          BY ZenonT(60), <3>4, <4>1 DEF Fork, MayFork, IInv, Lists, NoUnknownChild
        <5>2. running_children[w] \in Nat /\ mk.max \in Nat /\ pm_max_children[w] \in Nat
          BY Zenon, ConfigAssumption DEF IInv, TypeOK, PoolType, MasterType
        <5> QED
          BY <5>1, <5>2 DEF Workers
      <4>6. process_max > 0 => Cardinality(AllLinked) < process_max
        <5>1. process_max < 1 \/ globals_running < process_max
          BY Zenon, <3>4 DEF Fork, MayFork
        <5>2. globals_running = Cardinality(AllLinked)
          BY Zenon DEF IInv, Lists, NoUnknownChild
        <5> QED
          BY <5>1, <5>2, ConfigAssumption
      <4>7. Supervisor!Spawn(w, p)
        <5>1. ASSUME NEW S PROVE Supervisor!Cardinality(S) = Cardinality(S)
          BY DEF Supervisor!Cardinality, Cardinality
        <5> QED
          BY Zenon, <2>1, <4>2, <4>3, <4>4, <4>5, <4>6, <5>1 DEF Supervisor!Spawn
      <4> QED
        BY Zenon, <4>7 DEF Supervisor!SNext
    <3> QED
      BY Zenon, <2>4, <3>2, <3>3, <3>4, ChildrenStep
  <2> QED
    BY <2>2, <2>3, <2>4
<1> QED
  BY <1>1, <1>2, Invariance, PTL DEF Spec, Supervises, Supervisor!SSpec
================================================================================
