----------------------------- MODULE FpmEpollProofs -----------------------------
(***************************************************************************)
(* For any number of children, deaths and batches: the queue, the set that *)
(* epoll watches and the open pipes agree and fit into the array, and only *)
(* a burial invalidates an event that is still to be fired.                *)
(***************************************************************************)
EXTENDS FpmEpoll, FiniteSetTheorems, TLAPS

\* What the batch needs of the rest: its entries are distinct, and each is queued
\* or known to be stale.
BatchInv ==
  /\ batch \in Seq(Events)
  /\ \A i, j \in 1..Len(batch) : batch[i] = batch[j] => i = j
  /\ \A i \in 1..Len(batch) : batch[i] \in stale \/ batch[i] \in queued

QueueInv ==
  /\ queued = interest
  /\ queued \subseteq Events
  /\ queued \ {Signal} = open
  /\ worker \in [Children -> {"none", "alive", "dead"}]
  /\ \A e \in open : worker[e[1]] # "none"

EpollInv == QueueInv /\ BatchInv

\* The signal pipe is not one of the pipes of a child.
LEMMA SignalApart == Signal \notin Pipes
  BY DEF Signal, Pipes, Streams

\* There are as many events as the array has places.
LEMMA EventCount == IsFiniteSet(Events) /\ Cardinality(Events) = nepollfds
<1>1. IsFiniteSet({"stdout"}) /\ Cardinality({"stdout"}) = 1
  BY FS_Singleton
<1>2. Streams = {"stdout"} \cup {"stderr"}
  BY DEF Streams
<1>3. IsFiniteSet(Streams) /\ Cardinality(Streams) = 2
  BY <1>1, <1>2, FS_AddElement
<1>4. IsFiniteSet(Pipes) /\ Cardinality(Pipes) = Cardinality(Children) * Cardinality(Streams)
  BY <1>3, EpollAssumption, FS_Product DEF Pipes
<1>5. Cardinality(Children) \in Nat
  BY EpollAssumption, FS_CardinalityType
<1>6. Cardinality(Pipes) = 2 * Cardinality(Children)
  BY <1>3, <1>4, <1>5
<1>7. Events = Pipes \cup {Signal}
  BY DEF Events
<1>8. IsFiniteSet(Events) /\ Cardinality(Events) = Cardinality(Pipes) + 1
  BY <1>4, <1>7, SignalApart, FS_AddElement
<1> QED
  BY <1>5, <1>6, <1>8 DEF nepollfds

\* The rest of a batch is a batch, without the entry that was fired.
LEMMA RestOfBatch ==
  ASSUME BatchInv, batch # <<>>, batch' = Tail(batch)
  PROVE  /\ batch' \in Seq(Events)
         /\ Len(batch') = Len(batch) - 1
         /\ \A i \in 1..Len(batch') : /\ i + 1 \in 1..Len(batch)
                                      /\ batch'[i] = batch[i + 1]
                                      /\ batch'[i] # Head(batch)
         /\ \A i, j \in 1..Len(batch') : batch'[i] = batch'[j] => i = j
<1>1. /\ batch \in Seq(Events)
      /\ Len(batch) \in Nat /\ Len(batch) > 0 /\ Head(batch) = batch[1]
  BY DEF BatchInv
<1>2. /\ batch' \in Seq(Events)
      /\ Len(batch') = Len(batch) - 1
      /\ \A i \in 1..Len(batch') : i + 1 \in 1..Len(batch) /\ batch'[i] = batch[i + 1]
  BY <1>1
<1>3. \A i, j \in 1..Len(batch) : batch[i] = batch[j] => i = j
  BY DEF BatchInv
<1>4. \A i \in 1..Len(batch') : batch'[i] # Head(batch)
  BY <1>1, <1>2, <1>3
<1>5. \A i, j \in 1..Len(batch') : batch'[i] = batch'[j] => i = j
  BY <1>1, <1>2, <1>3
<1> QED
  BY <1>2, <1>4, <1>5

\* A new batch is a list of distinct ready events.
LEMMA NewBatch ==
  ASSUME QueueInv, EpollWait
  PROVE  /\ batch' \in Seq(Events)
         /\ \A i, j \in 1..Len(batch') : batch'[i] = batch'[j] => i = j
         /\ \A i \in 1..Len(batch') : batch'[i] \in queued
<1>1. PICK order \in SetToSeqs(Ready) :
        batch' = SubSeq(order, 1, IF Len(order) < nepollfds THEN Len(order) ELSE nepollfds)
  BY DEF EpollWait
<1> DEFINE n == Cardinality(Ready)
           m == IF Len(order) < nepollfds THEN Len(order) ELSE nepollfds
<1>2. Ready \subseteq queued /\ Ready \subseteq Events
  BY DEF QueueInv, Ready
<1>3. nepollfds \in Nat
  BY EpollAssumption, FS_CardinalityType DEF nepollfds
<1>4. n \in Nat
  BY <1>2, EventCount, FS_Subset, FS_CardinalityType
<1>5. /\ order \in [1..n -> Ready]
      /\ \A i, j \in 1..n : i # j => order[i] # order[j]
  BY DEF SetToSeqs
<1>6. order \in Seq(Ready) /\ Len(order) = n
  BY <1>4, <1>5
<1>7. m \in Nat /\ m <= n
  BY <1>3, <1>4, <1>6
<1> HIDE DEF m
<1>8. /\ SubSeq(order, 1, m) \in Seq(Ready)
      /\ Len(SubSeq(order, 1, m)) = m
      /\ \A i \in 1..m : SubSeq(order, 1, m)[i] = order[i]
  BY <1>4, <1>6, <1>7
<1>9. batch' = SubSeq(order, 1, m)
  BY <1>1 DEF m
<1>10. /\ Len(batch') = m
       /\ \A i \in 1..m : i \in 1..n /\ batch'[i] = order[i] /\ batch'[i] \in Ready
  BY <1>4, <1>5, <1>7, <1>8, <1>9
<1>11. batch' \in Seq(Events)
  BY <1>2, <1>8, <1>9
<1> QED
  BY <1>2, <1>5, <1>10, <1>11

\* Queue, watched set and open pipes change together.
LEMMA QueueStep == QueueInv /\ BatchInv /\ [Next]_vars => QueueInv'
<1> SUFFICES ASSUME QueueInv, BatchInv, [Next]_vars
             PROVE  QueueInv'
  OBVIOUS
<1> USE SignalApart DEF QueueInv, Events
<1>1. CASE EnterLoop
  BY <1>1 DEF EnterLoop, event_add
<1>2. CASE EpollWait
  BY <1>2 DEF EpollWait
<1>3. CASE BatchDone
  BY <1>3 DEF BatchDone
<1>4. CASE GotSignal
  BY <1>4 DEF GotSignal
<1>5. CASE Made
  BY <1>5 DEF Made
<1>6. CASE Buried
  BY <1>6 DEF Buried
<1>7. ASSUME NEW e \in Pipes, Read(e)
      PROVE  QueueInv'
  BY <1>7 DEF Read
<1>8. ASSUME NEW e \in Pipes, ReadEnd(e)
      PROVE  QueueInv'
  BY <1>8 DEF ReadEnd, event_del
<1>9. ASSUME NEW e \in Pipes, FireStale(e)
      PROVE  QueueInv'
  BY <1>9 DEF FireStale, event_del
<1>10. ASSUME NEW c \in Children, Bury(c)
      PROVE  QueueInv'
  BY <1>10 DEF Bury, event_del, Pipes
<1>11. ASSUME NEW c \in Children, Fork(c)
      PROVE  QueueInv'
  BY <1>11 DEF Fork, event_add, Pipes
<1>12. ASSUME NEW c \in Children, Die(c)
      PROVE  QueueInv'
  BY <1>12 DEF Die
<1>13. ASSUME NEW c \in Children, NEW s \in Streams, Say(c, s)
      PROVE  QueueInv'
  BY <1>13 DEF Say
<1>14. CASE UNCHANGED vars
  BY <1>14 DEF vars
<1> QED
  BY <1>1, <1>2, <1>3, <1>4, <1>5, <1>6, <1>7, <1>8, <1>9, <1>10, <1>11, <1>12, <1>13, <1>14, Zenon DEF Next, Master

\* The batch: an entry leaves it when it is fired, and a burial marks what it frees.
LEMMA BatchStep == QueueInv /\ BatchInv /\ [Next]_vars => BatchInv'
<1> SUFFICES ASSUME QueueInv, BatchInv, [Next]_vars
             PROVE  BatchInv'
  OBVIOUS
<1>1. CASE EpollWait
  BY <1>1, NewBatch DEF EpollWait, BatchInv
<1>2. CASE EnterLoop
  BY <1>2 DEF EnterLoop, event_add, BatchInv
<1>3. CASE BatchDone
  BY <1>3 DEF BatchDone, BatchInv
<1>4. CASE Made
  BY <1>4 DEF Made, BatchInv
<1>5. CASE Buried
  BY <1>5 DEF Buried, BatchInv
<1>6. CASE GotSignal
  BY <1>6, RestOfBatch DEF GotSignal, Firing, NextInBatch, BatchInv
<1>7. ASSUME NEW e \in Pipes, Read(e)
      PROVE  BatchInv'
  BY <1>7, RestOfBatch DEF Read, Firing, NextInBatch, BatchInv
<1>8. ASSUME NEW e \in Pipes, ReadEnd(e)
      PROVE  BatchInv'
  BY <1>8, RestOfBatch DEF ReadEnd, event_del, Firing, NextInBatch, BatchInv
<1>9. ASSUME NEW e \in Pipes, FireStale(e)
      PROVE  BatchInv'
  BY <1>9, RestOfBatch DEF FireStale, event_del, Firing, NextInBatch, BatchInv
<1>10. ASSUME NEW c \in Children, Bury(c)
      PROVE  BatchInv'
  BY <1>10 DEF Bury, event_del, BatchInv, ToSet
<1>11. ASSUME NEW c \in Children, Fork(c)
      PROVE  BatchInv'
  BY <1>11 DEF Fork, event_add, BatchInv
<1>12. ASSUME NEW c \in Children, Die(c)
      PROVE  BatchInv'
  BY <1>12 DEF Die, BatchInv
<1>13. ASSUME NEW c \in Children, NEW s \in Streams, Say(c, s)
      PROVE  BatchInv'
  BY <1>13 DEF Say, BatchInv
<1>14. CASE UNCHANGED vars
  BY <1>14 DEF vars, BatchInv
<1> QED
  BY <1>1, <1>2, <1>3, <1>4, <1>5, <1>6, <1>7, <1>8, <1>9, <1>10, <1>11, <1>12, <1>13, <1>14, Zenon DEF Next, Master

\* EpollInv holds in every state.
LEMMA EpollInvariant == Spec => []EpollInv
<1>1. Init => EpollInv
  BY DEF Init, EpollInv, QueueInv, BatchInv
<1>2. EpollInv /\ [Next]_vars => EpollInv'
  BY QueueStep, BatchStep DEF EpollInv
<1> QED
  BY <1>1, <1>2, PTL DEF Spec

\* The queue, the set that epoll watches and the open pipes always agree, none is of
\* a freed child, and there are never more than the array of epoll_wait has places
\* for, for any number of children.
THEOREM AgreeHolds == Spec => []Agree
<1>1. EpollInv => Agree
  <2> SUFFICES ASSUME EpollInv
               PROVE  Agree
    OBVIOUS
  <2>1. QueueInv
    BY DEF EpollInv
  <2>2. Cardinality(interest) <= nepollfds
    BY <2>1, EventCount, FS_Subset DEF QueueInv
  <2> QED
    BY <2>1, <2>2 DEF QueueInv, Agree
<1> QED
  BY <1>1, EpollInvariant, PTL

\* Whatever the order of a batch, only the burial of a child can take away an event
\* that is still to be fired in it: the callbacks of fpm_stdio.c take away their own.
THEOREM OnlyBurial == Spec => []OnlyBurialInvalidates
<1>1. EpollInv => OnlyBurialInvalidates
  BY DEF EpollInv, BatchInv, OnlyBurialInvalidates, ToSet
<1> QED
  BY <1>1, EpollInvariant, PTL

\* The elements of the rest of a batch are those of the batch but the first.
LEMMA RestElements ==
  ASSUME BatchInv, batch # <<>>, NextInBatch
  PROVE  ToSet(batch') = ToSet(batch) \ {Head(batch)}
<1>1. /\ batch \in Seq(Events) /\ Len(batch) \in Nat /\ 1 \in 1..Len(batch) /\ Head(batch) = batch[1]
  BY DEF BatchInv
<1>2. /\ Len(batch') = Len(batch) - 1
      /\ \A i \in 1..Len(batch') : /\ i + 1 \in 1..Len(batch) /\ batch'[i] = batch[i + 1]
                                   /\ batch'[i] # Head(batch)
  BY RestOfBatch DEF NextInBatch
<1>3. ToSet(batch') = {batch'[i] : i \in 1..Len(batch')} /\ ToSet(batch) = {batch[i] : i \in 1..Len(batch)}
  <2>1. DOMAIN batch' = 1..Len(batch') /\ DOMAIN batch = 1..Len(batch)
    BY <1>1, RestOfBatch DEF NextInBatch
  <2> QED
    BY <2>1 DEF ToSet
<1>4. ASSUME NEW i \in 1..Len(batch), batch[i] # Head(batch)
      PROVE  i - 1 \in 1..Len(batch') /\ batch'[i - 1] = batch[i]
  <2>1. i # 1
    BY <1>1, <1>4
  <2>2. i - 1 \in 1..Len(batch') /\ (i - 1) + 1 = i
    BY <2>1, <1>1, <1>2
  <2> QED
    BY <2>2, <1>2
<1>5. ToSet(batch') \subseteq ToSet(batch) \ {Head(batch)}
  BY <1>2, <1>3
<1>6. ToSet(batch) \ {Head(batch)} \subseteq ToSet(batch')
  BY <1>3, <1>4
<1> QED
  BY <1>5, <1>6

\* What is freed is marked only in the batch that is being fired, and that batch is
\* done with before the next one is asked for.
RestInv ==
  /\ said \subseteq Pipes /\ sigpipe \in BOOLEAN /\ deaths \in Nat
  /\ pc \in {"start", "timers", "fire", "bury", "make", "wild"}
  /\ stale \subseteq ToSet(batch)
  /\ pc \in {"start", "timers"} => batch = <<>>

\* Every step keeps that.
LEMMA RestStep == EpollInv /\ RestInv /\ [Next]_vars => RestInv'
<1> SUFFICES ASSUME EpollInv, RestInv, [Next]_vars
             PROVE  RestInv'
  OBVIOUS
<1>a. BatchInv
  BY DEF EpollInv
<1>b. ASSUME batch # <<>>, NextInBatch
      PROVE  stale' \subseteq ToSet(batch')
  <2>1. ToSet(batch') = ToSet(batch) \ {Head(batch)}
    BY <1>a, <1>b, RestElements
  <2> QED
    BY <2>1, <1>b DEF NextInBatch, RestInv
<1>1. CASE EnterLoop
  BY <1>b, <1>1 DEF EnterLoop, event_add, RestInv
<1>2. CASE EpollWait
  <2>1. stale = {}
    BY <1>2 DEF EpollWait, RestInv, ToSet
  <2> QED
    BY <1>2, <2>1 DEF EpollWait, RestInv
<1>3. CASE BatchDone
  BY <1>b, <1>3 DEF BatchDone, RestInv
<1>4. CASE GotSignal
  BY <1>b, <1>4 DEF GotSignal, Firing, RestInv
<1>5. CASE Made
  BY <1>b, <1>5 DEF Made, RestInv
<1>6. CASE Buried
  BY <1>b, <1>6 DEF Buried, RestInv
<1>7. ASSUME NEW e \in Pipes, Read(e)
       PROVE  RestInv'
  BY <1>b, <1>7 DEF Read, Firing, RestInv
<1>8. ASSUME NEW e \in Pipes, ReadEnd(e)
       PROVE  RestInv'
  BY <1>b, <1>8 DEF ReadEnd, Firing, event_del, RestInv
<1>9. ASSUME NEW e \in Pipes, FireStale(e)
       PROVE  RestInv'
  BY <1>b, <1>9 DEF FireStale, Firing, event_del, RestInv
<1>10. ASSUME NEW c \in Children, Bury(c)
       PROVE  RestInv'
  BY <1>b, <1>10 DEF Bury, event_del, RestInv
<1>11. ASSUME NEW c \in Children, Fork(c)
       PROVE  RestInv'
  BY <1>b, <1>11 DEF Fork, event_add, RestInv
<1>12. ASSUME NEW c \in Children, Die(c)
       PROVE  RestInv'
  BY <1>b, <1>12 DEF Die, RestInv
<1>13. ASSUME NEW c \in Children, NEW s \in Streams, Say(c, s)
       PROVE  RestInv'
  BY <1>b, <1>13 DEF Say, RestInv, Pipes
<1>14. CASE UNCHANGED vars
  BY <1>b, <1>14 DEF vars, RestInv
<1> QED
  BY <1>1, <1>2, <1>3, <1>4, <1>5, <1>6, <1>7, <1>8, <1>9, <1>10, <1>11, <1>12, <1>13, <1>14, Zenon DEF Next, Master

\* The types of the queue, the watched set and the batch; and what is marked stale is
\* always still to be fired.
THEOREM TypeCorrect == Spec => []TypeOK
<1>1. Init => RestInv
  <2>1. 0 \in Nat
    OBVIOUS
  <2> QED
    BY <2>1, Zenon DEF Init, RestInv
<1>2. EpollInv /\ RestInv => TypeOK
  BY SignalApart DEF EpollInv, QueueInv, BatchInv, RestInv, TypeOK, Events
<1> QED
  BY <1>1, <1>2, RestStep, EpollInvariant, PTL DEF Spec

\* While a worker is dead and not buried, its byte waits in the signal pipe or the
\* master is in fpm_children_bury, unless it has called through freed memory.
Heard == \A c \in Children : worker[c] = "dead" => sigpipe \/ pc \in {"bury", "make", "wild"}

\* Several deaths may share a byte of the signal pipe, and a worker may die at any
\* point of fpm_got_signal: the byte still waits or the loop over waitpid() still
\* runs, as long as no event of a freed child has been fired.
THEOREM DeathHeardHolds == Spec => []Heard
<1>1. Init => Heard
  BY DEF Init, Heard
<1>2. EpollInv /\ Heard /\ [Next]_vars => Heard'
  <2> SUFFICES ASSUME EpollInv, Heard, [Next]_vars
               PROVE  Heard'
    OBVIOUS
  <2>a. worker \in [Children -> {"none", "alive", "dead"}]
    BY DEF EpollInv, QueueInv
  <2>1. CASE EnterLoop
    BY <2>a, <2>1 DEF EnterLoop, event_add, Heard
  <2>2. CASE EpollWait
    BY <2>a, <2>2 DEF EpollWait, Heard
  <2>3. CASE BatchDone
    BY <2>a, <2>3 DEF BatchDone, Heard
  <2>4. CASE GotSignal
    BY <2>a, <2>4 DEF GotSignal, Firing, Heard
  <2>5. CASE Made
    BY <2>a, <2>5 DEF Made, Heard
  <2>6. CASE Buried
    BY <2>a, <2>6 DEF Buried, Heard
  <2>7. ASSUME NEW e \in Pipes, Read(e)
         PROVE  Heard'
    BY <2>a, <2>7 DEF Read, Firing, Heard
  <2>8. ASSUME NEW e \in Pipes, ReadEnd(e)
         PROVE  Heard'
    BY <2>a, <2>8 DEF ReadEnd, Firing, event_del, Heard
  <2>9. ASSUME NEW e \in Pipes, FireStale(e)
         PROVE  Heard'
    BY <2>a, <2>9 DEF FireStale, Firing, event_del, Heard
  <2>10. ASSUME NEW c \in Children, Bury(c)
         PROVE  Heard'
    BY <2>a, <2>10 DEF Bury, event_del, Heard
  <2>11. ASSUME NEW c \in Children, Fork(c)
         PROVE  Heard'
    BY <2>a, <2>11 DEF Fork, event_add, Heard
  <2>12. ASSUME NEW c \in Children, Die(c)
         PROVE  Heard'
    BY <2>a, <2>12 DEF Die, Heard
  <2>13. ASSUME NEW c \in Children, NEW s \in Streams, Say(c, s)
         PROVE  Heard'
    BY <2>a, <2>13 DEF Say, Heard
  <2>14. CASE UNCHANGED vars
    BY <2>a, <2>14 DEF vars, Heard
  <2> QED
    BY <2>1, <2>2, <2>3, <2>4, <2>5, <2>6, <2>7, <2>8, <2>9, <2>10, <2>11, <2>12, <2>13, <2>14, Zenon DEF Next, Master
<1> QED
  BY <1>1, <1>2, EpollInvariant, PTL DEF Spec
================================================================================
