----------------------------- MODULE FpmPollProofs -----------------------------
(***************************************************************************)
(* For any number of children, writes and deaths: the table of poll(), the *)
(* queue of events and the open pipes agree, no event of a freed child is  *)
(* queued, and no death is missed.                                         *)
(***************************************************************************)
EXTENDS FpmPoll, FiniteSetTheorems, SequenceTheorems, WellFoundedInduction, TLAPS

\* The searches of events/poll.c and of the queue find something in a non-empty set.
LEMMA MinOfNats ==
  ASSUME NEW S \in SUBSET Nat, S # {}
  PROVE  Min(S) \in S /\ \A x \in S : Min(S) <= x
<1>1. PICK x \in S : \A y \in S : ~ (<<y, x>> \in OpToRel(<, Nat))
  BY NatLessThanWellFounded, WFMin
<1>2. ASSUME NEW y \in S, ~ (x =< y)
      PROVE  FALSE
  <2>1. x \in Nat /\ y \in Nat /\ y < x
    BY <1>2
  <2>2. <<y, x>> \in OpToRel(<, Nat)
    BY <2>1, Zenon DEF OpToRel
  <2> QED
    BY <1>1, <2>2
<1> QED
  BY <1>2 DEF Min

\* fpm_event_queue_del takes one element out of the queue and keeps the others.
LEMMA Dequeue ==
  ASSUME NEW T, NEW s \in Seq(T), NEW e \in Range(s),
         \A i, j \in DOMAIN s : s[i] = s[j] => i = j
  PROVE  /\ RemoveFirst(s, e) \in Seq(T)
         /\ Range(RemoveFirst(s, e)) = Range(s) \ {e}
         /\ \A i, j \in DOMAIN RemoveFirst(s, e) :
              RemoveFirst(s, e)[i] = RemoveFirst(s, e)[j] => i = j
<1>1. PICK k \in 1..Len(s) : s[k] = e
  BY DEF Range
<1>2. {i \in 1..Len(s) : s[i] = e} = {k}
  BY <1>1
<1>3. Min({k}) = k
  <2>1. {k} \in SUBSET Nat /\ {k} # {}
    OBVIOUS
  <2>2. Min({k}) \in {k}
    BY <2>1, MinOfNats, Zenon
  <2> QED
    BY <2>2
<1>4. RemoveFirst(s, e) = RemoveAt(s, k)
  BY <1>1, <1>2, <1>3 DEF RemoveFirst, SelectInSeq
<1> DEFINE t == RemoveAt(s, k)
<1>5. /\ t \in Seq(T)
      /\ DOMAIN t = 1..(Len(s) - 1)
      /\ \A i \in 1..(Len(s) - 1) : t[i] = IF i < k THEN s[i] ELSE s[i + 1]
  <2> DEFINE a == SubSeq(s, 1, k - 1)
             b == SubSeq(s, k + 1, Len(s))
  <2>1. a \in Seq(T) /\ Len(a) = k - 1 /\ \A i \in 1..(k - 1) : a[i] = s[i]
    OBVIOUS
  <2>2. b \in Seq(T) /\ Len(b) = Len(s) - k /\ \A i \in 1..(Len(s) - k) : b[i] = s[k + i]
    OBVIOUS
  <2>3. t = a \o b
    BY DEF RemoveAt
  <2> HIDE DEF a, b, t
  <2>4. t \in Seq(T) /\ Len(t) = Len(s) - 1 /\ DOMAIN t = 1..(Len(s) - 1)
    BY <2>1, <2>2, <2>3
  <2>5. ASSUME NEW i \in 1..(Len(s) - 1)
        PROVE  t[i] = IF i < k THEN s[i] ELSE s[i + 1]
    <3>1. CASE i < k
      BY <3>1, <2>1, <2>2, <2>3
    <3>2. CASE i >= k
      <4>1. i - (k - 1) \in 1..(Len(s) - k)
        BY <3>2
      <4>2. t[i] = b[i - (k - 1)]
        BY <3>2, <2>1, <2>2, <2>3
      <4>3. b[i - (k - 1)] = s[k + (i - (k - 1))]
        BY <4>1, <2>2
      <4> QED
        BY <3>2, <4>2, <4>3
    <3> QED
      BY <3>1, <3>2
  <2> QED
    BY <2>4, <2>5
<1> HIDE DEF t
<1>6. \A i, j \in DOMAIN t : t[i] = t[j] => i = j
  <2> SUFFICES ASSUME NEW i \in 1..(Len(s) - 1), NEW j \in 1..(Len(s) - 1), t[i] = t[j]
               PROVE  i = j
    BY <1>5
  <2> DEFINE place(n) == IF n < k THEN n ELSE n + 1
  <2>1. t[i] = s[place(i)] /\ t[j] = s[place(j)] /\ place(i) \in DOMAIN s /\ place(j) \in DOMAIN s
    BY <1>5
  <2>2. place(i) = place(j)
    BY <2>1
  <2> QED
    BY <2>2
<1>7. ASSUME NEW i \in DOMAIN t
      PROVE  t[i] \in Range(s) /\ t[i] # e
  <2> DEFINE n == IF i < k THEN i ELSE i + 1
  <2>1. t[i] = s[n] /\ n \in DOMAIN s /\ n # k
    BY <1>5
  <2> QED
    BY <1>1, <2>1 DEF Range
<1>8. ASSUME NEW j \in 1..Len(s), s[j] # e
      PROVE  s[j] \in Range(t)
  <2>1. CASE j < k
    BY <2>1, <1>1, <1>5 DEF Range
  <2>2. CASE j > k
    <3>1. j - 1 \in DOMAIN t /\ t[j - 1] = s[j]
      BY <2>2, <1>1, <1>5
    <3> QED
      BY <3>1 DEF Range
  <2> QED
    BY <2>1, <2>2, <1>1, <1>8
<1>9. Range(t) = Range(s) \ {e}
  <2>1. \A x : x \in Range(t) <=> \E i \in DOMAIN t : x = t[i]
    BY DEF Range
  <2>2. \A x : x \in Range(s) <=> \E i \in 1..Len(s) : x = s[i]
    BY DEF Range
  <2> QED
    BY <2>1, <2>2, <1>7, <1>8
<1> QED
  BY <1>4, <1>5, <1>6, <1>9 DEF t

\* The signal pipe is not one of the pipes of a child, and no event is the empty slot.
LEMMA Apart == Signal \notin Pipes /\ NoFd \notin Events /\ Null \notin Events /\ Wild \notin Events /\ Null # Wild
  BY DEF Signal, Pipes, Streams, Events, NoFd, Null, Wild

\* fpm_event_init_main reserves one slot for each event.
LEMMA EventCount == IsFiniteSet(Events) /\ Cardinality(Events) = npollfds /\ npollfds \in Nat /\ npollfds > 0
<1>1. IsFiniteSet({"stdout"}) /\ Cardinality({"stdout"}) = 1
  BY FS_Singleton
<1>2. Streams = {"stdout"} \cup {"stderr"}
  BY DEF Streams
<1>3. IsFiniteSet(Streams) /\ Cardinality(Streams) = 2
  BY <1>1, <1>2, FS_AddElement
<1>4. IsFiniteSet(Pipes) /\ Cardinality(Pipes) = Cardinality(Children) * Cardinality(Streams)
  BY <1>3, ChildrenAssumption, FS_Product DEF Pipes
<1>5. Cardinality(Children) \in Nat
  BY ChildrenAssumption, FS_CardinalityType
<1>6. Cardinality(Pipes) = 2 * Cardinality(Children)
  BY <1>3, <1>4, <1>5
<1>7. Events = Pipes \cup {Signal}
  BY DEF Events
<1>8. IsFiniteSet(Events) /\ Cardinality(Events) = Cardinality(Pipes) + 1
  BY <1>4, <1>7, Apart, FS_AddElement
<1> QED
  BY <1>5, <1>6, <1>8 DEF npollfds

RegType ==
  [pollfds : [Slots -> Events \cup {NoFd}], next_free_slot : Slots,
   queue : Seq(Events), index : [Events -> Slots \cup {-1}], open : SUBSET Pipes]

\* The table holds the queued events, each in one slot, and each remembers some slot.
TableOK(r) ==
  /\ r \in RegType
  /\ \A i, j \in Slots : r.pollfds[i] = r.pollfds[j] /\ r.pollfds[i] # NoFd => i = j
  /\ \A i \in Slots : r.pollfds[i] # NoFd => r.pollfds[i] \in Range(r.queue)
  /\ \A e \in Range(r.queue) : r.index[e] \in Slots /\ \E i \in Slots : r.pollfds[i] = e
  /\ \A i, j \in DOMAIN r.queue : r.queue[i] = r.queue[j] => i = j

\* The table has room for an event that it does not hold.
LEMMA RoomForOne ==
  ASSUME NEW r, TableOK(r), NEW e \in Events \ Range(r.queue)
  PROVE  FreeSlots(r) # {}
<1> SUFFICES ASSUME FreeSlots(r) = {}
             PROVE  FALSE
  OBVIOUS
<1>1. \A i \in Slots : r.pollfds[i] \in Events \ {e}
  BY DEF FreeSlots, TableOK, RegType
<1>2. IsFiniteSet(Events \ {e}) /\ Cardinality(Events \ {e}) = npollfds - 1
  BY EventCount, FS_RemoveElement
<1>3. IsFiniteSet(Slots) /\ Cardinality(Slots) = npollfds
  BY EventCount, FS_Interval DEF Slots
<1> DEFINE f == [i \in Slots |-> r.pollfds[i]]
<1>4. f \in [Slots -> Events \ {e}]
  BY <1>1
<1> HIDE DEF f
<1>5. Cardinality(Events \ {e}) < Cardinality(Slots)
  BY <1>2, <1>3, EventCount
<1>6. \E i, j \in Slots : i # j /\ f[i] = f[j]
  BY <1>2, <1>3, <1>4, <1>5, FS_PigeonHole
<1> QED
  BY <1>1, <1>6, Apart DEF TableOK, f

\* The slot of the search of fpm_event_poll_add is free, and it is next_free_slot if
\* that is.
AddSlot(r) == IF r.next_free_slot \in FreeSlots(r) THEN r.next_free_slot ELSE Min(FreeSlots(r))

\* fpm_event_add: the event gets a free slot, the one that it remembers if that one
\* is free; every other event keeps its slot.
LEMMA AddEvent ==
  ASSUME NEW r, TableOK(r), NEW e \in Events \ Range(r.queue)
  PROVE  LET s == event_add(r, e)
         IN  /\ TableOK(s)
             /\ Range(s.queue) = Range(r.queue) \cup {e}
             /\ s.open = r.open
             /\ AddSlot(r) \in FreeSlots(r)
             /\ s.pollfds = [r.pollfds EXCEPT ![AddSlot(r)] = e]
             /\ s.index = [r.index EXCEPT ![e] = r.next_free_slot]
             /\ s.next_free_slot = (r.next_free_slot + 1) % npollfds
<1> DEFINE s == event_add(r, e)
           a == AddSlot(r)
           r1 == [r EXCEPT !.index[e] = -1, !.queue = <<e>> \o r.queue]
<1>1. r \in RegType
  BY DEF TableOK
<1>2. FreeSlots(r) # {}
  BY RoomForOne
<1>3. a \in FreeSlots(r)
  <2>1. FreeSlots(r) \in SUBSET Nat
    BY EventCount DEF FreeSlots, Slots
  <2>2. Min(FreeSlots(r)) \in FreeSlots(r)
    BY <1>2, <2>1, MinOfNats
  <2> QED
    BY <2>2 DEF AddSlot
<1>4. /\ r1.pollfds = r.pollfds /\ r1.next_free_slot = r.next_free_slot
      /\ r1.open = r.open /\ r1.queue = <<e>> \o r.queue
      /\ r1.index = [r.index EXCEPT ![e] = -1]
      /\ r1 \in RegType
  <2>1. <<e>> \o r.queue \in Seq(Events)
    BY <1>1 DEF RegType
  <2> QED
    BY <1>1, <2>1 DEF RegType
<1>5. s = [r1 EXCEPT !.pollfds[a] = e, !.index[e] = r.next_free_slot,
                     !.next_free_slot = (r.next_free_slot + 1) % npollfds]
  BY <1>2, <1>4 DEF event_add, poll_add, FreeSlots, AddSlot
<1>6. a \in Slots /\ r.pollfds[a] = NoFd /\ r.next_free_slot \in Slots
  BY <1>1, <1>3 DEF FreeSlots, RegType
<1>7. (r.next_free_slot + 1) % npollfds \in Slots
  BY <1>6, EventCount DEF Slots
<1> HIDE DEF s, a, r1
<1>8. /\ s.pollfds = [r.pollfds EXCEPT ![a] = e]
      /\ s.index = [r.index EXCEPT ![e] = r.next_free_slot]
      /\ s.next_free_slot = (r.next_free_slot + 1) % npollfds
      /\ s.queue = <<e>> \o r.queue
      /\ s.open = r.open
      /\ s \in RegType
  BY <1>1, <1>4, <1>5, <1>6, <1>7 DEF RegType
<1>9. /\ DOMAIN s.queue = 1..(Len(r.queue) + 1)
      /\ s.queue[1] = e
      /\ \A i \in 2..(Len(r.queue) + 1) : i - 1 \in DOMAIN r.queue /\ s.queue[i] = r.queue[i - 1]
      /\ \A i \in DOMAIN r.queue : i + 1 \in DOMAIN s.queue /\ s.queue[i + 1] = r.queue[i]
  BY <1>1, <1>8 DEF RegType
<1>10. Range(s.queue) = Range(r.queue) \cup {e}
  <2>1. \A x : x \in Range(r.queue) <=> \E i \in DOMAIN r.queue : x = r.queue[i]
    BY DEF Range
  <2>2. \A x : x \in Range(s.queue) <=> \E i \in DOMAIN s.queue : x = s.queue[i]
    BY DEF Range
  <2>3. ASSUME NEW i \in DOMAIN s.queue
        PROVE  s.queue[i] = e \/ \E j \in DOMAIN r.queue : s.queue[i] = r.queue[j]
    BY <1>9
  <2>4. 1 \in DOMAIN s.queue
    BY <1>1, <1>9 DEF RegType
  <2>5. Range(s.queue) \subseteq Range(r.queue) \cup {e}
    BY <2>1, <2>2, <2>3
  <2>6. Range(r.queue) \cup {e} \subseteq Range(s.queue)
    BY <2>1, <2>2, <2>4, <1>9
  <2> QED
    BY <2>5, <2>6
<1>11. \A i, j \in DOMAIN s.queue : s.queue[i] = s.queue[j] => i = j
  <2>1. \A i \in DOMAIN r.queue : r.queue[i] # e
    BY DEF Range
  <2>2. \A i, j \in DOMAIN r.queue : r.queue[i] = r.queue[j] => i = j
    BY DEF TableOK
  <2> SUFFICES ASSUME NEW i \in DOMAIN s.queue, NEW j \in DOMAIN s.queue, s.queue[i] = s.queue[j]
               PROVE  i = j
    OBVIOUS
  <2>3. i = 1 \/ i \in 2..(Len(r.queue) + 1)
    BY <1>1, <1>9 DEF RegType
  <2>4. j = 1 \/ j \in 2..(Len(r.queue) + 1)
    BY <1>1, <1>9 DEF RegType
  <2> QED
    BY <2>1, <2>2, <2>3, <2>4, <1>9
<1>12. \A i \in Slots : s.pollfds[i] = IF i = a THEN e ELSE r.pollfds[i]
  BY <1>1, <1>6, <1>8 DEF RegType
<1>13. \A i, j \in Slots : s.pollfds[i] = s.pollfds[j] /\ s.pollfds[i] # NoFd => i = j
  <2>1. \A i \in Slots : r.pollfds[i] # e
    BY Apart DEF TableOK
  <2> QED
    BY <2>1, <1>12 DEF TableOK
<1>14. \A i \in Slots : s.pollfds[i] # NoFd => s.pollfds[i] \in Range(s.queue)
  BY <1>10, <1>12 DEF TableOK
<1>15. ASSUME NEW f \in Range(s.queue)
       PROVE  s.index[f] \in Slots /\ \E i \in Slots : s.pollfds[i] = f
  <2>1. CASE f = e
    BY <2>1, <1>1, <1>6, <1>8, <1>12 DEF RegType
  <2>2. CASE f # e
    <3>1. f \in Range(r.queue) /\ f \in Events
      <4>1. f \in Range(r.queue)
        BY <2>2, <1>10
      <4>2. \A i \in DOMAIN r.queue : r.queue[i] \in Events
        BY <1>1 DEF RegType
      <4> QED
        BY <4>1, <4>2 DEF Range
    <3>2. PICK i \in Slots : r.pollfds[i] = f
      BY <3>1 DEF TableOK
    <3>3. s.pollfds[i] = f
      BY <3>1, <3>2, <1>6, <1>12, Apart
    <3> QED
      BY <2>2, <3>1, <3>3, <1>1, <1>8 DEF TableOK, RegType
  <2> QED
    BY <2>1, <2>2
<1>16. TableOK(s)
  BY <1>8, <1>11, <1>13, <1>14, <1>15 DEF TableOK
<1> QED
  BY <1>3, <1>8, <1>10, <1>16 DEF s, a

\* fpm_event_del: the event and its slot go, wherever the slot is, and every other
\* event keeps its own.
LEMMA DelEvent ==
  ASSUME NEW r, TableOK(r), NEW e \in Range(r.queue)
  PROVE  LET s == event_del(r, e)
         IN  /\ TableOK(s)
             /\ Range(s.queue) = Range(r.queue) \ {e}
             /\ s.open = r.open
             /\ \A i \in Slots : s.pollfds[i] = IF r.pollfds[i] = e THEN NoFd ELSE r.pollfds[i]
             /\ \A f \in Events \ {e} : s.index[f] = r.index[f]
<1> DEFINE s == event_del(r, e)
           r1 == [r EXCEPT !.queue = RemoveFirst(r.queue, e)]
<1>1. r \in RegType
  BY DEF TableOK
<1>2. e \in Events
  <2>1. \A i \in DOMAIN r.queue : r.queue[i] \in Events
    BY <1>1 DEF RegType
  <2> QED
    BY <2>1 DEF Range
<1>3. PICK a \in Slots : r.pollfds[a] = e
  BY DEF TableOK
<1>4. \A i \in Slots : r.pollfds[i] = e => i = a
  BY <1>2, <1>3, Apart DEF TableOK
<1>5. /\ RemoveFirst(r.queue, e) \in Seq(Events)
      /\ Range(RemoveFirst(r.queue, e)) = Range(r.queue) \ {e}
      /\ \A i, j \in DOMAIN RemoveFirst(r.queue, e) :
           RemoveFirst(r.queue, e)[i] = RemoveFirst(r.queue, e)[j] => i = j
  BY <1>1, Dequeue DEF TableOK, RegType
<1>6. /\ r1.pollfds = r.pollfds /\ r1.next_free_slot = r.next_free_slot
      /\ r1.open = r.open /\ r1.queue = RemoveFirst(r.queue, e)
      /\ r1.index = r.index
      /\ r1 \in RegType
  BY <1>1, <1>5 DEF RegType
<1>7. SlotsOf(r1, e) = {a}
  BY <1>3, <1>4, <1>6 DEF SlotsOf
<1>8. Min({a}) = a
  <2>1. {a} \in SUBSET Nat /\ {a} # {}
    BY EventCount DEF Slots
  <2>2. Min({a}) \in {a}
    BY <2>1, MinOfNats, Zenon
  <2> QED
    BY <2>2
<1>9. r.index[e] >= 0
  BY EventCount DEF TableOK, Slots
<1> HIDE DEF r1
<1>10. s = [r1 EXCEPT !.pollfds[a] = NoFd, !.index[e] = -1, !.next_free_slot = a]
  BY <1>7, <1>8, <1>9 DEF event_del, poll_remove, r1
<1> HIDE DEF s
<1>11. /\ s.pollfds = [r.pollfds EXCEPT ![a] = NoFd]
       /\ s.index = [r.index EXCEPT ![e] = -1]
       /\ s.queue = RemoveFirst(r.queue, e)
       /\ s.open = r.open
       /\ s \in RegType
  BY <1>1, <1>2, <1>6, <1>10 DEF RegType
<1>12. \A i \in Slots : s.pollfds[i] = IF i = a THEN NoFd ELSE r.pollfds[i]
  BY <1>1, <1>11 DEF RegType
<1>13. \A f \in Events \ {e} : s.index[f] = r.index[f]
  BY <1>1, <1>2, <1>11 DEF RegType
<1>14. \A i, j \in Slots : s.pollfds[i] = s.pollfds[j] /\ s.pollfds[i] # NoFd => i = j
  BY <1>12 DEF TableOK
<1>15. \A i \in Slots : s.pollfds[i] # NoFd => s.pollfds[i] \in Range(s.queue)
  BY <1>4, <1>5, <1>11, <1>12 DEF TableOK
<1>16. ASSUME NEW f \in Range(s.queue)
       PROVE  s.index[f] \in Slots /\ \E i \in Slots : s.pollfds[i] = f
  <2>1. f \in Range(r.queue) /\ f # e
    BY <1>5, <1>11
  <2>2. f \in Events
    <3>1. \A i \in DOMAIN r.queue : r.queue[i] \in Events
      BY <1>1 DEF RegType
    <3> QED
      BY <2>1, <3>1 DEF Range
  <2>3. PICK i \in Slots : r.pollfds[i] = f
    BY <2>1 DEF TableOK
  <2>4. s.pollfds[i] = f
    BY <2>1, <2>3, <1>3, <1>12
  <2> QED
    BY <2>1, <2>2, <2>4, <1>13 DEF TableOK
<1>17. TableOK(s)
  BY <1>5, <1>11, <1>14, <1>15, <1>16 DEF TableOK
<1>18. \A i \in Slots : s.pollfds[i] = IF r.pollfds[i] = e THEN NoFd ELSE r.pollfds[i]
  BY <1>3, <1>4, <1>12
<1> QED
  BY <1>5, <1>11, <1>13, <1>17, <1>18 DEF s

RegOK(r) == TableOK(r) /\ Range(r.queue) \ {Signal} = r.open

\* Once the loop has been entered the signal pipe is polled, in the slot that its
\* event remembers.
SignalOK(r) == Signal \in Range(r.queue) /\ r.pollfds[r.index[Signal]] = Signal

\* Before, the slots are taken one after the other.
StartOK(r) ==
  /\ Signal \notin Range(r.queue)
  /\ \A i \in Slots : r.pollfds[i] = NoFd <=> i >= r.next_free_slot

\* The signal pipe keeps the slot that it remembers when others come.
LEMMA AddKeepsSignal ==
  ASSUME NEW r, TableOK(r), SignalOK(r), NEW e \in Pipes \ Range(r.queue)
  PROVE  SignalOK(event_add(r, e))
<1> DEFINE s == event_add(r, e)
<1>1. e \in Events \ Range(r.queue) /\ e # Signal /\ Signal \in Events
  BY Apart DEF Events
<1>2. /\ Range(s.queue) = Range(r.queue) \cup {e}
      /\ AddSlot(r) \in FreeSlots(r)
      /\ s.pollfds = [r.pollfds EXCEPT ![AddSlot(r)] = e]
      /\ s.index = [r.index EXCEPT ![e] = r.next_free_slot]
  BY <1>1, AddEvent
<1> HIDE DEF s
<1>3. s.index[Signal] = r.index[Signal] /\ r.index[Signal] \in Slots
  BY <1>1, <1>2 DEF TableOK, RegType, SignalOK
<1>4. AddSlot(r) # r.index[Signal]
  BY <1>1, <1>2, Apart DEF FreeSlots, SignalOK
<1>5. s.pollfds[r.index[Signal]] = Signal
  BY <1>2, <1>3, <1>4 DEF TableOK, RegType, SignalOK
<1> QED
  BY <1>2, <1>3, <1>5 DEF SignalOK, s

\* At start-up next_free_slot is the first free slot and stays so.
LEMMA StartSlot ==
  ASSUME NEW r, TableOK(r), StartOK(r)
  PROVE  AddSlot(r) = r.next_free_slot /\ r.next_free_slot \in Slots
<1>1. FreeSlots(r) # {}
  BY RoomForOne DEF StartOK, Events
<1>2. r.next_free_slot \in Slots
  BY DEF TableOK, RegType
<1>3. r.next_free_slot \in FreeSlots(r)
  BY <1>2, EventCount DEF StartOK, FreeSlots, Slots
<1> QED
  BY <1>2, <1>3 DEF AddSlot

\* fpm_event_add of a pipe while the master starts: the table has room for it.
LEMMA AddAtStart ==
  ASSUME NEW r, TableOK(r), StartOK(r), NEW e \in Pipes \ Range(r.queue)
  PROVE  StartOK(event_add(r, e))
<1> DEFINE s == event_add(r, e)
           n == r.next_free_slot
<1>1. e \in Events \ Range(r.queue) /\ e # Signal /\ e # NoFd /\ Signal \in Events
  BY Apart DEF Events
<1>2. AddSlot(r) = n /\ n \in Slots
  BY StartSlot
<1>3. /\ TableOK(s)
      /\ Range(s.queue) = Range(r.queue) \cup {e}
      /\ s.pollfds = [r.pollfds EXCEPT ![n] = e]
      /\ s.next_free_slot = (n + 1) % npollfds
  <2>1. /\ TableOK(s)
        /\ Range(s.queue) = Range(r.queue) \cup {e}
        /\ s.pollfds = [r.pollfds EXCEPT ![AddSlot(r)] = e]
        /\ s.next_free_slot = (r.next_free_slot + 1) % npollfds
    BY <1>1, AddEvent
  <2> QED
    BY <2>1, <1>2
<1> HIDE DEF s
<1>4. Signal \notin Range(s.queue)
  BY <1>1, <1>3 DEF StartOK
<1>5. \A i \in Slots : s.pollfds[i] = IF i = n THEN e ELSE r.pollfds[i]
  BY <1>2, <1>3 DEF TableOK, RegType
<1> HIDE DEF n
<1>6. \A i \in Slots : s.pollfds[i] = NoFd <=> i > n
  BY <1>1, <1>2, <1>5, EventCount DEF StartOK, Slots, n
<1>7. n + 1 < npollfds
  <2>1. FreeSlots(s) # {}
    BY <1>1, <1>3, <1>4, RoomForOne
  <2>2. PICK i \in Slots : i > n
    BY <2>1, <1>6 DEF FreeSlots
  <2> QED
    BY <2>2, <1>2, EventCount DEF Slots
<1>8. (n + 1) % npollfds = n + 1
  BY <1>2, <1>7, EventCount DEF Slots
<1>9. \A i \in Slots : s.pollfds[i] = NoFd <=> i >= s.next_free_slot
  BY <1>2, <1>3, <1>6, <1>8, EventCount DEF Slots
<1> QED
  BY <1>4, <1>9 DEF StartOK, s

\* fpm_event_loop adds the signal pipe to a table from which nothing was taken.
LEMMA AddSignal ==
  ASSUME NEW r, RegOK(r), StartOK(r)
  PROVE  RegOK(event_add(r, Signal)) /\ SignalOK(event_add(r, Signal))
         /\ event_add(r, Signal).open = r.open
<1> DEFINE s == event_add(r, Signal)
           n == r.next_free_slot
<1>1. TableOK(r) /\ Signal \in Events \ Range(r.queue)
  BY DEF RegOK, StartOK, Events
<1>2. AddSlot(r) = n /\ n \in Slots
  BY <1>1, StartSlot
<1>3. /\ TableOK(s)
      /\ Range(s.queue) = Range(r.queue) \cup {Signal}
      /\ s.open = r.open
      /\ s.pollfds = [r.pollfds EXCEPT ![n] = Signal]
      /\ s.index = [r.index EXCEPT ![Signal] = n]
  BY <1>1, <1>2, AddEvent
<1> HIDE DEF s, n
<1>4. s.index[Signal] = n /\ s.pollfds[n] = Signal
  BY <1>1, <1>2, <1>3 DEF TableOK, RegType
<1>5. Range(s.queue) \ {Signal} = s.open
  BY <1>3 DEF RegOK
<1> QED
  BY <1>3, <1>4, <1>5 DEF RegOK, SignalOK, s

\* fpm_stdio_parent_use_pipes: the two pipes of a new child.
LEMMA UsePipes ==
  ASSUME NEW r, RegOK(r), NEW c \in Children, \A s \in Streams : <<c, s>> \notin r.open
  PROVE  LET s == parent_use_pipes(r, c)
         IN  /\ RegOK(s)
             /\ s.open = r.open \cup {<<c, x>> : x \in Streams}
             /\ SignalOK(r) => SignalOK(s)
             /\ StartOK(r) => StartOK(s)
<1> DEFINE o == [r EXCEPT !.open = @ \cup {<<c, x>> : x \in Streams}]
           e1 == <<c, "stdout">>
           e2 == <<c, "stderr">>
           r1 == event_add(o, e1)
           r2 == event_add(r1, e2)
<1>1. /\ e1 \in Pipes /\ e2 \in Pipes /\ e1 # e2 /\ e1 # Signal /\ e2 # Signal
      /\ e1 \in Events /\ e2 \in Events
      /\ {<<c, x>> : x \in Streams} = {e1, e2}
  BY Apart DEF Pipes, Streams, Events
<1>2. r \in RegType /\ r.open \subseteq Pipes
  BY DEF RegOK, TableOK, RegType
<1>3. /\ o.pollfds = r.pollfds /\ o.index = r.index /\ o.next_free_slot = r.next_free_slot
      /\ o.queue = r.queue /\ o.open = r.open \cup {e1, e2} /\ o \in RegType
  BY <1>1, <1>2 DEF RegType
<1> HIDE DEF o
<1>4. TableOK(o)
  BY <1>3 DEF RegOK, TableOK
<1>5. e1 \notin Range(o.queue) /\ e2 \notin Range(o.queue)
  BY <1>1, <1>3 DEF RegOK, Streams
<1>6. /\ SignalOK(r) => SignalOK(o)
      /\ StartOK(r) => StartOK(o)
  BY <1>3 DEF SignalOK, StartOK
<1> HIDE DEF e1, e2
<1>7. TableOK(r1) /\ Range(r1.queue) = Range(o.queue) \cup {e1} /\ r1.open = o.open
  BY <1>1, <1>4, <1>5, AddEvent
<1>8. /\ SignalOK(o) => SignalOK(r1)
      /\ StartOK(o) => StartOK(r1)
  BY <1>1, <1>4, <1>5, AddKeepsSignal, AddAtStart
<1> HIDE DEF r1
<1>9. e2 \notin Range(r1.queue)
  BY <1>1, <1>5, <1>7
<1>10. TableOK(r2) /\ Range(r2.queue) = Range(r1.queue) \cup {e2} /\ r2.open = r1.open
  BY <1>1, <1>7, <1>9, AddEvent
<1>11. /\ SignalOK(r1) => SignalOK(r2)
       /\ StartOK(r1) => StartOK(r2)
  BY <1>1, <1>7, <1>9, AddKeepsSignal, AddAtStart
<1> HIDE DEF r2
<1>12. RegOK(r2) /\ r2.open = r.open \cup {<<c, x>> : x \in Streams}
  <2>1. Range(r2.queue) \ {Signal} = (Range(r.queue) \ {Signal}) \cup {e1, e2}
    BY <1>1, <1>3, <1>7, <1>10
  <2> QED
    BY <2>1, <1>1, <1>3, <1>7, <1>10 DEF RegOK
<1>13. parent_use_pipes(r, c) = r2
  BY DEF parent_use_pipes, o, e1, e2, r1, r2
<1> QED
  BY <1>6, <1>8, <1>11, <1>12, <1>13

\* fpm_stdio_child_said at the end of a pipe takes out its event and no other.
LEMMA HangUp ==
  ASSUME NEW r, RegOK(r), NEW e \in r.open
  PROVE  LET s == hang_up(r, e)
         IN  /\ RegOK(s)
             /\ Range(s.queue) = Range(r.queue) \ {e}
             /\ s.open = r.open \ {e}
             /\ SignalOK(r) => SignalOK(s)
<1> DEFINE d == event_del(r, e)
           s == hang_up(r, e)
<1>1. e \in Range(r.queue) /\ e # Signal /\ e \in Pipes /\ TableOK(r)
  BY DEF RegOK, TableOK, RegType
<1>2. /\ TableOK(d)
      /\ Range(d.queue) = Range(r.queue) \ {e}
      /\ d.open = r.open
      /\ \A i \in Slots : d.pollfds[i] = IF r.pollfds[i] = e THEN NoFd ELSE r.pollfds[i]
      /\ \A f \in Events \ {e} : d.index[f] = r.index[f]
  BY <1>1, DelEvent
<1> HIDE DEF d
<1>3. s = [d EXCEPT !.open = @ \ {e}]
  BY DEF hang_up, d
<1> HIDE DEF s
<1>4. /\ s.pollfds = d.pollfds /\ s.index = d.index /\ s.queue = d.queue
      /\ s.open = r.open \ {e} /\ s \in RegType
  BY <1>2, <1>3 DEF TableOK, RegType
<1>5. TableOK(s)
  BY <1>2, <1>4 DEF TableOK
<1>6. RegOK(s)
  BY <1>2, <1>4, <1>5 DEF RegOK
<1>7. ASSUME SignalOK(r)
      PROVE  SignalOK(s)
  <2>1. s.index[Signal] = r.index[Signal] /\ r.index[Signal] \in Slots
    BY <1>1, <1>2, <1>4, <1>7 DEF Events, SignalOK, TableOK
  <2> QED
    BY <2>1, <1>1, <1>2, <1>4, <1>7 DEF SignalOK
<1> QED
  BY <1>2, <1>4, <1>6, <1>7 DEF s

\* fpm_child_close: both pipes of a child are gone, whichever was still open.
LEMMA ChildClose ==
  ASSUME NEW r, RegOK(r), SignalOK(r), NEW c \in Children
  PROVE  LET s == child_close(r, c)
         IN  RegOK(s) /\ SignalOK(s) /\ s.open = r.open \ {<<c, x>> : x \in Streams}
<1> DEFINE e1 == <<c, "stdout">>
           e2 == <<c, "stderr">>
           r1 == IF e1 \in r.open THEN hang_up(r, e1) ELSE r
           r2 == IF e2 \in r1.open THEN hang_up(r1, e2) ELSE r1
<1>1. {<<c, x>> : x \in Streams} = {e1, e2}
  BY DEF Streams
<1>2. child_close(r, c) = r2
  BY DEF child_close
<1> HIDE DEF e1, e2
<1>3. RegOK(r1) /\ SignalOK(r1) /\ r1.open = r.open \ {e1}
  BY HangUp
<1> HIDE DEF r1
<1>4. RegOK(r2) /\ SignalOK(r2) /\ r2.open = r1.open \ {e2}
  BY <1>3, HangUp
<1> HIDE DEF r2
<1> QED
  BY <1>1, <1>2, <1>3, <1>4

\* The walk of fpm_event_poll_wait goes from a queued event to another one, or ends.
LEMMA NextInQueue ==
  ASSUME NEW s \in Seq(Events), NEW e \in Range(s),
         \A i, j \in DOMAIN s : s[i] = s[j] => i = j
  PROVE  Following(s, e) \in (Range(s) \ {e}) \cup {Null}
<1> DEFINE k == CHOOSE k \in DOMAIN s : s[k] = e
<1>1. k \in DOMAIN s /\ s[k] = e
  BY DEF Range
<1>2. Following(s, e) = IF k < Len(s) THEN s[k + 1] ELSE Null
  BY DEF Following
<1> HIDE DEF k
<1>3. CASE k < Len(s)
  <2>1. k + 1 \in DOMAIN s /\ s[k + 1] # e
    BY <1>1, <1>3
  <2> QED
    BY <2>1, <1>2, <1>3 DEF Range
<1> QED
  BY <1>1, <1>2, <1>3

\* What the walk and the handlers of the master rely on.
PollInv ==
  /\ RegOK(reg)
  /\ pc = "start" => StartOK(reg)
  /\ pc # "start" => SignalOK(reg)
  /\ \A e \in reg.open : worker[e[1]] # "none"
  /\ worker \in [Children -> {"none", "alive", "dead"}]
  /\ said \subseteq Pipes
  /\ sigpipe \in BOOLEAN
  /\ pc \in {"start", "timers", "walk", "bury", "make"}
  /\ q \in Events \cup {Null, Wild}
  /\ active \subseteq Slots \X Events
  /\ pc = "walk" => q \in Range(reg.queue) \cup {Wild}
  /\ pc \in {"bury", "make"} => q = Signal
  /\ \A c \in Children : worker[c] = "dead" => sigpipe \/ pc \in {"bury", "make"}

\* The invariant holds at first.
LEMMA PollInit == Init => PollInv
<1> SUFFICES ASSUME Init
             PROVE  PollInv
  OBVIOUS
<1>1. 0 \in Slots
  BY EventCount DEF Slots
<1>2. reg \in RegType /\ reg.queue = <<>> /\ Range(reg.queue) = {} /\ reg.open = {}
  BY <1>1 DEF Init, RegType, Range
<1>3. \A i \in Slots : reg.pollfds[i] = NoFd
  BY DEF Init
<1>4. RegOK(reg)
  BY <1>2, <1>3 DEF RegOK, TableOK
<1>5. StartOK(reg)
  BY <1>2, <1>3, EventCount DEF StartOK, Slots, Init
<1> QED
  BY <1>2, <1>4, <1>5 DEF Init, PollInv

\* Where a walk may go from the event it stands on.
LEMMA WalkOn ==
  ASSUME PollInv, pc # "start", q \in Range(reg.queue)
  PROVE  Following(reg.queue, q) \in (Range(reg.queue) \ {q}) \cup {Null}
<1>1. reg.queue \in Seq(Events) /\ \A i, j \in DOMAIN reg.queue : reg.queue[i] = reg.queue[j] => i = j
  BY DEF PollInv, RegOK, TableOK, RegType
<1> QED
  BY <1>1, NextInQueue

\* What is queued are events.
LEMMA QueuedEvents ==
  ASSUME PollInv
  PROVE  Range(reg.queue) \subseteq Events
<1>1. \A i \in DOMAIN reg.queue : reg.queue[i] \in Events
  BY DEF PollInv, RegOK, TableOK, RegType
<1> QED
  BY <1>1 DEF Range

\* Every step of the master and of the workers preserves the invariant.
LEMMA PollStep == PollInv /\ [Next]_vars => PollInv'
<1> SUFFICES ASSUME PollInv, [Next]_vars
             PROVE  PollInv'
  OBVIOUS
<1>1. CASE EnterLoop
  <2>1. RegOK(reg') /\ SignalOK(reg') /\ reg'.open = reg.open
    BY <1>1, AddSignal DEF EnterLoop, PollInv
  <2> QED
    BY <2>1, <1>1 DEF EnterLoop, PollInv
<1>2. CASE Poll
  <2>1. reg.queue # <<>> /\ Head(reg.queue) \in Range(reg.queue)
    <3>1. reg.queue \in Seq(Events) /\ \E i \in DOMAIN reg.queue : reg.queue[i] = Signal
      BY <1>2 DEF PollInv, Poll, RegOK, TableOK, RegType, SignalOK, Range
    <3>2. reg.queue # <<>> /\ 1 \in DOMAIN reg.queue /\ Head(reg.queue) = reg.queue[1]
      BY <3>1
    <3> QED
      BY <3>2 DEF Range
  <2>2. active' \subseteq Slots \X Events
    <3>1. PICK eof \in BOOLEAN : active' = {p \in Slots \X Readable(eof) : reg.pollfds[p[1]] = p[2]}
      BY <1>2 DEF Poll
    <3>2. Readable(eof) \subseteq Events
      BY DEF Readable, Events, PollInv
    <3> QED
      BY <3>1, <3>2
  <2>3. q' \in Range(reg.queue) /\ q' \in Events
    BY <2>1, <1>2, QueuedEvents DEF Poll
  <2> QED
    BY <2>2, <2>3, <1>2 DEF Poll, PollInv
<1>3. CASE Skip
  <2>1. q \in Range(reg.queue) /\ pc = "walk"
    BY <1>3 DEF Skip, Walking, PollInv
  <2>2. Following(reg.queue, q) \in (Range(reg.queue) \ {q}) \cup {Null}
    BY <2>1, WalkOn
  <2> QED
    BY <2>1, <2>2, <1>3, QueuedEvents DEF Skip, Advance, PollInv
<1>4. CASE Read
  <2>1. q \in Range(reg.queue) /\ pc = "walk"
    BY <1>4 DEF Read, Walking, PollInv
  <2>2. Following(reg.queue, q) \in (Range(reg.queue) \ {q}) \cup {Null}
    BY <2>1, WalkOn
  <2> QED
    BY <2>1, <2>2, <1>4, QueuedEvents DEF Read, Advance, PollInv
<1>5. CASE ReadEnd
  <2>1. q \in Range(reg.queue) /\ pc = "walk" /\ q # Signal
    BY <1>5 DEF ReadEnd, Walking, PollInv
  <2>2. Following(reg.queue, q) \in (Range(reg.queue) \ {q}) \cup {Null}
    BY <2>1, WalkOn
  <2>3. q \in reg.open /\ SignalOK(reg)
    BY <2>1 DEF PollInv, RegOK
  <2>4. RegOK(reg') /\ SignalOK(reg') /\ reg'.open = reg.open \ {q} /\ Range(reg'.queue) = Range(reg.queue) \ {q}
    BY <2>3, <1>5, HangUp DEF ReadEnd, PollInv
  <2>5. /\ q' \in (Range(reg.queue) \ {q}) \cup {Null, Wild}
        /\ pc' = IF q' = Null THEN "timers" ELSE "walk"
        /\ active' = IF q' = Null THEN {} ELSE active
    BY <2>2, <1>5 DEF ReadEnd, Advance
  <2> QED
    BY <2>1, <2>4, <2>5, <1>5, QueuedEvents DEF ReadEnd, PollInv
<1>6. CASE GotSignal
  BY <1>6 DEF GotSignal, Walking, PollInv
<1>7. CASE Made
  BY <1>7 DEF Made, PollInv
<1>8. CASE Buried
  <2>1. q \in Range(reg.queue) /\ pc = "bury" /\ q = Signal
    BY <1>8 DEF Buried, PollInv, SignalOK
  <2>2. Following(reg.queue, q) \in (Range(reg.queue) \ {q}) \cup {Null}
    BY <2>1, WalkOn
  <2> QED
    BY <2>1, <2>2, <1>8, QueuedEvents DEF Buried, Advance, PollInv
<1>9. ASSUME NEW c \in Children, Fork(c)
      PROVE  PollInv'
  <2>1. \A s \in Streams : <<c, s>> \notin reg.open
    BY <1>9 DEF Fork, PollInv
  <2>2. /\ RegOK(reg')
        /\ reg'.open = reg.open \cup {<<c, x>> : x \in Streams}
        /\ SignalOK(reg) => SignalOK(reg')
        /\ StartOK(reg) => StartOK(reg')
    BY <2>1, <1>9, UsePipes DEF Fork, PollInv
  <2>3. \A e \in reg'.open : worker'[e[1]] # "none"
    BY <2>2, <1>9 DEF Fork, PollInv
  <2> QED
    BY <2>2, <2>3, <1>9 DEF Fork, PollInv
<1>10. ASSUME NEW c \in Children, Die(c)
       PROVE  PollInv'
  <2>1. \A e \in reg.open : e[1] \in Children
    BY DEF PollInv, RegOK, TableOK, RegType, Pipes
  <2> QED
    BY <2>1, <1>10 DEF Die, PollInv
<1>11. ASSUME NEW c \in Children, Bury(c)
       PROVE  PollInv'
  <2>1. RegOK(reg') /\ SignalOK(reg') /\ reg'.open = reg.open \ {<<c, x>> : x \in Streams}
    BY <1>11, ChildClose DEF Bury, PollInv
  <2>2. \A e \in reg'.open : worker'[e[1]] # "none"
    <3>1. reg.open \subseteq Pipes
      BY DEF PollInv, RegOK, TableOK, RegType
    <3>2. \A e \in reg'.open : e[1] \in Children /\ e[1] # c
      BY <2>1, <3>1 DEF Pipes
    <3> QED
      BY <2>1, <3>2, <1>11 DEF Bury, PollInv
  <2> QED
    BY <2>1, <2>2, <1>11 DEF Bury, PollInv
<1>12. ASSUME NEW c \in Children, NEW s \in Streams, Say(c, s)
       PROVE  PollInv'
  BY <1>12 DEF Say, PollInv, Pipes
<1>13. CASE UNCHANGED vars
  BY <1>13 DEF vars, PollInv
<1> QED
  BY <1>1, <1>2, <1>3, <1>4, <1>5, <1>6, <1>7, <1>8, <1>9, <1>10, <1>11, <1>12, <1>13, Zenon DEF Next

\* The invariant holds in every reachable state.
LEMMA PollInvariant == Spec => []PollInv
  BY PollInit, PollStep, PTL DEF Spec

\* Every variable keeps its type: next_free_slot and the remembered indexes stay
\* inside the table, whatever order the children come and go in.
THEOREM TypeCorrect == Spec => []TypeOK
<1>1. PollInv => TypeOK
  BY DEF PollInv, RegOK, TableOK, RegType, TypeOK
<1> QED
  BY <1>1, PollInvariant, PTL

\* poll() is asked about exactly the queued events, each in one slot, for any number
\* of children: fpm_event_poll_add finds a free slot and fpm_event_poll_remove the
\* right one, although the index that an event remembers may be wrong.
THEOREM PolledHolds == Spec => []Polled
<1>1. PollInv => Polled
  <2> SUFFICES ASSUME PollInv
               PROVE  Polled
    OBVIOUS
  <2>1. TableOK(reg) /\ Range(reg.queue) \subseteq Events
    BY QueuedEvents DEF PollInv, RegOK
  <2>2. ASSUME NEW e \in Range(reg.queue)
        PROVE  Cardinality({i \in Slots : reg.pollfds[i] = e}) = 1
    <3>1. PICK a \in Slots : reg.pollfds[a] = e
      BY <2>1 DEF TableOK
    <3>2. {i \in Slots : reg.pollfds[i] = e} = {a}
      BY <3>1, <2>1, Apart DEF TableOK
    <3> QED
      BY <3>2, FS_Singleton
  <2>3. \A i \in Slots : reg.pollfds[i] \in Range(reg.queue) \cup {NoFd}
    BY <2>1 DEF TableOK
  <2> QED
    BY <2>2, <2>3 DEF Polled, Registered
<1> QED
  BY <1>1, PollInvariant, PTL

\* No event of a freed child is queued, an event is queued once, and exactly while
\* its pipe is open: the end of a pipe, fpm_child_close and a burial in the middle
\* of a walk never leave one behind.
THEOREM NoDanglingHolds == Spec => []NoDangling
<1>1. PollInv => NoDangling
  BY DEF PollInv, RegOK, TableOK, NoDangling, Registered, IsInjective
<1> QED
  BY <1>1, PollInvariant, PTL

\* While a dead worker is unburied, a byte waits in the signal pipe or the handler
\* is still looping, and the walk recognises that pipe by the index of its event.
THEOREM DeathHeardHolds == Spec => []DeathHeard
<1>1. PollInv => DeathHeard
  BY DEF PollInv, SignalOK, DeathHeard
<1> QED
  BY <1>1, PollInvariant, PTL
================================================================================
