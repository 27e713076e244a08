-------------------------------- MODULE FpmPoll --------------------------------
(***************************************************************************)
(* The output of workers (catch_workers_output) on the poll() event back   *)
(* end of php-fpm: events/poll.c, the queue of descriptor events of        *)
(* fpm_events.c, fpm_stdio.c, and the parts of fpm_children.c that open    *)
(* and close the two pipes of a child.                                     *)
(*                                                                         *)
(* The master has one thread.  Between two steps of it a worker may write  *)
(* or die.  The queue, the table and the events are one record, reg,       *)
(* because a handler updates them several times in a row.                  *)
(*                                                                         *)
(* Assumed of the environment: no descendant of a worker outlives it with  *)
(* an end of its pipes, so that the pipes of a dead worker can be read to  *)
(* their end.                                                              *)
(***************************************************************************)
EXTENDS Integers, FiniteSets, FiniteSetsExt, Sequences, SequencesExt

CONSTANT Children   \* the children of the pool, as many as pm.max_children

ASSUME ChildrenAssumption == IsFiniteSet(Children) /\ Children # {}

\* A descriptor of the master is named by the event that it belongs to.  pipe()
\* hands out closed descriptors again: here, to the next child of the same name.
Streams == {"stdout", "stderr"}
Pipes == Children \X Streams
Signal == <<"master", "signal">>          \* signal_fd_event
Events == {Signal} \cup Pipes
NoFd == <<"master", "no fd">>             \* -1 in the table
Null == <<"master", "null">>              \* the end of the queue
Wild == <<"master", "wild">>              \* a pointer read from freed memory

\* fpm_event_init_main: one descriptor for signals and two for each child.
npollfds == 1 + 2 * Cardinality(Children)
Slots == 0..(npollfds - 1)

VARIABLES
  reg,      \* pollfds, next_free_slot, fpm_event_queue_fd and each event's index
  worker,   \* "none": no struct fpm_child_s; else the state of the process
  said,     \* the streams on which a worker wrote what the master has not read
  sigpipe,  \* a SIGCHLD byte waits in the signal pipe
  pc,       \* where the master is
  q,        \* the event at which the walk of fpm_event_poll_wait stands
  active    \* active_pollfds as poll() left it: the slots with POLLIN and their
            \* descriptors; empty outside of the walk, where nothing reads it

vars == <<reg, worker, said, sigpipe, pc, q, active>>

--------------------------------------------------------------------------------
(* The table of events/poll.c.  Each operator maps one state of reg to the next. *)

FreeSlots(r) == {i \in Slots : r.pollfds[i] = NoFd}

\* fpm_event_poll_add.  The index is next_free_slot also when the search chose
\* another slot.  A full table is only logged.
poll_add(r, e) ==
  IF FreeSlots(r) = {}
    THEN r
    ELSE LET i == IF r.next_free_slot \in FreeSlots(r) THEN r.next_free_slot
                                                       ELSE Min(FreeSlots(r))
         IN  [r EXCEPT !.pollfds[i] = e,
                       !.index[e] = r.next_free_slot,
                       !.next_free_slot = (r.next_free_slot + 1) % npollfds]

\* Mutant: no search, the remembered slot or none.
SlotsOf_direct(r, e) ==
  LET i == r.index[e]
  IN  IF i \in Slots /\ r.pollfds[i] = e THEN {i} ELSE {}

\* The slot of a descriptor: the remembered one, or the first that a search finds.
SlotsOf(r, e) ==
  LET i == r.index[e]
  IN  IF i \in Slots /\ r.pollfds[i] = e
        THEN {i}
        ELSE {j \in Slots : r.pollfds[j] = e}

\* fpm_event_poll_remove.  A missing descriptor is only logged.
poll_remove(r, e) ==
  IF SlotsOf(r, e) = {}
    THEN r
    ELSE LET i == Min(SlotsOf(r, e))
         IN  [r EXCEPT !.pollfds[i] = NoFd, !.index[e] = -1, !.next_free_slot = i]

\* fpm_event_set and fpm_event_add of a descriptor: it goes to the head of the queue.
event_add(r, e) ==
  poll_add([r EXCEPT !.index[e] = -1, !.queue = <<e>> \o r.queue], e)

\* fpm_event_del.  An event with a negative index is looked for among the timers,
\* where it is not.
event_del(r, e) ==
  IF r.index[e] >= 0 THEN poll_remove([r EXCEPT !.queue = RemoveFirst(r.queue, e)], e) ELSE r

\* fpm_stdio_child_said at the end of the file: the event goes, the pipe is closed.
hang_up(r, e) == [event_del(r, e) EXCEPT !.open = @ \ {e}]

\* Mutant: only the standard output is read to its end.
child_close_stdout(r, c) ==
  IF <<c, "stdout">> \in r.open THEN hang_up(r, <<c, "stdout">>) ELSE r

\* fpm_child_close, for a child whose process is dead: each pipe that is still open
\* is read to its end by fpm_stdio_child_said.
child_close(r, c) ==
  LET close(s, e) == IF e \in s.open THEN hang_up(s, e) ELSE s
  IN  close(close(r, <<c, "stdout">>), <<c, "stderr">>)

\* fpm_stdio_prepare_pipes and fpm_stdio_parent_use_pipes.
parent_use_pipes(r, c) ==
  LET opened == [r EXCEPT !.open = @ \cup {<<c, s>> : s \in Streams}]
  IN  event_add(event_add(opened, <<c, "stdout">>), <<c, "stderr">>)

--------------------------------------------------------------------------------
Init ==
  /\ reg = [pollfds |-> [i \in Slots |-> NoFd], next_free_slot |-> 0, queue |-> <<>>,
            open |-> {}, index |-> [e \in Events |-> -1]]
  /\ worker = [c \in Children |-> "none"]
  /\ said = {}
  /\ sigpipe = FALSE
  /\ pc = "start"
  /\ q = Null
  /\ active = {}

\* fpm_children_make forks one child: at start-up, from a timer, or after a burial.
\* A pool never has more than pm.max_children (FpmMaster, Capacity).
Fork(c) ==
  /\ pc \in {"start", "timers", "make"}
  /\ worker[c] = "none"
  /\ worker' = [worker EXCEPT ![c] = "alive"]
  /\ reg' = parent_use_pipes(reg, c)
  /\ UNCHANGED <<said, sigpipe, pc, q, active>>

\* fpm_event_loop registers the signal pipe after the initial children are forked.
EnterLoop ==
  /\ pc = "start"
  /\ reg' = event_add(reg, Signal)
  /\ pc' = "timers"
  /\ UNCHANGED <<worker, said, sigpipe, q, active>>

\* A worker writes to its standard output or error.
Say(c, s) ==
  /\ worker[c] = "alive"
  /\ said' = said \cup {<<c, s>>}
  /\ UNCHANGED <<reg, worker, sigpipe, pc, q, active>>

\* A worker ends.  Both of its pipes are then at their end, and SIGCHLD is caught.
Die(c) ==
  /\ worker[c] = "alive"
  /\ worker' = [worker EXCEPT ![c] = "dead"]
  /\ sigpipe' = TRUE
  /\ UNCHANGED <<reg, said, pc, q, active>>

\* The events with POLLIN.  A pipe without data whose writer has gone has POLLHUP
\* and, on systems other than Linux (eof), POLLIN as well.
Readable(eof) ==
  said
  \cup {e \in Pipes : eof /\ worker[e[1]] = "dead"}
  \cup {e \in {Signal} : sigpipe}

\* fpm_event_poll_wait until the loop over the queue starts.  Without POLLIN the
\* loop does nothing.
Poll ==
  /\ pc = "timers"
  /\ \E eof \in BOOLEAN :
       active' = {p \in Slots \X Readable(eof) : reg.pollfds[p[1]] = p[2]}
  /\ active' # {}
  /\ pc' = "walk"
  /\ q' = Head(reg.queue)
  /\ UNCHANGED <<reg, worker, said, sigpipe>>

\* The event behind e in a queue.
Following(queue, e) ==
  LET k == CHOOSE k \in DOMAIN queue : queue[k] = e
  IN  IF k < Len(queue) THEN queue[k + 1] ELSE Null

\* The walk moves to event e, or ends.
Advance(e) ==
  /\ q' = e
  /\ pc' = IF e = Null THEN "timers" ELSE "walk"
  /\ active' = IF e = Null THEN {} ELSE active

\* The test of fpm_event_poll_wait on the event of an element.
Triggered(e) == <<reg.index[e], e>> \in active

Walking == pc = "walk" /\ q # Wild

\* The event of the element is not triggered.
Skip ==
  /\ Walking
  /\ ~Triggered(q)
  /\ Advance(Following(reg.queue, q))
  /\ UNCHANGED <<reg, worker, said, sigpipe>>

\* fpm_stdio_child_said of a live worker: reads until EAGAIN.
Read ==
  /\ Walking
  /\ q # Signal /\ Triggered(q)
  /\ worker[q[1]] = "alive"
  /\ said' = said \ {q}
  /\ Advance(Following(reg.queue, q))
  /\ UNCHANGED <<reg, worker, sigpipe>>

\* fpm_stdio_child_said of a dead worker: reads to the end and deletes the event.
\* fpm_event_poll_wait then takes q->next from the element that was freed: what
\* was there before, nothing, or what the allocator left in its place.
ReadEnd ==
  /\ Walking
  /\ q # Signal /\ Triggered(q)
  /\ worker[q[1]] = "dead"
  /\ said' = said \ {q}
  /\ reg' = hang_up(reg, q)
  /\ \E e \in {Following(reg.queue, q), Null, Wild} : Advance(e)
  /\ UNCHANGED <<worker, sigpipe>>

\* fpm_got_signal reads the first SIGCHLD byte.
GotSignal ==
  /\ Walking
  /\ q = Signal /\ Triggered(q)
  /\ sigpipe' = FALSE
  /\ pc' = "bury"
  /\ UNCHANGED <<reg, worker, said, q, active>>

\* One round of fpm_children_bury: a dead child is closed and freed.
Bury(c) ==
  /\ pc = "bury"
  /\ worker[c] = "dead"
  /\ reg' = child_close(reg, c)
  /\ said' = said \ {<<c, s>> : s \in Streams}
  /\ worker' = [worker EXCEPT ![c] = "none"]
  /\ pc' = "make"
  /\ UNCHANGED <<sigpipe, q, active>>

\* Mutant: fpm_children_bury handles one child for each SIGCHLD byte.
Made_once ==
  /\ pc = "make"
  /\ Advance(Following(reg.queue, q))
  /\ UNCHANGED <<reg, worker, said, sigpipe>>

\* fpm_children_make returns to fpm_children_bury.
Made ==
  /\ pc = "make"
  /\ pc' = "bury"
  /\ UNCHANGED <<reg, worker, said, sigpipe, q, active>>

\* waitpid() has nobody left: fpm_got_signal reads another byte, or returns.
Buried ==
  /\ pc = "bury"
  /\ \A c \in Children : worker[c] # "dead"
  /\ \/ sigpipe /\ sigpipe' = FALSE /\ UNCHANGED <<pc, q, active>>
     \/ ~sigpipe /\ UNCHANGED sigpipe /\ Advance(Following(reg.queue, q))
  /\ UNCHANGED <<reg, worker, said>>

Next ==
  \/ EnterLoop \/ Poll \/ Skip \/ Read \/ ReadEnd \/ GotSignal \/ Made \/ Buried
  \/ \E c \in Children : Fork(c) \/ Die(c) \/ Bury(c)
  \/ \E c \in Children, s \in Streams : Say(c, s)

Spec == Init /\ [][Next]_vars

--------------------------------------------------------------------------------
Registered == Range(reg.queue)

\* Type invariant; next_free_slot is always an index of the table, which
\* fpm_event_poll_add uses before it looks at anything else.
TypeOK ==
  /\ reg \in [pollfds : [Slots -> Events \cup {NoFd}], next_free_slot : Slots,
              queue : Seq(Events), index : [Events -> Slots \cup {-1}],
              open : SUBSET Pipes]
  /\ worker \in [Children -> {"none", "alive", "dead"}]
  /\ said \subseteq Pipes
  /\ sigpipe \in BOOLEAN
  /\ pc \in {"start", "timers", "walk", "bury", "make"}
  /\ q \in Events \cup {Null, Wild}
  /\ active \subseteq Slots \X Events

\* poll() is asked about exactly the descriptors of the queued events, each in one
\* slot: fpm_event_poll_add never runs out of the slots that fpm_event_init_main
\* reserved, and fpm_event_poll_remove never misses a descriptor, whatever index
\* the event remembers.
Polled ==
  /\ \A e \in Registered : Cardinality({i \in Slots : reg.pollfds[i] = e}) = 1
  /\ \A i \in Slots : reg.pollfds[i] \in Registered \cup {NoFd}

\* The queue holds no event inside a freed struct fpm_child_s: fpm_child_close takes
\* out what fpm_stdio_child_said has not, in every order of writing, dying, polling
\* and burying.  An event is queued once, and exactly while its pipe is open.
NoDangling ==
  /\ \A e \in Registered \ {Signal} : worker[e[1]] # "none"
  /\ Registered \ {Signal} = reg.open
  /\ IsInjective(reg.queue)

\* The death of a worker is never missed: while one is unburied, a byte waits in the
\* signal pipe or fpm_got_signal is still looping; and the walk recognises that pipe,
\* because its event, added once and before any removal, remembers the right slot.
\* Several deaths may share one byte, and may happen at any point of the handler.
DeathHeard ==
  /\ \A c \in Children : worker[c] = "dead" => sigpipe \/ pc \in {"bury", "make"}
  /\ pc # "start" => reg.pollfds[reg.index[Signal]] = Signal

\* The comment in fpm_event_poll_add, "remember the event place in the fd list":
\* the index of a queued event is the slot of its descriptor.
PlaceRemembered == \A e \in Registered : reg.pollfds[reg.index[e]] = e

================================================================================
