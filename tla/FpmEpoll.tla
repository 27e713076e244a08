-------------------------------- MODULE FpmEpoll --------------------------------
(***************************************************************************)
(* The output of workers on the epoll event back end of php-fpm, the usual *)
(* one on Linux: events/epoll.c with the queue of descriptor events of     *)
(* fpm_events.c, fpm_stdio.c and fpm_children.c.                           *)
(*                                                                         *)
(* epoll_wait fills an array with pointers to events and the callbacks are *)
(* fired from that array, so that what a callback does to the queue does   *)
(* not change what is fired after it.  Between two steps of the master a   *)
(* worker may write or die.                                                *)
(*                                                                         *)
(* Assumed of the environment, as in FpmPoll: no descendant of a worker    *)
(* outlives it with an end of its pipes.                                   *)
(***************************************************************************)
EXTENDS Integers, FiniteSets, Sequences, SequencesExt

CONSTANTS
  Children,   \* the children of the pool, as many as pm.max_children
  MaxDeaths   \* bound: workers that die in a behaviour

ASSUME EpollAssumption == IsFiniteSet(Children) /\ MaxDeaths \in Nat

Streams == {"stdout", "stderr"}
Pipes == Children \X Streams
Signal == <<"master", "signal">>   \* signal_fd_event
Events == {Signal} \union Pipes

\* fpm_event_init_main: the size of epollfds.
nepollfds == 1 + 2 * Cardinality(Children)

VARIABLES
  queued,    \* the events in fpm_event_queue_fd
  interest,  \* what epoll watches
  open,      \* the pipes that the master has open
  worker,    \* "none": no struct fpm_child_s; else the state of the process
  said,      \* the streams on which a worker wrote what the master has not read
  sigpipe,   \* a SIGCHLD byte waits in the signal pipe
  pc,        \* where the master is; "wild": it has called through freed memory
  batch,     \* the rest of epollfds
  stale,     \* the events in batch whose child has been freed since
  deaths

vars == <<queued, interest, open, worker, said, sigpipe, pc, batch, stale, deaths>>

Init ==
  /\ queued = {} /\ interest = {} /\ open = {}
  /\ worker = [c \in Children |-> "none"]
  /\ said = {} /\ sigpipe = FALSE
  /\ pc = "start" /\ batch = <<>> /\ stale = {} /\ deaths = 0

\* fpm_event_add of descriptors: the queue, and fpm_event_epoll_add.
event_add(es) ==
  /\ queued' = queued \union es
  /\ interest' = interest \union es

\* fpm_event_del and fpm_event_epoll_remove.
event_del(es) ==
  /\ queued' = queued \ es
  /\ interest' = interest \ es

\* fpm_children_make forks one child: at start-up, from a timer, or after a burial.
Fork(c) ==
  /\ pc \in {"start", "timers", "make"}
  /\ worker[c] = "none"
  /\ worker' = [worker EXCEPT ![c] = "alive"]
  /\ event_add({c} \X Streams)
  /\ open' = open \union ({c} \X Streams)
  /\ UNCHANGED <<said, sigpipe, pc, batch, stale, deaths>>

EnterLoop ==
  /\ pc = "start"
  /\ event_add({Signal})
  /\ pc' = "timers"
  /\ UNCHANGED <<open, worker, said, sigpipe, batch, stale, deaths>>

\* A worker writes to its standard output or error.
Say(c, s) ==
  /\ worker[c] = "alive"
  /\ said' = said \union {<<c, s>>}
  /\ UNCHANGED <<queued, interest, open, worker, sigpipe, pc, batch, stale, deaths>>

\* A worker ends: its pipes are at their end, and SIGCHLD is caught.
Die(c) ==
  /\ worker[c] = "alive"
  /\ deaths < MaxDeaths
  /\ worker' = [worker EXCEPT ![c] = "dead"]
  /\ sigpipe' = TRUE
  /\ deaths' = deaths + 1
  /\ UNCHANGED <<queued, interest, open, said, pc, batch, stale>>

\* The events are registered without EPOLLIN.
Ready_hup ==
  interest \intersect
    ({e \in Pipes : worker[e[1]] = "dead"} \union {e \in {Signal} : sigpipe})

\* EPOLLIN or EPOLLHUP.
Ready ==
  interest \intersect
    (said \union {e \in Pipes : worker[e[1]] = "dead"} \union {e \in {Signal} : sigpipe})

\* fpm_event_epoll_wait: the ready events, in any order, as far as the array goes.
EpollWait ==
  /\ pc = "timers"
  /\ Ready # {}
  /\ \E order \in SetToSeqs(Ready) :
       batch' = SubSeq(order, 1, IF Len(order) < nepollfds THEN Len(order) ELSE nepollfds)
  /\ pc' = "fire"
  /\ UNCHANGED <<queued, interest, open, worker, said, sigpipe, stale, deaths>>

\* The array is done with: the timers are next.
BatchDone ==
  /\ pc = "fire" /\ batch = <<>>
  /\ pc' = "timers"
  /\ UNCHANGED <<queued, interest, open, worker, said, sigpipe, batch, stale, deaths>>

Firing(e) == pc = "fire" /\ batch # <<>> /\ Head(batch) = e

NextInBatch ==
  /\ batch' = Tail(batch)
  /\ stale' = stale \ {Head(batch)}

\* fpm_stdio_child_said of a live worker: reads until EAGAIN.
Read(e) ==
  /\ Firing(e) /\ e \notin stale
  /\ worker[e[1]] = "alive"
  /\ said' = said \ {e}
  /\ NextInBatch
  /\ UNCHANGED <<queued, interest, open, worker, sigpipe, pc, deaths>>

\* Both pipes are given up at the end of one.
ReadEnd_both(e) ==
  /\ Firing(e) /\ e \notin stale
  /\ worker[e[1]] = "dead"
  /\ said' = said \ {e}
  /\ event_del({e[1]} \X Streams)
  /\ open' = open \ ({e[1]} \X Streams)
  /\ NextInBatch
  /\ UNCHANGED <<worker, sigpipe, pc, deaths>>

\* fpm_stdio_child_said of a dead worker: reads to the end, deletes the event and
\* closes the pipe.
ReadEnd(e) ==
  /\ Firing(e) /\ e \notin stale
  /\ worker[e[1]] = "dead"
  /\ said' = said \ {e}
  /\ event_del({e})
  /\ open' = open \ {e}
  /\ NextInBatch
  /\ UNCHANGED <<worker, sigpipe, pc, deaths>>

\* The pointer in the array is to a struct that was freed: the callback is whatever
\* is there now; or that of a new child for which malloc() has chosen the same
\* place, whose pipe it reads, to the end if it is dead.
FireStale(e) ==
  /\ Firing(e) /\ e \in stale
  /\ \/ /\ pc' = "wild"
        /\ UNCHANGED <<queued, interest, open, said, batch, stale>>
     \/ /\ worker[e[1]] = "alive"
        /\ said' = said \ {e}
        /\ NextInBatch
        /\ UNCHANGED <<queued, interest, open, pc>>
     \/ /\ worker[e[1]] = "dead"
        /\ said' = said \ {e}
        /\ event_del({e})
        /\ open' = open \ {e}
        /\ NextInBatch
        /\ UNCHANGED pc
  /\ UNCHANGED <<worker, sigpipe, deaths>>

\* fpm_got_signal reads a SIGCHLD byte.
GotSignal ==
  /\ Firing(Signal)
  /\ IF sigpipe THEN /\ pc' = "bury"
                     /\ UNCHANGED <<batch, stale>>
                ELSE /\ NextInBatch
                     /\ UNCHANGED pc
  /\ sigpipe' = FALSE
  /\ UNCHANGED <<queued, interest, open, worker, said, deaths>>

\* Only the standard output of a buried child is read to its end.
Bury_stdout(c) ==
  /\ pc = "bury"
  /\ worker[c] = "dead"
  /\ event_del({<<c, "stdout">>})
  /\ open' = open \ {<<c, "stdout">>}
  /\ said' = said \ ({c} \X Streams)
  /\ worker' = [worker EXCEPT ![c] = "none"]
  /\ stale' = stale \union (({c} \X Streams) \intersect ToSet(batch))
  /\ pc' = "make"
  /\ UNCHANGED <<sigpipe, batch, deaths>>

\* One round of fpm_children_bury: fpm_child_close reads the open pipes of a dead
\* child to their end, which deletes their events, and frees the child.
Bury(c) ==
  /\ pc = "bury"
  /\ worker[c] = "dead"
  /\ LET pipes == open \intersect ({c} \X Streams)
     IN  /\ event_del(pipes)
         /\ open' = open \ pipes
         /\ said' = said \ pipes
  /\ worker' = [worker EXCEPT ![c] = "none"]
  /\ stale' = stale \union (({c} \X Streams) \intersect ToSet(batch))
  /\ pc' = "make"
  /\ UNCHANGED <<sigpipe, batch, deaths>>

\* fpm_children_bury handles one child for each SIGCHLD byte.
Made_once ==
  /\ pc = "make"
  /\ pc' = "fire"
  /\ NextInBatch
  /\ UNCHANGED <<queued, interest, open, worker, said, sigpipe, deaths>>

\* fpm_children_make returns to fpm_children_bury.
Made ==
  /\ pc = "make"
  /\ pc' = "bury"
  /\ UNCHANGED <<queued, interest, open, worker, said, sigpipe, batch, stale, deaths>>

\* waitpid() has nobody left: back to fpm_got_signal, for another byte or none.
Buried ==
  /\ pc = "bury"
  /\ \A c \in Children : worker[c] # "dead"
  /\ pc' = "fire"
  /\ UNCHANGED <<queued, interest, open, worker, said, sigpipe, batch, stale, deaths>>

Master ==
  \/ EnterLoop \/ EpollWait \/ BatchDone \/ GotSignal \/ Made \/ Buried
  \/ \E e \in Pipes : Read(e) \/ ReadEnd(e) \/ FireStale(e)
  \/ \E c \in Children : Bury(c)

Next ==
  \/ Master
  \/ \E c \in Children : Fork(c) \/ Die(c) \/ \E s \in Streams : Say(c, s)

Spec == Init /\ [][Next]_vars

\* The master goes on as long as something is ready.
FairSpec == Spec /\ WF_vars(Master)

(***************************************************************************)
(* Properties.                                                             *)
(***************************************************************************)

\* Type invariant.
TypeOK ==
  /\ queued \subseteq Events /\ interest \subseteq Events /\ open \subseteq Pipes
  /\ worker \in [Children -> {"none", "alive", "dead"}]
  /\ said \subseteq Pipes /\ sigpipe \in BOOLEAN
  /\ pc \in {"start", "timers", "fire", "bury", "make", "wild"}
  /\ batch \in Seq(Events) /\ stale \subseteq ToSet(batch)
  /\ deaths \in Nat

\* The queue, the set that epoll watches and the open pipes agree, and none is of a
\* freed child: fpm_child_close takes out what fpm_stdio_child_said has not.  So the
\* array is as long as it need be, and a burial never leaves an event behind that
\* the next epoll_wait would return.
Agree ==
  /\ queued = interest
  /\ queued \ {Signal} = open
  /\ \A e \in open : worker[e[1]] # "none"
  /\ Cardinality(interest) <= nepollfds

\* Of what is still to be fired, everything is queued except what a burial has
\* freed: a callback of the same batch can only take away its own event.
OnlyBurialInvalidates == \A e \in ToSet(batch) \ stale : e \in queued

\* The death of a worker is never missed, though several may share a byte of the
\* signal pipe and happen anywhere in the handler: each is buried.
EveryDeathBuried ==
  \A c \in Children : worker[c] = "dead" ~> (worker[c] = "none" \/ pc = "wild")

\* What a worker writes is read, as long as the workers do not keep dying: the
\* batch may hold up its event, but not for ever.
EverythingRead == \A e \in Pipes : e \in said ~> (e \notin said \/ pc = "wild")

\* The question of fpm_event_epoll_wait, "do we have a valid ev ptr ?", is answered
\* rightly by its test for a null pointer: what is fired is an event of a child
\* that exists.
ValidEvent == pc # "wild"
================================================================================
