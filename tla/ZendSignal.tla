------------------------------- MODULE ZendSignal -------------------------------
(***************************************************************************)
(* Deferred signals of the Zend engine (Zend/zend_signal.c), in a worker   *)
(* that serves one request after another, in the build without threads.    *)
(*                                                                         *)
(* The program counts its nested critical sections in depth; a signal that *)
(* finds depth above 0 is put on a linked list, and the macro that leaves  *)
(* the outermost section calls zend_signal_handler_unblock when blocked    *)
(* says that there is one.  A signal may arrive between any two steps of   *)
(* the program, but not while one is being handled: the handler runs with  *)
(* all these signals masked.                                               *)
(***************************************************************************)
EXTENDS Integers, Sequences, Functions

CONSTANTS
  Signals,      \* the signals of zend_sigs
  Fatal,        \* those that kill the process unless a handler is set
  QueueSize,    \* ZEND_SIGNAL_QUEUE_SIZE
  MaxArrivals,  \* bound: signals that arrive in a behaviour
  MaxNest,      \* bound: critical sections inside one another
  MaxBailouts   \* bound: fatal errors inside a critical section

ASSUME SignalAssumption ==
  /\ Fatal \subseteq Signals
  /\ QueueSize \in Nat \ {0} /\ MaxArrivals \in Nat /\ MaxNest \in Nat /\ MaxBailouts \in Nat

Slots == 1..QueueSize
NULL == 0

VARIABLES
  depth, blocked, running, active,  \* the fields of zend_signal_globals
  handlers,                         \* SIGG(handlers): "dfl", "user" or "ign"
  installed,                        \* what the kernel calls: "orig", "defer" or "ign"
  signo, next,                      \* pstorage
  phead, ptail, pavail,
  hpc, cur, queue,                  \* the signal handler: where it is, its signal, its local queue
  pc, ret, seen,                    \* the program: where it is, where UNBLOCK returns to, what it has read
  nest,                             \* the sections the program is really in
  compiled,                         \* this request has compiled its script
  alive,                            \* "up", "killed" by a signal, or "segv"
  arrived, done, lost, bailouts

sigg == <<depth, blocked, running, active>>
disposition == <<handlers, installed>>
list == <<signo, next, phead, ptail, pavail>>
handling == <<hpc, cur, queue>>
program == <<pc, ret, seen, nest, compiled, bailouts>>
counts == <<arrived, done, lost>>
vars == <<sigg, disposition, list, handling, program, alive, counts>>

Orig == [s \in Signals |-> IF s \in Fatal THEN "dfl" ELSE "user"]

\* The free list holds the storage back to front.
Init ==
  /\ depth = 0 /\ blocked = 0 /\ running = 0 /\ active = FALSE
  /\ handlers = Orig /\ installed = [s \in Signals |-> "orig"]
  /\ signo = [x \in Slots |-> NULL] /\ next = [x \in Slots |-> x - 1]
  /\ phead = NULL /\ ptail = NULL /\ pavail = QueueSize
  /\ hpc = "none" /\ cur = NULL /\ queue = NULL
  /\ pc = "accept" /\ ret = "accept" /\ seen = 0 /\ nest = 0 /\ compiled = FALSE
  /\ alive = "up" /\ arrived = 0 /\ bailouts = 0
  /\ done = [s \in Signals |-> 0] /\ lost = [s \in Signals |-> 0]

(***************************************************************************)
(* The signal handler.                                                     *)
(***************************************************************************)

\* zend_signal_handler: the default action kills.
Handle(s) ==
  /\ done' = [done EXCEPT ![s] = @ + 1]
  /\ alive' = IF handlers[s] = "dfl" THEN "killed" ELSE alive

\* The kernel calls what is installed for the signal.
Deliver(s) ==
  /\ alive = "up" /\ hpc = "none"
  /\ arrived < MaxArrivals
  /\ arrived' = arrived + 1
  /\ \/ /\ installed[s] = "orig"
        /\ done' = [done EXCEPT ![s] = @ + 1]
        /\ alive' = IF Orig[s] = "dfl" THEN "killed" ELSE alive
        /\ UNCHANGED handling
     \/ /\ installed[s] = "defer"
        /\ hpc' = "defer" /\ cur' = s
        /\ UNCHANGED <<done, alive, queue>>
  /\ UNCHANGED <<sigg, disposition, list, program, lost>>

InHandler(where) == alive = "up" /\ hpc \in where

Return ==
  /\ hpc' = "none" /\ cur' = NULL
  /\ UNCHANGED queue

\* zend_signal_handler_defer before the first activation has got to its end.
DeferInactive ==
  /\ InHandler({"defer", "redefer"}) /\ ~active
  /\ Handle(cur)
  /\ Return
  /\ UNCHANGED <<sigg, disposition, list, program, arrived, lost>>

\* The flag is left set.
DeferHandle_stale ==
  /\ InHandler({"defer", "redefer"}) /\ active /\ depth = 0
  /\ IF running = 0
     THEN /\ running' = 1
          /\ Handle(cur)
          /\ queue' = phead /\ phead' = NULL
          /\ hpc' = "drain" /\ cur' = NULL
     ELSE /\ Return
          /\ UNCHANGED <<running, phead, done, alive>>
  /\ UNCHANGED <<depth, blocked, active, disposition, signo, next, ptail, pavail, program, arrived, lost>>

\* The depth of one section is taken for none.
DeferHandle_one ==
  /\ InHandler({"defer", "redefer"}) /\ active /\ depth <= 1
  /\ blocked' = 0
  /\ IF running = 0
     THEN /\ running' = 1
          /\ Handle(cur)
          /\ queue' = phead /\ phead' = NULL
          /\ hpc' = "drain" /\ cur' = NULL
     ELSE /\ Return
          /\ UNCHANGED <<running, phead, done, alive>>
  /\ UNCHANGED <<depth, active, disposition, signo, next, ptail, pavail, program, arrived, lost>>

\* ... outside the critical sections: the signal first, then the list.
DeferHandle ==
  /\ InHandler({"defer", "redefer"}) /\ active /\ depth = 0
  /\ blocked' = 0
  /\ IF running = 0
     THEN /\ running' = 1
          /\ Handle(cur)
          /\ queue' = phead /\ phead' = NULL
          /\ hpc' = "drain" /\ cur' = NULL
     ELSE /\ Return
          /\ UNCHANGED <<running, phead, done, alive>>
  /\ UNCHANGED <<depth, active, disposition, signo, next, ptail, pavail, program, arrived, lost>>

Drain ==
  /\ InHandler({"drain"})
  /\ \/ /\ queue # NULL
        /\ Handle(signo[queue])
        /\ queue' = next[queue]
        /\ next' = [next EXCEPT ![queue] = pavail]
        /\ signo' = [signo EXCEPT ![queue] = NULL]
        /\ pavail' = queue
        /\ UNCHANGED <<running, hpc, cur>>
     \/ /\ queue = NULL
        /\ running' = 0
        /\ Return
        /\ UNCHANGED <<signo, next, pavail, done, alive>>
  /\ UNCHANGED <<depth, blocked, active, disposition, phead, ptail, program, arrived, lost>>

\* The element is linked behind the last one, but its own link is left as the
\* free list had it.
Enqueue_uncut(x) ==
  /\ next' = IF phead # NULL /\ ptail # NULL THEN [next EXCEPT ![ptail] = x] ELSE next
  /\ phead' = IF phead # NULL /\ ptail # NULL THEN phead ELSE x
  /\ ptail' = x

\* The element is put in front of the others.
Enqueue_front(x) ==
  /\ next' = [next EXCEPT ![x] = phead]
  /\ phead' = x
  /\ ptail' = IF phead # NULL /\ ptail # NULL THEN ptail ELSE x

Enqueue(x) ==
  /\ next' = LET cut == [next EXCEPT ![x] = NULL]
             IN  IF phead # NULL /\ ptail # NULL THEN [cut EXCEPT ![ptail] = x] ELSE cut
  /\ phead' = IF phead # NULL /\ ptail # NULL THEN phead ELSE x
  /\ ptail' = x

\* ... inside one: onto the list, or forgotten.
DeferEnqueue ==
  /\ InHandler({"defer", "redefer"}) /\ active /\ depth # 0
  /\ blocked' = 1
  /\ \/ /\ pavail # NULL
        /\ pavail' = next[pavail]
        /\ signo' = [signo EXCEPT ![pavail] = cur]
        /\ Enqueue(pavail)
        /\ UNCHANGED lost
     \/ /\ pavail = NULL
        /\ lost' = [lost EXCEPT ![cur] = @ + 1]
        /\ UNCHANGED list
  /\ Return
  /\ UNCHANGED <<depth, running, active, disposition, program, alive, arrived, done>>

Handler == DeferInactive \/ DeferHandle \/ Drain \/ DeferEnqueue

(***************************************************************************)
(* The program: requests, their critical sections, and the macros          *)
(* HANDLE_BLOCK_INTERRUPTIONS and HANDLE_UNBLOCK_INTERRUPTIONS.            *)
(***************************************************************************)

At(where) == alive = "up" /\ hpc = "none" /\ pc = where

Accept ==
  /\ At("accept")
  /\ pc' = "startup" /\ compiled' = FALSE
  /\ UNCHANGED <<sigg, disposition, list, handling, ret, seen, nest, bailouts, alive, counts>>

\* zend_signal_activate: the handlers are those of the process again, and
\* zend_signal_register keeps what it finds installed if it is not its own.
ActivateRegister ==
  /\ At("startup") /\ nest = 0
  /\ handlers' = [s \in Signals |-> IF installed[s] = "ign" THEN "ign" ELSE Orig[s]]
  /\ installed' = [s \in Signals |-> "defer"]
  /\ pc' = "activate"
  /\ UNCHANGED <<sigg, list, handling, ret, seen, nest, compiled, bailouts, alive, counts>>

ActivateActive ==
  /\ At("activate")
  /\ active' = TRUE
  /\ pc' = "reset"
  /\ UNCHANGED <<depth, blocked, running, disposition, list, handling, ret, seen, nest, compiled,
                 bailouts, alive, counts>>

\* blocked and the list are left as the last request left them.
ActivateDepth ==
  /\ At("reset")
  /\ depth' = 0
  /\ pc' = "request"
  /\ UNCHANGED <<blocked, running, active, disposition, list, handling, ret, seen, nest, compiled,
                 bailouts, alive, counts>>

\* zend_sigaction, for a handler of the script or SIG_IGN.
Sigaction(s, h) ==
  /\ At("request") /\ nest = 0
  /\ handlers' = [handlers EXCEPT ![s] = h]
  /\ installed' = [installed EXCEPT ![s] = IF h = "ign" THEN "ign" ELSE "defer"]
  /\ UNCHANGED <<sigg, list, handling, program, alive, counts>>

\* Once in a request this is persistent_compile_file with the script itself.
Block ==
  /\ alive = "up" /\ hpc = "none" /\ pc \in {"startup", "request"}
  /\ nest < MaxNest
  /\ depth' = depth + 1 /\ nest' = nest + 1
  /\ compiled' = (compiled \/ pc = "request")
  /\ UNCHANGED <<blocked, running, active, disposition, list, handling, pc, ret, seen, bailouts, alive, counts>>

\* (SIGG(depth)--) == SIGG(blocked): the compiler may write depth before or
\* after it reads blocked.
Unblock ==
  /\ alive = "up" /\ hpc = "none" /\ pc \in {"startup", "request"}
  /\ nest > 0
  /\ ret' = pc
  /\ \/ /\ depth' = depth - 1 /\ nest' = nest - 1
        /\ seen' = depth /\ pc' = "compare"
     \/ /\ seen' = blocked /\ pc' = "write"
        /\ UNCHANGED <<depth, nest>>
  /\ UNCHANGED <<blocked, running, active, disposition, list, handling, compiled, bailouts, alive, counts>>

\* Leaving a section never looks at the list.
UnblockCompare_never ==
  /\ At("compare")
  /\ pc' = ret
  /\ UNCHANGED <<sigg, disposition, list, handling, ret, seen, nest, compiled, bailouts, alive, counts>>

UnblockCompare ==
  /\ At("compare")
  /\ pc' = IF seen = blocked THEN "unblock" ELSE ret
  /\ UNCHANGED <<sigg, disposition, list, handling, ret, seen, nest, compiled, bailouts, alive, counts>>

UnblockWrite ==
  /\ At("write")
  /\ depth' = depth - 1 /\ nest' = nest - 1
  /\ pc' = IF depth = seen THEN "unblock" ELSE ret
  /\ UNCHANGED <<blocked, running, active, disposition, list, handling, ret, seen, compiled, bailouts, alive, counts>>

\* zend_signal_handler_unblock, with the signals masked: the oldest element is
\* handed to zend_signal_handler_defer.  An empty list is dereferenced.
HandlerUnblock ==
  /\ At("unblock")
  /\ pc' = ret
  /\ IF active /\ phead # NULL
     THEN /\ hpc' = "redefer" /\ cur' = signo[phead]
          /\ phead' = next[phead]
          /\ next' = [next EXCEPT ![phead] = pavail]
          /\ signo' = [signo EXCEPT ![phead] = NULL]
          /\ pavail' = phead
          /\ UNCHANGED <<alive, ptail, queue>>
     ELSE /\ alive' = IF active THEN "segv" ELSE alive
          /\ UNCHANGED <<list, handling>>
  /\ UNCHANGED <<sigg, disposition, ret, seen, nest, compiled, bailouts, counts>>

\* A fatal error inside a section: zend_bailout jumps out of it and depth stays.
\* The functions that run at the end of the request may enter others.
Bailout ==
  /\ At("request") /\ nest > 0
  /\ bailouts < MaxBailouts
  /\ bailouts' = bailouts + 1
  /\ nest' = 0
  /\ UNCHANGED <<sigg, disposition, list, handling, pc, ret, seen, compiled, alive, counts>>

\* php_request_shutdown leaves the signal layer alone.
Shutdown ==
  /\ At("request") /\ nest = 0 /\ compiled
  /\ pc' = "accept"
  /\ UNCHANGED <<sigg, disposition, list, handling, ret, seen, nest, compiled, bailouts, alive, counts>>

Request ==
  \/ ActivateRegister \/ ActivateActive \/ ActivateDepth
  \/ Unblock \/ UnblockCompare \/ UnblockWrite \/ HandlerUnblock
  \/ Shutdown

Next ==
  \/ Handler \/ Request \/ Accept \/ Block \/ Bailout
  \/ \E s \in Signals : Deliver(s) \/ \E h \in {"user", "ign"} : Sigaction(s, h)

Spec == Init /\ [][Next]_vars

\* The program and the signal handler go on while the process lives; a request
\* compiles its script.  Whether requests come is up to the clients.
FairSpec == Spec /\ WF_vars(Handler) /\ WF_vars(Request) /\ WF_vars(Block /\ ~compiled)

(***************************************************************************)
(* Properties.                                                             *)
(***************************************************************************)

Links == 0..QueueSize

\* Every variable has its type: depth never falls below 0, and what the handler
\* works on is a signal.
TypeOK ==
  /\ depth \in Nat /\ blocked \in 0..1 /\ running \in 0..1 /\ active \in BOOLEAN
  /\ handlers \in [Signals -> {"dfl", "user", "ign"}]
  /\ installed \in [Signals -> {"orig", "defer", "ign"}]
  /\ signo \in [Slots -> Signals \union {NULL}] /\ next \in [Slots -> Links]
  /\ phead \in Links /\ ptail \in Links /\ pavail \in Links
  /\ hpc \in {"none", "defer", "redefer", "drain"} /\ queue \in Links
  /\ hpc \in {"defer", "redefer"} => cur \in Signals
  /\ pc \in {"accept", "startup", "activate", "reset", "request", "compare", "write", "unblock"}
  /\ ret \in {"accept", "startup", "request"}
  /\ seen \in Nat /\ nest \in Nat /\ compiled \in BOOLEAN
  /\ alive \in {"up", "killed", "segv"}
  /\ arrived \in Nat /\ bailouts \in Nat
  /\ done \in [Signals -> Nat] /\ lost \in [Signals -> Nat]

\* The sequences of elements that fit the storage.
Walks == UNION {[1..n -> Slots] : n \in 0..QueueSize}

\* s are the elements met from p on.
IsChain(links, s, p) ==
  /\ p = IF s = <<>> THEN NULL ELSE s[1]
  /\ \A i \in 1..Len(s) : links[s[i]] = IF i < Len(s) THEN s[i + 1] ELSE NULL

Chain(links, p) == CHOOSE s \in Walks : IsChain(links, s, p)

\* The pending list, the list that the handler is working through and the free
\* list share no element, have no cycle and together hold the whole storage; the
\* tail pointer is the last pending element.  So an element that is taken from
\* the free list is never one that still carries a signal.
ListsPartition ==
  \E pending \in Walks :
    /\ IsChain(next, pending, phead)
    /\ pending # <<>> => ptail = pending[Len(pending)]
    /\ \E draining, free \in Walks :
         /\ IsChain(next, draining, queue) /\ IsChain(next, free, pavail)
         /\ LET all == pending \o draining \o free
            IN  Len(all) = QueueSize /\ Range(all) = Slots /\ IsInjective(all)

\* Whenever no handler is running, blocked says exactly whether a signal is
\* pending: UNBLOCK neither passes over one nor looks for one in an empty list.
BlockedIffPending == (alive = "up" /\ hpc = "none") => (blocked = 1 <=> phead # NULL)

\* Once the layer is active, no handler runs while the program is in a critical
\* section, however deep the sections are nested and wherever fatal errors left them.
OutsideSections == [][(active /\ done' # done) => nest = 0]_vars

\* The signals that the elements of a list carry.
Carried(signos, chain) == [i \in 1..Len(chain) |-> signos[chain[i]]]

\* The deferred signals, oldest first: one that unblock has in its hand, those
\* that the handler is working through, those on the list.
Pending ==
  (IF hpc = "redefer" THEN <<cur>> ELSE <<>>)
    \o Carried(signo, Chain(next, queue)) \o Carried(signo, Chain(next, phead))

Promise == INSTANCE DeferredSignals WITH pending <- Pending, Size <- QueueSize

\* The lists, flags and masks of the layer implement the bounded queue of
\* DeferredSignals: deferred signals are handled once each, in the order in which
\* they came, and one is forgotten only when all the storage carries others.
KeepsPromise == Promise!QueueSpec

\* If requests keep coming and ending, and fatal errors inside sections end, every deferred
\* signal is handled, unless the process dies first: the next request picks up
\* what a fatal error or a race with the comparison has left behind.
DeferredHandled ==
  ([]<>(pc = "accept") /\ []<>(pc = "request")) => [](Pending # <<>> => <>(Pending = <<>> \/ alive # "up"))

\* zend_signal_handler_unblock is called when there is a deferred signal to
\* handle: "Handle deferred signal from HANDLE_UNBLOCK_ALARMS" (zend_signal.c:153).
UnblockFindsSignal == alive # "segv"

\* zend_signal_handler_defer "Blocks signals if in critical section"
\* (zend_signal.c:84): a signal is put off only then.
BlocksInSections == [][DeferEnqueue => nest > 0]_vars
================================================================================
