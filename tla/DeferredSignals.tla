---------------------------- MODULE DeferredSignals ----------------------------
(***************************************************************************)
(* What the signal layer of the Zend engine promises to whoever sends a    *)
(* signal: it is handled at once, or it waits in a queue of bounded length *)
(* and is handled in its turn, once; only a full queue forgets it.         *)
(***************************************************************************)
EXTENDS Naturals, Sequences

CONSTANTS Signals, Size

VARIABLES
  pending,  \* the deferred signals, oldest first
  done,     \* how often each signal was handled
  lost      \* how often each was forgotten

avars == <<pending, done, lost>>

Start ==
  /\ pending = <<>>
  /\ done = [s \in Signals |-> 0]
  /\ lost = [s \in Signals |-> 0]

HandleAtOnce(s) ==
  /\ done' = [done EXCEPT ![s] = @ + 1]
  /\ UNCHANGED <<pending, lost>>

Defer(s) ==
  /\ Len(pending) < Size
  /\ pending' = Append(pending, s)
  /\ UNCHANGED <<done, lost>>

Forget(s) ==
  /\ Len(pending) = Size
  /\ lost' = [lost EXCEPT ![s] = @ + 1]
  /\ UNCHANGED <<pending, done>>

HandleDeferred ==
  /\ pending # <<>>
  /\ pending' = Tail(pending)
  /\ done' = [done EXCEPT ![Head(pending)] = @ + 1]
  /\ UNCHANGED lost

Queueing == HandleDeferred \/ \E s \in Signals : HandleAtOnce(s) \/ Defer(s) \/ Forget(s)

QueueSpec == Start /\ [][Queueing]_avars
================================================================================
