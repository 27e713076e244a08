---------------------------- MODULE ZendSignalProofs ----------------------------
(***************************************************************************)
(* For any signals, any length of the list and any depth of nesting: no    *)
(* handler runs inside a critical section, the linked lists stay exact,    *)
(* and what is put off is handled once, in order, or forgotten only when   *)
(* the storage is used up.                                                 *)
(***************************************************************************)
EXTENDS ZendSignal, SequenceTheorems, WellFoundedInduction, TLAPS

\* depth counts at least the sections that the program is in: a fatal error
\* leaves it too high, and it is set to 0 only where the program is in none.
\* The handler works through the list only with depth at 0, and once the layer
\* is active no signal reaches a handler past it.
SectionInv ==
  /\ depth \in Nat
  /\ nest \in Nat
  /\ nest <= depth
  /\ ret \in {"accept", "startup", "request"}
  /\ hpc = "drain" => depth = 0
  /\ pc \in {"activate", "reset"} => nest = 0
  /\ pc = "write" => nest > 0
  /\ (active \/ pc = "activate") => \A s \in Signals : installed[s] # "orig"

\* The initial state satisfies the invariant.
LEMMA SectionInit == Init => SectionInv
  BY DEF Init, SectionInv

\* Every step of the program, of the handler and of the kernel preserves it.
LEMMA SectionStep == SectionInv /\ [Next]_vars => SectionInv'
<1> SUFFICES ASSUME SectionInv, [Next]_vars
             PROVE  SectionInv'
  OBVIOUS
<1> USE DEF SectionInv
<1>1. CASE DeferInactive
  BY <1>1 DEF DeferInactive, InHandler, Return, sigg, disposition, program
<1>2. CASE DeferHandle
  BY <1>2 DEF DeferHandle, InHandler, Return, disposition, program
<1>3. CASE Drain
  BY <1>3 DEF Drain, InHandler, Return, disposition, program
<1>4. CASE DeferEnqueue
  BY <1>4 DEF DeferEnqueue, InHandler, Return, disposition, program
<1>5. CASE ActivateRegister
  BY <1>5 DEF ActivateRegister, At, sigg, disposition, handling, program
<1>6. CASE ActivateActive
  BY <1>6 DEF ActivateActive, At, sigg, disposition, handling, program
<1>7. CASE ActivateDepth
  BY <1>7 DEF ActivateDepth, At, sigg, disposition, handling, program
<1>8. CASE Unblock
  BY <1>8 DEF Unblock, At, sigg, disposition, handling, program
<1>9. CASE UnblockCompare
  BY <1>9 DEF UnblockCompare, At, sigg, disposition, handling, program
<1>10. CASE UnblockWrite
  BY <1>10 DEF UnblockWrite, At, sigg, disposition, handling, program
<1>11. CASE HandlerUnblock
  BY <1>11 DEF HandlerUnblock, At, sigg, disposition, handling, program
<1>12. CASE Shutdown
  BY <1>12 DEF Shutdown, At, sigg, disposition, handling, program
<1>13. CASE Accept
  BY <1>13 DEF Accept, At, sigg, disposition, handling, program
<1>14. CASE Block
  BY <1>14 DEF Block, At, sigg, disposition, handling, program
<1>15. CASE Bailout
  BY <1>15 DEF Bailout, At, sigg, disposition, handling, program
<1>16. ASSUME NEW s \in Signals, Deliver(s)
      PROVE  SectionInv'
  BY <1>16 DEF Deliver, sigg, disposition, handling, program
<1>17. ASSUME NEW s \in Signals, NEW h \in {"user", "ign"}, Sigaction(s, h)
      PROVE  SectionInv'
  BY <1>17 DEF Sigaction, At, sigg, handling, program
<1>18. CASE UNCHANGED vars
  BY <1>18 DEF vars, sigg, disposition, handling, program
<1> QED
  BY <1>1, <1>2, <1>3, <1>4, <1>5, <1>6, <1>7, <1>8, <1>9, <1>10, <1>11, <1>12, <1>13, <1>14, <1>15, <1>16, <1>17, <1>18, Zenon DEF Next, Handler, Request

\* Once the layer is active, no handler runs while the program is in a critical
\* section: a step that handles a signal finds depth at 0, and depth is at least
\* the number of sections.
THEOREM HandlersStayOutside == Spec => OutsideSections
<1>1. SectionInv /\ [Next]_vars => [(active /\ done' # done) => nest = 0]_vars
  <2> SUFFICES ASSUME SectionInv, Next, active, done' # done
               PROVE  nest = 0
    BY DEF vars
  <2> USE DEF SectionInv
  <2>1. CASE DeferInactive
    BY <2>1 DEF DeferInactive, InHandler
  <2>2. CASE DeferHandle
    BY <2>2 DEF DeferHandle, InHandler
  <2>3. CASE Drain
    BY <2>3 DEF Drain, InHandler
  <2>4. CASE DeferEnqueue
    BY <2>4 DEF DeferEnqueue, counts
  <2>5. CASE ActivateRegister
    BY <2>5 DEF ActivateRegister, counts
  <2>6. CASE ActivateActive
    BY <2>6 DEF ActivateActive, counts
  <2>7. CASE ActivateDepth
    BY <2>7 DEF ActivateDepth, counts
  <2>8. CASE Unblock
    BY <2>8 DEF Unblock, counts
  <2>9. CASE UnblockCompare
    BY <2>9 DEF UnblockCompare, counts
  <2>10. CASE UnblockWrite
    BY <2>10 DEF UnblockWrite, counts
  <2>11. CASE HandlerUnblock
    BY <2>11 DEF HandlerUnblock, counts
  <2>12. CASE Shutdown
    BY <2>12 DEF Shutdown, counts
  <2>13. CASE Accept
    BY <2>13 DEF Accept, counts
  <2>14. CASE Block
    BY <2>14 DEF Block, counts
  <2>15. CASE Bailout
    BY <2>15 DEF Bailout, counts
  <2>16. ASSUME NEW s \in Signals, Deliver(s)
        PROVE  nest = 0
    BY <2>16 DEF Deliver
  <2>17. ASSUME NEW s \in Signals, NEW h \in {"user", "ign"}, Sigaction(s, h)
        PROVE  nest = 0
    BY <2>17 DEF Sigaction, counts
  <2> QED
    BY <2>1, <2>2, <2>3, <2>4, <2>5, <2>6, <2>7, <2>8, <2>9, <2>10, <2>11, <2>12, <2>13, <2>14, <2>15, <2>16, <2>17, Zenon DEF Next, Handler, Request
<1> QED
  BY SectionInit, SectionStep, <1>1, PTL DEF Spec, OutsideSections

--------------------------------------------------------------------------------
(* The linked lists. *)

\* A non-empty set of natural numbers has a least element.
LEMMA LeastNat ==
  ASSUME NEW S \in SUBSET Nat, S # {}
  PROVE  \E x \in S : \A y \in S : x <= y
<1>1. PICK x \in S : \A y \in S : ~ (<<y, x>> \in OpToRel(<, Nat))
  BY NatLessThanWellFounded, WFMin
<1>2. ASSUME NEW y \in S, ~ (x <= y)
      PROVE  FALSE
  <2>1. x \in Nat /\ y \in Nat /\ y < x
    BY <1>2
  <2>2. <<y, x>> \in OpToRel(<, Nat)
    BY <2>1, Zenon DEF OpToRel
  <2> QED
    BY <1>1, <2>2
<1> QED
  BY <1>2

\* The null pointer is none of the elements.
LEMMA NullIsNoSlot == NULL \notin Slots
  BY DEF NULL, Slots

\* Two walks from the same element meet the same elements.
LEMMA ChainPrefix ==
  ASSUME NEW links, NEW p, NEW s \in Seq(Slots), NEW t \in Seq(Slots),
         IsChain(links, s, p), IsChain(links, t, p)
  PROVE  \A i \in 1..Len(s) : i \in 1..Len(t) /\ s[i] = t[i]
<1> DEFINE Bad == {i \in 1..Len(s) : ~ (i \in 1..Len(t) /\ s[i] = t[i])}
<1> SUFFICES ASSUME Bad # {}
             PROVE  FALSE
  OBVIOUS
<1>1. Bad \in SUBSET Nat
  OBVIOUS
<1>2. PICK k \in Bad : \A i \in Bad : k <= i
  BY <1>1, LeastNat
<1>3. k \in 1..Len(s) /\ ~ (k \in 1..Len(t) /\ s[k] = t[k])
  OBVIOUS
<1>4. CASE k = 1
  <2>1. p = s[1] /\ p # NULL
    <3>1. s # <<>> /\ s[1] \in Slots
      BY <1>3, <1>4
    <3> QED
      BY <3>1, NullIsNoSlot DEF IsChain
  <2>2. t # <<>> /\ t[1] = p
    BY <2>1 DEF IsChain
  <2>3. 1 \in 1..Len(t)
    BY <2>2
  <2> QED
    BY <2>1, <2>2, <2>3, <1>3, <1>4
<1>5. CASE k > 1
  <2>1. k - 1 \in 1..Len(s) /\ k - 1 \notin Bad
    BY <1>2, <1>3, <1>5
  <2>2. k - 1 \in 1..Len(t) /\ s[k - 1] = t[k - 1]
    BY <2>1
  <2>3. links[s[k - 1]] = s[k]
    BY <2>1, <1>3, <1>5 DEF IsChain
  <2>4. links[t[k - 1]] = IF k - 1 < Len(t) THEN t[(k - 1) + 1] ELSE NULL
    BY <2>2 DEF IsChain
  <2>5. s[k] # NULL
    <3>1. s[k] \in Slots
      BY <1>3
    <3> QED
      BY <3>1, NullIsNoSlot
  <2>6. k - 1 < Len(t) /\ t[(k - 1) + 1] = s[k]
    BY <2>2, <2>3, <2>4, <2>5
  <2>7. k \in 1..Len(t) /\ t[k] = s[k]
    BY <2>6, <1>3, <1>5
  <2> QED
    BY <2>7, <1>3
<1> QED
  BY <1>3, <1>4, <1>5

\* Chain finds the only list that starts at p.
LEMMA ChainIs ==
  ASSUME NEW links, NEW p, NEW s \in Seq(Slots), Len(s) <= QueueSize, IsChain(links, s, p)
  PROVE  Chain(links, p) = s
<1>1. s \in Walks
  <2>1. s \in [1..Len(s) -> Slots] /\ Len(s) \in 0..QueueSize
    BY SignalAssumption
  <2> QED
    BY <2>1 DEF Walks
<1> DEFINE t == Chain(links, p)
<1>2. t \in Walks /\ IsChain(links, t, p)
  BY <1>1 DEF Chain
<1>3. t \in Seq(Slots)
  BY <1>2 DEF Walks
<1> HIDE DEF t
<1>4. Len(s) \in Nat /\ Len(t) \in Nat
  BY <1>3
<1>5. \A i \in 1..Len(s) : i \in 1..Len(t) /\ s[i] = t[i]
  BY <1>2, <1>3, ChainPrefix
<1>6. \A i \in 1..Len(t) : i \in 1..Len(s) /\ t[i] = s[i]
  BY <1>2, <1>3, ChainPrefix
<1>7. Len(s) = Len(t)
  BY <1>4, <1>5, <1>6
<1>8. s = t
  BY <1>3, <1>5, <1>7, SeqEqual
<1> QED
  BY <1>8 DEF t

\* What carries signals, W from element w on, and the free storage F from f on: two
\* lists without a common element that hold all the storage.
Lists(links, signos, W, F, w, f) ==
  /\ links \in [Slots -> Links] /\ signos \in [Slots -> Signals \union {NULL}]
  /\ W \in Seq(Slots) /\ F \in Seq(Slots)
  /\ IsChain(links, W, w) /\ IsChain(links, F, f)
  /\ Len(W) + Len(F) = QueueSize
  /\ \A i, j \in 1..Len(W) : W[i] = W[j] => i = j
  /\ \A i, j \in 1..Len(F) : F[i] = F[j] => i = j
  /\ \A i \in 1..Len(W), j \in 1..Len(F) : W[i] # F[j]
  /\ \A x \in Slots : (\E i \in 1..Len(W) : W[i] = x) \/ (\E j \in 1..Len(F) : F[j] = x)
  /\ \A i \in 1..Len(W) : signos[W[i]] \in Signals

\* zend_signal_handler_defer and zend_signal_handler_unblock give the first element
\* of the list back: it becomes the head of the free list.
LEMMA GiveBack ==
  ASSUME NEW links, NEW signos, NEW W, NEW F, NEW w, NEW f, NEW nx, NEW sg,
         Lists(links, signos, W, F, w, f), w # NULL,
         nx \in [Slots -> Links], \A x \in Slots : nx[x] = IF x = w THEN f ELSE links[x],
         sg \in [Slots -> Signals \union {NULL}],
         \A x \in Slots : sg[x] = IF x = w THEN NULL ELSE signos[x]
  PROVE  /\ w \in Slots /\ W # <<>> /\ w = W[1] /\ signos[w] \in Signals
         /\ \E U, G \in Seq(Slots) : U = Tail(W) /\ Lists(nx, sg, U, G, links[w], w)
<1> DEFINE U == Tail(W)
           G == <<w>> \o F
<1>1. /\ links \in [Slots -> Links] /\ signos \in [Slots -> Signals \union {NULL}]
      /\ W \in Seq(Slots) /\ F \in Seq(Slots) /\ Len(W) \in Nat /\ Len(F) \in Nat
  BY DEF Lists
<1>2. W # <<>> /\ w = W[1] /\ Len(W) > 0
  BY <1>1 DEF Lists, IsChain
<1>3. w \in Slots /\ signos[w] \in Signals
  BY <1>1, <1>2 DEF Lists
<1>6. /\ U \in Seq(Slots) /\ Len(U) = Len(W) - 1
      /\ \A i \in 1..Len(U) : i + 1 \in 1..Len(W) /\ U[i] = W[i + 1]
  BY <1>1, <1>2
<1>7. /\ G \in Seq(Slots) /\ Len(G) = Len(F) + 1 /\ G[1] = w
      /\ \A j \in 2..Len(G) : j - 1 \in 1..Len(F) /\ G[j] = F[j - 1]
  BY <1>1, <1>3
<1>8. Len(U) + Len(G) = QueueSize
  BY <1>1, <1>6, <1>7 DEF Lists
<1> HIDE DEF U, G
<1>9. ASSUME NEW i \in 1..Len(U)
      PROVE  U[i] # w /\ U[i] \in Slots
  <2>1. i + 1 \in 1..Len(W) /\ 1 \in 1..Len(W) /\ i + 1 # 1 /\ U[i] = W[i + 1]
    BY <1>1, <1>2, <1>6
  <2>2. W[i + 1] # W[1]
    BY <2>1 DEF Lists
  <2> QED
    BY <2>1, <2>2, <1>1, <1>2
<1>10. \A j \in 1..Len(F) : F[j] # w /\ F[j] \in Slots
  BY <1>1, <1>2 DEF Lists
<1>11. IsChain(nx, U, links[w])
  <2>1. links[w] = IF U = <<>> THEN NULL ELSE U[1]
    <3>1. links[w] = IF 1 < Len(W) THEN W[2] ELSE NULL
      BY <1>1, <1>2 DEF Lists, IsChain
    <3>2. CASE Len(W) = 1
      BY <3>1, <3>2, <1>6
    <3>3. CASE Len(W) > 1
      BY <3>1, <3>3, <1>1, <1>6
    <3>4. Len(W) = 1 \/ Len(W) > 1
      <4>1. \A n \in Nat : n > 0 => n = 1 \/ n > 1
        OBVIOUS
      <4> QED
        BY <4>1, <1>1, <1>2, Zenon
    <3> QED
      BY <3>2, <3>3, <3>4
  <2>2. ASSUME NEW i \in 1..Len(U)
        PROVE  nx[U[i]] = IF i < Len(U) THEN U[i + 1] ELSE NULL
    <3>1. nx[U[i]] = links[W[i + 1]]
      BY <1>1, <1>6, <1>9
    <3>2. links[W[i + 1]] = IF i + 1 < Len(W) THEN W[(i + 1) + 1] ELSE NULL
      BY <1>6 DEF Lists, IsChain
    <3> QED
      BY <3>1, <3>2, <1>1, <1>6
  <2> QED
    BY <2>1, <2>2 DEF IsChain
<1>12. IsChain(nx, G, w)
  <2>1. w = IF G = <<>> THEN NULL ELSE G[1]
    BY <1>1, <1>7
  <2>2. ASSUME NEW j \in 1..Len(G)
        PROVE  nx[G[j]] = IF j < Len(G) THEN G[j + 1] ELSE NULL
    <3>1. CASE j = 1
      <4>1. nx[G[j]] = f
        BY <3>1, <1>1, <1>3, <1>7
      <4>2. f = IF F = <<>> THEN NULL ELSE F[1]
        BY DEF Lists, IsChain
      <4> QED
        BY <3>1, <4>1, <4>2, <1>1, <1>7
    <3>2. CASE j > 1
      <4>1. j - 1 \in 1..Len(F) /\ G[j] = F[j - 1]
        <5>1. j \in 2..Len(G)
          BY <3>2, <1>7
        <5> QED
          BY <5>1, <1>7
      <4>2. nx[G[j]] = links[F[j - 1]]
        BY <4>1, <1>1, <1>3, <1>10
      <4>3. links[F[j - 1]] = IF j - 1 < Len(F) THEN F[(j - 1) + 1] ELSE NULL
        BY <4>1 DEF Lists, IsChain
      <4>4. CASE j < Len(G)
        <5>1. j + 1 \in 2..Len(G) /\ (j + 1) - 1 = j /\ (j - 1) + 1 = j /\ j - 1 < Len(F)
          BY <3>2, <4>4, <1>1, <1>7
        <5>2. G[j + 1] = F[j]
          BY <5>1, <1>7
        <5> QED
          BY <4>2, <4>3, <4>4, <5>1, <5>2
      <4>5. CASE ~ (j < Len(G))
        <5>1. ~ (j - 1 < Len(F))
          BY <4>5, <1>1, <1>7
        <5> QED
          BY <4>2, <4>3, <4>5, <5>1
      <4> QED
        BY <4>4, <4>5
    <3> QED
      BY <3>1, <3>2
  <2> QED
    BY <2>1, <2>2 DEF IsChain
<1>13. \A i, j \in 1..Len(U) : U[i] = U[j] => i = j
  BY <1>1, <1>6 DEF Lists
<1>14. \A i, j \in 1..Len(G) : G[i] = G[j] => i = j
  <2> SUFFICES ASSUME NEW i \in 1..Len(G), NEW j \in 1..Len(G), G[i] = G[j]
               PROVE  i = j
    OBVIOUS
  <2>1. (i = 1 \/ i \in 2..Len(G)) /\ (j = 1 \/ j \in 2..Len(G))
    BY <1>1, <1>7
  <2>2. \A a, b \in 1..Len(F) : F[a] = F[b] => a = b
    BY DEF Lists
  <2>3. CASE i = 1 \/ j = 1
    BY <2>1, <2>3, <1>7, <1>10
  <2>4. CASE i \in 2..Len(G) /\ j \in 2..Len(G)
    <3>1. i - 1 \in 1..Len(F) /\ j - 1 \in 1..Len(F) /\ F[i - 1] = F[j - 1]
      BY <2>4, <1>7
    <3>2. i - 1 = j - 1
      BY <3>1, <2>2
    <3> QED
      BY <3>2
  <2> QED
    BY <2>1, <2>3, <2>4
<1>15. \A i \in 1..Len(U), j \in 1..Len(G) : U[i] # G[j]
  <2> SUFFICES ASSUME NEW i \in 1..Len(U), NEW j \in 1..Len(G)
               PROVE  U[i] # G[j]
    OBVIOUS
  <2>1. j = 1 \/ j \in 2..Len(G)
    BY <1>1, <1>7
  <2>2. CASE j = 1
    BY <2>2, <1>7, <1>9
  <2>3. CASE j \in 2..Len(G)
    <3>1. j - 1 \in 1..Len(F) /\ G[j] = F[j - 1] /\ i + 1 \in 1..Len(W) /\ U[i] = W[i + 1]
      BY <2>3, <1>6, <1>7
    <3> QED
      BY <3>1 DEF Lists
  <2> QED
    BY <2>1, <2>2, <2>3
<1>16. ASSUME NEW x \in Slots
       PROVE  (\E i \in 1..Len(U) : U[i] = x) \/ (\E j \in 1..Len(G) : G[j] = x)
  <2>1. ASSUME NEW i \in 1..Len(W), W[i] = x
        PROVE  (\E k \in 1..Len(U) : U[k] = x) \/ (\E j \in 1..Len(G) : G[j] = x)
    <3>1. CASE i = 1
      BY <2>1, <3>1, <1>1, <1>2, <1>7
    <3>2. CASE i > 1
      <4>1. i - 1 \in 1..Len(U) /\ U[i - 1] = x
        BY <2>1, <3>2, <1>1, <1>6
      <4> QED
        BY <4>1
    <3> QED
      BY <3>1, <3>2
  <2>2. ASSUME NEW j \in 1..Len(F), F[j] = x
        PROVE  \E k \in 1..Len(G) : G[k] = x
    <3>1. j + 1 \in 2..Len(G) /\ G[j + 1] = F[j]
      BY <1>1, <1>7
    <3> QED
      BY <3>1, <2>2
  <2> QED
    BY <2>1, <2>2 DEF Lists
<1>17. \A i \in 1..Len(U) : sg[U[i]] \in Signals
  BY <1>1, <1>6, <1>9 DEF Lists
<1>18. Lists(nx, sg, U, G, links[w], w)
  BY <1>6, <1>7, <1>8, <1>11, <1>12, <1>13, <1>14, <1>15, <1>16, <1>17 DEF Lists
<1> QED
  BY <1>2, <1>3, <1>6, <1>7, <1>18 DEF U

\* zend_signal_handler_defer takes the head of the free list and links it behind the
\* last element of the list.
LEMMA TakeUp ==
  ASSUME NEW links, NEW signos, NEW W, NEW F, NEW w, NEW f, NEW t, NEW sig \in Signals,
         Lists(links, signos, W, F, w, f), f # NULL, W # <<>> => t = W[Len(W)]
  PROVE  LET cut == [links EXCEPT ![f] = NULL]
             nx == IF w # NULL /\ t # NULL THEN [cut EXCEPT ![t] = f] ELSE cut
             hd == IF w # NULL /\ t # NULL THEN w ELSE f
         IN  /\ f \in Slots
             /\ Lists(nx, [signos EXCEPT ![f] = sig], Append(W, f), Tail(F), hd, links[f])
             /\ \A i \in 1..Len(W) : W[i] # f
<1> DEFINE cut == [links EXCEPT ![f] = NULL]
           nx == IF w # NULL /\ t # NULL THEN [cut EXCEPT ![t] = f] ELSE cut
           hd == IF w # NULL /\ t # NULL THEN w ELSE f
           sg == [signos EXCEPT ![f] = sig]
           U == Append(W, f)
           G == Tail(F)
<1>1. /\ links \in [Slots -> Links] /\ signos \in [Slots -> Signals \union {NULL}]
      /\ W \in Seq(Slots) /\ F \in Seq(Slots) /\ Len(W) \in Nat /\ Len(F) \in Nat
  BY DEF Lists
<1>2. F # <<>> /\ f = F[1] /\ Len(F) \in Nat \ {0} /\ f \in Slots
  <2>1. F # <<>> /\ f = F[1]
    BY DEF Lists, IsChain
  <2>2. Len(F) \in Nat \ {0}
    BY <2>1, <1>1
  <2> QED
    BY <2>1, <2>2, <1>1
<1>3. ASSUME NEW i \in 1..Len(W)
      PROVE  W[i] # f /\ W[i] \in Slots
  <2>1. 1 \in 1..Len(F)
    BY <1>2
  <2> QED
    BY <2>1, <1>1, <1>2 DEF Lists
<1>4. /\ G \in Seq(Slots) /\ Len(G) = Len(F) - 1
      /\ \A j \in 1..Len(G) : j + 1 \in 1..Len(F) /\ G[j] = F[j + 1]
  BY <1>1, <1>2
<1>5. /\ U \in Seq(Slots) /\ Len(U) = Len(W) + 1 /\ U[Len(W) + 1] = f
      /\ \A i \in 1..Len(W) : U[i] = W[i]
  BY <1>1, <1>2
<1>6. Len(U) + Len(G) = QueueSize
  BY <1>1, <1>2, <1>4, <1>5 DEF Lists
<1>7. (w # NULL /\ t # NULL) <=> W # <<>>
  <2>1. CASE W = <<>>
    BY <2>1 DEF Lists, IsChain
  <2>2. CASE W # <<>>
    <3>1. Len(W) \in 1..Len(W) /\ 1 \in 1..Len(W)
      BY <2>2, <1>1
    <3>2. t \in Slots /\ w \in Slots
      BY <2>2, <3>1, <1>3 DEF Lists, IsChain
    <3> QED
      BY <2>2, <3>2, NullIsNoSlot
  <2> QED
    BY <2>1, <2>2
<1> HIDE DEF U, G
<1>8. ASSUME NEW j \in 1..Len(G)
      PROVE  G[j] # f /\ G[j] \in Slots
  <2>1. j + 1 \in 1..Len(F) /\ 1 \in 1..Len(F) /\ j + 1 # 1 /\ G[j] = F[j + 1]
    BY <1>2, <1>4
  <2>2. F[j + 1] # F[1]
    BY <2>1 DEF Lists
  <2> QED
    BY <2>1, <2>2, <1>1, <1>2
<1>9. ASSUME NEW i \in 1..Len(W), NEW j \in 1..Len(G)
      PROVE  W[i] # G[j]
  BY <1>4 DEF Lists
<1>10. /\ nx \in [Slots -> Links] /\ sg \in [Slots -> Signals \union {NULL}]
       /\ \A x \in Slots : nx[x] = IF W # <<>> /\ x = t THEN f ELSE IF x = f THEN NULL ELSE links[x]
  <2>1. NULL \in Links /\ f \in Links
    BY <1>2, SignalAssumption DEF Links, NULL, Slots
  <2>2. cut \in [Slots -> Links] /\ \A x \in Slots : cut[x] = IF x = f THEN NULL ELSE links[x]
    BY <2>1, <1>1
  <2> HIDE DEF cut
  <2>3. CASE W = <<>>
    BY <2>2, <2>3, <1>1, <1>7
  <2>4. CASE W # <<>>
    <3>1. nx = [cut EXCEPT ![t] = f]
      BY <2>4, <1>7
    <3> QED
      BY <2>1, <2>2, <2>4, <3>1, <1>1
  <2> QED
    BY <2>3, <2>4
<1> HIDE DEF nx
<1>11. IsChain(nx, U, hd)
  <2>1. hd = IF U = <<>> THEN NULL ELSE U[1]
    <3>1. U # <<>>
      BY <1>1, <1>5
    <3>2. CASE W = <<>>
      <4>1. Len(W) = 0
        BY <3>2
      <4>2. U[1] = f
        BY <4>1, <1>5
      <4> QED
        BY <3>1, <3>2, <4>2, <1>7
    <3>3. CASE W # <<>>
      <4>1. 1 \in 1..Len(W)
        BY <3>3, <1>1
      <4>2. U[1] = W[1] /\ w = W[1]
        BY <4>1, <3>3, <1>5 DEF Lists, IsChain
      <4> QED
        BY <3>1, <3>3, <4>2, <1>7
    <3> QED
      BY <3>2, <3>3
  <2>2. ASSUME NEW i \in 1..Len(U)
        PROVE  nx[U[i]] = IF i < Len(U) THEN U[i + 1] ELSE NULL
    <3>1. CASE i = Len(W) + 1
      <4>1. U[i] = f /\ ~ (i < Len(U))
        BY <3>1, <1>1, <1>5
      <4>2. ~ (W # <<>> /\ f = t)
        <5> SUFFICES ASSUME W # <<>>
                     PROVE  f # t
          OBVIOUS
        <5>1. Len(W) \in 1..Len(W) /\ t = W[Len(W)]
          BY <1>1
        <5> QED
          BY <5>1, <1>3
      <4>3. nx[f] = NULL
        BY <4>2, <1>2, <1>10
      <4> QED
        BY <4>1, <4>3
    <3>2. CASE i = Len(W)
      <4>1. i \in 1..Len(W) /\ W # <<>> /\ U[i] = W[i] /\ t = W[i] /\ i < Len(U) /\ U[i + 1] = f
        BY <3>2, <1>1, <1>5
      <4>2. nx[t] = f
        BY <4>1, <1>3, <1>10
      <4> QED
        BY <4>1, <4>2
    <3>3. CASE i < Len(W)
      <4>1. i \in 1..Len(W) /\ i + 1 \in 1..Len(W) /\ i < Len(U)
        BY <3>3, <1>1, <1>5
      <4>2. W # <<>> /\ Len(W) \in 1..Len(W) /\ t = W[Len(W)] /\ i # Len(W)
        BY <3>3, <4>1, <1>1
      <4>3. W[i] # t
        BY <4>1, <4>2 DEF Lists
      <4>4. nx[W[i]] = links[W[i]]
        BY <4>1, <4>3, <1>3, <1>10
      <4>5. links[W[i]] = W[i + 1]
        BY <3>3, <4>1 DEF Lists, IsChain
      <4> QED
        BY <4>1, <4>4, <4>5, <1>5
    <3> QED
      BY <3>1, <3>2, <3>3, <1>1, <1>5
  <2> QED
    BY <2>1, <2>2 DEF IsChain
<1>12. IsChain(nx, G, links[f])
  <2>1. links[f] = IF G = <<>> THEN NULL ELSE G[1]
    <3>1. links[f] = IF 1 < Len(F) THEN F[2] ELSE NULL
      BY <1>2 DEF Lists, IsChain
    <3>2. CASE Len(F) = 1
      BY <3>1, <3>2, <1>4
    <3>3. CASE Len(F) > 1
      BY <3>1, <3>3, <1>2, <1>4
    <3>4. Len(F) = 1 \/ Len(F) > 1
      <4>1. \A n \in Nat \ {0} : n = 1 \/ n > 1
        OBVIOUS
      <4> QED
        BY <4>1, <1>2, Zenon
    <3> QED
      BY <3>2, <3>3, <3>4
  <2>2. ASSUME NEW j \in 1..Len(G)
        PROVE  nx[G[j]] = IF j < Len(G) THEN G[j + 1] ELSE NULL
    <3>1. ~ (W # <<>> /\ G[j] = t)
      <4> SUFFICES ASSUME W # <<>>
                   PROVE  G[j] # t
        OBVIOUS
      <4>1. Len(W) \in 1..Len(W) /\ t = W[Len(W)]
        BY <1>1
      <4> QED
        BY <4>1, <1>9
    <3>2. nx[G[j]] = links[F[j + 1]]
      BY <3>1, <1>4, <1>8, <1>10
    <3>3. links[F[j + 1]] = IF j + 1 < Len(F) THEN F[(j + 1) + 1] ELSE NULL
      BY <1>4 DEF Lists, IsChain
    <3> QED
      BY <3>2, <3>3, <1>2, <1>4
  <2> QED
    BY <2>1, <2>2 DEF IsChain
<1>13. \A i, j \in 1..Len(U) : U[i] = U[j] => i = j
  <2> SUFFICES ASSUME NEW i \in 1..Len(U), NEW j \in 1..Len(U), U[i] = U[j]
               PROVE  i = j
    OBVIOUS
  <2>1. (i = Len(W) + 1 \/ i \in 1..Len(W)) /\ (j = Len(W) + 1 \/ j \in 1..Len(W))
    BY <1>1, <1>5
  <2>2. \A a, b \in 1..Len(W) : W[a] = W[b] => a = b
    BY DEF Lists
  <2> QED
    BY <2>1, <2>2, <1>3, <1>5
<1>14. \A i, j \in 1..Len(G) : G[i] = G[j] => i = j
  <2> SUFFICES ASSUME NEW i \in 1..Len(G), NEW j \in 1..Len(G), G[i] = G[j]
               PROVE  i = j
    OBVIOUS
  <2>1. i + 1 \in 1..Len(F) /\ j + 1 \in 1..Len(F) /\ F[i + 1] = F[j + 1]
    BY <1>4
  <2>2. i + 1 = j + 1
    BY <2>1 DEF Lists
  <2> QED
    BY <2>2
<1>15. \A i \in 1..Len(U), j \in 1..Len(G) : U[i] # G[j]
  <2> SUFFICES ASSUME NEW i \in 1..Len(U), NEW j \in 1..Len(G)
               PROVE  U[i] # G[j]
    OBVIOUS
  <2>1. i = Len(W) + 1 \/ i \in 1..Len(W)
    BY <1>1, <1>5
  <2> QED
    BY <2>1, <1>5, <1>8, <1>9
<1>16. ASSUME NEW x \in Slots
       PROVE  (\E i \in 1..Len(U) : U[i] = x) \/ (\E j \in 1..Len(G) : G[j] = x)
  <2>1. ASSUME NEW i \in 1..Len(W), W[i] = x
        PROVE  \E k \in 1..Len(U) : U[k] = x
    <3>1. i \in 1..Len(U) /\ U[i] = x
      BY <2>1, <1>1, <1>5
    <3> QED
      BY <3>1
  <2>2. ASSUME NEW j \in 1..Len(F), F[j] = x
        PROVE  (\E k \in 1..Len(U) : U[k] = x) \/ (\E k \in 1..Len(G) : G[k] = x)
    <3>1. CASE j = 1
      <4>1. Len(W) + 1 \in 1..Len(U) /\ U[Len(W) + 1] = x
        BY <2>2, <3>1, <1>1, <1>2, <1>5
      <4> QED
        BY <4>1
    <3>2. CASE j > 1
      <4>1. j - 1 \in 1..Len(G) /\ G[j - 1] = x
        BY <2>2, <3>2, <1>1, <1>4
      <4> QED
        BY <4>1
    <3> QED
      BY <3>1, <3>2
  <2> QED
    BY <2>1, <2>2 DEF Lists
<1>17. \A i \in 1..Len(U) : sg[U[i]] \in Signals
  <2> SUFFICES ASSUME NEW i \in 1..Len(U)
               PROVE  sg[U[i]] \in Signals
    OBVIOUS
  <2>1. CASE i = Len(W) + 1
    BY <2>1, <1>1, <1>2, <1>5
  <2>2. CASE i \in 1..Len(W)
    <3>1. U[i] = W[i] /\ signos[W[i]] \in Signals
      BY <2>2, <1>5 DEF Lists
    <3> QED
      BY <2>2, <3>1, <1>1, <1>3
  <2> QED
    BY <2>1, <2>2, <1>1, <1>5
<1> HIDE DEF sg, hd
<1>18. Lists(nx, sg, U, G, hd, links[f])
  BY <1>4, <1>5, <1>6, <1>10, <1>11, <1>12, <1>13, <1>14, <1>15, <1>16, <1>17 DEF Lists
<1> QED
  BY <1>2, <1>3, <1>18 DEF nx, sg, U, G, hd

--------------------------------------------------------------------------------
(* The flags and the lists in every reachable state. *)

\* What the flags say.  The handler works through a list of its own with running
\* set and the pending list empty; whoever else looks finds running clear and, but
\* for the one signal that unblock has just taken, blocked exact.  The program comes
\* to zend_signal_handler_unblock with depth at 0, because the value it compared with
\* blocked was the depth before it left the section.
FlagInv ==
  /\ hpc = "drain" => running = 1 /\ blocked = 0 /\ phead = NULL
  /\ hpc # "drain" => running = 0 /\ queue = NULL
  /\ hpc \in {"none", "defer"} => (blocked = 1 <=> phead # NULL)
  /\ hpc = "redefer" => active /\ depth = 0
  /\ pc = "unblock" => depth = 0
  /\ pc = "compare" => depth = seen - 1
  /\ pc = "write" => seen \in 0..1

\* W are the elements that carry signals, F the free ones.
Holds(W, F) ==
  /\ Lists(next, signo, W, F, IF hpc = "drain" THEN queue ELSE phead, pavail)
  /\ hpc # "drain" /\ W # <<>> => ptail = W[Len(W)]

ListInv == \E W, F \in Seq(Slots) : Holds(W, F)

SignalInv == TypeOK /\ SectionInv /\ FlagInv /\ ListInv

\* The storage starts out as one free list, back to front.
LEMMA ListInit == Init => ListInv
<1> SUFFICES ASSUME Init
             PROVE  ListInv
  OBVIOUS
<1> DEFINE F == [i \in 1..QueueSize |-> QueueSize + 1 - i]
<1>1. F \in Seq(Slots) /\ Len(F) = QueueSize
  <2>1. F \in [1..QueueSize -> Slots]
    BY SignalAssumption DEF Slots
  <2> QED
    BY <2>1, SignalAssumption
<1>2. \A i \in 1..QueueSize : F[i] = QueueSize + 1 - i
  OBVIOUS
<1>3. F # <<>>
  BY <1>1, SignalAssumption
<1> HIDE DEF F
<1>4. IsChain(next, F, pavail)
  <2>1. pavail = F[1]
    BY <1>2, SignalAssumption DEF Init
  <2>2. ASSUME NEW i \in 1..Len(F)
        PROVE  next[F[i]] = IF i < Len(F) THEN F[i + 1] ELSE NULL
    <3>1. F[i] \in Slots /\ next[F[i]] = F[i] - 1
      BY <1>1 DEF Init
    <3>2. F[i] = QueueSize + 1 - i
      BY <1>1, <1>2
    <3>3. CASE i < Len(F)
      <4>1. F[i + 1] = QueueSize + 1 - (i + 1)
        BY <3>3, <1>1, <1>2, SignalAssumption
      <4> QED
        BY <3>1, <3>2, <3>3, <4>1, <1>1, SignalAssumption
    <3>4. CASE ~ (i < Len(F))
      BY <3>1, <3>2, <3>4, <1>1, SignalAssumption DEF NULL
    <3> QED
      BY <3>3, <3>4
  <2> QED
    BY <2>1, <2>2, <1>3 DEF IsChain
<1>5. IsChain(next, <<>>, phead)
  BY DEF IsChain, Init
<1>6. \A i, j \in 1..Len(F) : F[i] = F[j] => i = j
  BY <1>1, <1>2, SignalAssumption
<1>7. ASSUME NEW x \in Slots
      PROVE  \E j \in 1..Len(F) : F[j] = x
  <2>1. QueueSize + 1 - x \in 1..Len(F) /\ F[QueueSize + 1 - x] = x
    BY <1>1, <1>2, SignalAssumption DEF Slots
  <2> QED
    BY <2>1
<1>8. next \in [Slots -> Links] /\ signo \in [Slots -> Signals \union {NULL}]
  BY SignalAssumption DEF Init, Slots, Links
<1>9. <<>> \in Seq(Slots) /\ Len(<<>>) = 0
  OBVIOUS
<1>10. Len(<<>>) + Len(F) = QueueSize
  BY <1>1, <1>9, SignalAssumption
<1>11. Lists(next, signo, <<>>, F, phead, pavail)
  BY <1>1, <1>4, <1>5, <1>6, <1>7, <1>8, <1>9, <1>10 DEF Lists
<1>12. Holds(<<>>, F)
  BY <1>11 DEF Holds, Init
<1> QED
  BY <1>1, <1>9, <1>12 DEF ListInv

\* The handler handles the first element of its list and gives it back.
LEMMA DrainFirst ==
  ASSUME TypeOK, Drain, queue # NULL, NEW W, NEW F, Lists(next, signo, W, F, queue, pavail)
  PROVE  /\ queue \in Slots /\ W # <<>> /\ queue = W[1] /\ signo[queue] \in Signals
         /\ \E U, G \in Seq(Slots) : U = Tail(W) /\ Lists(next', signo', U, G, queue', pavail')
<1>1. /\ next' = [next EXCEPT ![queue] = pavail] /\ signo' = [signo EXCEPT ![queue] = NULL]
      /\ queue' = next[queue] /\ pavail' = queue
  BY DEF Drain
<1>2. /\ next' \in [Slots -> Links] /\ signo' \in [Slots -> Signals \union {NULL}]
      /\ \A x \in Slots : next'[x] = IF x = queue THEN pavail ELSE next[x]
      /\ \A x \in Slots : signo'[x] = IF x = queue THEN NULL ELSE signo[x]
  BY <1>1 DEF TypeOK
<1>3. queue \in Slots /\ W # <<>> /\ queue = W[1] /\ signo[queue] \in Signals
  BY <1>2, GiveBack
<1>4. \E U, G \in Seq(Slots) : U = Tail(W) /\ Lists(next', signo', U, G, next[queue], queue)
  BY <1>2, GiveBack
<1> QED
  BY <1>1, <1>3, <1>4

\* zend_signal_handler_unblock takes the first pending element and gives it back.
LEMMA UnblockFirst ==
  ASSUME TypeOK, HandlerUnblock, active, phead # NULL, NEW W, NEW F, Lists(next, signo, W, F, phead, pavail)
  PROVE  /\ phead \in Slots /\ W # <<>> /\ phead = W[1] /\ signo[phead] \in Signals
         /\ \E U, G \in Seq(Slots) : U = Tail(W) /\ Lists(next', signo', U, G, phead', pavail')
<1>1. /\ next' = [next EXCEPT ![phead] = pavail] /\ signo' = [signo EXCEPT ![phead] = NULL]
      /\ phead' = next[phead] /\ pavail' = phead
  BY DEF HandlerUnblock
<1>2. /\ next' \in [Slots -> Links] /\ signo' \in [Slots -> Signals \union {NULL}]
      /\ \A x \in Slots : next'[x] = IF x = phead THEN pavail ELSE next[x]
      /\ \A x \in Slots : signo'[x] = IF x = phead THEN NULL ELSE signo[x]
  BY <1>1 DEF TypeOK
<1>3. phead \in Slots /\ W # <<>> /\ phead = W[1] /\ signo[phead] \in Signals
  BY <1>2, GiveBack
<1>4. \E U, G \in Seq(Slots) : U = Tail(W) /\ Lists(next', signo', U, G, next[phead], phead)
  BY <1>2, GiveBack
<1> QED
  BY <1>1, <1>3, <1>4

\* Every step keeps the lists: handling and unblock give the first element back,
\* putting off takes a free one, and the handler starts on the pending list by
\* making it its own.
LEMMA ListStep == SignalInv /\ [Next]_vars => ListInv'
<1> SUFFICES ASSUME SignalInv, [Next]_vars
             PROVE  ListInv'
  OBVIOUS
<1>a. PICK W \in Seq(Slots), F \in Seq(Slots) : Holds(W, F)
  BY DEF SignalInv, ListInv
<1>b. ASSUME UNCHANGED <<next, signo, queue, phead, ptail, pavail>>, hpc' = "drain" <=> hpc = "drain"
      PROVE  ListInv'
  BY <1>a, <1>b DEF ListInv, Holds
<1>c. hpc = "drain" => phead = NULL
  BY DEF SignalInv, FlagInv
<1>d. hpc # "drain" => queue = NULL
  BY DEF SignalInv, FlagInv
<1>1. CASE DeferInactive
  BY <1>b, <1>1 DEF DeferInactive, InHandler, Return, Handle, sigg, disposition, list, handling, program, counts
<1>2. CASE DeferHandle
  <2>1. hpc # "drain" /\ running = 0
    BY <1>2 DEF DeferHandle, InHandler, SignalInv, FlagInv
  <2>2. hpc' = "drain" /\ queue' = phead /\ UNCHANGED <<next, signo, pavail>>
    BY <2>1, <1>2 DEF DeferHandle
  <2>3. Holds(W, F)'
    BY <1>a, <2>1, <2>2 DEF Holds
  <2> QED
    BY <2>3 DEF ListInv
<1>3. CASE Drain
  <2>1. CASE queue # NULL
    <3>1. Lists(next, signo, W, F, queue, pavail) /\ hpc' = "drain"
      BY <1>a, <1>3, <2>1 DEF Drain, InHandler, Holds
    <3>2. \E U, G \in Seq(Slots) : U = Tail(W) /\ Lists(next', signo', U, G, queue', pavail')
      BY <3>1, <1>3, <2>1, DrainFirst DEF SignalInv
    <3>3. PICK U \in Seq(Slots), G \in Seq(Slots) : U = Tail(W) /\ Lists(next', signo', U, G, queue', pavail')
      BY <3>2 DEF Lists
    <3>4. Holds(U, G)'
      BY <3>1, <3>3 DEF Holds
    <3> QED
      BY <3>4 DEF ListInv
  <2>2. CASE queue = NULL
    <3>1. W = <<>>
      <4>1. IsChain(next, W, NULL)
        BY <1>a, <1>3, <2>2 DEF Drain, InHandler, Holds, Lists
      <4> QED
        BY <4>1, NullIsNoSlot DEF IsChain
    <3>2. phead' = queue /\ hpc' = "none" /\ UNCHANGED <<next, signo, pavail>>
      BY <1>3, <1>c, <2>2 DEF Drain, InHandler, Return
    <3>3. Holds(W, F)'
      BY <1>a, <1>3, <3>1, <3>2 DEF Holds, Drain, InHandler
    <3> QED
      BY <3>3 DEF ListInv
  <2> QED
    BY <2>1, <2>2
<1>4. CASE DeferEnqueue
  <2>1. CASE pavail # NULL
    <3>1. /\ Lists(next, signo, W, F, phead, pavail) /\ (W # <<>> => ptail = W[Len(W)])
          /\ cur \in Signals /\ hpc' = "none"
      BY <1>a, <1>4 DEF DeferEnqueue, InHandler, Return, Holds, SignalInv, TypeOK
    <3>2. /\ pavail' = next[pavail] /\ signo' = [signo EXCEPT ![pavail] = cur] /\ Enqueue(pavail)
      BY <1>4, <2>1 DEF DeferEnqueue
    <3>3. Lists(next', signo', Append(W, pavail), Tail(F), phead', pavail') /\ ptail' = pavail /\ pavail \in Slots
      BY <3>1, <3>2, <2>1, TakeUp DEF Enqueue
    <3>4. PICK U \in Seq(Slots), G \in Seq(Slots) : U = Append(W, pavail) /\ G = Tail(F)
      BY <3>3 DEF Lists
    <3>5. U[Len(U)] = pavail
      BY <3>3, <3>4
    <3>6. Holds(U, G)'
      BY <3>1, <3>3, <3>4, <3>5 DEF Holds
    <3> QED
      BY <3>6 DEF ListInv
  <2>2. CASE pavail = NULL
    BY <2>2, <1>b, <1>4 DEF DeferEnqueue, InHandler, Return, list
  <2> QED
    BY <2>1, <2>2
<1>5. CASE ActivateRegister
  BY <1>b, <1>5 DEF ActivateRegister, At, sigg, disposition, list, handling, program, counts
<1>6. CASE ActivateActive
  BY <1>b, <1>6 DEF ActivateActive, At, sigg, disposition, list, handling, program, counts
<1>7. CASE ActivateDepth
  BY <1>b, <1>7 DEF ActivateDepth, At, sigg, disposition, list, handling, program, counts
<1>8. CASE Unblock
  BY <1>b, <1>8 DEF Unblock, At, sigg, disposition, list, handling, program, counts
<1>9. CASE UnblockCompare
  BY <1>b, <1>9 DEF UnblockCompare, At, sigg, disposition, list, handling, program, counts
<1>10. CASE UnblockWrite
  BY <1>b, <1>10 DEF UnblockWrite, At, sigg, disposition, list, handling, program, counts
<1>11. CASE HandlerUnblock
  <2>1. CASE active /\ phead # NULL
    <3>1. Lists(next, signo, W, F, phead, pavail) /\ hpc' = "redefer" /\ ptail' = ptail /\ hpc = "none"
      BY <1>a, <1>11, <2>1 DEF HandlerUnblock, At, Holds
    <3>2. W # <<>> /\ \E U, G \in Seq(Slots) : U = Tail(W) /\ Lists(next', signo', U, G, phead', pavail')
      BY <3>1, <1>11, <2>1, UnblockFirst DEF SignalInv
    <3>3. Tail(W) # <<>> => ptail = Tail(W)[Len(Tail(W))]
      <4>1. ptail = W[Len(W)]
        BY <1>a, <3>1, <3>2 DEF Holds
      <4> QED
        BY <4>1, <3>2
    <3>4. PICK U \in Seq(Slots), G \in Seq(Slots) : U = Tail(W) /\ Lists(next', signo', U, G, phead', pavail')
      BY <3>2 DEF Lists
    <3>5. Holds(U, G)'
      BY <3>1, <3>3, <3>4 DEF Holds
    <3> QED
      BY <3>5 DEF ListInv
  <2>2. CASE ~ (active /\ phead # NULL)
    BY <2>2, <1>b, <1>11 DEF HandlerUnblock, list, handling
  <2> QED
    BY <2>1, <2>2
<1>12. CASE Shutdown
  BY <1>b, <1>12 DEF Shutdown, At, sigg, disposition, list, handling, program, counts
<1>13. CASE Accept
  BY <1>b, <1>13 DEF Accept, At, sigg, disposition, list, handling, program, counts
<1>14. CASE Block
  BY <1>b, <1>14 DEF Block, At, sigg, disposition, list, handling, program, counts
<1>15. CASE Bailout
  BY <1>b, <1>15 DEF Bailout, At, sigg, disposition, list, handling, program, counts
<1>16. ASSUME NEW s \in Signals, Deliver(s)
       PROVE  ListInv'
  BY <1>b, <1>16 DEF Deliver, sigg, disposition, list, handling, program, counts
<1>17. ASSUME NEW s \in Signals, NEW h \in {"user", "ign"}, Sigaction(s, h)
       PROVE  ListInv'
  BY <1>b, <1>17 DEF Sigaction, At, sigg, disposition, list, handling, program, counts
<1>18. CASE UNCHANGED vars
  BY <1>b, <1>18 DEF vars, sigg, disposition, list, handling, program, counts
<1> QED
  BY <1>1, <1>2, <1>3, <1>4, <1>5, <1>6, <1>7, <1>8, <1>9, <1>10, <1>11, <1>12, <1>13, <1>14, <1>15, <1>16, <1>17, <1>18, Zenon DEF Next, Handler, Request

\* Counting one more signal leaves counts.
LEMMA OneMore ==
  ASSUME NEW c \in [Signals -> Nat], NEW s \in Signals
  PROVE  [c EXCEPT ![s] = @ + 1] \in [Signals -> Nat]
  OBVIOUS

\* Every step keeps the types: what the handler or unblock takes from a list is a signal.
LEMMA TypeStep == SignalInv /\ [Next]_vars => TypeOK'
<1> SUFFICES ASSUME SignalInv, [Next]_vars
             PROVE  TypeOK'
  OBVIOUS
<1>a. PICK W \in Seq(Slots), F \in Seq(Slots) : Holds(W, F)
  BY DEF SignalInv, ListInv
<1>b. TypeOK /\ SectionInv /\ FlagInv
  BY DEF SignalInv
<1>c. NULL \in Links /\ Slots \subseteq Links
  BY SignalAssumption DEF NULL, Links, Slots
<1>1. CASE DeferInactive
  BY <1>b, <1>c, <1>1 DEF DeferInactive, InHandler, Return, Handle, sigg, disposition, list, handling, program, counts, TypeOK, SectionInv, FlagInv
<1>2. CASE DeferHandle
  BY <1>b, <1>c, <1>2 DEF DeferHandle, InHandler, Return, Handle, sigg, disposition, list, handling, program, counts, TypeOK, SectionInv, FlagInv
<1>3. CASE Drain
  <2>1. CASE queue # NULL
    <3>1. Lists(next, signo, W, F, queue, pavail)
      BY <1>a, <1>3 DEF Drain, InHandler, Holds
    <3>2. queue \in Slots /\ signo[queue] \in Signals
      BY <3>1, <1>b, <1>3, <2>1, DrainFirst
    <3>3. done' \in [Signals -> Nat] /\ alive' \in {"up", "killed", "segv"}
      <4>1. /\ done' = [done EXCEPT ![signo[queue]] = @ + 1]
            /\ alive' = IF handlers[signo[queue]] = "dfl" THEN "killed" ELSE alive
        BY <1>3, <2>1 DEF Drain, Handle
      <4>2. done \in [Signals -> Nat] /\ alive \in {"up", "killed", "segv"}
        BY <1>b DEF TypeOK
      <4>3. done' \in [Signals -> Nat]
        BY <4>1, <4>2, <3>2, OneMore
      <4> QED
        BY <4>1, <4>2, <4>3
    <3>4. /\ queue' \in Links /\ pavail' \in Links
          /\ next' \in [Slots -> Links] /\ signo' \in [Slots -> Signals \union {NULL}]
      <4>1. /\ queue' = next[queue] /\ pavail' = queue
            /\ next' = [next EXCEPT ![queue] = pavail] /\ signo' = [signo EXCEPT ![queue] = NULL]
        BY <1>3, <2>1 DEF Drain
      <4>2. /\ next \in [Slots -> Links] /\ signo \in [Slots -> Signals \union {NULL}] /\ pavail \in Links
        BY <1>b DEF TypeOK
      <4> QED
        BY <4>1, <4>2, <3>2, <1>c
    <3> QED
      BY <1>b, <1>3, <2>1, <3>3, <3>4 DEF Drain, TypeOK, disposition, program
  <2>2. CASE queue = NULL
    BY <1>b, <1>3, <2>2 DEF Drain, InHandler, Return, TypeOK, disposition, program
  <2> QED
    BY <2>1, <2>2
<1>4. CASE DeferEnqueue
  <2>1. CASE pavail # NULL
    <3>1. pavail \in Slots /\ cur \in Signals
      BY <1>b, <1>4, <2>1, SignalAssumption DEF DeferEnqueue, InHandler, TypeOK, Links, Slots, NULL
    <3>2. next' \in [Slots -> Links] /\ phead' \in Links /\ ptail' \in Links
      BY <1>b, <1>c, <1>4, <2>1, <3>1 DEF DeferEnqueue, Enqueue, TypeOK
    <3> QED
      BY <1>b, <1>4, <2>1, <3>1, <3>2 DEF DeferEnqueue, Return, TypeOK, disposition, program
  <2>2. CASE pavail = NULL
    <3>1. lost' \in [Signals -> Nat] /\ UNCHANGED list
      <4>1. lost' = [lost EXCEPT ![cur] = @ + 1] /\ UNCHANGED list
        BY <1>4, <2>2 DEF DeferEnqueue
      <4>2. lost \in [Signals -> Nat] /\ cur \in Signals
        BY <1>b, <1>4 DEF DeferEnqueue, InHandler, TypeOK
      <4> QED
        BY <4>1, <4>2, OneMore
    <3> QED
      BY <1>b, <1>4, <3>1 DEF DeferEnqueue, Return, TypeOK, list, disposition, program
  <2> QED
    BY <2>1, <2>2
<1>5. CASE ActivateRegister
  BY <1>b, <1>c, <1>5 DEF ActivateRegister, Orig, At, sigg, disposition, list, handling, program, counts, TypeOK, SectionInv, FlagInv
<1>6. CASE ActivateActive
  BY <1>b, <1>c, <1>6 DEF ActivateActive, At, sigg, disposition, list, handling, program, counts, TypeOK, SectionInv, FlagInv
<1>7. CASE ActivateDepth
  BY <1>b, <1>c, <1>7 DEF ActivateDepth, At, sigg, disposition, list, handling, program, counts, TypeOK, SectionInv, FlagInv
<1>8. CASE Unblock
  BY <1>b, <1>c, <1>8 DEF Unblock, At, sigg, disposition, list, handling, program, counts, TypeOK, SectionInv, FlagInv
<1>9. CASE UnblockCompare
  BY <1>b, <1>c, <1>9 DEF UnblockCompare, At, sigg, disposition, list, handling, program, counts, TypeOK, SectionInv, FlagInv
<1>10. CASE UnblockWrite
  BY <1>b, <1>c, <1>10 DEF UnblockWrite, At, sigg, disposition, list, handling, program, counts, TypeOK, SectionInv, FlagInv
<1>11. CASE HandlerUnblock
  <2>1. CASE active /\ phead # NULL
    <3>1. Lists(next, signo, W, F, phead, pavail)
      BY <1>a, <1>11 DEF HandlerUnblock, At, Holds
    <3>2. phead \in Slots /\ signo[phead] \in Signals
      BY <3>1, <1>b, <1>11, <2>1, UnblockFirst
    <3>3. /\ phead' \in Links /\ pavail' \in Links /\ cur' \in Signals
          /\ next' \in [Slots -> Links] /\ signo' \in [Slots -> Signals \union {NULL}]
      <4>1. /\ cur' = signo[phead] /\ phead' = next[phead] /\ pavail' = phead
            /\ next' = [next EXCEPT ![phead] = pavail] /\ signo' = [signo EXCEPT ![phead] = NULL]
        BY <1>11, <2>1 DEF HandlerUnblock
      <4>2. /\ next \in [Slots -> Links] /\ signo \in [Slots -> Signals \union {NULL}] /\ pavail \in Links
        BY <1>b DEF TypeOK
      <4> QED
        BY <4>1, <4>2, <3>2, <1>c
    <3> QED
      BY <1>b, <1>11, <2>1, <3>3 DEF HandlerUnblock, TypeOK, sigg, disposition, counts
  <2>2. CASE ~ (active /\ phead # NULL)
    BY <1>b, <1>11, <2>2 DEF HandlerUnblock, At, TypeOK, list, handling, sigg, disposition, counts
  <2> QED
    BY <2>1, <2>2
<1>12. CASE Shutdown
  BY <1>b, <1>c, <1>12 DEF Shutdown, At, sigg, disposition, list, handling, program, counts, TypeOK, SectionInv, FlagInv
<1>13. CASE Accept
  BY <1>b, <1>c, <1>13 DEF Accept, At, sigg, disposition, list, handling, program, counts, TypeOK, SectionInv, FlagInv
<1>14. CASE Block
  BY <1>b, <1>c, <1>14 DEF Block, At, sigg, disposition, list, handling, program, counts, TypeOK, SectionInv, FlagInv
<1>15. CASE Bailout
  BY <1>b, <1>c, <1>15 DEF Bailout, At, sigg, disposition, list, handling, program, counts, TypeOK, SectionInv, FlagInv
<1>16. ASSUME NEW s \in Signals, Deliver(s)
       PROVE  TypeOK'
  <2>1. done' \in [Signals -> Nat] /\ alive' \in {"up", "killed", "segv"} /\ arrived' \in Nat
    BY <1>b, <1>16 DEF Deliver, TypeOK
  <2>2. /\ hpc' \in {"none", "defer", "redefer", "drain"} /\ queue' \in Links
        /\ hpc' \in {"defer", "redefer"} => cur' \in Signals
    BY <1>b, <1>16 DEF Deliver, TypeOK, handling
  <2> QED
    BY <1>b, <1>16, <2>1, <2>2 DEF Deliver, TypeOK, sigg, disposition, list, program
<1>17. ASSUME NEW s \in Signals, NEW h \in {"user", "ign"}, Sigaction(s, h)
       PROVE  TypeOK'
  BY <1>b, <1>c, <1>17 DEF Sigaction, At, sigg, disposition, list, handling, program, counts, TypeOK, SectionInv, FlagInv
<1>18. CASE UNCHANGED vars
  BY <1>b, <1>c, <1>18 DEF vars, sigg, disposition, list, handling, program, counts, TypeOK, SectionInv, FlagInv
<1> QED
  BY <1>1, <1>2, <1>3, <1>4, <1>5, <1>6, <1>7, <1>8, <1>9, <1>10, <1>11, <1>12, <1>13, <1>14, <1>15, <1>16, <1>17, <1>18, Zenon DEF Next, Handler, Request

\* Every step keeps the flags: a signal that finds no room finds the list full, so
\* blocked is right even then, and whatever is put off is put off by a first signal.
LEMMA FlagStep == SignalInv /\ [Next]_vars => FlagInv'
<1> SUFFICES ASSUME SignalInv, [Next]_vars
             PROVE  FlagInv'
  OBVIOUS
<1>a. PICK W \in Seq(Slots), F \in Seq(Slots) : Holds(W, F)
  BY DEF SignalInv, ListInv
<1>b. SectionInv /\ FlagInv /\ ret \in {"accept", "startup", "request"}
  BY DEF SignalInv, SectionInv
<1>c. /\ depth \in Nat /\ seen \in Nat /\ blocked \in 0..1
      /\ hpc \in {"none", "defer", "redefer", "drain"}
  BY DEF SignalInv, TypeOK
<1>1. CASE DeferInactive
  BY <1>b, <1>c, <1>1 DEF DeferInactive, InHandler, Return, Handle, sigg, disposition, list, handling, program, counts, SectionInv, FlagInv
<1>2. CASE DeferHandle
  BY <1>b, <1>c, <1>2 DEF DeferHandle, InHandler, Return, Handle, sigg, disposition, list, handling, program, counts, SectionInv, FlagInv
<1>3. CASE Drain
  BY <1>b, <1>c, <1>3 DEF Drain, InHandler, Return, Handle, sigg, disposition, list, handling, program, counts, SectionInv, FlagInv
<1>4. CASE DeferEnqueue
  <2>1. hpc = "defer" /\ hpc' = "none" /\ blocked' = 1
    BY <1>b, <1>4 DEF DeferEnqueue, InHandler, Return, FlagInv
  <2>2. phead' # NULL
    <3>1. CASE pavail # NULL
      BY <1>4, <3>1 DEF DeferEnqueue, Enqueue
    <3>2. CASE pavail = NULL
      <4>1. Lists(next, signo, W, F, phead, pavail)
        BY <1>a, <2>1 DEF Holds
      <4>2. F = <<>>
        <5> SUFFICES ASSUME F # <<>>
                     PROVE  FALSE
          OBVIOUS
        <5>1. F[1] = NULL /\ F[1] \in Slots
          BY <4>1, <3>2 DEF Lists, IsChain
        <5> QED
          BY <5>1, NullIsNoSlot
      <4>3. Len(W) = QueueSize
        BY <4>1, <4>2, SignalAssumption DEF Lists
      <4>4. W # <<>> /\ W[1] \in Slots
        BY <4>3, SignalAssumption
      <4>5. phead = W[1]
        BY <4>1, <4>4 DEF Lists, IsChain
      <4>6. phead' = phead
        BY <1>4, <3>2 DEF DeferEnqueue, list
      <4> QED
        BY <4>4, <4>5, <4>6, NullIsNoSlot
    <3> QED
      BY <3>1, <3>2
  <2> QED
    BY <1>b, <1>4, <2>1, <2>2 DEF DeferEnqueue, InHandler, Return, FlagInv, program
<1>5. CASE ActivateRegister
  BY <1>b, <1>c, <1>5 DEF ActivateRegister, At, sigg, disposition, list, handling, program, counts, SectionInv, FlagInv
<1>6. CASE ActivateActive
  BY <1>b, <1>c, <1>6 DEF ActivateActive, At, sigg, disposition, list, handling, program, counts, SectionInv, FlagInv
<1>7. CASE ActivateDepth
  BY <1>b, <1>c, <1>7 DEF ActivateDepth, At, sigg, disposition, list, handling, program, counts, SectionInv, FlagInv
<1>8. CASE Unblock
  BY <1>b, <1>c, <1>8 DEF Unblock, At, sigg, disposition, list, handling, program, counts, SectionInv, FlagInv
<1>9. CASE UnblockCompare
  BY <1>b, <1>c, <1>9 DEF UnblockCompare, At, sigg, disposition, list, handling, program, counts, SectionInv, FlagInv
<1>10. CASE UnblockWrite
  BY <1>b, <1>c, <1>10 DEF UnblockWrite, At, sigg, disposition, list, handling, program, counts, SectionInv, FlagInv
<1>11. CASE HandlerUnblock
  BY <1>b, <1>c, <1>11 DEF HandlerUnblock, At, sigg, disposition, list, handling, program, counts, SectionInv, FlagInv
<1>12. CASE Shutdown
  BY <1>b, <1>c, <1>12 DEF Shutdown, At, sigg, disposition, list, handling, program, counts, SectionInv, FlagInv
<1>13. CASE Accept
  BY <1>b, <1>c, <1>13 DEF Accept, At, sigg, disposition, list, handling, program, counts, SectionInv, FlagInv
<1>14. CASE Block
  BY <1>b, <1>c, <1>14 DEF Block, At, sigg, disposition, list, handling, program, counts, SectionInv, FlagInv
<1>15. CASE Bailout
  BY <1>b, <1>c, <1>15 DEF Bailout, At, sigg, disposition, list, handling, program, counts, SectionInv, FlagInv
<1>16. ASSUME NEW s \in Signals, Deliver(s)
       PROVE  FlagInv'
  BY <1>b, <1>c, <1>16 DEF Deliver, sigg, disposition, list, handling, program, counts, SectionInv, FlagInv
<1>17. ASSUME NEW s \in Signals, NEW h \in {"user", "ign"}, Sigaction(s, h)
       PROVE  FlagInv'
  BY <1>b, <1>c, <1>17 DEF Sigaction, At, sigg, disposition, list, handling, program, counts, SectionInv, FlagInv
<1>18. CASE UNCHANGED vars
  BY <1>b, <1>c, <1>18 DEF vars, sigg, disposition, list, handling, program, counts, SectionInv, FlagInv
<1> QED
  BY <1>1, <1>2, <1>3, <1>4, <1>5, <1>6, <1>7, <1>8, <1>9, <1>10, <1>11, <1>12, <1>13, <1>14, <1>15, <1>16, <1>17, <1>18, Zenon DEF Next, Handler, Request

\* The invariant holds in every reachable state.
LEMMA SignalInvariant == Spec => []SignalInv
<1>1. Init => SignalInv
  <2> SUFFICES ASSUME Init
               PROVE  SignalInv
    OBVIOUS
  <2>1. TypeOK
    <3>1. handlers \in [Signals -> {"dfl", "user", "ign"}] /\ installed \in [Signals -> {"orig", "defer", "ign"}]
      BY DEF Init, Orig
    <3>2. signo \in [Slots -> Signals \union {NULL}] /\ next \in [Slots -> Links]
      BY SignalAssumption DEF Init, Slots, Links
    <3>3. phead \in Links /\ ptail \in Links /\ pavail \in Links /\ queue \in Links
      BY SignalAssumption DEF Init, Links, NULL
    <3>4. done \in [Signals -> Nat] /\ lost \in [Signals -> Nat]
      BY DEF Init
    <3>5. /\ depth \in Nat /\ blocked \in 0..1 /\ running \in 0..1 /\ seen \in Nat /\ nest \in Nat
          /\ arrived \in Nat /\ bailouts \in Nat
      BY DEF Init
    <3>6. /\ active \in BOOLEAN /\ compiled \in BOOLEAN
          /\ hpc \in {"none", "defer", "redefer", "drain"} /\ (hpc \in {"defer", "redefer"} => cur \in Signals)
          /\ pc \in {"accept", "startup", "activate", "reset", "request", "compare", "write", "unblock"}
          /\ ret \in {"accept", "startup", "request"} /\ alive \in {"up", "killed", "segv"}
      BY DEF Init
    <3> QED
      BY <3>1, <3>2, <3>3, <3>4, <3>5, <3>6, Zenon DEF TypeOK
  <2>2. FlagInv
    BY DEF Init, FlagInv
  <2> QED
    BY <2>1, <2>2, SectionInit, ListInit DEF SignalInv
<1>2. SignalInv /\ [Next]_vars => SignalInv'
  BY TypeStep, SectionStep, FlagStep, ListStep DEF SignalInv
<1> QED
  BY <1>1, <1>2, PTL DEF Spec

\* Every variable keeps its type: depth never falls below 0, and what the handler
\* works on is a signal.
THEOREM TypeCorrect == Spec => []TypeOK
<1>1. SignalInv => TypeOK
  BY DEF SignalInv
<1> QED
  BY <1>1, SignalInvariant, PTL

\* Whenever no handler is running, blocked says exactly whether a signal is pending.
THEOREM BlockedIsExact == Spec => []BlockedIffPending
<1>1. SignalInv => BlockedIffPending
  BY DEF SignalInv, FlagInv, BlockedIffPending
<1> QED
  BY <1>1, SignalInvariant, PTL

\* The pending list, the list that the handler works through and the free list
\* share no element and together hold the whole storage.
THEOREM ListsPartitionHolds == Spec => []ListsPartition
<1>1. SignalInv => ListsPartition
  <2> SUFFICES ASSUME SignalInv
               PROVE  ListsPartition
    OBVIOUS
  <2>1. PICK W \in Seq(Slots), F \in Seq(Slots) : Holds(W, F)
    BY DEF SignalInv, ListInv
  <2>2. Lists(next, signo, W, F, IF hpc = "drain" THEN queue ELSE phead, pavail)
    BY <2>1 DEF Holds
  <2>3. ASSUME NEW s \in Seq(Slots), Len(s) <= QueueSize
        PROVE  s \in Walks
    <3>1. s \in [1..Len(s) -> Slots] /\ Len(s) \in 0..QueueSize
      BY <2>3, SignalAssumption
    <3> QED
      BY <3>1 DEF Walks
  <2>4. W \in Walks /\ F \in Walks /\ <<>> \in Walks
    <3>1. Len(W) \in Nat /\ Len(F) \in Nat /\ Len(W) + Len(F) = QueueSize /\ Len(<<>>) = 0 /\ <<>> \in Seq(Slots)
      BY <2>2 DEF Lists
    <3>2. Len(W) <= QueueSize /\ Len(F) <= QueueSize /\ Len(<<>>) <= QueueSize
      BY <3>1, SignalAssumption
    <3> QED
      BY <3>1, <3>2, <2>3
  <2> DEFINE all == W \o F
  <2>5. Len(all) = QueueSize /\ Range(all) = Slots /\ IsInjective(all)
    <3>1. /\ Len(W) \in Nat /\ Len(F) \in Nat /\ Len(W) + Len(F) = QueueSize
          /\ all \in Seq(Slots) /\ Len(all) = Len(W) + Len(F) /\ DOMAIN all = 1..Len(all)
          /\ \A i \in 1..Len(W) : i \in 1..Len(all) /\ all[i] = W[i]
          /\ \A j \in 1..Len(F) : j + Len(W) \in 1..Len(all) /\ all[j + Len(W)] = F[j]
          /\ \A i \in 1..Len(all) : i \in 1..Len(W) \/ (i - Len(W) \in 1..Len(F) /\ all[i] = F[i - Len(W)])
      BY <2>2 DEF Lists
    <3> HIDE DEF all
    <3>2. ASSUME NEW x \in Slots
          PROVE  \E i \in 1..Len(all) : all[i] = x
      <4>1. ASSUME NEW i \in 1..Len(W), W[i] = x
            PROVE  \E k \in 1..Len(all) : all[k] = x
        BY <4>1, <3>1
      <4>2. ASSUME NEW j \in 1..Len(F), F[j] = x
            PROVE  \E k \in 1..Len(all) : all[k] = x
        BY <4>2, <3>1
      <4> QED
        BY <4>1, <4>2, <2>2 DEF Lists
    <3>3. Range(all) = Slots
      <4>1. \A i \in 1..Len(all) : all[i] \in Slots
        BY <3>1
      <4>2. Range(all) = {all[i] : i \in 1..Len(all)}
        BY <3>1, Zenon DEF Range
      <4> QED
        BY <4>1, <4>2, <3>2, Zenon
    <3>4. ASSUME NEW a \in 1..Len(all), NEW b \in 1..Len(all), all[a] = all[b]
          PROVE  a = b
      <4>1. CASE a \in 1..Len(W) /\ b \in 1..Len(W)
        BY <4>1, <3>1, <3>4, <2>2 DEF Lists
      <4>2. CASE a \notin 1..Len(W) /\ b \notin 1..Len(W)
        <5>1. /\ a - Len(W) \in 1..Len(F) /\ b - Len(W) \in 1..Len(F)
              /\ F[a - Len(W)] = F[b - Len(W)]
          BY <4>2, <3>1, <3>4
        <5>2. a - Len(W) = b - Len(W)
          BY <5>1, <2>2 DEF Lists
        <5> QED
          BY <5>2, <3>1
      <4>3. CASE a \in 1..Len(W) /\ b \notin 1..Len(W)
        <5>1. b - Len(W) \in 1..Len(F) /\ W[a] = F[b - Len(W)]
          BY <4>3, <3>1, <3>4
        <5> QED
          BY <4>3, <5>1, <2>2 DEF Lists
      <4>4. CASE a \notin 1..Len(W) /\ b \in 1..Len(W)
        <5>1. a - Len(W) \in 1..Len(F) /\ W[b] = F[a - Len(W)]
          BY <4>4, <3>1, <3>4
        <5> QED
          BY <4>4, <5>1, <2>2 DEF Lists
      <4> QED
        BY <4>1, <4>2, <4>3, <4>4
    <3>5. IsInjective(all)
      BY <3>1, <3>4 DEF IsInjective
    <3> QED
      BY <3>1, <3>3, <3>5
  <2>6. W \o <<>> \o F = all /\ <<>> \o W \o F = all
    BY <2>1
  <2> HIDE DEF all
  <2>7. IsChain(next, <<>>, NULL)
    BY DEF IsChain
  <2>8. CASE hpc = "drain"
    <3>1. phead = NULL /\ IsChain(next, W, queue) /\ IsChain(next, F, pavail)
      BY <2>2, <2>8 DEF SignalInv, FlagInv, Lists
    <3> QED
      BY <2>4, <2>5, <2>6, <2>7, <3>1 DEF ListsPartition
  <2>9. CASE hpc # "drain"
    <3>1. queue = NULL /\ IsChain(next, W, phead) /\ IsChain(next, F, pavail)
      BY <2>2, <2>9 DEF SignalInv, FlagInv, Lists
    <3>2. W # <<>> => ptail = W[Len(W)]
      BY <2>1, <2>9 DEF Holds
    <3> QED
      BY <2>4, <2>5, <2>6, <2>7, <3>1, <3>2 DEF ListsPartition
  <2> QED
    BY <2>8, <2>9
<1> QED
  BY <1>1, SignalInvariant, PTL

--------------------------------------------------------------------------------
(* The layer implements the bounded queue of DeferredSignals. *)

\* The signals of a list, one by one.
LEMMA CarriedSeq ==
  ASSUME NEW sg \in [Slots -> Signals \union {NULL}], NEW W \in Seq(Slots),
         \A i \in 1..Len(W) : sg[W[i]] \in Signals
  PROVE  /\ Carried(sg, W) \in Seq(Signals) /\ Len(Carried(sg, W)) = Len(W)
         /\ \A i \in 1..Len(W) : Carried(sg, W)[i] = sg[W[i]]
<1>1. Len(W) \in Nat
  OBVIOUS
<1>2. Carried(sg, W) = [i \in 1..Len(W) |-> sg[W[i]]]
  BY DEF Carried
<1> QED
  BY <1>1, <1>2

\* No list carries no signals.
LEMMA CarriedNone == ASSUME NEW sg PROVE Carried(sg, <<>>) = <<>>
  BY DEF Carried

\* Of the two lists that carry signals one is empty.
LEMMA OneList ==
  ASSUME NEW links, NEW sg, NEW W, NEW F, NEW q, NEW p, NEW f, NEW h,
         Lists(links, sg, W, F, IF h = "drain" THEN q ELSE p, f),
         h = "drain" => p = NULL, h # "drain" => q = NULL
  PROVE  /\ Chain(links, q) = IF h = "drain" THEN W ELSE <<>>
         /\ Chain(links, p) = IF h = "drain" THEN <<>> ELSE W
<1>1. /\ W \in Seq(Slots) /\ Len(W) \in Nat /\ Len(F) \in Nat /\ Len(W) + Len(F) = QueueSize
      /\ \A i \in 1..Len(W) : sg[W[i]] \in Signals
  BY DEF Lists
<1>2. Len(W) <= QueueSize
  BY <1>1, SignalAssumption
<1>3. Chain(links, NULL) = <<>>
  <2>1. <<>> \in Seq(Slots) /\ Len(<<>>) <= QueueSize /\ IsChain(links, <<>>, NULL)
    BY SignalAssumption DEF IsChain
  <2> QED
    BY <2>1, ChainIs
<1>4. CASE h = "drain"
  <2>1. Chain(links, q) = W
    BY <1>1, <1>2, <1>4, ChainIs DEF Lists
  <2> QED
    BY <2>1, <1>3, <1>4
<1>5. CASE h # "drain"
  <2>1. Chain(links, p) = W
    BY <1>1, <1>2, <1>5, ChainIs DEF Lists
  <2> QED
    BY <2>1, <1>3, <1>5
<1> QED
  BY <1>4, <1>5

\* All but the first.
Rest(s) == Tail(s)

\* The first element is given back: the rest carries the rest.
LEMMA CarriedRest ==
  ASSUME NEW sg \in [Slots -> Signals \union {NULL}], NEW sgn \in [Slots -> Signals \union {NULL}],
         NEW W \in Seq(Slots), W # <<>>, NEW U \in Seq(Slots), U = Rest(W),
         \A i \in 1..Len(W) : sg[W[i]] \in Signals,
         \A i \in 1..Len(U) : sgn[U[i]] = sg[U[i]]
  PROVE  /\ Carried(sg, W) # <<>> /\ Head(Carried(sg, W)) = sg[W[1]]
         /\ Carried(sgn, U) = Rest(Carried(sg, W))
<1> DEFINE C == Carried(sg, W)
           D == Carried(sgn, U)
<1>1. /\ Len(W) \in Nat \ {0} /\ U \in Seq(Slots) /\ Len(U) = Len(W) - 1 /\ 1 \in 1..Len(W)
      /\ \A i \in 1..Len(U) : i + 1 \in 1..Len(W) /\ U[i] = W[i + 1]
  BY DEF Rest
<1>2. C \in Seq(Signals) /\ Len(C) = Len(W) /\ \A i \in 1..Len(W) : C[i] = sg[W[i]]
  BY CarriedSeq
<1>3. \A i \in 1..Len(U) : sgn[U[i]] \in Signals
  BY <1>1
<1>4. D \in Seq(Signals) /\ Len(D) = Len(U) /\ \A i \in 1..Len(U) : D[i] = sgn[U[i]]
  BY <1>1, <1>3, CarriedSeq
<1> HIDE DEF C, D
<1>5. C # <<>> /\ Head(C) = sg[W[1]] /\ sg[W[1]] \in Signals
  BY <1>1, <1>2
<1>6. ASSUME NEW i \in 1..Len(U)
      PROVE  D[i] = C[i + 1]
  <2>1. D[i] = sg[U[i]]
    BY <1>4
  <2>2. i + 1 \in 1..Len(W) /\ U[i] = W[i + 1]
    BY <1>1
  <2>3. C[i + 1] = sg[W[i + 1]]
    BY <2>2, <1>2
  <2> QED
    BY <2>1, <2>2, <2>3
<1>7. D = Tail(C)
  <2>1. /\ Tail(C) \in Seq(Signals) /\ Len(Tail(C)) = Len(D)
        /\ \A i \in 1..Len(D) : Tail(C)[i] = C[i + 1]
    BY <1>1, <1>2, <1>4, <1>5
  <2> QED
    BY <2>1, <1>4, <1>6, SeqEqual
<1> QED
  BY <1>5, <1>7 DEF C, D, Rest

\* A free element takes a signal up at the end.
LEMMA CarriedMore ==
  ASSUME NEW sg, NEW W \in Seq(Slots), NEW f \in Slots, NEW s \in Signals,
         sg \in [Slots -> Signals \union {NULL}],
         \A i \in 1..Len(W) : sg[W[i]] \in Signals /\ W[i] # f
  PROVE  Carried([sg EXCEPT ![f] = s], Append(W, f)) = Append(Carried(sg, W), s)
<1> DEFINE sgn == [sg EXCEPT ![f] = s]
           U == Append(W, f)
           C == Carried(sg, W)
           D == Carried(sgn, U)
<1>1. /\ Len(W) \in Nat /\ U \in Seq(Slots) /\ Len(U) = Len(W) + 1 /\ U[Len(W) + 1] = f
      /\ \A i \in 1..Len(W) : U[i] = W[i] /\ W[i] \in Slots
  OBVIOUS
<1>2. /\ sgn \in [Slots -> Signals \union {NULL}]
      /\ sgn[f] = s /\ \A i \in 1..Len(W) : sgn[W[i]] = sg[W[i]]
  BY <1>1
<1> HIDE DEF sgn, U
<1>3. \A i \in 1..Len(U) : sgn[U[i]] \in Signals /\ (i \in 1..Len(W) \/ i = Len(W) + 1)
  BY <1>1, <1>2
<1>4. C \in Seq(Signals) /\ Len(C) = Len(W) /\ \A i \in 1..Len(W) : C[i] = sg[W[i]]
  BY CarriedSeq
<1>5. D \in Seq(Signals) /\ Len(D) = Len(U) /\ \A i \in 1..Len(U) : D[i] = sgn[U[i]]
  BY <1>1, <1>2, <1>3, CarriedSeq
<1> HIDE DEF C, D
<1>6. /\ Append(C, s) \in Seq(Signals) /\ Len(Append(C, s)) = Len(W) + 1 /\ Append(C, s)[Len(W) + 1] = s
      /\ \A i \in 1..Len(W) : Append(C, s)[i] = C[i]
  BY <1>1, <1>4
<1>7. ASSUME NEW i \in 1..Len(U)
      PROVE  D[i] = Append(C, s)[i]
  <2>1. CASE i \in 1..Len(W)
    BY <2>1, <1>1, <1>2, <1>4, <1>5, <1>6
  <2>2. CASE i = Len(W) + 1
    BY <2>2, <1>1, <1>2, <1>5, <1>6
  <2> QED
    BY <2>1, <2>2, <1>3
<1>8. D = Append(C, s)
  BY <1>1, <1>5, <1>6, <1>7, SeqEqual
<1> QED
  BY <1>8 DEF C, D, sgn, U

\* The signal that unblock has in its hand.
Hand == IF hpc = "redefer" THEN <<cur>> ELSE <<>>

\* What is pending is what is in the hand and what the list carries.
LEMMA PendingNow ==
  ASSUME SignalInv, NEW W, NEW F, Holds(W, F)
  PROVE  Pending = Hand \o Carried(signo, W)
<1>1. Hand \in Seq(Signals)
  BY DEF Hand, SignalInv, TypeOK
<1>2. (hpc = "drain" => phead = NULL) /\ (hpc # "drain" => queue = NULL)
  BY DEF SignalInv, FlagInv
<1>3. Lists(next, signo, W, F, IF hpc = "drain" THEN queue ELSE phead, pavail)
  BY DEF Holds
<1>4. Carried(signo, W) \in Seq(Signals) /\ Carried(signo, <<>>) = <<>>
  BY <1>3, CarriedSeq, CarriedNone DEF Lists
<1>5. /\ Chain(next, queue) = IF hpc = "drain" THEN W ELSE <<>>
      /\ Chain(next, phead) = IF hpc = "drain" THEN <<>> ELSE W
  BY <1>2, <1>3, OneList
<1>6. Pending = Hand \o Carried(signo, Chain(next, queue)) \o Carried(signo, Chain(next, phead))
  BY DEF Pending, Hand
<1>7. CASE hpc = "drain"
  <2>1. Pending = Hand \o Carried(signo, W) \o <<>>
    BY <1>4, <1>5, <1>6, <1>7
  <2> QED
    BY <2>1, <1>1, <1>4
<1>8. CASE hpc # "drain"
  <2>1. Pending = Hand \o <<>> \o Carried(signo, W)
    BY <1>4, <1>5, <1>6, <1>8
  <2> QED
    BY <2>1, <1>1, <1>4
<1> QED
  BY <1>7, <1>8

\* The same after a step.
LEMMA PendingNext ==
  ASSUME SignalInv', NEW W, NEW F, Holds(W, F)'
  PROVE  Pending' = Hand' \o Carried(signo', W)
<1>1. Hand' \in Seq(Signals)
  BY DEF Hand, SignalInv, TypeOK
<1>2. (hpc' = "drain" => phead' = NULL) /\ (hpc' # "drain" => queue' = NULL)
  BY DEF SignalInv, FlagInv
<1>3. Lists(next', signo', W, F, IF hpc' = "drain" THEN queue' ELSE phead', pavail')
  BY DEF Holds
<1>4. Carried(signo', W) \in Seq(Signals) /\ Carried(signo', <<>>) = <<>>
  BY <1>3, CarriedSeq, CarriedNone DEF Lists
<1>5. /\ Chain(next', queue') = IF hpc' = "drain" THEN W ELSE <<>>
      /\ Chain(next', phead') = IF hpc' = "drain" THEN <<>> ELSE W
  BY <1>2, <1>3, OneList
<1>6. Pending' = Hand' \o Carried(signo', Chain(next', queue')) \o Carried(signo', Chain(next', phead'))
  BY DEF Pending, Hand
<1>7. CASE hpc' = "drain"
  <2>1. Pending' = Hand' \o Carried(signo', W) \o <<>>
    BY <1>4, <1>5, <1>6, <1>7
  <2> QED
    BY <2>1, <1>1, <1>4
<1>8. CASE hpc' # "drain"
  <2>1. Pending' = Hand' \o <<>> \o Carried(signo', W)
    BY <1>4, <1>5, <1>6, <1>8
  <2> QED
    BY <2>1, <1>1, <1>4
<1> QED
  BY <1>7, <1>8

\* Every step of the layer is a step of the queue or changes nothing there.
LEMMA QueueStep ==
  ASSUME SignalInv, SignalInv', Next
  PROVE  [Promise!Queueing]_(Promise!avars)
<1>a. PICK W \in Seq(Slots), F \in Seq(Slots) : Holds(W, F)
  BY DEF SignalInv, ListInv
<1>b. TypeOK /\ FlagInv
  BY DEF SignalInv
<1>c. Pending = Hand \o Carried(signo, W)
  BY <1>a, PendingNow
<1>d. /\ signo \in [Slots -> Signals \union {NULL}] /\ signo' \in [Slots -> Signals \union {NULL}]
      /\ \A i \in 1..Len(W) : signo[W[i]] \in Signals
      /\ Carried(signo, W) \in Seq(Signals) /\ Len(Carried(signo, W)) = Len(W)
  BY <1>a, CarriedSeq DEF Holds, Lists, SignalInv, TypeOK
<1>e. ASSUME UNCHANGED <<hpc, cur, queue, next, signo, phead, done, lost>>
      PROVE  UNCHANGED Promise!avars
  BY <1>e DEF Promise!avars, Pending
<1>f. ASSUME hpc # "redefer", Pending' = Carried(signo, W)
      PROVE  Pending' = Pending
  BY <1>c, <1>d, <1>f DEF Hand
<1>g. ASSUME NEW s \in Signals, done' = [done EXCEPT ![s] = @ + 1], lost' = lost, Pending' = Pending
      PROVE  Promise!Queueing
  BY <1>g DEF Promise!Queueing, Promise!HandleAtOnce
<1>h. ASSUME Pending # <<>>, Pending' = Tail(Pending), done' = [done EXCEPT ![Head(Pending)] = @ + 1], lost' = lost
      PROVE  Promise!Queueing
  BY <1>h DEF Promise!Queueing, Promise!HandleDeferred
<1>1. CASE DeferInactive
  <2>1. hpc = "defer" /\ hpc' = "none" /\ cur \in Signals
    BY <1>b, <1>1 DEF DeferInactive, InHandler, Return, FlagInv, TypeOK
  <2>2. Pending' = Pending
    BY <1>1, <2>1 DEF DeferInactive, Return, Pending, list
  <2> QED
    BY <1>g, <1>1, <2>1, <2>2 DEF DeferInactive, Handle
<1>2. CASE DeferHandle
  <2>1. /\ running = 0 /\ hpc' = "drain" /\ queue' = phead /\ hpc # "drain" /\ cur \in Signals
        /\ UNCHANGED <<next, signo, pavail, lost>> /\ done' = [done EXCEPT ![cur] = @ + 1]
    BY <1>b, <1>2 DEF DeferHandle, InHandler, FlagInv, TypeOK, Handle
  <2>2. Holds(W, F)'
    BY <1>a, <2>1 DEF Holds
  <2>3. Pending' = Carried(signo, W)
    <3>1. Pending' = Hand' \o Carried(signo', W)
      BY <2>2, PendingNext
    <3> QED
      BY <3>1, <2>1, <1>d DEF Hand
  <2>4. CASE hpc = "redefer"
    <3>1. Pending = <<cur>> \o Carried(signo, W)
      BY <2>4, <1>c DEF Hand
    <3>2. Pending # <<>> /\ Tail(Pending) = Carried(signo, W) /\ Head(Pending) = cur
      BY <3>1, <2>1, <1>d
    <3> QED
      BY <3>2, <2>1, <2>3, <1>h
  <2>5. CASE hpc # "redefer"
    BY <2>1, <2>3, <2>5, <1>f, <1>g
  <2> QED
    BY <2>4, <2>5
<1>3. CASE Drain
  <2>1. hpc = "drain" /\ Lists(next, signo, W, F, queue, pavail) /\ lost' = lost /\ Hand = <<>>
    BY <1>a, <1>3 DEF Drain, InHandler, Holds, Hand
  <2>2. CASE queue # NULL
    <3>1. /\ queue \in Slots /\ W # <<>> /\ queue = W[1]
      BY <1>b, <1>3, <2>1, <2>2, DrainFirst
    <3>2. PICK U \in Seq(Slots), G \in Seq(Slots) : U = Tail(W) /\ Lists(next', signo', U, G, queue', pavail')
      BY <1>b, <1>3, <2>1, <2>2, DrainFirst
    <3>3. /\ hpc' = "drain" /\ signo' = [signo EXCEPT ![queue] = NULL]
          /\ done' = [done EXCEPT ![signo[queue]] = @ + 1]
      BY <1>3, <2>1, <2>2 DEF Drain, Handle
    <3>4. Holds(U, G)'
      BY <3>2, <3>3 DEF Holds
    <3>5. Pending' = Carried(signo', U)
      <4>1. Pending' = Hand' \o Carried(signo', U)
        BY <3>4, PendingNext
      <4>2. Carried(signo', U) \in Seq(Signals)
        BY <3>2, CarriedSeq DEF Lists
      <4> QED
        BY <4>1, <4>2, <3>3 DEF Hand
    <3>6. \A i \in 1..Len(U) : signo'[U[i]] = signo[U[i]]
      <4> SUFFICES ASSUME NEW i \in 1..Len(U)
                   PROVE  signo'[U[i]] = signo[U[i]]
        OBVIOUS
      <4>1. i + 1 \in 1..Len(W) /\ 1 \in 1..Len(W) /\ i + 1 # 1 /\ U[i] = W[i + 1] /\ U[i] \in Slots
        BY <3>1, <3>2
      <4>2. U[i] # queue
        BY <4>1, <3>1, <2>1 DEF Lists
      <4> QED
        BY <4>1, <4>2, <3>3, <1>d
    <3>7. /\ Carried(signo, W) # <<>> /\ Head(Carried(signo, W)) = signo[queue]
          /\ Carried(signo', U) = Tail(Carried(signo, W))
      <4>1. U = Rest(W)
        BY <3>2 DEF Rest
      <4>2. /\ Carried(signo, W) # <<>> /\ Head(Carried(signo, W)) = signo[W[1]]
            /\ Carried(signo', U) = Rest(Carried(signo, W))
        BY <4>1, <3>1, <3>6, <1>d, CarriedRest
      <4> QED
        BY <4>2, <3>1 DEF Rest
    <3>8. Pending = Carried(signo, W)
      BY <2>1, <1>c, <1>d
    <3> QED
      BY <3>3, <3>5, <3>7, <3>8, <2>1, <1>h
  <2>3. CASE queue = NULL
    <3>1. hpc' = "none" /\ phead' = NULL /\ phead = NULL /\ UNCHANGED <<next, signo, queue, done, lost>>
      BY <1>b, <1>3, <2>1, <2>3 DEF Drain, Return, FlagInv
    <3> QED
      BY <3>1, <2>1 DEF Promise!avars, Pending, Hand
  <2> QED
    BY <2>2, <2>3
<1>4. CASE DeferEnqueue
  <2>1. /\ hpc = "defer" /\ hpc' = "none" /\ cur \in Signals /\ UNCHANGED done
        /\ Lists(next, signo, W, F, phead, pavail) /\ (W # <<>> => ptail = W[Len(W)])
    BY <1>a, <1>b, <1>4 DEF DeferEnqueue, InHandler, Return, FlagInv, TypeOK, Holds
  <2>2. Pending = Carried(signo, W) /\ Len(Pending) = Len(W)
    BY <2>1, <1>c, <1>d DEF Hand
  <2>3. Len(W) \in Nat /\ Len(F) \in Nat /\ Len(W) + Len(F) = QueueSize
    BY <2>1 DEF Lists
  <2>4. CASE pavail # NULL
    <3>1. /\ pavail' = next[pavail] /\ signo' = [signo EXCEPT ![pavail] = cur] /\ Enqueue(pavail)
          /\ UNCHANGED lost
      BY <1>4, <2>4 DEF DeferEnqueue
    <3>2. /\ Lists(next', signo', Append(W, pavail), Tail(F), phead', pavail') /\ ptail' = pavail
          /\ pavail \in Slots /\ \A i \in 1..Len(W) : W[i] # pavail
      BY <2>1, <2>4, <3>1, TakeUp DEF Enqueue
    <3>3. PICK U \in Seq(Slots), G \in Seq(Slots) : U = Append(W, pavail) /\ G = Tail(F)
      BY <3>2 DEF Lists
    <3>4. Holds(U, G)'
      <4>1. U[Len(U)] = pavail
        BY <3>2, <3>3
      <4> QED
        BY <2>1, <3>2, <3>3, <4>1 DEF Holds
    <3>5. Pending' = Carried(signo', U)
      <4>1. Pending' = Hand' \o Carried(signo', U)
        BY <3>4, PendingNext
      <4>2. Carried(signo', U) \in Seq(Signals)
        BY <3>2, <3>3, CarriedSeq DEF Lists
      <4> QED
        BY <4>1, <4>2, <2>1 DEF Hand
    <3>6. Pending' = Append(Pending, cur)
      <4>1. Carried([signo EXCEPT ![pavail] = cur], Append(W, pavail)) = Append(Carried(signo, W), cur)
        BY <3>2, <2>1, <1>d, CarriedMore
      <4> QED
        BY <4>1, <3>1, <3>3, <3>5, <2>2
    <3>7. Len(Pending) < QueueSize
      <4>1. F # <<>>
        BY <2>1, <2>4 DEF Lists, IsChain
      <4>2. Len(F) > 0
        BY <4>1, <1>a
      <4> QED
        BY <4>2, <2>2, <2>3, SignalAssumption
    <3> QED
      BY <3>1, <3>6, <3>7, <2>1 DEF Promise!Queueing, Promise!Defer
  <2>5. CASE pavail = NULL
    <3>1. lost' = [lost EXCEPT ![cur] = @ + 1] /\ UNCHANGED list /\ UNCHANGED queue
      BY <1>4, <2>5 DEF DeferEnqueue, Return
    <3>2. Pending' = Pending
      BY <3>1, <2>1 DEF Pending, list
    <3>3. Len(Pending) = QueueSize
      <4>1. F = <<>>
        <5> SUFFICES ASSUME F # <<>>
                     PROVE  FALSE
          OBVIOUS
        <5>1. F[1] = NULL /\ F[1] \in Slots
          BY <2>1, <2>5 DEF Lists, IsChain
        <5> QED
          BY <5>1, NullIsNoSlot
      <4> QED
        BY <4>1, <2>2, <2>3, SignalAssumption
    <3> QED
      BY <3>1, <3>2, <3>3, <2>1 DEF Promise!Queueing, Promise!Forget
  <2> QED
    BY <2>4, <2>5
<1>5. CASE ActivateRegister
  BY <1>e, <1>5 DEF ActivateRegister, At, list, handling, counts
<1>6. CASE ActivateActive
  BY <1>e, <1>6 DEF ActivateActive, At, list, handling, counts
<1>7. CASE ActivateDepth
  BY <1>e, <1>7 DEF ActivateDepth, At, list, handling, counts
<1>8. CASE Unblock
  BY <1>e, <1>8 DEF Unblock, At, list, handling, counts
<1>9. CASE UnblockCompare
  BY <1>e, <1>9 DEF UnblockCompare, At, list, handling, counts
<1>10. CASE UnblockWrite
  BY <1>e, <1>10 DEF UnblockWrite, At, list, handling, counts
<1>11. CASE HandlerUnblock
  <2>1. CASE active /\ phead # NULL
    <3>1. hpc = "none" /\ Lists(next, signo, W, F, phead, pavail) /\ Hand = <<>>
      BY <1>a, <1>11 DEF HandlerUnblock, At, Holds, Hand
    <3>2. /\ phead \in Slots /\ W # <<>> /\ phead = W[1]
      BY <1>b, <1>11, <2>1, <3>1, UnblockFirst
    <3>3. PICK U \in Seq(Slots), G \in Seq(Slots) : U = Tail(W) /\ Lists(next', signo', U, G, phead', pavail')
      BY <1>b, <1>11, <2>1, <3>1, UnblockFirst
    <3>4. /\ hpc' = "redefer" /\ cur' = signo[phead] /\ signo' = [signo EXCEPT ![phead] = NULL]
          /\ UNCHANGED <<ptail, done, lost>>
      BY <1>11, <2>1 DEF HandlerUnblock, counts
    <3>5. Holds(U, G)'
      <4>1. U # <<>> => ptail = U[Len(U)]
        <5>1. ptail = W[Len(W)]
          BY <1>a, <3>1, <3>2 DEF Holds
        <5> QED
          BY <5>1, <3>2, <3>3
      <4> QED
        BY <3>3, <3>4, <4>1 DEF Holds
    <3>6. Pending' = <<signo[phead]>> \o Carried(signo', U)
      <4>1. Pending' = Hand' \o Carried(signo', U)
        BY <3>5, PendingNext
      <4> QED
        BY <4>1, <3>4 DEF Hand
    <3>7. \A i \in 1..Len(U) : signo'[U[i]] = signo[U[i]]
      <4> SUFFICES ASSUME NEW i \in 1..Len(U)
                   PROVE  signo'[U[i]] = signo[U[i]]
        OBVIOUS
      <4>1. i + 1 \in 1..Len(W) /\ 1 \in 1..Len(W) /\ i + 1 # 1 /\ U[i] = W[i + 1] /\ U[i] \in Slots
        BY <3>2, <3>3
      <4>2. U[i] # phead
        BY <4>1, <3>1, <3>2 DEF Lists
      <4> QED
        BY <4>1, <4>2, <3>4, <1>d
    <3>8. <<signo[W[1]]>> \o Carried(signo', U) = Carried(signo, W)
      <4>1. /\ Carried(signo, W) # <<>> /\ Head(Carried(signo, W)) = signo[W[1]]
            /\ Carried(signo', U) = Tail(Carried(signo, W))
        <5>1. /\ Carried(signo, W) # <<>> /\ Head(Carried(signo, W)) = signo[W[1]]
          <6>1. U = Rest(W)
            BY <3>3 DEF Rest
          <6> QED
            BY <6>1, <3>2, <3>3, <3>7, <1>d, CarriedRest
        <5>2. Carried(signo', U) = Rest(Carried(signo, W))
          <6>1. U = Rest(W)
            BY <3>3 DEF Rest
          <6> QED
            BY <6>1, <3>2, <3>3, <3>7, <1>d, CarriedRest
        <5> QED
          BY <5>1, <5>2 DEF Rest
      <4>2. <<Head(Carried(signo, W))>> \o Tail(Carried(signo, W)) = Carried(signo, W)
        BY <4>1, <1>d
      <4> QED
        BY <4>1, <4>2
    <3>9. Pending' = Pending
      BY <3>1, <3>2, <3>6, <3>8, <1>c, <1>d
    <3> QED
      BY <3>4, <3>9 DEF Promise!avars
  <2>2. CASE ~ (active /\ phead # NULL)
    BY <2>2, <1>e, <1>11 DEF HandlerUnblock, list, handling, counts
  <2> QED
    BY <2>1, <2>2
<1>12. CASE Shutdown
  BY <1>e, <1>12 DEF Shutdown, At, list, handling, counts
<1>13. CASE Accept
  BY <1>e, <1>13 DEF Accept, At, list, handling, counts
<1>14. CASE Block
  BY <1>e, <1>14 DEF Block, At, list, handling, counts
<1>15. CASE Bailout
  BY <1>e, <1>15 DEF Bailout, At, list, handling, counts
<1>16. ASSUME NEW s \in Signals, Deliver(s)
       PROVE  [Promise!Queueing]_(Promise!avars)
  <2>1. hpc = "none" /\ UNCHANGED <<list, lost>>
    BY <1>16 DEF Deliver
  <2>2. CASE installed[s] = "orig"
    <3>1. Pending' = Pending
      BY <2>1, <2>2, <1>16 DEF Deliver, Pending, handling, list
    <3> QED
      BY <3>1, <2>1, <2>2, <1>16, <1>g DEF Deliver
  <2>3. CASE installed[s] # "orig"
    BY <2>1, <2>3, <1>16 DEF Deliver, Promise!avars, Pending, list
  <2> QED
    BY <2>2, <2>3
<1>17. ASSUME NEW s \in Signals, NEW h \in {"user", "ign"}, Sigaction(s, h)
       PROVE  [Promise!Queueing]_(Promise!avars)
  BY <1>e, <1>17 DEF Sigaction, At, list, handling, counts
<1> QED
  BY <1>1, <1>2, <1>3, <1>4, <1>5, <1>6, <1>7, <1>8, <1>9, <1>10, <1>11, <1>12, <1>13, <1>14, <1>15, <1>16, <1>17, Zenon DEF Next, Handler, Request

\* The lists, flags and masks of the layer implement the bounded queue: a deferred
\* signal is handled once, in its turn, and forgotten only when all the storage
\* carries others.
THEOREM PromiseKept == Spec => KeepsPromise
<1>1. Init => Promise!Start
  <2> SUFFICES ASSUME Init
               PROVE  Promise!Start
    OBVIOUS
  <2>1. <<>> \in Seq(Slots) /\ Len(<<>>) <= QueueSize /\ IsChain(next, <<>>, NULL)
    BY SignalAssumption DEF IsChain
  <2>2. Chain(next, NULL) = <<>>
    BY <2>1, ChainIs
  <2>3. Pending = <<>>
    BY <2>2, CarriedNone DEF Pending, Init
  <2> QED
    BY <2>3 DEF Init, Promise!Start
<1>2. SignalInv /\ SignalInv' /\ [Next]_vars => [Promise!Queueing]_(Promise!avars)
  <2>1. CASE UNCHANGED vars
    BY <2>1 DEF vars, list, handling, counts, Promise!avars, Pending
  <2> QED
    BY <2>1, QueueStep
<1> QED
  BY <1>1, <1>2, SignalInvariant, PTL DEF Spec, KeepsPromise, Promise!QueueSpec
================================================================================
