----------------------------- MODULE OrderedMap -----------------------------
(***************************************************************************)
(* What a PHP array promises its users: a map from keys to values whose    *)
(* keys keep the order in which they were inserted, a current element that *)
(* follows its key, and a next free index.  No buckets, no holes, no hash  *)
(* chains and no table sizes: ZendHash shows that zend_hash.c implements   *)
(* this.                                                                   *)
(***************************************************************************)
EXTENDS Integers, FiniteSets, SequencesExt

CONSTANTS IntKey, StrKey, Val, LongMax, NoKey

VARIABLES order,  \* the keys, in the order of their insertion
          val,    \* the value of each key
          cur,    \* the key of the current element, NoKey past the end
          free    \* the index $a[] = v would use

vars == <<order, val, cur, free>>

Key == IntKey \union StrKey

Has(k) == k \in DOMAIN val

First(s) == IF s = <<>> THEN NoKey ELSE Head(s)

(* The neighbours of a key in the order, NoKey past either end. *)
Neighbour(k, d) ==
    LET i == (CHOOSE j \in 1..Len(order) : order[j] = k) + d
    IN  IF i \in 1..Len(order) THEN order[i] ELSE NoKey

FreeAfter(k) ==
    IF k \in IntKey /\ k >= free
    THEN IF k < LongMax THEN k + 1 ELSE LongMax
    ELSE free

Init == order = <<>> /\ val = <<>> /\ cur = NoKey /\ free = 0

Insert(k, v) ==
    /\ ~Has(k)
    /\ order' = Append(order, k)
    /\ val' = [j \in DOMAIN val \union {k} |-> IF j = k THEN v ELSE val[j]]
    /\ cur' = IF cur = NoKey THEN k ELSE cur
    /\ free' = FreeAfter(k)

Assign(k, v) ==
    /\ Has(k)
    /\ val' = [val EXCEPT ![k] = v]
    /\ UNCHANGED <<order, cur, free>>

Delete(k) ==
    /\ Has(k)
    /\ order' = SelectSeq(order, LAMBDA j : j # k)
    /\ val' = [j \in DOMAIN val \ {k} |-> val[j]]
    /\ cur' = IF cur = k THEN Neighbour(k, 1) ELSE cur
    /\ UNCHANGED free

Clear == order' = <<>> /\ val' = <<>> /\ cur' = NoKey /\ free' = 0

MoveTo(k) == cur' = k /\ UNCHANGED <<order, val, free>>

Move ==
    \/ MoveTo(First(order))
    \/ MoveTo(First(Reverse(order)))
    \/ cur # NoKey /\ \E d \in {-1, 1} : MoveTo(Neighbour(cur, d))

(* asort() and its kin put the same elements in another order; sort() and  *)
(* its kin also number the values from zero.                               *)
Sort ==
    /\ Len(order') = Len(order)
    /\ ToSet(order') = ToSet(order)
    /\ cur' = First(order')
    /\ UNCHANGED <<val, free>>

Holders(f, v) == Cardinality({k \in DOMAIN f : f[k] = v})

Renumber ==
    /\ order # <<>>
    /\ order' = [i \in 1..Len(order) |-> i - 1]
    /\ DOMAIN val' = ToSet(order')
    /\ \A v \in Val : Holders(val', v) = Holders(val, v)
    /\ cur' = 0
    /\ free' = Len(order)

Next ==
    \/ Sort
    \/ Renumber
    \/ Move
    \/ Clear
    \/ \E k \in DOMAIN val : Delete(k)
    \/ \E k \in DOMAIN val, v \in Val : Assign(k, v)
    \/ \E k \in Key, v \in Val : Insert(k, v)

Spec == Init /\ [][Next]_vars
=============================================================================
