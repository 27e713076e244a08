------------------------------ MODULE ZendHash ------------------------------
(***************************************************************************)
(* PHP's array, Zend/zend_hash.c: one table of buckets in insertion order, *)
(* packed (the index of a bucket is its key) or hashed (collision chains   *)
(* run through the buckets), with its internal pointer and the iterators   *)
(* that foreach by reference keeps on it.                                  *)
(*                                                                         *)
(* Deleting leaves holes; the table is compacted when it is full and has   *)
(* holes, doubled when it is full without, and turned from packed to hash  *)
(* when a key does not fit.  Every one of these moves buckets under the    *)
(* chains, the internal pointer and the iterators.                         *)
(***************************************************************************)
EXTENDS Integers, FiniteSetsExt, SequencesExt

CONSTANTS IntKey,     \* integer keys, a set of integers
          StrKey,     \* string keys
          StrHash,    \* the hash of each string key
          Val,        \* values
          Iter,       \* foreach loops by reference over the table
          NoKey,      \* no key
          MinSize,    \* HT_MIN_SIZE
          MaxSize,    \* HT_MAX_SIZE
          LongMax,    \* ZEND_LONG_MAX
          Assigned,   \* the keys the script assigns to explicitly
          Ops         \* the other operations the script uses

ASSUME SizesArePowers == {MinSize, MaxSize} \subseteq {2, 4, 8, 16}

Key == IntKey \union StrKey

ASSUME KeysAreKeys == Assigned \subseteq Key

INVALID == -1           \* HT_INVALID_IDX: larger than every index
Detached == -2          \* an iterator that is on no table

Hole == [k |-> NoKey, v |-> NoKey, next |-> INVALID]  \* an IS_UNDEF bucket

VARIABLES ht,     \* the table
          due     \* history: the keys each loop still has to visit

vars == <<ht, due>>

-----------------------------------------------------------------------------
(* Reading the table. *)

Used(t) == Cardinality(DOMAIN t.ar)

IsUsed(t, i) == i \in DOMAIN t.ar /\ t.ar[i] # Hole

Live(t) == {i \in DOMAIN t.ar : IsUsed(t, i)}

(* The used buckets, in their order. *)
Buckets(t) == SelectSeq([n \in 1..Used(t) |-> t.ar[n - 1]], LAMBDA b : b # Hole)

(* zend_ulong comparisons: a negative key is larger than every size. *)
Below(k, n) == k \in IntKey /\ k >= 0 /\ k < n

(* h | nTableMask, as an offset into the hash part. *)
Slot(t, k) == (IF k \in IntKey THEN k ELSE StrHash[k]) % t.size

HashReset(t) == [t EXCEPT !.hash = [s \in 0..(t.size - 1) |-> INVALID]]

RECURSIVE FindFrom(_, _, _)
FindFrom(t, i, k) ==
    IF i = INVALID \/ t.ar[i].k = k THEN i ELSE FindFrom(t, t.ar[i].next, k)

(* The bucket of key k, INVALID if there is none: indexed when packed,     *)
(* along the collision chain otherwise.  The hash part of a packed table   *)
(* is empty, so no string is found in one.                                 *)
Find(t, k) ==
    IF t.packed
    THEN IF Below(k, Used(t)) /\ t.ar[k] # Hole THEN k ELSE INVALID
    ELSE IF ~t.inited THEN INVALID
    ELSE FindFrom(t, t.hash[Slot(t, k)], k)

(* The first used bucket from i on. *)
FirstFrom(t, i) ==
    LET S == {j \in Live(t) : j >= i} IN IF S = {} THEN INVALID ELSE Min(S)

LastBefore(t, i) ==
    LET S == {j \in Live(t) : j < i} IN IF S = {} THEN INVALID ELSE Max(S)

(* zend_hash_iterators_update. *)
IteratorsUpdate(t, from, to) ==
    [t EXCEPT !.iters = [i \in Iter |-> IF @[i] = from THEN to ELSE @[i]]]

-----------------------------------------------------------------------------
(* Rehashing, resizing, converting. *)

(* The iterators a compaction moves.  The loop looks for one position at a *)
(* time, the smallest first, and goes on to the next only when it has met  *)
(* that one on a used bucket behind the first hole.                        *)
Met(t, pos) ==
    LET hole == Min(DOMAIN t.ar \ Live(t))
    IN  \A q \in {t.iters[i] : i \in Iter} \ {INVALID, Detached} :
            q <= pos => q > hole /\ IsUsed(t, q)

(* zend_hash_rehash: drop the holes and build the chains anew.  Buckets    *)
(* enter the chains in order, each at the head, so a bucket is followed by *)
(* the last one before it in the same slot.                                *)
Rehash(t) ==
    LET live   == Live(t)
        to(i)  == Cardinality({j \in live : j < i})
        from   == [j \in 0..(Cardinality(live) - 1) |->
                      CHOOSE i \in live : to(i) = j]
        last(s, n) == LET S == {j \in 0..(n - 1) : Slot(t, t.ar[from[j]].k) = s}
                      IN  IF S = {} THEN INVALID ELSE Max(S)
        moves(pos) == live # DOMAIN t.ar /\ pos \in live /\ Met(t, pos)
    IN  [t EXCEPT
          !.ar    = [j \in DOMAIN from |->
                        [t.ar[from[j]] EXCEPT
                            !.next = last(Slot(t, t.ar[from[j]].k), j)]],
          !.hash  = [s \in 0..(t.size - 1) |-> last(s, Cardinality(live))],
          !.ip    = IF @ \in live THEN to(@) ELSE @,
          !.iters = [i \in Iter |-> IF moves(@[i]) THEN to(@[i]) ELSE @[i]]]

PackedToHash(t) == Rehash([t EXCEPT !.packed = FALSE])

(* zend_hash_do_resize, when the table is full. *)
IfFullDoResize(t) ==
    IF Used(t) < t.size THEN t
    ELSE IF Used(t) > t.num + (t.num \div 32) THEN Rehash(t)
    ELSE Rehash([t EXCEPT !.size = 2 * @])

(* zend_hash_real_init_ex. *)
RealInit(t, packed) ==
    LET u == [t EXCEPT !.inited = TRUE, !.packed = packed]
    IN  IF packed THEN u ELSE HashReset(u)

-----------------------------------------------------------------------------
(* Adding. *)

FreeAfter(t, k) ==
    IF k \in IntKey /\ k >= t.free
    THEN IF k < LongMax THEN k + 1 ELSE LongMax
    ELSE t.free

(* Mutant: loops past the end are not told of the new element. *)
Count_silent(t, k, idx) ==
    [t EXCEPT !.num = @ + 1, !.ip = IF @ = INVALID THEN idx ELSE @,
              !.free = FreeAfter(t, k)]

(* What both kinds of table do for a bucket that appears at idx. *)
Count(t, k, idx) ==
    IteratorsUpdate(
        [t EXCEPT !.num = @ + 1, !.ip = IF @ = INVALID THEN idx ELSE @,
                  !.free = FreeAfter(t, k)],
        INVALID, idx)

(* add_to_hash. *)
AddToHash(t, k, v) ==
    LET idx == Used(t)
        b   == [k |-> k, v |-> v, next |-> t.hash[Slot(t, k)]]
    IN  [Count(t, k, idx) EXCEPT
            !.ar = [i \in 0..idx |-> IF i = idx THEN b ELSE t.ar[i]],
            !.hash[Slot(t, k)] = idx]

(* add_to_packed: the buckets skipped are holes. *)
AddToPacked(t, k, v) ==
    LET b == [k |-> k, v |-> v, next |-> INVALID]
    IN  [Count(t, k, k) EXCEPT
            !.ar = [i \in 0..k |-> IF i = k THEN b
                                   ELSE IF i < Used(t) THEN t.ar[i] ELSE Hole]]

(* _zend_hash_add_or_update_i for a key that is not in the table.          *)
AddString(t, k, v) ==
    IF ~t.inited THEN AddToHash(RealInit(t, FALSE), k, v)
    ELSE IF t.packed THEN AddToHash(IfFullDoResize(PackedToHash(t)), k, v)
    ELSE AddToHash(IfFullDoResize(t), k, v)

(* Mutant: a hole of a packed table is filled in place. *)
AddIndex_in_place(t, k, v) ==
    IF ~t.inited
    THEN IF Below(k, t.size) THEN AddToPacked(RealInit(t, TRUE), k, v)
         ELSE AddToHash(RealInit(t, FALSE), k, v)
    ELSE IF t.packed /\ Below(k, Used(t))
    THEN [Count(t, k, k) EXCEPT !.ar[k] = [k |-> k, v |-> v, next |-> INVALID]]
    ELSE IF t.packed /\ Below(k, t.size)
    THEN AddToPacked(t, k, v)
    ELSE AddString(t, k, v)

(* _zend_hash_index_add_or_update_i for a key that is not in the table: a  *)
(* key in a hole of a packed table would come out of order, and one far    *)
(* beyond its end would waste space, so both convert the table.            *)
AddIndex(t, k, v) ==
    LET grows == Below(k, 2 * t.size) /\ t.size \div 2 < t.num
    IN  IF ~t.inited
        THEN IF Below(k, t.size) THEN AddToPacked(RealInit(t, TRUE), k, v)
             ELSE AddToHash(RealInit(t, FALSE), k, v)
        ELSE IF t.packed /\ ~Below(k, Used(t)) /\ Below(k, t.size)
        THEN AddToPacked(t, k, v)
        ELSE IF t.packed /\ ~Below(k, Used(t)) /\ grows
        THEN AddToPacked([t EXCEPT !.size = 2 * @], k, v)
        ELSE IF t.packed
        THEN AddToHash(IfFullDoResize(PackedToHash(t)), k, v)
        ELSE AddToHash(IfFullDoResize(t), k, v)

Add(t, k, v) == IF k \in IntKey THEN AddIndex(t, k, v) ELSE AddString(t, k, v)

(* A new key is due in every loop that is under way. *)
DueAfterAdd(k) ==
    [i \in Iter |-> IF ht.iters[i] = Detached THEN due[i] ELSE due[i] \union {k}]

-----------------------------------------------------------------------------
(* The operations. *)

Init ==
    /\ ht = [inited |-> FALSE, packed |-> FALSE, size |-> MinSize, ar |-> <<>>,
             hash |-> <<>>, num |-> 0, ip |-> INVALID, free |-> 0,
             iters |-> [i \in Iter |-> Detached]]
    /\ due = [i \in Iter |-> {}]

(* $a[k] = v, zend_hash_update and zend_hash_index_update.  A table that   *)
(* would exceed HT_MAX_SIZE is a fatal error: the script ends.             *)
Update(k, v) ==
    LET i == Find(ht, k)
    IN  /\ k \in Assigned
        /\ IF i # INVALID
           THEN /\ ht' = [ht EXCEPT !.ar[i].v = v, !.free = FreeAfter(ht, k)]
                /\ UNCHANGED due
           ELSE /\ ht' = Add(ht, k, v)
                /\ ht'.size <= MaxSize
                /\ due' = DueAfterAdd(k)

(* $a[] = v, zend_hash_next_index_insert: fails when the index is taken,   *)
(* which happens only after ZEND_LONG_MAX has been used.                   *)
NextInsert(v) ==
    LET k == ht.free
    IN  /\ "next" \in Ops
        /\ k \in IntKey
        /\ Find(ht, k) = INVALID
        /\ ht' = Add(ht, k, v)
        /\ ht'.size <= MaxSize
        /\ due' = DueAfterAdd(k)

(* Mutant: every bucket is taken to be the head of its chain. *)
Unlink_head(t, i) ==
    IF t.packed THEN t ELSE [t EXCEPT !.hash[Slot(t, t.ar[i].k)] = t.ar[i].next]

(* Take bucket i out of its chain, _zend_hash_del_el_ex with the prev its  *)
(* callers found.                                                          *)
Unlink(t, i) ==
    LET s    == Slot(t, t.ar[i].k)
        prev == {j \in Live(t) : t.ar[j].next = i}
    IN  IF t.packed THEN t
        ELSE IF prev = {} THEN [t EXCEPT !.hash[s] = t.ar[i].next]
        ELSE [t EXCEPT !.ar[CHOOSE j \in prev : TRUE].next = t.ar[i].next]

(* The last bucket goes with the holes before it; another becomes a hole.  *)
Vacate(t, i) ==
    [t EXCEPT !.ar =
        IF i = Used(t) - 1
        THEN [j \in 0..LastBefore(t, i) |-> t.ar[j]]
        ELSE [t.ar EXCEPT ![i] = Hole]]

(* Mutant: a loop that was on the bucket starts again. *)
DelEl_back(t, i) ==
    LET u   == [Vacate(Unlink(t, i), i) EXCEPT !.num = @ - 1]
        new == FirstFrom(u, i + 1)
    IN  IteratorsUpdate([u EXCEPT !.ip = IF @ = i THEN new ELSE @], i, 0)

(* _zend_hash_del_el_ex: what was on the bucket goes to the next used one. *)
DelEl(t, i) ==
    LET u   == [Vacate(Unlink(t, i), i) EXCEPT !.num = @ - 1]
        new == FirstFrom(u, i + 1)
    IN  IteratorsUpdate([u EXCEPT !.ip = IF @ = i THEN new ELSE @], i, new)

(* unset($a[k]), zend_hash_del and zend_hash_index_del. *)
Del(k) ==
    LET i == Find(ht, k)
    IN  /\ "del" \in Ops
        /\ i # INVALID
        /\ ht' = DelEl(ht, i)
        /\ due' = [j \in Iter |-> due[j] \ {k}]

(* zend_hash_clean: the table keeps its size and its kind. *)
Clean ==
    /\ "clean" \in Ops
    /\ LET t == [ht EXCEPT !.ar = <<>>, !.num = 0, !.free = 0, !.ip = INVALID]
       IN  ht' = IF Used(ht) > 0 /\ ~ht.packed THEN HashReset(t) ELSE t
    /\ due' = [i \in Iter |-> {}]

(* reset(), end(), next() and prev(). *)
MovePointer ==
    /\ "pointer" \in Ops
    /\ \E to \in {FirstFrom(ht, 0), LastBefore(ht, Used(ht))} \union
                 (IF ht.ip = INVALID THEN {}
                  ELSE {FirstFrom(ht, ht.ip + 1), LastBefore(ht, ht.ip)}) :
          ht' = [ht EXCEPT !.ip = to]
    /\ UNCHANGED due

(* zend_hash_sort_ex has put the elements into the order s: they are       *)
(* numbered anew or keep their keys.                                       *)
Sorted(t, s, renumber) ==
    LET u == [t EXCEPT
                !.ar = [j \in 0..(Len(s) - 1) |->
                          [s[j + 1] EXCEPT !.k = IF renumber THEN j ELSE @, !.next = INVALID]],
                !.ip = 0]
    IN  IF renumber
        THEN [u EXCEPT !.packed = TRUE, !.hash = <<>>, !.free = Len(s)]
        ELSE IF t.packed THEN PackedToHash(u) ELSE Rehash(u)

(* With any comparison function: the elements in any order. *)
Sort(renumber) ==
    /\ "sort" \in Ops
    /\ ht.num > (IF renumber THEN 0 ELSE 1)
    /\ LET b == Buckets(ht)
       IN  \E p \in Permutations(DOMAIN b) :
             ht' = Sorted(ht, [n \in DOMAIN b |-> b[p[n]]], renumber)
    /\ due' = [i \in Iter |-> IF ht.iters[i] < 0 THEN {}
                              ELSE {ht'.ar[j].k : j \in {n \in Live(ht') : n >= ht.iters[i]}}]

(* FE_RESET_RW: a loop by reference begins. *)
FeReset(i) ==
    /\ ht.iters[i] = Detached
    /\ ht' = [ht EXCEPT !.iters[i] = 0]
    /\ due' = [due EXCEPT ![i] = {ht.ar[j].k : j \in Live(ht)}]

(* The bucket the next FE_FETCH_RW of loop i takes. *)
Fetched(i) ==
    IF ht.iters[i] = INVALID THEN INVALID ELSE FirstFrom(ht, ht.iters[i])

(* FE_FETCH_RW: the position goes to the next bucket, used or not. *)
FeFetch(i) ==
    LET pos == Fetched(i)
    IN  /\ ht.iters[i] # Detached
        /\ pos # INVALID
        /\ ht' = [ht EXCEPT !.iters[i] =
                    IF pos + 1 >= Used(ht) THEN INVALID ELSE pos + 1]
        /\ due' = [due EXCEPT ![i] = @ \ {ht.ar[pos].k}]

(* FE_FREE, at the end of the loop or at a break. *)
FeFree(i) ==
    /\ ht.iters[i] # Detached
    /\ ht' = [ht EXCEPT !.iters[i] = Detached]
    /\ due' = [due EXCEPT ![i] = {}]

Next ==
    \/ \E k \in Key, v \in Val : Update(k, v)
    \/ \E v \in Val : NextInsert(v)
    \/ \E k \in Key : Del(k)
    \/ Clean
    \/ MovePointer
    \/ \E renumber \in BOOLEAN : Sort(renumber)
    \/ \E i \in Iter : FeReset(i) \/ FeFetch(i) \/ FeFree(i)

Spec == Init /\ [][Next]_vars

-----------------------------------------------------------------------------
(* Properties. *)

Index == 0..(MaxSize - 1)

(* The keys, in the order of the buckets. *)
Order == LET b == Buckets(ht) IN [n \in 1..Len(b) |-> b[n].k]

(* Buckets, hash part, pointer and iterators keep their types, and the     *)
(* table never holds more buckets than it has room for.                    *)
TypeOK ==
    /\ ht.inited \in BOOLEAN /\ ht.packed \in BOOLEAN
    /\ ht.size \in {MinSize, MaxSize} \union Index
    /\ DOMAIN ht.ar \subseteq 0..(ht.size - 1)
    /\ \A i \in DOMAIN ht.ar :
          \/ ht.ar[i] = Hole
          \/ ht.ar[i] \in [k : Key, v : Val, next : Index \union {INVALID}]
    /\ \A s \in DOMAIN ht.hash : ht.hash[s] \in Index \union {INVALID}
    /\ ht.num \in 0..MaxSize
    /\ ht.ip \in Index \union {INVALID}
    /\ ht.iters \in [Iter -> Index \union {INVALID, Detached}]
    /\ due \in [Iter -> SUBSET Key]

(* nNumOfElements is the number of used buckets, the bucket before         *)
(* nNumUsed is used, and the internal pointer is on a used bucket or past  *)
(* the end.  zend_hash_do_resize decides between compacting and doubling,  *)
(* and zend_hash_rehash whether there are holes at all, by comparing the   *)
(* two counts; deletion, compaction and sorting each maintain them in      *)
(* their own way.                                                          *)
CountsAgree ==
    /\ ht.num = Cardinality(Live(ht))
    /\ Used(ht) > 0 => IsUsed(ht, Used(ht) - 1)
    /\ ht.ip # INVALID => IsUsed(ht, ht.ip)

(* Every chain of a hash table runs over exactly the used buckets of its   *)
(* slot, newest first, and a packed table holds each key at its own index: *)
(* no deletion, compaction, resizing or conversion leaves a link to a      *)
(* bucket that moved or went away.                                         *)
ChainsExact ==
    LET before(i) == LastBefore([ht EXCEPT !.ar = [j \in DOMAIN ht.ar |->
                        IF ht.ar[j] # Hole /\ Slot(ht, ht.ar[j].k) = i[1]
                        THEN ht.ar[j] ELSE Hole]], i[2])
    IN  IF ht.packed THEN \A i \in Live(ht) : ht.ar[i].k = i
        ELSE ht.inited =>
          /\ \A s \in 0..(ht.size - 1) : ht.hash[s] = before(<<s, Used(ht)>>)
          /\ \A i \in Live(ht) :
                ht.ar[i].next = before(<<Slot(ht, ht.ar[i].k), i>>)

(* The table is intact: types, counts, internal pointer and chains, after  *)
(* every insertion, deletion, compaction, growth, conversion and sort.     *)
Intact == TypeOK /\ CountsAgree /\ ChainsExact

(* The first key in the order of the table that loop i still has to visit. *)
FirstDue(i) ==
    LET S == {j \in Live(ht) : ht.ar[j].k \in due[i]}
    IN  IF S = {} THEN INVALID ELSE Min(S)

(* The bucket that the next FE_FETCH_RW of loop i takes is the first one   *)
(* that the loop still has to visit.                                       *)
InStep(i) == ht.iters[i] # Detached => Fetched(i) = FirstDue(i)

(* A loop by reference visits every element once, in the order of the      *)
(* array, the ones appended while it runs included: as long as the table   *)
(* has no holes, the position is inside it or past its end and the table   *)
(* is only added to, no growth and no conversion takes the loop away from  *)
(* the first element that it still has to visit.                           *)
LoopsVisitAll ==
    [][\A i \in Iter :
          /\ ht.iters[i] # Detached /\ ht'.iters[i] # Detached
          /\ ht.iters[i] < Used(ht)
          /\ ht.num = Used(ht) /\ IsPrefix(Order, Order')
          /\ InStep(i)
          => InStep(i)']_vars

(* The same whatever the body of the loop does. *)
LoopsInStep == \A i \in Iter : InStep(i)

(* A loop by reference never visits an element a second time, whatever its *)
(* body deletes, appends or empties: buckets only move towards the front,  *)
(* so a position left behind by a move may skip elements, not repeat them. *)
NeverTwice ==
    \A i \in Iter :
        ht.iters[i] # Detached /\ Fetched(i) # INVALID =>
            ht.ar[Fetched(i)].k \in due[i]

(* Appending with $a[] or array_push keeps the place of every loop that    *)
(* has not reached the end: the element it visits next is the same before  *)
(* and after, even when the append compacts the table.                     *)
PushKeepsPlace ==
    [][(\E v \in Val : NextInsert(v)) =>
          \A i \in Iter :
              ht.iters[i] # Detached /\ Fetched(i) # INVALID =>
                  Fetched(i)' # INVALID /\
                  ht'.ar[Fetched(i)'].k = ht.ar[Fetched(i)].k]_vars

(* The value that a lookup finds for each key it finds. *)
Content(t) ==
    LET at == [k \in Key |-> Find(t, k)]
    IN  [k \in {j \in Key : at[j] # INVALID} |-> t.ar[at[k]].v]

Array == INSTANCE OrderedMap WITH
    order <- Order,
    val   <- Content(ht),
    cur   <- IF ht.ip = INVALID THEN NoKey ELSE ht.ar[ht.ip].k,
    free  <- ht.free

(* The table implements an ordered map: lookups through the index or the   *)
(* chains find exactly the keys inserted and not deleted, with the value   *)
(* last assigned, in the order of insertion, through every resize,         *)
(* compaction and conversion; the current element follows its key, and     *)
(* the next free index is above every integer key there has been.          *)
ImplementsMap == Array!Spec
=============================================================================
