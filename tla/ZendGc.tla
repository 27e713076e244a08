-------------------------------- MODULE ZendGc --------------------------------
(***************************************************************************)
(* Reference counting and the cycle collector of the Zend engine           *)
(* (Zend/zend_gc.c, with the release of a value in zend_variables.h, the   *)
(* assignment in zend_execute.h and the object store of                    *)
(* zend_objects_API.c).                                                    *)
(*                                                                         *)
(* A PHP script holds objects in variables and in the properties of other  *)
(* objects.  Main stands for the symbol table: its slots are variables and *)
(* it is never collected.  Releasing a reference frees the object when its *)
(* count drops to 0 and otherwise records it as a possible root of a       *)
(* garbage cycle.  A collection (on request, or when the root buffer is    *)
(* full) finds the cycles by trial deletion, runs the destructors of what  *)
(* it found, which are script code again, and frees the rest.              *)
(*                                                                         *)
(* C calls that may run script code before they return are items of an     *)
(* explicit stack, whose head is what the engine does next; the script     *)
(* moves when the stack is empty or a destructor is on top of it.          *)
(***************************************************************************)
EXTENDS Naturals, SequencesExt

CONSTANTS
  Obj,         \* the objects that can exist
  Main,        \* the symbol table
  Nil,         \* no object; also the end of a list
  Slots,       \* the properties of an object: 1..n
  Vars,        \* the slots of Main that are variables
  Capacity,    \* GC_ROOT_BUFFER_MAX_ENTRIES - 1
  HasDtor,     \* the objects whose class has a destructor
  DtorMoves    \* what destructors do, see Moves

VARIABLES
  st,          \* "free", "valid" or "freeing" (IS_OBJ_FREE_CALLED)
  ref,         \* the reference in each slot of each object and of Main
  rc,          \* GC_REFCOUNT
  color,       \* the colour bits of GC_INFO
  called,      \* the objects with IS_OBJ_DESTRUCTOR_CALLED
  roots,       \* GC_G(roots), a list of objects
  extra,       \* the listed objects whose entry is in an additional buffer
  nextFree,    \* GC_G(next_to_free), by the object of the entry
  active,      \* GC_G(gc_active)
  stack        \* the calls in progress, innermost first

vars == <<st, ref, rc, color, called, roots, extra, nextFree, active, stack>>

\* What a script may do: assign to a variable or a property, create an object, ask
\* for a collection.  For destructors, assign a reference to an empty variable and
\* unset a variable are told apart.
Moves == {"assign", "capture", "new", "collect"}

ASSUME Constants ==
  /\ Main \notin Obj /\ Nil \notin Obj /\ Main # Nil
  /\ Slots = 1..Cardinality(Slots) /\ Slots # {}
  /\ Vars \subseteq Slots
  /\ Capacity \in Nat \ {0}
  /\ HasDtor \subseteq Obj /\ DtorMoves \subseteq Moves

Colors == {"black", "grey", "white", "purple"}

Holders == Obj \cup {Main}

--------------------------------------------------------------------------------
(* The stack. *)

\* A call that concerns one object:
\*   release    a reference to o is dropped (i_zval_ptr_dtor)
\*   del        its count is 0 (zend_objects_store_del)
\*   dtor       its destructor runs, o is $this
\*   unhold     a guard taken on its count is given back
\*   delFree    zend_objects_store_del after the destructor
\*   freed      zend_objects_store_del after free_obj
\*   rooted     gc_possible_root after the collection it asked for
Item(op, o) == [op |-> op, o |-> o]

\* An assignment of b to slot s of h that waits for gc_possible_root.
WriteItem(h, s, b) == [op |-> "write", o |-> b, h |-> h, s |-> s]

\* A collection: where it is, its list to free, the counts it remembered and
\* the next_to_free it found.
GcItem == [op |-> "gc", o |-> Nil, pc |-> "mark", list |-> <<>>, saved |-> <<>>, orig |-> Nil]

Top(op) == stack # <<>> /\ Head(stack).op = op

TopGc(pc) == Top("gc") /\ Head(stack).pc = pc

Items == {stack[i] : i \in DOMAIN stack}

Push(items) == stack' = items \o stack

Return(items) == stack' = items \o Tail(stack)

--------------------------------------------------------------------------------
(* The object graph. *)

\* What get_gc reports: the objects in o's properties, in order, unless free_obj
\* was called on it.
Kids(o) ==
  IF st[o] = "valid" THEN SelectSeq([s \in Slots |-> ref[o][s]], LAMBDA x : x # Nil) ELSE <<>>

\* The objects at the end of a path of references that starts in X.
RECURSIVE ReachIn(_, _)
ReachIn(r, X) ==
  LET next == X \cup ({r[x][s] : x \in X, s \in Slots} \ {Nil})
  IN  IF next = X THEN X ELSE ReachIn(r, next)

\* The references that count: free_obj has released those of an object being freed,
\* or is about to.
Refs == [h \in Holders |-> IF h = Main \/ st[h] = "valid" THEN ref[h] ELSE [s \in Slots |-> Nil]]

Reach(X) == ReachIn(Refs, X)

\* The objects script code can name: from the variables and from $this.
Accessible ==
  Reach({Main} \cup {i.o : i \in {j \in Items : j.op = "dtor"}}) \ {Main}

\* The references that point to o from Main and from the objects in X.
References(X, o) == {<<h, s>> \in (X \cup {Main}) \X Slots : ref[h][s] = o}

Valid == {o \in Obj : st[o] = "valid"}

--------------------------------------------------------------------------------
(* The root buffer. *)

ListOf(i) == IF i.op = "gc" THEN Range(i.list) ELSE {}

\* GC_ADDRESS(GC_INFO(o)) # 0
Listed == Range(roots) \cup UNION {ListOf(i) : i \in Items}

Used == Cardinality(Listed \ extra)

\* The entry after o's in the list, if any.
After(list, o) ==
  LET i == CHOOSE j \in DOMAIN list : list[j] = o
  IN  IF o \in Range(list) /\ i < Len(list) THEN list[i + 1] ELSE Nil

Without(list, o) == SelectSeq(list, LAMBDA x : x # o)

\* Mutant: next_to_free keeps the entry that is removed.
RemoveFromBuffer_stale(g, o) ==
  [stack |-> [j \in DOMAIN g.stack |->
                IF g.stack[j].op = "gc" THEN [g.stack[j] EXCEPT !.list = Without(@, o)]
                                        ELSE g.stack[j]],
   roots |-> Without(g.roots, o), extra |-> g.extra \ {o}, next |-> g.next]

\* The lists after gc_remove_from_buffer(o): g holds the stack, the roots, the
\* additional entries and next_to_free.
RemoveFromBuffer(g, o) ==
  LET mine == {i \in {g.stack[j] : j \in DOMAIN g.stack} : o \in ListOf(i)}
      next == IF mine = {} THEN After(g.roots, o) ELSE After((CHOOSE i \in mine : TRUE).list, o)
  IN  [stack |-> [j \in DOMAIN g.stack |->
                    IF g.stack[j].op = "gc" THEN [g.stack[j] EXCEPT !.list = Without(@, o)]
                                            ELSE g.stack[j]],
       roots |-> Without(g.roots, o),
       extra |-> g.extra \ {o},
       next  |-> IF g.next = o THEN next ELSE g.next]

Buffer == [stack |-> stack, roots |-> roots, extra |-> extra, next |-> nextFree]

\* gc_check_possible_root(o) once o's count dropped, with the counts r; then go on
\* with the items.  GC_MAY_LEAK: o has neither an entry nor a colour.
PossibleRoot(r, o, items) ==
  LET leak == o \notin Listed /\ color[o] = "black" /\ ~active
      full == Used >= Capacity
  IN  /\ rc' = IF leak /\ full THEN [r EXCEPT ![o] = @ + 1] ELSE r
      /\ color' = IF leak /\ ~full THEN [color EXCEPT ![o] = "purple"] ELSE color
      /\ roots' = IF leak /\ ~full THEN <<o>> \o roots ELSE roots
      /\ stack' = IF leak /\ full THEN <<GcItem, Item("rooted", o)>> \o items ELSE items

\* Mutant: the guard taken for the collection is kept.
Rooted_held ==
  /\ Top("rooted")
  /\ LET o == Head(stack).o
     IN  /\ color' = [color EXCEPT ![o] = IF o \in Listed THEN @ ELSE "purple"]
         /\ roots' = IF o \in Listed THEN roots ELSE <<o>> \o roots
  /\ Return(<<>>)
  /\ UNCHANGED <<st, ref, rc, called, extra, nextFree, active>>

\* gc_possible_root after its collection.
Rooted ==
  /\ Top("rooted")
  /\ LET o == Head(stack).o
         enter == rc[o] > 1 /\ o \notin Listed /\ color[o] = "black" /\ Used < Capacity
     IN  /\ rc' = [rc EXCEPT ![o] = @ - 1]
         /\ color' = IF enter THEN [color EXCEPT ![o] = "purple"] ELSE color
         /\ roots' = IF enter THEN <<o>> \o roots ELSE roots
         /\ Return(IF rc[o] = 1 THEN <<Item("del", o)>> ELSE <<>>)
  /\ UNCHANGED <<st, ref, called, extra, nextFree, active>>

--------------------------------------------------------------------------------
(* Releasing a value. *)

\* i_zval_ptr_dtor
Release ==
  /\ Top("release")
  /\ LET o == Head(stack).o
         r == [rc EXCEPT ![o] = @ - 1]
     IN  IF r[o] = 0
         THEN /\ rc' = r
              /\ Return(<<Item("del", o)>>)
              /\ UNCHANGED <<color, roots>>
         ELSE PossibleRoot(r, o, Tail(stack))
  /\ UNCHANGED <<st, ref, called, extra, nextFree, active>>

\* zend_objects_store_del up to the call of the destructor, with the guards of
\* this function and of zend_objects_destroy_object.
Del ==
  /\ Top("del")
  /\ LET o == Head(stack).o
         run == o \in HasDtor \ called
     IN  IF st[o] = "valid"
         THEN /\ called' = called \cup {o}
              /\ rc' = [rc EXCEPT ![o] = @ + (IF run THEN 2 ELSE 0)]
              /\ Return((IF run THEN <<Item("dtor", o), Item("unhold", o)>> ELSE <<>>)
                          \o <<Item("delFree", o)>>)
         ELSE Return(<<>>) /\ UNCHANGED <<called, rc>>
  /\ UNCHANGED <<st, ref, color, roots, extra, nextFree, active>>

\* The destructor returns; zend_objects_destroy_object drops its reference.
DtorReturn ==
  /\ Top("dtor")
  /\ Return(<<Item("release", Head(stack).o)>>)
  /\ UNCHANGED <<st, ref, rc, color, called, roots, extra, nextFree, active>>

Unhold ==
  /\ Top("unhold")
  /\ rc' = [rc EXCEPT ![Head(stack).o] = @ - 1]
  /\ Return(<<>>)
  /\ UNCHANGED <<st, ref, color, called, roots, extra, nextFree, active>>

Releases(o) == [i \in DOMAIN Kids(o) |-> Item("release", Kids(o)[i])]

\* zend_objects_store_del from the second test of the count to free_obj, which
\* releases the properties (zend_object_std_dtor).
DelFree ==
  /\ Top("delFree")
  /\ LET o == Head(stack).o
     IN  IF rc[o] = 0
         THEN /\ st' = [st EXCEPT ![o] = "freeing"]
              /\ rc' = [rc EXCEPT ![o] = 1]
              /\ Return(Releases(o) \o <<Item("freed", o)>>)
         ELSE Return(<<>>) /\ UNCHANGED <<st, rc>>
  /\ UNCHANGED <<ref, color, called, roots, extra, nextFree, active>>

\* The memory of the objects in X is given back.
Efree(X) ==
  /\ st' = [o \in Obj |-> IF o \in X THEN "free" ELSE st[o]]
  /\ ref' = [h \in Holders |-> IF h \in X THEN [s \in Slots |-> Nil] ELSE ref[h]]
  /\ rc' = [o \in Obj |-> IF o \in X THEN 0 ELSE rc[o]]
  /\ color' = [o \in Obj |-> IF o \in X THEN "black" ELSE color[o]]
  /\ called' = called \ X

Freed ==
  /\ Top("freed")
  /\ LET g == RemoveFromBuffer([Buffer EXCEPT !.stack = Tail(stack)], Head(stack).o)
     IN  /\ stack' = g.stack /\ roots' = g.roots /\ extra' = g.extra
         /\ nextFree' = IF Head(stack).o \in Listed THEN g.next ELSE nextFree
  /\ Efree({Head(stack).o})
  /\ UNCHANGED active

--------------------------------------------------------------------------------
(* The collection.  No script code runs between two of its first three steps. *)

\* gc_mark_grey: colour grey what o leads to, and take from each object the
\* references that grey objects hold.  g holds the counts and the colours.
RECURSIVE MarkGrey(_, _)
MarkGrey(g, o) ==
  IF g.color[o] = "grey" THEN g
  ELSE FoldLeft(LAMBDA acc, k : MarkGrey([acc EXCEPT !.rc[k] = @ - 1], k),
                [g EXCEPT !.color[o] = "grey"], Kids(o))

\* gc_scan_black: o is in use, with all it leads to; give the references back.
RECURSIVE ScanBlack(_, _)
ScanBlack(g, o) ==
  FoldLeft(LAMBDA acc, k :
             LET given == [acc EXCEPT !.rc[k] = @ + 1]
             IN  IF given.color[k] # "black" THEN ScanBlack(given, k) ELSE given,
           [g EXCEPT !.color[o] = "black"], Kids(o))

\* Mutant: an object in use is coloured black, what it leads to is not.
RECURSIVE Scan_shallow(_, _)
Scan_shallow(g, o) ==
  IF g.color[o] # "grey" THEN g
  ELSE IF g.rc[o] > 0 THEN [g EXCEPT !.color[o] = "black"]
  ELSE FoldLeft(Scan_shallow, [g EXCEPT !.color[o] = "white"], Kids(o))

\* gc_scan
RECURSIVE Scan(_, _)
Scan(g, o) ==
  IF g.color[o] # "grey" THEN g
  ELSE IF g.rc[o] > 0 THEN ScanBlack(g, o)
  ELSE FoldLeft(Scan, [g EXCEPT !.color[o] = "white"], Kids(o))

\* gc_add_garbage: an entry of the buffer while there is one, else an additional one.
AddGarbage(g, o) ==
  [g EXCEPT !.list = <<o>> \o @, !.extra = IF g.used < Capacity THEN @ ELSE @ \cup {o},
            !.used = IF @ < Capacity THEN @ + 1 ELSE @]

\* gc_collect_white: list what o leads to and give the references back.
RECURSIVE CollectWhite(_, _)
CollectWhite(g, o) ==
  IF g.color[o] # "white" THEN g
  ELSE LET black  == [g EXCEPT !.color[o] = "black"]
           listed == IF o \in Listed \/ st[o] # "valid" THEN black ELSE AddGarbage(black, o)
       IN  FoldLeft(LAMBDA acc, k : CollectWhite([acc EXCEPT !.rc[k] = @ + 1], k), listed, Kids(o))

Graph == [rc |-> rc, color |-> color]

\* Mutant: the last entry of the roots is taken for the end of the list.
GcMark_last ==
  /\ TopGc("mark")
  /\ IF Len(roots) <= 1 \/ active
     THEN Return(<<>>) /\ UNCHANGED <<rc, color, active>>
     ELSE LET mark(g, o) == IF g.color[o] = "purple" THEN MarkGrey(g, o) ELSE g
              g == FoldLeft(mark, Graph, roots)
          IN  /\ rc' = g.rc /\ color' = g.color
              /\ active' = TRUE
              /\ Return(<<[GcItem EXCEPT !.pc = "scan"]>>)
  /\ UNCHANGED <<st, ref, called, roots, extra, nextFree>>

\* zend_gc_collect_cycles up to gc_mark_roots
GcMark ==
  /\ TopGc("mark")
  /\ IF roots = <<>> \/ active
     THEN Return(<<>>) /\ UNCHANGED <<rc, color, active>>
     ELSE LET mark(g, o) == IF g.color[o] = "purple" THEN MarkGrey(g, o) ELSE g
              g == FoldLeft(mark, Graph, roots)
          IN  /\ rc' = g.rc /\ color' = g.color
              /\ active' = TRUE
              /\ Return(<<[GcItem EXCEPT !.pc = "scan"]>>)
  /\ UNCHANGED <<st, ref, called, roots, extra, nextFree>>

\* gc_scan_roots
GcScan ==
  /\ TopGc("scan")
  /\ LET g == FoldLeft(Scan, Graph, roots)
     IN  rc' = g.rc /\ color' = g.color
  /\ Return(<<[GcItem EXCEPT !.pc = "collect"]>>)
  /\ UNCHANGED <<st, ref, called, roots, extra, nextFree, active>>

\* gc_collect_roots, the local list to free and the counts to remember.
GcCollect ==
  /\ TopGc("collect")
  /\ LET kept == SelectSeq(roots, LAMBDA o : color[o] # "black")
         gone == Range(roots) \ Range(kept)
         g    == FoldLeft(CollectWhite,
                          [rc |-> rc, color |-> color, list |-> kept, extra |-> extra \ gone,
                           used |-> Cardinality(Listed \ (extra \cup gone))],
                          kept)
         dtor == Range(g.list) \cap HasDtor # {}
     IN  /\ rc' = g.rc /\ color' = g.color /\ extra' = g.extra
         /\ roots' = <<>>
         /\ IF g.list = <<>>
            THEN Return(<<>>) /\ active' = FALSE /\ UNCHANGED nextFree
            ELSE /\ Return(<<[GcItem EXCEPT !.pc = IF dtor THEN "call" ELSE "destroy",
                                            !.list = g.list,
                                            !.saved = [o \in Range(g.list) |-> g.rc[o]],
                                            !.orig = nextFree]>>)
                 /\ nextFree' = Head(g.list)
                 /\ active' = ~dtor
  /\ UNCHANGED <<st, ref, called>>

\* One of the loops over the list to free has reached its end: on to the next.
NextLoop(pc) ==
  /\ nextFree' = IF Head(stack).list = <<>> THEN Nil ELSE Head(Head(stack).list)
  /\ Return(<<[Head(stack) EXCEPT !.pc = pc]>>)

\* Call destructors
GcCall ==
  /\ TopGc("call")
  /\ LET o == nextFree
         run == o \in HasDtor \ called
     IN  IF o = Nil
         THEN NextLoop("remove") /\ UNCHANGED <<called, rc>>
         ELSE /\ nextFree' = After(Head(stack).list, o)
              /\ called' = called \cup {o}
              /\ rc' = [rc EXCEPT ![o] = @ + (IF run THEN 2 ELSE 0)]
              /\ Push(IF run THEN <<Item("dtor", o), Item("unhold", o)>> ELSE <<>>)
  /\ UNCHANGED <<st, ref, color, roots, extra, active>>

\* Mutant: what the captured object leads to stays in the list.
RemoveNested_shallow(g, o) == RemoveFromBuffer(g, o)

\* gc_remove_nested_data_from_buffer(o), which is called with o's own entry in the
\* list to free and without one for what o leads to.
RECURSIVE RemoveNested(_, _)
RemoveNested(g, o) ==
  LET listed == o \in Range(g.roots) \cup UNION {ListOf(g.stack[i]) : i \in DOMAIN g.stack}
  IN  IF listed /\ color[o] = "black"
      THEN FoldLeft(RemoveNested, RemoveFromBuffer(g, o), Kids(o))
      ELSE g

\* Remove values captured in destructors
GcRemove ==
  /\ TopGc("remove")
  /\ LET o == nextFree
         past == [Buffer EXCEPT !.next = After(Head(stack).list, o)]
         g == IF rc[o] > Head(stack).saved[o] THEN RemoveNested(past, o) ELSE past
     IN  IF o = Nil
         THEN NextLoop("destroy") /\ active' = TRUE /\ UNCHANGED <<roots, extra>>
         ELSE /\ stack' = g.stack /\ roots' = g.roots /\ extra' = g.extra
              /\ nextFree' = g.next
              /\ UNCHANGED active
  /\ UNCHANGED <<st, ref, rc, color, called>>

\* Destroy zvals: free_obj releases the properties of the object.
GcDestroy ==
  /\ TopGc("destroy")
  /\ LET o == nextFree
     IN  IF o = Nil
         THEN NextLoop("free") /\ UNCHANGED <<st, rc>>
         ELSE /\ nextFree' = After(Head(stack).list, o)
              /\ st' = [st EXCEPT ![o] = "freeing"]
              /\ rc' = [rc EXCEPT ![o] = @ + 1]
              /\ Push(Releases(o) \o <<Item("unhold", o)>>)
  /\ UNCHANGED <<ref, color, called, roots, extra, active>>

\* Free objects
GcFree ==
  /\ TopGc("free")
  /\ Efree(Range(Head(stack).list))
  /\ extra' = extra \ Range(Head(stack).list)
  /\ nextFree' = Head(stack).orig
  /\ active' = FALSE
  /\ Return(<<>>)
  /\ UNCHANGED roots

--------------------------------------------------------------------------------
(* The script. *)

\* Script code runs: the main script, or a destructor.
Running == stack = <<>> \/ Top("dtor")

May(move) == stack = <<>> \/ (Top("dtor") /\ move \in DtorMoves)

Set(h, s, b) == ref' = [ref EXCEPT ![h][s] = b]

\* Mutant: the value that is overwritten is not checked.
AssignTo_unrooted(h, s, b, r) ==
  LET garbage == ref[h][s]
      dropped == [r EXCEPT ![garbage] = @ - 1]
  IN  /\ Set(h, s, b)
      /\ IF garbage = Nil
         THEN rc' = r /\ UNCHANGED <<color, roots, stack>>
         ELSE /\ rc' = dropped
              /\ Push(IF dropped[garbage] = 0 THEN <<Item("del", garbage)>> ELSE <<>>)
              /\ UNCHANGED <<color, roots>>

\* zend_assign_to_variable: slot s of h takes b; r are the counts with the
\* operand's reference to b.
AssignTo(h, s, b, r) ==
  LET garbage == ref[h][s]
      dropped == [r EXCEPT ![garbage] = @ - 1]
      full    == garbage \notin Listed /\ color[garbage] = "black" /\ ~active /\ Used >= Capacity
  IN  IF garbage = Nil
      THEN rc' = r /\ Set(h, s, b) /\ UNCHANGED <<color, roots, stack>>
      ELSE IF dropped[garbage] = 0
      THEN rc' = dropped /\ Set(h, s, b) /\ Push(<<Item("del", garbage)>>) /\ UNCHANGED <<color, roots>>
      ELSE /\ PossibleRoot(dropped, garbage, (IF full THEN <<WriteItem(h, s, b)>> ELSE <<>>) \o stack)
           /\ IF full THEN UNCHANGED ref ELSE Set(h, s, b)

Held(b) == IF b = Nil THEN rc ELSE [rc EXCEPT ![b] = @ + 1]

Assign(h, s, b) ==
  /\ May("assign")
  /\ AssignTo(h, s, b, Held(b))
  /\ UNCHANGED <<st, called, extra, nextFree, active>>

\* A reference to b is taken into an empty variable.
Capture(s, b) ==
  /\ Top("dtor") /\ May("capture")
  /\ ref[Main][s] = Nil
  /\ AssignTo(Main, s, b, Held(b))
  /\ UNCHANGED <<st, called, extra, nextFree, active>>

\* zend_objects_new, and the result is assigned.
New(h, s, b) ==
  /\ May("new")
  /\ st[b] = "free"
  /\ st' = [st EXCEPT ![b] = "valid"]
  /\ AssignTo(h, s, b, [rc EXCEPT ![b] = 1])
  /\ UNCHANGED <<called, extra, nextFree, active>>

\* gc_collect_cycles()
Collect ==
  /\ May("collect")
  /\ Push(<<GcItem>>)
  /\ UNCHANGED <<st, ref, rc, color, called, roots, extra, nextFree, active>>

\* The rest of an assignment that had to wait for a collection.
Write ==
  /\ Top("write")
  /\ Set(Head(stack).h, Head(stack).s, Head(stack).o)
  /\ Return(<<>>)
  /\ UNCHANGED <<st, rc, color, called, roots, extra, nextFree, active>>

Script ==
  \/ \E h \in Accessible \cup {Main} : \E s \in IF h = Main THEN Vars ELSE Slots :
       \/ \E b \in Accessible \cup {Nil} : Assign(h, s, b)
       \/ \E b \in Obj : New(h, s, b)
  \/ \E s \in Vars, b \in Accessible : Capture(s, b)
  \/ Collect

Collector == GcMark \/ GcScan \/ GcCollect \/ GcCall \/ GcRemove \/ GcDestroy \/ GcFree

Engine == Release \/ Del \/ DelFree \/ Freed \/ DtorReturn \/ Unhold \/ Rooted \/ Write \/ Collector

Next == Script \/ Engine

\* Any heap a script can have built without dropping a reference so far.
Init ==
  /\ ref \in [Holders -> [Slots -> Obj \cup {Nil}]]
  /\ \A s \in Slots \ Vars : ref[Main][s] = Nil
  /\ LET live == ReachIn(ref, {Main}) \ {Main}
     IN  /\ \A o \in Obj \ live, s \in Slots : ref[o][s] = Nil
         /\ st = [o \in Obj |-> IF o \in live THEN "valid" ELSE "free"]
  /\ rc = [o \in Obj |-> Cardinality(References(Obj, o))]
  /\ color = [o \in Obj |-> "black"]
  /\ called = {}
  /\ roots = <<>>
  /\ extra = {}
  /\ nextFree = Nil
  /\ active = FALSE
  /\ stack = <<>>

Spec == Init /\ [][Next]_vars

--------------------------------------------------------------------------------
(* Properties. *)

TypeOK ==
  /\ st \in [Obj -> {"free", "valid", "freeing"}]
  /\ ref \in [Holders -> [Slots -> Obj \cup {Nil}]]
  /\ rc \in [Obj -> Nat]
  /\ color \in [Obj -> Colors]
  /\ called \subseteq Obj /\ extra \subseteq Obj
  /\ nextFree \in Obj \cup {Nil}
  /\ active \in BOOLEAN
  /\ Used <= Capacity

\* The references to o that calls in progress hold.
HeldBy(o) ==
  Cardinality({i \in DOMAIN stack :
    stack[i].o = o /\ stack[i].op \in {"release", "dtor", "unhold", "freed", "rooted", "write"}})

\* Between the trial deletion and its undoing, and while an assignment waits,
\* the counts are deliberately off.
Counting == \/ \E pc \in {"scan", "collect"} : TopGc(pc)
            \/ \E i \in Items : i.op = "write"

\* Every variable has its type, and whatever the collector subtracted it has given
\* back, and a release, a guard or an assignment never loses or invents a reference:
\* GC_REFCOUNT is the number of references that exist (gc_mark_grey, gc_scan_black,
\* gc_collect_white and the guards around dtor_obj and free_obj).
HeapExact ==
  /\ TypeOK
  /\ Counting \/ \A o \in Obj :
       st[o] # "free" => rc[o] = Cardinality(References(Valid, o)) + HeldBy(o)

\* Memory is given back only when nobody will look at it: the engine never works on
\* a freed object, finds none in its lists, and whenever script code runs every reference it can follow leads
\* to an object that is neither freed nor being freed.
NoUseAfterFree ==
  /\ \A i \in Items : i.o # Nil => st[i.o] # "free"
  /\ \A o \in Listed : st[o] # "free"
  /\ nextFree # Nil => nextFree \in Listed
  /\ Running => \A o \in Accessible : st[o] = "valid"

\* What gc_scan leaves white, "Member of garbage cycle", is out of the script's
\* reach, and all that a root leads to and the script cannot reach is white.
WhiteIsGarbage ==
  TopGc("collect") =>
    LET kept == Reach(({Main} \cup {i.o : i \in Items}) \ {Nil})
    IN  {o \in Obj : color[o] = "white"} = {o \in Reach(Range(roots)) : o \notin kept}

\* Garbage is always found by the next collection: an object the script lost is
\* reachable from an entry of the root buffer (i_zval_ptr_dtor and
\* zend_assign_to_variable record each object whose count drops without reaching 0).
GarbageIsRooted ==
  stack = <<>> => Valid \ Accessible \subseteq Reach(Range(roots))

\* A collection is complete: once it has returned to the main script, every object
\* that still exists is in the script's reach.  (A destructor can put an object back
\* and lose it again; the next collection takes that one.)
CollectionComplete ==
  [][Top("gc") /\ Len(stack) = 1 /\ stack' = <<>> /\ called = {}
       => Valid' \subseteq Accessible']_vars

\* "Remove values captured in destructors": when the collection starts to destroy
\* its list, a destructor has not put any object of the list back into the script's
\* reach.
CapturedRemoved ==
  TopGc("destroy") => ListOf(Head(stack)) \cap Reach({Main}) = {}

================================================================================
