\* Two objects, one of them with a destructor, and a root buffer of one entry.
CONSTANTS
  o1 = o1
  o2 = o2
  Main = Main
  Nil = Nil
  Obj <- TwoObjects
  Slots <- TwoSlots
  Vars <- TwoSlots
  Capacity = 1
  HasDtor <- OneObject
  DtorMoves <- Capturing
SPECIFICATION Spec
INVARIANTS HeapExact  WhiteIsGarbage  
 
