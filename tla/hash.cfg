SPECIFICATION Spec
CONSTANTS
  a = a
  IntKey <- Ints
  StrKey = {a}
  StrHash <- Hashes
  Val = {1}
  Iter = {i1}
  NoKey = NoKey
  MinSize = 2
  MaxSize = 4
  LongMax = 3
  Assigned = {0, 2, a}
  Ops = {"next", "del", "clean", "pointer", "sort"}
INVARIANTS Intact NeverTwice
PROPERTIES LoopsVisitAll ImplementsMap
