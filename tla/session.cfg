SPECIFICATION Spec
CONSTANTS
    Proc = {p1, p2}
    Id = {a, b}
    NoId = NoId
    Inode = {f1, f2, f3, f4}
    NoFile = NoFile
    NoProc = NoProc
    MaxItems = 1
    Strict = FALSE
    Ops = {"add", "unset", "abort", "destroy", "reset", "regenerate", "gc", "create_id"}
SYMMETRY Symmetry
INVARIANTS   LockIffHolding 
VIEW View
