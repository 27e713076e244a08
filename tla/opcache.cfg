SPECIFICATION Spec
CONSTANTS
  p1 = p1
  p2 = p2
  p3 = p3
  Nobody = Nobody
  Procs <- TwoProcs
  Foreign <- OneForeign
  Forced = TRUE
  MaxScheduled = 2
  MaxCrashes = 1
INVARIANT OneRestart
INVARIANT RestartWaits
