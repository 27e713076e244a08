SPECIFICATION Spec
CONSTANTS
  w1 = w1
  w2 = w2
  Workers <- TwoWorkers
  MaxRequests = 1
  MaxKills = 1
  Terminate = TRUE
  Slowlog = TRUE
  MayStop = TRUE
CHECK_DEADLOCK FALSE
SYMMETRY Slots
INVARIANTS NoLostRequest SlotLockOwned SlowOnce
PROPERTY TimeoutSound
