SPECIFICATION FairSpec
CONSTANTS
  term = term
  usr = usr
  Signals <- TwoSignals
  Fatal <- TermKills
  QueueSize = 2
  MaxArrivals = 4
  MaxNest = 2
  MaxBailouts = 1
INVARIANT ListsPartition
 
PROPERTY OutsideSections
PROPERTY KeepsPromise
PROPERTY DeferredHandled
CHECK_DEADLOCK FALSE
