SPECIFICATION FairSpec
CONSTANTS
  c1 = c1
  c2 = c2
  c3 = c3
  Children <- TwoChildren
  MaxDeaths = 2
INVARIANTS  OnlyBurialInvalidates
PROPERTY EveryDeathBuried
PROPERTY EverythingRead
CHECK_DEADLOCK FALSE
