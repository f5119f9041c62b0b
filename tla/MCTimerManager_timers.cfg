SPECIFICATION FairSpec
CONSTANTS
  x1 = x1
  x2 = x2
  x3 = x3
  Timers = {x1, x2, x3}
  Pollers = {p1, p2}
  Ms <- Periods
  Repeats = {x1}
  MaxTimeOut = 2
  MaxClock = 2
  None = None
INVARIANTS
  TypeOK
  KeysDistinct
  SomeoneWatches
PROPERTY DueIsCollected
