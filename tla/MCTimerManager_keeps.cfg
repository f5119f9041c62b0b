SPECIFICATION Spec
CONSTANTS
  x1 = x1
  x2 = x2
  x3 = x3
  Timers = {x1, x2, x3}
  Pollers = {p1}
  Ms <- Periods
  Repeats = {}
  MaxTimeOut = 2
  MaxClock = 3
  None = None
INVARIANT KeepsTimers
