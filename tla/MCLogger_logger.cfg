SPECIFICATION Spec
CONSTANTS
  Threads = {t1, t2}
  Lines = {first, second}
  Levels = {2, 3}
  LevelOf <- MCLevelOf
  Console = {console}
  Files = {file}
  Formats = {f}
  DaySeconds = 3
  DayLengths = {2, 3, 4}
  ClockChange = 1
  Days = 2
  None = none
SYMMETRY Interchangeable
CHECK_DEADLOCK FALSE
INVARIANT TypeOK
INVARIANT IteratorValid
INVARIANT SameOrder
INVARIANT OneFilePerDay
PROPERTY DayFits
