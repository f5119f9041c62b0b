SPECIFICATION FairSpec
CONSTANTS
  w1 = w1
  bound = bound
  Workers = {w1}
  Main = main
  CallerJoin = TRUE
  Jobs = {free, bound, timed, empty}
  Timed = {timed, empty}
  Empty = {empty}
  BoundTo <- MCBoundTo
  Capacity = 2
  MaxYield <- MCMaxYield
  None = none
CHECK_DEADLOCK FALSE
INVARIANT TypeOK
INVARIANT WokenForWork
PROPERTY JobsRun
PROPERTY StopEnds
