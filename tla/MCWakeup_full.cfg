SPECIFICATION Spec
CONSTANTS
  w1 = w1
  bound = none
  Workers = {w1, w2}
  Main = main
  CallerJoin = FALSE
  Jobs = {a, b, c}
  Timed = {}
  Empty = {}
  BoundTo <- MCBoundTo
  Capacity = 2
  MaxYield <- MCMaxYield
  None = none
CHECK_DEADLOCK FALSE
INVARIANT TickleReturns
