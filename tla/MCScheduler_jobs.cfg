SPECIFICATION FairSpec
CONSTANTS
  Workers = {w1}
  Root = root
  CallerJoin = TRUE
  j1 = j1
  Jobs = {j1, j2}
  Fibers = {f1, f2}
  ThreadIdOf <- PinWorker
  MaxYield = 1
  None = None
INVARIANT TypeOK
INVARIANT Exclusive
INVARIANT AssertionsHold
INVARIANT NoJobLeftBehind
PROPERTY ImplementsPool
PROPERTY JobsComplete
