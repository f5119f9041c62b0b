SPECIFICATION IoFairSpec
CONSTANTS
  Workers = {w1}
  Root = root
  CallerJoin = FALSE
  j1 = j1
  s1 = s1
  s2 = s2
  k1 = k1
  k2 = k2
  Jobs = {j1, s1, s2, k1, k2}
  Sleepers = {s1, s2}
  WakerOf <- Callbacks
  Fibers = {f1, f2, f3, f4}
  ThreadIdOf <- NoPins
  MaxYield = 1
  None = None
INVARIANTS
  IoTypeOK
  NoSleeperLost
PROPERTIES
  SleepersReturn
  StopCompletes
