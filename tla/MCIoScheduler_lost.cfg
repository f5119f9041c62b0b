SPECIFICATION IoSpec
CONSTANTS
  Workers = {w1}
  Root = root
  CallerJoin = TRUE
  j1 = j1
  s1 = s1
  s2 = s2
  k1 = k1
  k2 = k2
  Jobs = {j1, s1, k1}
  Sleepers = {s1}
  WakerOf <- Callbacks
  Fibers = {f1, f2, f3}
  ThreadIdOf <- NoPins
  MaxYield = 1
  None = None
INVARIANT NoSleeperLost
