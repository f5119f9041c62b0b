SPECIFICATION Spec
CONSTANTS
  Workers = {w1, w2}
  Root = root
  CallerJoin = FALSE
  j1 = j1
  Jobs = {j1, j2}
  Fibers = {f1, f2}
  ThreadIdOf <- NoPins
  MaxYield = 1
  None = None
INVARIANT ActiveCountExact
