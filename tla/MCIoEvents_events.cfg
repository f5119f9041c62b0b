SPECIFICATION FairSpec
CONSTANTS
  Fds = {a, b}
  Types = {"READ"}
  Callbacks = {h1, h2, h3}
  FiberHandlers = {}
  Contexts = {c1, c2}
  Pollers = {p1}
  Removers <- Everybody
  Outsiders <- Nobody
  OneThread = TRUE
  None = None
INVARIANTS
  TypeOK
  PendingExact
  Watched
  FiredOnce
  NothingUndefined
PROPERTY FiresWhenReady
