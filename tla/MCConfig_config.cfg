SPECIFICATION Spec
CONSTANTS
  Threads = {t1, t2}
  v1 = v1
  v2 = v2
  y1 = y1
  y2 = y2
  n1 = n1
  n2 = n2
  Vars = {v1, v2}
  VarTypes = {y1, y2}
  TypeOf <- OwnTypes
  Names = {n1, n2}
  NameOf <- SameName
  Values = {0, 1}
  Default = 0
  Unparsable = 2
  Documents <- Texts
  Callbacks = {k1, k2, k3}
  None = None
SYMMETRY Interchangeable
INVARIANTS
  TypeOK
  OwnHandle
  Informed
