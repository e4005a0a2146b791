SPECIFICATION Spec
CONSTANTS
  n1 = n1
  f = f
  g = g
  h = h
  Node = {n1}
  Gateway = {f, g, h}
  NodeOf <- MCNodeOf
  NameGateways = {h}
  Project = {f, h}
  MaxContracts = 3
  Label = {l1, l2}
  None = None
SYMMETRY Symmetry
VIEW View
INVARIANTS
  TypeOK
  LiveIsTracked
  LoadsWhatIsThere
  NamesNotStranded
  ProjectLeavesNothing
CHECK_DEADLOCK FALSE
