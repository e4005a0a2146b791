SPECIFICATION Spec
CONSTANTS
  Node = {n1, n2}
  Farm = {f1, f2}
  None = None
  Word = 8
  Infos <- MCInfos
  Deployments <- MCDeployments
  FreeIPs = {0, 1, 3}
  GivenUp = {0, 1}
INVARIANTS
  TypeOK
  RejectsOnlyImpossible
  AcceptsOnlyPossible
CHECK_DEADLOCK FALSE
