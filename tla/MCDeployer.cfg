SPECIFICATION Spec
CONSTANTS
  n1 = n1
  n2 = n2
  w1 = w1
  w2 = w2
  a = a
  b = b
  None = None
  Node = {n1, n2}
  Name = {w1, w2}
  Data = {a, b}
  ContractId = {1, 2, 3, 4}
  Requests <- MCRequests
  RevertOnFailure = TRUE
  MaxCalls = 2
INVARIANTS
  TypeOK
  NoSilentLeak
  SuccessDeploysRequest
  RevertRestoresContent
PROPERTIES
  VersionsAdvance
  ChainBeforeNode
  DeployKeepsOldContracts
CHECK_DEADLOCK FALSE
