SPECIFICATION Spec
CONSTANTS
  None = None
  Empty = Empty
  Config = config
  Data = {config}
  Node = {n1}
  Name = {x, y}
  ContractId = {1, 2}
  NameContractId = {1, 2, 3}
  MaxCalls = 3
  MaxPaused = 1
INVARIANTS
  NamesAccounted
  SuccessOwnsName
  CancelLeavesNothing
  TracksDeployments
PROPERTIES
  NameBeforeNode
SYMMETRY Symmetry
VIEW View
