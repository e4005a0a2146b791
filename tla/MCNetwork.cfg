SPECIFICATION Spec
CONSTANTS
  n1 = n1
  n2 = n2
  n3 = n3
  None = None
  User = User
  Node = {n1, n2, n3}
  Kinds <- MCKinds
  LastOctet = 4
  MaxDeploys = 2
  MaxEdits = 1
  MaxLosses = 1
INVARIANTS
  TypeOK
  Connected
  SubnetsDistinct
  LiveIsKnown
  StateIsTrue
PROPERTIES
  SubnetKept
CHECK_DEADLOCK FALSE
