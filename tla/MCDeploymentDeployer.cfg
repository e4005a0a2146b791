SPECIFICATION Spec
CONSTANTS
  None = None
  Gone = Gone
  Dl = {d1, d2}
  Vm = {1, 2}
  LastHost = 4
  Chosen = {3}
  ContractId = {1, 2}
  MaxDeploys = 2
  MaxEdits = 2
  MaxPaused = 2
INVARIANTS
  TypeOK
  AddressesDistinct
  LiveIsTracked
SYMMETRY Symmetry
VIEW View

