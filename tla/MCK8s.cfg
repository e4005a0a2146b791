SPECIFICATION Spec
CONSTANTS
  Node = {n1, n2}
  Name = {v0, v1, v2}
  Master = v0
  Zero = Zero
  Nil = Nil
  None = None
  MaxDeploys = 3
  MaxEdits = 1
  MaxLosses = 2
  MaxMoves = 2
INVARIANTS
  TypeOK
  LiveIsKnown
  DeploysWhatWasAsked
  LoadsCluster
  RemoteIsSeen
SYMMETRY Symmetry
VIEW View
CHECK_DEADLOCK FALSE
