SPECIFICATION Spec
CONSTANTS
  Name = {w1, w2}
  Version = {0, 1}
  Absent = Absent
  Patience = 3
  MaxInterval = 2
  MaxElapsed = 11
  CallTimeout = 1
  Deadlines = {4, 30}
INVARIANTS
  TypeOK
  TimeoutMeansStuck
  GivesUpInTime
PROPERTIES
  KeepsPromise
CHECK_DEADLOCK FALSE
