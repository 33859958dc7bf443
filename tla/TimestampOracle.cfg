SPECIFICATION Spec
SYMMETRY Symmetry
CONSTANTS
  Nodes = {n1, n2}
  Requests = {r1, r2}
  n1 = n1
  n2 = n2
  r1 = r1
  r2 = r2
  Width = 2
  MaxTime = 3
  Clock = {0, 1}
  MaxTerm = 2
  MaxWrites = 2
  MaxStops = 1
INVARIANTS
  TypeOK
  InOrder
  Distinct
  NeverFarAhead
  SeesAcknowledged
CHECK_DEADLOCK FALSE
