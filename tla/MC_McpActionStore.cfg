SPECIFICATION Spec
CONSTANTS
  k1 = k1
  k2 = k2
  Callers = {k1, k2}
  MaxActions = 3
  MaxPending = 2
  MaxRetained = 1
SYMMETRY Symmetry
CHECK_DEADLOCK FALSE
INVARIANTS
  AtMostOnce
  RowTellsTheTruth
  ClaimHasOneOwner
  TableIsBounded
PROPERTIES
  ClosedRowsStayClosed
