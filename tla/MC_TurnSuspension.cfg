SPECIFICATION Spec
CONSTANTS
  gk = gk
  merge = merge
  c1 = c1
  c2 = c2
  Gatekeeper = gk
  Tags = {merge}
  Kinds <- MCKinds
  Clients = {c1, c2}
  MaxActions = 2
SYMMETRY Symmetry
INVARIANTS
  SuspendedIsResumed
  StopsForDecisions
