SPECIFICATION Spec
CONSTANTS
  Endpoints = {e1, e2}
  First = a1
  Attempts = {a1, a2, a3}
  Calls = {c1, c2}
  Nothing = nothing
  MaxGeneration = 4
  MaxTokens = 2
SYMMETRY Symmetry
CHECK_DEADLOCK FALSE
INVARIANTS
  StoredForServer
  HealthyIsNotExpired
  ClaimIsReleased
