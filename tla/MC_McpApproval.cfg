SPECIFICATION PromiseSpec
CONSTANTS
  mcp = mcp
  send = send
  c1 = c1
  c2 = c2
  Gatekeeper = mcp
  Tags = {send}
  Kinds <- MCKinds
  Clients = {c1, c2}
  MaxActions = 2
  MaxPending = 2
  MaxRetained = 1
SYMMETRY Symmetry
CHECK_DEADLOCK FALSE
INVARIANTS
  DecisionMatchesWorld
  NothingUnfiled
PROPERTIES
  KeepsItsPromise
  EffectsRespectGates
