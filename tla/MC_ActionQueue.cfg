SPECIFICATION FairSpec
CONSTANTS
  g1 = g1
  g2 = g2
  edit = edit
  c1 = c1
  Gatekeepers = {g1, g2}
  Tags = {edit}
  Kinds <- MCKinds
  Clients = {c1}
  MaxActions = 3
CHECK_DEADLOCK FALSE
PROPERTIES
  NothingPastAGate
  ServableIsServed
