SPECIFICATION ChangesSpec
CONSTANTS
  Gadgets = {g1, g2}
  Limit <- MCLimit
  MaxByUser = 1
  MaxLog = 7
  MaxRestarts = 1
SYMMETRY Symmetry
INVARIANTS
  MainlineIsAccepted
  ProposalsAreOffered
  PendingIsBacked
  RevertsAreRetained
  ReplayFollowsLog
CHECK_DEADLOCK FALSE
