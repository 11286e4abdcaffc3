SPECIFICATION Spec
CONSTANTS
  issue = issue
  open = open
  comment = comment
  call = call
  GitHub = gh
  HomeAssistant = ha
  GitHubWrites = {open, comment}
  HomeWrites = {call}
  Creates <- MCCreates
  On <- MCOn
  Nobody = nobody
  Clients = {c1, c2}
  MaxActions = 2
SYMMETRY Symmetry
CHECK_DEADLOCK FALSE
INVARIANTS
  LogTellsTheTruth
  DependantsFollow
  PendingIsOpen
