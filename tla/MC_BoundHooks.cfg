SPECIFICATION HooksSpec
CONSTANTS
  g1 = g1
  h1 = h1
  h2 = h2
  u1 = u1
  u2 = u2
  Hooks = {h1}
  Gadgets = {g1}
  Target <- MCTarget
  Users = {u1, u2}
  Loop = loop
INVARIANTS
  SettledHooksAgree
PROPERTIES
  QuietHooksStayQuiet
