SPECIFICATION Spec
CONSTANTS
  Owner = owner
  Users = {u1, u2, u3}
  Links = {l1}
  LinkRoles = {2}
  MaxEdges = 3
  MaxConnected = 1
SYMMETRY Symmetry
INVARIANTS
  LoopFindsRoles
  KeptUsersKeep
  SessionsAreCurrent
