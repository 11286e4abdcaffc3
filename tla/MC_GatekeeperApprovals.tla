----------------------- MODULE MC_GatekeeperApprovals -----------------------
(* An issue and a comment on it, proposed to GitHub, and a service call,      *)
(* proposed to Home Assistant; two users who decide at once.                  *)
EXTENDS GatekeeperApprovals, TLC

CONSTANTS issue, open, comment, call

MCCreates == [w \in {open, comment} |-> IF w = open THEN issue ELSE Nobody]
MCOn == [w \in {open, comment} |-> IF w = comment THEN issue ELSE Nobody]
Symmetry == Permutations(Clients)
=============================================================================
