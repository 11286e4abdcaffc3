------------------------- MODULE MC_McpActionStore -------------------------
(* McpActionStore with two concurrent approvals and three staged calls.     *)
EXTENDS McpActionStore, TLC

Symmetry == Permutations(Callers)
=============================================================================
