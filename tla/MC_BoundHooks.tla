--------------------------- MODULE MC_BoundHooks ---------------------------
(* Two users at once and the loop of a removal, on one hook or two.         *)
EXTENDS BoundHooks, TLC

CONSTANTS g1, h1, h2, u1, u2

MCTarget == [h \in Hooks |-> g1]
Symmetry == Permutations(Hooks) \cup Permutations(Users)
=============================================================================
