----------------------------- MODULE MC_Sharing -----------------------------
(* Three users besides the owner, of whom no two are told apart.             *)
EXTENDS Sharing, TLC

Symmetry == Permutations(Users)
=============================================================================
