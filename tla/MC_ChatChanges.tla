--------------------------- MODULE MC_ChatChanges ---------------------------
(* A chat that its agent compacts on its own and on /compact, with changes *)
(* before, between and after, one acceptance and one rejection.            *)
EXTENDS ChatChanges, TLC

MCLimit == [prompt |-> 1, compact |-> 1, step |-> 1, changes |-> 3,
            merge |-> 1, revert |-> 1]

Symmetry == Permutations(Gadgets)
=============================================================================
