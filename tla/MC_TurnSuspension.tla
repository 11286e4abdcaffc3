------------------------ MODULE MC_TurnSuspension ------------------------
(* A turn with two awaited actions, which two users decide and of which a   *)
(* rule may approve one.                                                    *)
EXTENDS TurnSuspension, TLC

CONSTANTS merge

MCKinds == {[gk |-> Gatekeeper, tag |-> merge, autoApprovable |-> auto, awaited |-> TRUE] :
              auto \in BOOLEAN}

Symmetry == Permutations(Clients)
=============================================================================
