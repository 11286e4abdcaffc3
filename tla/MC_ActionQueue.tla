--------------------------- MODULE MC_ActionQueue ---------------------------
(* One gatekeeper or two, actions that a rule may approve and human gates.   *)
EXTENDS QueueService, TLC

CONSTANTS g1, g2, edit

Auto(g, tag)   == [gk |-> g, tag |-> tag, autoApprovable |-> TRUE, awaited |-> FALSE]
Manual(g, tag) == [gk |-> g, tag |-> tag, autoApprovable |-> FALSE, awaited |-> TRUE]

MCKinds == {Auto(g1, edit), Manual(g1, edit), Auto(g2, edit)}
=============================================================================
