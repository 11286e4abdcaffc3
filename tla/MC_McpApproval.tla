-------------------------- MODULE MC_McpApproval --------------------------
(* The approval queue in front of one MCP gatekeeper: one call that a rule   *)
(* may approve, one human gate, two users who decide at once.                *)
EXTENDS ApprovalPromise, TLC

CONSTANTS send

MCKinds == {[gk |-> Gatekeeper, tag |-> send, autoApprovable |-> auto, awaited |-> ~auto] :
              auto \in BOOLEAN}

Symmetry == Permutations(Clients)
=============================================================================
