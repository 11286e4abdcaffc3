--------------------------- MODULE MC_McpAccount ---------------------------
(* Two endpoints, a first connect and two reconnects, and two calls of         *)
(* gatekeeper facets.                                                           *)
EXTENDS McpAccount, TLC

Symmetry ==
  Permutations(Calls) \cup Permutations(Endpoints) \cup Permutations(Attempts \ {First})
=============================================================================
