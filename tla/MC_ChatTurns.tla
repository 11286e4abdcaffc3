---- MODULE MC_ChatTurns ----
(* One chat with two callbacks, two messages and a restart. *)
EXTENDS ChatTurns
====
