------------------------- MODULE HomeAssistantStore -------------------------
(***************************************************************************)
(* The service calls that sessions of the Home Assistant gatekeeper have   *)
(* proposed (packages/gatekeeper-homeassistant/src/homeassistant.ts): rows *)
(* that are pending until they are applied or thrown away.  applyAction()  *)
(* carries a call out first and moves its row afterwards.                  *)
(***************************************************************************)
EXTENDS Naturals

CONSTANTS
  HomeWrites,     \* the calls that sessions may propose
  Callers,        \* applyAction() and rejectAction() calls
  Nobody

VARIABLES
  pendingRows,    \* pending:* rows
  appliedRows,    \* applied:* rows
  haCall,         \* an applyAction() that awaits Home Assistant
  executed        \* Home Assistant: how often each call was carried out

haVars == <<pendingRows, appliedRows, haCall, executed>>

\* Bound: more than once is counted as twice.
OneMore(n) == IF n = 0 THEN 1 ELSE 2

NoCall == [pc |-> "idle", write |-> Nobody]

Init ==
  /\ pendingRows = {} /\ appliedRows = {}
  /\ haCall = [c \in Callers |-> NoCall]
  /\ executed = [w \in HomeWrites |-> 0]

\* submitWrite() up to its first await
Stage(w) ==
  /\ w \notin pendingRows \cup appliedRows
  /\ pendingRows' = pendingRows \cup {w}
  /\ UNCHANGED <<appliedRows, haCall, executed>>

\* #deletePending(), which asks nothing: a submitAction() that threw, and the
\* whole of rejectAction()
DeletePending(w) ==
  /\ pendingRows' = pendingRows \ {w}
  /\ UNCHANGED <<appliedRows, haCall, executed>>

\* applyAction() up to Home Assistant: credentials, a snapshot, the call itself.
\* (Without a pending row it throws.)
Applies(w) == w \in pendingRows

ApplyStarts(c, w) ==
  /\ haCall[c] = NoCall /\ Applies(w)
  /\ haCall' = [haCall EXCEPT ![c] = [pc |-> "sent", write |-> w]]
  /\ UNCHANGED <<pendingRows, appliedRows, executed>>

HomeExecutes(c) ==
  /\ haCall[c].pc = "sent"
  /\ haCall' = [haCall EXCEPT ![c].pc = "done"]
  /\ executed' = [executed EXCEPT ![haCall[c].write] = OneMore(@)]
  /\ UNCHANGED <<pendingRows, appliedRows>>

\* #storeApplied(), #deletePending()
ApplyEnds(c) ==
  LET w == haCall[c].write IN
  /\ haCall[c].pc = "done"
  /\ appliedRows' = appliedRows \cup {w}
  /\ pendingRows' = pendingRows \ {w}
  /\ haCall' = [haCall EXCEPT ![c] = NoCall]
  /\ UNCHANGED executed

ApplyThrows(c) ==
  /\ haCall[c].pc \in {"sent", "done"}
  /\ haCall' = [haCall EXCEPT ![c] = NoCall]
  /\ UNCHANGED <<pendingRows, appliedRows, executed>>

\* The facet dies.  What was sent may still take effect.
Restart ==
  /\ haCall' = [c \in Callers |-> NoCall]
  /\ \E late \in SUBSET {c \in Callers : haCall[c].pc = "sent"} :
       executed' = [w \in HomeWrites |->
         IF \E c \in late : haCall[c].write = w THEN OneMore(executed[w]) ELSE executed[w]]
  /\ UNCHANGED <<pendingRows, appliedRows>>

TypeOK ==
  /\ pendingRows \subseteq HomeWrites /\ appliedRows \subseteq HomeWrites
  /\ haCall \in [Callers -> [pc : {"idle", "sent", "done"}, write : HomeWrites \cup {Nobody}]]
  /\ executed \in [HomeWrites -> 0..2]
=============================================================================
