-------------------------- MODULE ApprovalPromise --------------------------
(***************************************************************************)
(* The approval queue and the action store implement ApprovedCall.  The    *)
(* store prunes its settled rows (#prune, action-store.ts), so the tables  *)
(* alone do not tell what became of a call: the history kept here does,    *)
(* and restricts nothing.                                                  *)
(***************************************************************************)
EXTENDS McpApproval

VARIABLE claimed   \* history: the rows that were ever claimed for an attempt

PromiseInit == Init /\ claimed = {}

PromiseNext ==
  /\ Next
  /\ claimed' = claimed \cup {r \in Ids : rows'[r].state = "applying"}

PromiseSpec == PromiseInit /\ [][PromiseNext]_<<vars, claimed>>

-----------------------------------------------------------------------------
(* What the two tables and the server say of a record, in the words of      *)
(* ApprovedCall.                                                            *)

Fate(id) ==
  IF ~Filed(id) THEN "none"
  ELSE IF rowOf[id] \in claimed THEN "letGo"
  ELSE IF rows[rowOf[id]].state = "pending" THEN "open" ELSE "ruledOut"
Done(id)      == Filed(id) /\ effects[rowOf[id]] > 0
Verdict(id)   == IF Filed(id) THEN actions[id].state ELSE "none"
Forgotten(id) == Filed(id) /\ rows[rowOf[id]].state = "absent"

\* The two tables and the wire together keep what approval promises, as
\* ApprovedCall states it: a decision is never reversed (api.ts:1700-1702),
\* although approveAction() and rejectAction() both check the record before
\* awaits and write it after them; a call takes effect once, and never after it
\* was ruled out; and the user is told what happened, as long as the store has
\* not pruned the row.
A == INSTANCE ApprovedCall WITH
  Proposals <- Ids,
  fate      <- [id \in Ids |-> Fate(id)],
  done      <- [id \in Ids |-> Done(id)],
  verdict   <- [id \in Ids |-> Verdict(id)],
  forgotten <- {id \in Ids : Forgotten(id)}

KeepsItsPromise == A!Spec

=============================================================================
