---------------------------- MODULE QueueService ----------------------------
(***************************************************************************)
(* What the approval queue (ActionQueue) owes those who wait for it: that  *)
(* what a rule admits is applied.  A history variable remembers, for each  *)
(* gatekeeper, whether its last event was one that the code follows with a *)
(* drain.                                                                  *)
(***************************************************************************)
EXTENDS ActionQueue

VARIABLE
  excused    \* why work may be left behind: "no" (it may not), "rejected" (an
             \* action was, and no drain asked for), "failed" (a call threw, or
             \* the overseer died)

serviceVars == <<queueVars, excused>>

Excuse(g, why) == excused' = [excused EXCEPT ![g] = why]
NoChange(A) == A /\ UNCHANGED excused

ServiceInit == Init /\ excused = [g \in Gatekeepers |-> "no"]

\* What is submitted is drained if a rule admits it; if not, it is a gate.
Submitted(kind) ==
  /\ Submit(kind)
  /\ IF Eligible(kind, rules) THEN Excuse(kind.gk, "no") ELSE UNCHANGED excused

\* A drain that meets a failure starts over if it was asked to meanwhile.
DrainEnded(g) ==
  /\ DrainThrew(g)
  /\ Excuse(g, IF drain[g].rerun THEN "no" ELSE "failed")

OwnerOf(c) == actions[ops[c].id].kind.gk

ServiceNext ==
  \/ \E kind \in Kinds : Submitted(kind)
  \/ \E g \in Gatekeepers, tag \in Tags : EnableRule(g, tag) /\ Excuse(g, "no")
  \/ \E g \in Gatekeepers, tag \in Tags : NoChange(DisableRule(g, tag))
  \/ \E g \in Gatekeepers : NoChange(DrainApplied(g))
  \/ \E g \in Gatekeepers : DrainEnded(g)
  \/ \E c \in Clients, op \in {"approve", "reject"}, id \in Ids : NoChange(Decide(c, op, id))
  \/ \E c \in Clients : NoChange(Approved(c, TRUE))
  \/ \E c \in Clients : Approved(c, FALSE) /\ Excuse(OwnerOf(c), "no")
  \/ \E c \in Clients : Resumed(c) /\ Excuse(OwnerOf(c), "no")
  \/ \E c \in Clients : ResumeThrew(c) /\ Excuse(OwnerOf(c), "failed")
  \/ \E c \in Clients : Rejected(c) /\ Excuse(OwnerOf(c), "rejected")
  \/ \E c \in Clients : NoChange(DecisionThrew(c))
  \/ Restart /\ excused' = [g \in Gatekeepers |-> "failed"]

ServiceSpec == ServiceInit /\ [][ServiceNext]_serviceVars

\* The RPC to a gatekeeper's facet, and those that resume a turn, return or
\* throw sooner or later; and a gatekeeper that is asked for the same action
\* again and again does not fail for ever.
FairSpec ==
  /\ ServiceSpec
  /\ \A g \in Gatekeepers :
       /\ WF_serviceVars(NoChange(DrainApplied(g)) \/ DrainEnded(g))
       /\ SF_serviceVars(NoChange(DrainApplied(g)))
  /\ \A c \in Clients : WF_queueVars(Resumed(c) \/ ResumeThrew(c))

-----------------------------------------------------------------------------
NothingToServe(g) ==
  \/ drain[g].on
  \/ \E c \in Clients : ops[c].pc = "resuming" /\ OwnerOf(c) = g
  \/ Servable(PendingOn(actions, g), actions, rules) = {}

\* No request for a drain is lost (auto-approval.ts:26-28, overseer.ts:7824):
\* what a drain could serve does not wait for ever, unless the last one met a
\* failure, or one of the events that the code follows with no drain came
\* since: a rejection, a resumption that threw, a restart.
ServableIsServed ==
  \A g \in Gatekeepers :
    Servable(PendingOn(actions, g), actions, rules) # {}
      ~> (Servable(PendingOn(actions, g), actions, rules) = {} \/ excused[g] # "no")

\* The part of it that needs no fairness: there is nothing to serve that no drain
\* and nobody who will ask for one knows of.  A request that comes while a drain
\* is past what it is about makes that drain start over (`rerun`).
RequestsAreKept == \A g \in Gatekeepers : excused[g] # "no" \/ NothingToServe(g)

-----------------------------------------------------------------------------
(* What the documentation says of the queue and the code does not do.       *)

\* api.ts:1720-1722: with a rule enabled, future actions of that kind "are then
\* applied automatically without manual approval" -- also those behind a human
\* gate that a user clears by rejecting it: nothing that a drain could serve
\* is left waiting, unless something failed.
RejectionUnblocks == \A g \in Gatekeepers : excused[g] = "failed" \/ NothingToServe(g)

=============================================================================
