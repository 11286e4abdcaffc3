--------------------------- MODULE TurnSuspension ---------------------------
(***************************************************************************)
(* One agent turn and the approval queue (ActionQueue): a turn that submits *)
(* an action whose outcome it must see (awaitDecision) ends after the step  *)
(* that submitted it, and the user's approval starts it again               *)
(* (packages/workshop-backend/src/overseer.ts and agent.ts).                *)
(*                                                                          *)
(* The turn and the decision meet in the chat's log only.  The step posts   *)
(* the actions it submitted when it ends; approveAction() looks them up     *)
(* there, and is open to everything while it fetches the user's profile and *)
(* the model.                                                               *)
(*                                                                          *)
(* The gatekeeper is one that keeps its decisions, as McpApproval shows of  *)
(* the MCP gatekeepers: it applies what it applied again as a no-op, and it *)
(* throws when it is asked for the opposite of what it did.                 *)
(***************************************************************************)
EXTENDS Integers, FiniteSets

CONSTANTS Gatekeeper, Kinds, Tags, Clients, MaxActions

VARIABLES
  actions, nextActionId, rules, drain, ops,   \* of ActionQueue
  turn,       \* chatMeta.activeAgent, and how far the agent is
  captured,   \* #capturedActions: what the step has submitted, not posted yet
  logged,     \* awaited actions in the log since the message that began the turn
  noted,      \* approvals that have posted their note and fetch the model
  owed,       \* history: the awaited actions the turn has submitted, or found in the log
              \* when it was started again
  why         \* history: how a suspended turn may have come to be forgotten

Q == INSTANCE ActionQueue WITH Gatekeepers <- {Gatekeeper}

ASSUME SuspensionAssumption == Kinds \subseteq Q!Kind /\ MaxActions \in Nat

queueVars == <<actions, nextActionId, rules, drain, ops>>
turnVars == <<turn, captured, logged, noted, owed, why>>
vars == <<queueVars, turnVars>>

Ids == 1..MaxActions
Nothing == [ids |-> {}, awaits |-> FALSE]

\* activeAgent is set.  "ending" and "suspending": the last step is posted, the
\* loop has stopped and the turn is being wound up.
Running == turn \in {"running", "ending", "suspending"}

Awaited(ids) == {id \in ids : actions[id].kind.awaited}
AllApproved(ids) == ids # {} /\ \A id \in ids : actions[id].state = "approved"

-----------------------------------------------------------------------------
Init ==
  /\ Q!Init
  /\ turn = "idle"
  /\ captured = Nothing
  /\ logged = {} /\ noted = {} /\ owed = {}
  /\ why = {}

\* The user writes, which begins a turn (assertChatNotActive()).
UserMessage ==
  /\ ~Running
  /\ turn' = "running"
  /\ logged' = {} /\ owed' = {} /\ why' = {}
  /\ UNCHANGED <<queueVars, captured, noted>>

\* submitAction() of the turn's step, and #associateAction().
AgentSubmits(kind) ==
  /\ turn = "running"
  /\ Q!Submit(kind)
  /\ captured' = [ids |-> captured.ids \cup {nextActionId},
                  awaits |-> captured.awaits \/ (kind.awaited /\ ~Q!Eligible(kind, rules))]
  /\ owed' = IF kind.awaited THEN owed \cup {nextActionId} ELSE owed
  /\ UNCHANGED <<turn, logged, noted, why>>

\* A step that posts its actions but forgets to stop for them.
StepEndsMut ==
  /\ turn = "running"
  /\ logged' = logged \cup Awaited(captured.ids)
  /\ captured' = Nothing
  /\ turn' \in {"running", "ending"}
  /\ UNCHANGED <<queueVars, noted, owed, why>>

\* turn_end: the step's messages are posted, and shouldStopAfterTurn() decides
\* whether another step follows.
StepEnds ==
  /\ turn = "running"
  /\ logged' = logged \cup Awaited(captured.ids)
  /\ captured' = Nothing
  /\ turn' \in IF captured.awaits THEN {"suspending"} ELSE {"running", "ending"}
  /\ UNCHANGED <<queueVars, noted, owed, why>>

\* #runAgentTurn()'s finally clears activeAgent.
TurnEnds ==
  /\ turn \in {"ending", "suspending"}
  /\ turn' = IF turn = "ending" THEN "idle" ELSE "suspended"
  /\ UNCHANGED <<queueVars, captured, logged, noted, owed, why>>

-----------------------------------------------------------------------------
QueueStep(A) == A /\ UNCHANGED turnVars

\* A gate that is looked at before the action's approval is recorded.
MayResumeMut(id) == logged # {} /\ \A j \in logged : actions[j].state = "approved"

\* The gate of #maybeResumeAfterActionDecision(), with action id approved:
\* every awaited action in the log of the turn is.
MayResume(id) ==
  /\ logged # {}
  /\ \A j \in logged : j = id \/ actions[j].state = "approved"

\* What the gatekeeper did not refuse.
Accepted(id, states) == actions[id].state \in states

\* applyAction() returned to approveAction(), which then looks at the gate if
\* the action was awaited.
Approve(c) ==
  LET id == ops[c].id IN
  /\ ops[c].pc = "calling" /\ Accepted(id, {"pending", "approved"})
  /\ Q!Approved(c, actions[id].kind.awaited /\ MayResume(id))
  /\ why' = why \cup {r \in {"early"} : Running /\ id \in owed}
  /\ UNCHANGED <<turn, captured, logged, noted, owed>>

Reject(c) ==
  /\ ops[c].pc = "calling" /\ Accepted(ops[c].id, {"pending"})
  /\ Q!Rejected(c)
  /\ UNCHANGED turnVars

\* The user's profile arrived: the note is appended, which is the new boundary
\* of the turn in the log.  If the agent runs, that is all.
PostNote(c) ==
  /\ ops[c].pc = "resuming" /\ c \notin noted
  /\ logged' = {}
  /\ IF Running THEN Q!Resumed(c) /\ UNCHANGED noted
                ELSE noted' = noted \cup {c} /\ UNCHANGED queueVars
  /\ why' = why \cup {r \in {"early"} : Running}
  /\ UNCHANGED <<turn, captured, owed>>

\* The model arrived: the agent starts, unless it does already.
Start(c) ==
  /\ c \in noted
  /\ Q!Resumed(c)
  /\ noted' = noted \ {c}
  /\ IF Running THEN UNCHANGED <<turn, owed, why>>
     ELSE /\ turn' = "running" /\ owed' = logged
          /\ why' = {r \in {"stale"} : r \in why \/ (turn = "suspended" /\ ~AllApproved(owed))}
  /\ UNCHANGED <<captured, logged>>

\* There is no such model any more, or a call threw: the turn stays as it is.
StartFails(c) ==
  /\ \/ c \in noted /\ Q!Resumed(c)
     \/ Q!ResumeThrew(c)
  /\ noted' = noted \ {c}
  /\ why' = why \cup {"failed"}
  /\ UNCHANGED <<turn, captured, logged, owed>>

\* The drain applies an action for a rule.  It looks at no gate.
DrainApplied ==
  /\ drain[Gatekeeper].on /\ Accepted(drain[Gatekeeper].cur, {"pending", "approved"})
  /\ Q!DrainApplied(Gatekeeper)
  /\ why' = why \cup {r \in {"drained"} : drain[Gatekeeper].cur \in owed}
  /\ UNCHANGED <<turn, captured, logged, noted, owed>>

\* A new activation runs the turns that were active again, from the log; what
\* the step had captured is lost.
Restart ==
  /\ Q!Restart
  /\ turn' = IF Running THEN "running" ELSE turn
  /\ captured' = Nothing
  /\ noted' = {}
  /\ owed' = IF Running THEN logged ELSE owed
  /\ why' = why \cup {r \in {"failed"} : turn = "suspending" \/ \E c \in Clients : ops[c].pc # "idle"}
  /\ UNCHANGED logged

Next ==
  \/ UserMessage
  \/ \E kind \in Kinds : AgentSubmits(kind)
  \/ StepEnds
  \/ TurnEnds
  \/ \E tag \in Tags : QueueStep(Q!EnableRule(Gatekeeper, tag))
  \/ \E tag \in Tags : QueueStep(Q!DisableRule(Gatekeeper, tag))
  \/ \E c \in Clients, op \in {"approve", "reject"}, id \in Ids : QueueStep(Q!Decide(c, op, id))
  \/ \E c \in Clients : Approve(c)
  \/ \E c \in Clients : Reject(c)
  \/ \E c \in Clients : QueueStep(Q!DecisionThrew(c))
  \/ \E c \in Clients : PostNote(c)
  \/ \E c \in Clients : Start(c)
  \/ \E c \in Clients : StartFails(c)
  \/ DrainApplied
  \/ QueueStep(Q!DrainThrew(Gatekeeper))
  \/ Restart

Spec == Init /\ [][Next]_vars

-----------------------------------------------------------------------------
(* What approval promises the agent.                                        *)

TypeOK ==
  /\ turn \in {"idle", "running", "ending", "suspending", "suspended"}
  /\ captured \in [ids : SUBSET Ids, awaits : BOOLEAN]
  /\ logged \subseteq Ids /\ noted \subseteq Clients /\ owed \subseteq Ids
  /\ why \subseteq {"early", "drained", "stale", "failed"}

Resuming == \E c \in Clients : ops[c].pc = "resuming"
Forgotten == turn = "suspended" /\ AllApproved(owed) /\ ~Resuming

\* A suspended turn whose actions have all been approved is being resumed,
\* in whatever order several users decide them -- unless the decision came
\* before the turn was suspended, was the drain's, or met a failure.
SuspendedIsResumed == Forgotten => why \cap {"early", "drained", "failed"} # {}

\* A turn never goes on to another step past an action that it awaits and that
\* only a user can approve, unless a restart caught it while it was suspended
\* or an earlier turn's approval resumed it (ResumedWhenApproved, below).
StopsForDecisions ==
  (turn = "running" /\ why \cap {"failed", "stale"} = {})
    => \A id \in logged : actions[id].state = "pending" => actions[id].kind.autoApprovable

-----------------------------------------------------------------------------
(* What the documentation says and the code does not do.                    *)

\* gatekeeper.ts:1055-1057: the harness should "suspend the current turn once
\* the action is submitted and resume it after the user decides" -- also when
\* the user is quicker than the step.
NeverForgotten == Forgotten => why \cap {"drained", "failed"} # {}

\* overseer.ts:7906: "Resume a turn suspended on awaitDecision once all awaited
\* actions from that turn are approved."
ResumedWhenApproved ==
  [][(turn = "suspended" /\ \E c \in Clients : Start(c)) => AllApproved(owed)]_vars

=============================================================================
