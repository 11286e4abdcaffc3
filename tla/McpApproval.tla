---------------------------- MODULE McpApproval ----------------------------
(***************************************************************************)
(* The overseer's approval queue (ActionQueue) in front of the action      *)
(* store of one MCP gatekeeper (McpActionStore): a staged call is filed    *)
(* with the overseer (mcp-shared/src/session.ts), decided there by users   *)
(* and rules, and carried out by the store, whose facet lives in the same  *)
(* Durable Object as the overseer but answers it by RPC.                   *)
(*                                                                         *)
(* Two tables hold the life of one action, and are written in different    *)
(* steps.  A restart can fall between any two of them.                     *)
(***************************************************************************)
EXTENDS Integers, FiniteSets

CONSTANTS
  Gatekeeper,   \* the MCP gatekeeper; its drain is one of the callers
  Kinds, Tags, Clients,
  MaxActions, MaxPending, MaxRetained

Callers == Clients \cup {Gatekeeper}

VARIABLES
  actions, nextActionId, rules, drain, ops,
  rows, nextRow, submitting, call, orphans, effects, refused,
  rowOf,        \* ActionRecord.action: the row an overseer's record stands for
  answer,       \* what the facet answered to a caller's RPC, on its way back
  asked         \* history: the records some user asked to approve

Q == INSTANCE ActionQueue WITH Gatekeepers <- {Gatekeeper}
S == INSTANCE McpActionStore

storeVars == <<rows, nextRow, submitting, call, orphans, effects, refused>>
queueVars == <<actions, nextActionId, rules, drain, ops>>
vars == <<queueVars, storeVars, rowOf, answer, asked>>

Ids == 1..MaxActions

\* The drain of the gatekeeper is not a user's call.
ASSUME ApprovalAssumption ==
  /\ Gatekeeper \notin Clients
  /\ Kinds \subseteq Q!Kind
  /\ MaxActions \in Nat /\ MaxPending \in Nat /\ MaxRetained \in Nat

-----------------------------------------------------------------------------
Init ==
  /\ Q!Init
  /\ S!Init
  /\ rowOf = [id \in Ids |-> 0]
  /\ answer = [k \in Callers |-> "none"]
  /\ asked = {}

\* A step of the store alone, and of the queue alone.
StoreStep(A) == A /\ UNCHANGED <<queueVars, rowOf, answer, asked>>
QueueStep(A) == A /\ UNCHANGED <<storeVars, rowOf, answer, asked>>

\* callTool() files the staged row r.
File(kind, r) ==
  /\ Q!Submit(kind)
  /\ S!Submitted(r)
  /\ rowOf' = [rowOf EXCEPT ![nextActionId] = r]
  /\ UNCHANGED <<answer, asked>>

Decide(c, op, id) ==
  /\ Q!Decide(c, op, id)
  /\ asked' = IF op = "approve" THEN asked \cup {id} ELSE asked
  /\ UNCHANGED <<storeVars, rowOf, answer>>

-----------------------------------------------------------------------------
(* The RPC of a caller to the facet.                                        *)

\* The record that caller k has asked the gatekeeper to apply, 0 if none.
Applying(k) ==
  IF k = Gatekeeper THEN drain[k].cur
  ELSE IF ops[k].op = "approve" /\ ops[k].pc = "calling" THEN ops[k].id ELSE 0

\* The call has not reached the store yet.
Unserved(k) == answer[k] = "none" /\ call[k].pc = "idle"

\* applyAction() claims the row ...
ApplyClaims(k) ==
  /\ Applying(k) # 0 /\ Unserved(k)
  /\ S!Claim(k, rowOf[Applying(k)])
  /\ UNCHANGED <<queueVars, rowOf, answer, asked>>

\* An apply() that has nothing to do for a row that is already under way.
ApplyAnswersAtOnceMut(k) ==
  LET row == rows[rowOf[Applying(k)]] IN
  /\ Applying(k) # 0 /\ Unserved(k)
  /\ ~S!Claimable(row)
  /\ answer' = [answer EXCEPT ![k] = IF row.state \in {"applying", "applied"} THEN "ok" ELSE "error"]
  /\ UNCHANGED <<queueVars, storeVars, rowOf, asked>>

\* ... or returns at once, of a row that is applied, or throws.
ApplyAnswersAtOnce(k) ==
  LET row == rows[rowOf[Applying(k)]] IN
  /\ Applying(k) # 0 /\ Unserved(k)
  /\ ~S!Claimable(row)
  /\ answer' = [answer EXCEPT ![k] = IF row.state = "applied" THEN "ok" ELSE "error"]
  /\ UNCHANGED <<queueVars, storeVars, rowOf, asked>>

ApplySettles(k) ==
  /\ S!SettleApplied(k)
  /\ answer' = [answer EXCEPT ![k] = "ok"]
  /\ UNCHANGED <<queueVars, rowOf, asked>>

ApplyFails(k, err) ==
  /\ S!Failed(k, err)
  /\ answer' = [answer EXCEPT ![k] = IF call'[k].pc = "idle" THEN "error" ELSE "none"]
  /\ UNCHANGED <<queueVars, rowOf, asked>>

\* A rejectAction() that lets the user discard any failed row.
RejectAnswersMut(c) ==
  LET r == rowOf[ops[c].id] IN
  /\ ops[c].op = "reject" /\ ops[c].pc = "calling" /\ Unserved(c)
  /\ IF rows[r].state \in {"pending", "failed"}
     THEN rows' = S!Settled(r, S!RowOf("rejected"))
          /\ UNCHANGED <<nextRow, submitting, call, orphans, effects, refused>>
     ELSE UNCHANGED storeVars
  /\ answer' = [answer EXCEPT ![c] =
                  IF rows[r].state \in {"applying", "applied"} THEN "error" ELSE "ok"]
  /\ UNCHANGED <<queueVars, rowOf, asked>>

\* rejectAction(): rejects a pending row, returns of one that is gone or
\* rejected, and throws of any other.
RejectAnswers(c) ==
  LET r == rowOf[ops[c].id] IN
  /\ ops[c].op = "reject" /\ ops[c].pc = "calling" /\ Unserved(c)
  /\ IF rows[r].state = "pending" THEN S!Reject(r) ELSE UNCHANGED storeVars
  /\ answer' = [answer EXCEPT ![c] =
                  IF rows[r].state \in {"pending", "rejected", "absent"} THEN "ok" ELSE "error"]
  /\ UNCHANGED <<queueVars, rowOf, asked>>

\* The answer reaches the overseer.
Answered(k) ==
  /\ answer[k] # "none"
  /\ answer' = [answer EXCEPT ![k] = "none"]
  /\ UNCHANGED <<storeVars, rowOf, asked>>

CallReturns(k) ==
  /\ answer[k] = "ok" /\ Answered(k)
  /\ IF k = Gatekeeper THEN Q!DrainApplied(k)
     ELSE \/ \E resumes \in BOOLEAN : Q!Approved(k, resumes)
          \/ Q!Rejected(k)

CallThrows(k) ==
  /\ answer[k] = "error" /\ Answered(k)
  /\ IF k = Gatekeeper THEN Q!DrainThrew(k) ELSE Q!DecisionThrew(k)

\* The profile could not be fetched, and the gatekeeper is never asked.
ProfileThrows(c) ==
  /\ Unserved(c)
  /\ QueueStep(Q!DecisionThrew(c))

-----------------------------------------------------------------------------
\* The facet dies and a new one is activated for the next call: the calls in
\* flight throw in the overseer.
FacetRestart ==
  /\ S!Restart
  /\ answer' = [k \in Callers |-> IF call[k].pc # "idle" THEN "error" ELSE answer[k]]
  /\ UNCHANGED <<queueVars, rowOf, asked>>

\* The Durable Object dies, with all its facets.
OverseerRestart ==
  /\ Q!Restart
  /\ S!Restart
  /\ answer' = [k \in Callers |-> "none"]
  /\ UNCHANGED <<rowOf, asked>>

Next ==
  \/ StoreStep(S!Stage)
  \/ \E r \in Ids : StoreStep(S!Discard(r))
  \/ \E kind \in Kinds, r \in Ids : File(kind, r)
  \/ \E tag \in Tags : QueueStep(Q!EnableRule(Gatekeeper, tag))
  \/ \E tag \in Tags : QueueStep(Q!DisableRule(Gatekeeper, tag))
  \/ \E c \in Clients, op \in {"approve", "reject"}, id \in Ids : Decide(c, op, id)
  \/ \E k \in Callers : ApplyClaims(k)
  \/ \E k \in Callers : ApplyAnswersAtOnce(k)
  \/ \E k \in Callers : StoreStep(S!Send(k))
  \/ \E k \in Callers : StoreStep(S!ServerExecutes(k))
  \/ \E k \in Callers : ApplySettles(k)
  \/ \E k \in Callers, err \in S!Errors : ApplyFails(k, err)
  \/ \E c \in Clients : RejectAnswers(c)
  \/ \E k \in Callers : CallReturns(k)
  \/ \E k \in Callers : CallThrows(k)
  \/ \E c \in Clients : ProfileThrows(c)
  \/ \E c \in Clients : QueueStep(Q!Resumed(c) \/ Q!ResumeThrew(c))
  \/ \E r \in Ids : StoreStep(S!OrphanExecutes(r) \/ S!OrphanLost(r))
  \/ FacetRestart
  \/ OverseerRestart

Spec == Init /\ [][Next]_vars

-----------------------------------------------------------------------------
Filed(id) == rowOf[id] # 0

\* The two tables agree about the world, across every interleaving and
\* restart: what the overseer calls approved was carried out exactly once, and
\* what it calls rejected was not and never will be, as long as the store has
\* not pruned the row (reject() returns of a row that is gone).
DecisionMatchesWorld ==
  \A id \in Ids : Filed(id) =>
    /\ actions[id].state = "approved" => effects[rowOf[id]] = 1
    /\ actions[id].state = "rejected" /\ rows[rowOf[id]].state # "absent"
         => effects[rowOf[id]] = 0 /\ orphans[rowOf[id]] = 0

\* End to end, a call that no user asked for takes effect only when everything
\* filed with the gatekeeper before it has been decided (auto-approval.ts:51-54),
\* even if its request is delivered long after it was given up.
EffectsRespectGates ==
  [][\A id, j \in Ids :
       (Filed(id) /\ effects'[rowOf[id]] > effects[rowOf[id]] /\ id \notin asked /\ j < id)
         => actions[j].state # "pending"]_vars

\* What nobody approved does not happen: a call takes effect only if it was
\* filed, and a user asked for it or both gates of auto-approval were open.
NothingUnfiled ==
  \A r \in Ids : effects[r] + orphans[r] > 0 =>
    \E id \in Ids : /\ rowOf[id] = r
                    /\ id \in asked \/ actions[id].kind.autoApprovable

=============================================================================
