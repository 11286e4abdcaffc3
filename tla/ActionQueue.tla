---------------------------- MODULE ActionQueue ----------------------------
(***************************************************************************)
(* The overseer's approval queue: actions that gatekeepers submit, users   *)
(* who approve or reject them, opt-in rules that approve a kind of action  *)
(* automatically, and the single-flight drain that applies what the rules  *)
(* allow, in order (packages/workshop-backend/src/overseer.ts and          *)
(* auto-approval.ts).                                                      *)
(*                                                                         *)
(* The overseer is a Durable Object: what runs between two awaits is one   *)
(* action here, and its input gate is open across the awaits.  Every await *)
(* on a gatekeeper is a call that returns or throws in a later action; the *)
(* record that the code writes back afterwards is the copy it read before. *)
(*                                                                         *)
(* The gatekeeper is abstract: a call may return or throw.  McpApproval    *)
(* composes this module with a real one.                                   *)
(***************************************************************************)
EXTENDS Integers, FiniteSets

CONSTANTS
  Gatekeepers,
  Kinds,        \* the actions that may be submitted: see Kind
  Tags,         \* ActionKind.tag values
  Clients,      \* approveAction()/rejectAction() calls under way at once
  MaxActions    \* bound: actions submitted in a run

Kind == [gk : Gatekeepers, tag : Tags, autoApprovable : BOOLEAN,
         awaited : BOOLEAN]   \* from an agent, with awaitDecision

ASSUME QueueAssumption ==
  /\ Kinds \subseteq Kind
  /\ MaxActions \in Nat

VARIABLES
  actions,      \* storage.actions: id |-> [kind, state]
  nextActionId, \* storage.nextActionId
  rules,        \* storage.autoApproveTags
  drain,        \* AutoApprovalDrainer: the drain of each gatekeeper
  ops           \* the calls of approveAction() and rejectAction()

queueVars == <<actions, nextActionId, rules, drain, ops>>

Ids == 1..MaxActions

-----------------------------------------------------------------------------
NoRecord == [state |-> "absent"]

NewRecord(kind) == [kind |-> kind, state |-> "pending"]

Pending(acts, id) == acts[id].state = "pending"

\* The pending actions of gatekeeper g: the snapshot of #drainOnce.
PendingOn(acts, g) == {id \in Ids : Pending(acts, id) /\ acts[id].kind.gk = g}

\* A rule that overrides the author of the action.
EligibleMut(kind, rs) == <<kind.gk, kind.tag>> \in rs

\* Both gates of auto-approval: the author's verdict and a user's rule.
Eligible(kind, rs) == kind.autoApprovable /\ <<kind.gk, kind.tag>> \in rs

-----------------------------------------------------------------------------
(* The drain.  `on`: a drain runs; `rerun`: another was asked for meanwhile; *)
(* `rest`: what is left of the snapshot #drainOnce iterates over; `cur`: the *)
(* action whose applyAction() it awaits.                                    *)

NoDrain == [on |-> FALSE, rerun |-> FALSE, rest |-> {}, cur |-> 0]

\* A loop that skips an ineligible action instead of stopping at it.
ServableMut(rest, acts, rs) ==
  {id \in rest : Pending(acts, id) /\ Eligible(acts[id].kind, rs)}

\* What the loop of #drainOnce applies next: the first action of the snapshot
\* that is still pending, unless an ineligible one comes before it.
Servable(rest, acts, rs) ==
  {id \in rest : /\ Pending(acts, id)
                 /\ \A j \in rest : j <= id => Eligible(acts[j].kind, rs)}

Least(ids) == CHOOSE id \in ids : \A j \in ids : id <= j

\* The loop runs on over `rest`, up to its next await or its end.
Pass(rest, rerun, acts, rs) ==
  LET servable == Servable(rest, acts, rs) IN
  IF servable = {} THEN NoDrain
  ELSE LET id == Least(servable)
       IN  [on |-> TRUE, rerun |-> rerun, cur |-> id,
            rest |-> {j \in rest : j > id}]

\* drain() has finished a pass: it takes a new snapshot if it was asked to.
NextPass(d, g, acts, rs) ==
  IF d.rerun THEN Pass(PendingOn(acts, g), FALSE, acts, rs) ELSE NoDrain

\* A drain that applies one action per pass.
ContinueMut(d, g, acts, rs) == NextPass(d, g, acts, rs)

\* The loop goes on after an apply, or leaves the pass.
Continue(d, g, acts, rs) ==
  LET more == Pass(d.rest, d.rerun, acts, rs)
  IN  IF more.on THEN more ELSE NextPass(d, g, acts, rs)

\* drainAutoApprovals(): start a drain, or ask the one that runs for a rerun.
Requested(d, g, acts, rs) ==
  IF d.on THEN [d EXCEPT !.rerun = TRUE]
          ELSE Pass(PendingOn(acts, g), FALSE, acts, rs)

-----------------------------------------------------------------------------
NoOp == [op |-> "none", id |-> 0, pc |-> "idle"]

Init ==
  /\ actions = [id \in Ids |-> NoRecord]
  /\ nextActionId = 1
  /\ rules = {}
  /\ drain = [g \in Gatekeepers |-> NoDrain]
  /\ ops = [c \in Clients |-> NoOp]

\* submitAction().  (When prohibitAllSharing is set it throws first and leaves
\* no trace, which is a stutter here.)
Submit(kind) ==
  LET id  == nextActionId
      new == [actions EXCEPT ![id] = NewRecord(kind)]
  IN
  /\ id \in Ids
  /\ kind \in Kinds
  /\ actions' = new
  /\ nextActionId' = id + 1
  /\ drain' = IF Eligible(kind, rules)
              THEN [drain EXCEPT ![kind.gk] = Requested(@, kind.gk, new, rules)]
              ELSE drain
  /\ UNCHANGED <<rules, ops>>

\* setAutoApprovedActionKind(), from the point where it has the profile; it
\* reads nothing before that it relies on.
EnableRule(g, tag) ==
  LET rs == rules \cup {<<g, tag>>} IN
  /\ rules' = rs
  /\ drain' = [drain EXCEPT ![g] = Requested(@, g, actions, rs)]
  /\ UNCHANGED <<actions, nextActionId, ops>>

\* removeAutoApprovedActionKind()
DisableRule(g, tag) ==
  /\ <<g, tag>> \in rules
  /\ rules' = rules \ {<<g, tag>>}
  /\ UNCHANGED <<actions, nextActionId, drain, ops>>

\* The applyAction() that the drain of g awaits returns: applyPendingAction
\* writes its copy of the record and the loop goes on.
DrainApplied(g) ==
  LET d    == drain[g]
      acts == [actions EXCEPT ![d.cur].state = "approved"]
  IN
  /\ d.on
  /\ actions' = acts
  /\ drain' = [drain EXCEPT ![g] = Continue(d, g, acts, rules)]
  /\ UNCHANGED <<nextActionId, rules, ops>>

\* It throws: the action stays pending and the pass ends, never skipping ahead.
DrainThrew(g) ==
  LET d == drain[g] IN
  /\ d.on
  /\ drain' = [drain EXCEPT ![g] = NextPass(d, g, actions, rules)]
  /\ UNCHANGED <<actions, nextActionId, rules, ops>>

\* approveAction() and rejectAction() up to their first await: the record is
\* pending now.  The profile and then the gatekeeper are awaited.
Decide(c, op, id) ==
  /\ ops[c].pc = "idle"
  /\ Pending(actions, id)
  /\ ops' = [ops EXCEPT ![c] = [op |-> op, id |-> id, pc |-> "calling"]]
  /\ UNCHANGED <<actions, nextActionId, rules, drain>>

\* A call whose outcome is a drain of the gatekeeper, and an end.
DrainAndReturn(c, acts) ==
  LET g == acts[ops[c].id].kind.gk IN
  /\ drain' = [drain EXCEPT ![g] = Requested(@, g, acts, rules)]
  /\ ops' = [ops EXCEPT ![c] = NoOp]

\* applyAction() returned to approveAction(), which writes its copy of the
\* record.  If the action was awaited by a turn that can now resume, it awaits
\* that first; if not, it cascades a drain.
Approved(c, resumes) ==
  LET id   == ops[c].id
      acts == [actions EXCEPT ![id].state = "approved"]
  IN
  /\ ops[c].pc = "calling" /\ ops[c].op = "approve"
  /\ resumes => actions[id].kind.awaited
  /\ actions' = acts
  /\ IF resumes
     THEN /\ ops' = [ops EXCEPT ![c].pc = "resuming"]
          /\ UNCHANGED drain
     ELSE DrainAndReturn(c, acts)
  /\ UNCHANGED <<nextActionId, rules>>

\* #maybeResumeAfterActionDecision() returned.
Resumed(c) ==
  /\ ops[c].pc = "resuming"
  /\ DrainAndReturn(c, actions)
  /\ UNCHANGED <<actions, nextActionId, rules>>

\* It threw, and the drain is never asked for.
ResumeThrew(c) ==
  /\ ops[c].pc = "resuming"
  /\ ops' = [ops EXCEPT ![c] = NoOp]
  /\ UNCHANGED <<actions, nextActionId, rules, drain>>

\* rejectAction() of the gatekeeper returned (its `restart` flag is ignored).
\* No drain is asked for.
Rejected(c) ==
  LET id == ops[c].id IN
  /\ ops[c].pc = "calling" /\ ops[c].op = "reject"
  /\ actions' = [actions EXCEPT ![id].state = "rejected"]
  /\ ops' = [ops EXCEPT ![c] = NoOp]
  /\ UNCHANGED <<nextActionId, rules, drain>>

\* The profile or the gatekeeper threw: the user sees the error and the record
\* stays as it is.
DecisionThrew(c) ==
  /\ ops[c].pc = "calling"
  /\ ops' = [ops EXCEPT ![c] = NoOp]
  /\ UNCHANGED <<actions, nextActionId, rules, drain>>

\* A new activation of the overseer: storage stays, drains and calls are gone.
\* The constructor asks for no drain.
Restart ==
  /\ drain' = [g \in Gatekeepers |-> NoDrain]
  /\ ops' = [c \in Clients |-> NoOp]
  /\ UNCHANGED <<actions, nextActionId, rules>>

Next ==
  \/ \E kind \in Kinds : Submit(kind)
  \/ \E g \in Gatekeepers, tag \in Tags : EnableRule(g, tag)
  \/ \E g \in Gatekeepers, tag \in Tags : DisableRule(g, tag)
  \/ \E g \in Gatekeepers : DrainApplied(g)
  \/ \E g \in Gatekeepers : DrainThrew(g)
  \/ \E c \in Clients, op \in {"approve", "reject"}, id \in Ids : Decide(c, op, id)
  \/ \E c \in Clients, resumes \in BOOLEAN : Approved(c, resumes)
  \/ \E c \in Clients : Resumed(c)
  \/ \E c \in Clients : ResumeThrew(c)
  \/ \E c \in Clients : Rejected(c)
  \/ \E c \in Clients : DecisionThrew(c)
  \/ Restart

Spec == Init /\ [][Next]_queueVars

-----------------------------------------------------------------------------
(* What the queue promises.                                                 *)

Record == [kind : Kinds, state : {"pending", "approved", "rejected"}]
Drain == [on : BOOLEAN, rerun : BOOLEAN, rest : SUBSET Ids, cur : {0} \cup Ids]
Op == [op : {"none", "approve", "reject"}, id : {0} \cup Ids,
       pc : {"idle", "calling", "resuming"}]

TypeOK ==
  /\ actions \in [Ids -> Record \cup {NoRecord}]
  /\ nextActionId \in 1..(MaxActions + 1)
  /\ rules \subseteq Gatekeepers \X Tags
  /\ drain \in [Gatekeepers -> Drain]
  /\ ops \in [Clients -> Op]

\* Nothing is applied past a human gate (auto-approval.ts:51-54): when a drain
\* asks a gatekeeper to apply an action, every action submitted to that
\* gatekeeper before it has been decided, whatever was submitted, decided,
\* failed or opted into since the drain took its snapshot.
NothingPastAGate ==
  [][\A g \in Gatekeepers :
       (drain'[g].cur \notin {0, drain[g].cur})
         => \A j \in PendingOn(actions', g) : drain'[g].cur <= j]_queueVars

=============================================================================
