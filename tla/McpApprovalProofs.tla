------------------------- MODULE McpApprovalProofs -------------------------
(***************************************************************************)
(* What the approval queue and the action store of an MCP gatekeeper       *)
(* promise together, for every number of users, rules, actions and limits: *)
(* the two tables agree about the world, and they implement ApprovedCall.  *)
(*                                                                         *)
(* Every step of the composition is a step or a stutter of each part, so   *)
(* the inductive invariants of McpActionStoreProofs and ActionQueueProofs  *)
(* hold of it; what is left to prove is how the two are linked.            *)
(***************************************************************************)
EXTENDS ApprovalPromise, FiniteSetTheorems, TLAPS

SP == INSTANCE McpActionStoreProofs
QP == INSTANCE ActionQueueProofs WITH Gatekeepers <- {Gatekeeper}, excused <- {}

\* What the parts assume of their constants holds of the composition's.
LEMMA PartsAssumptions == SP!StoreAssumption /\ QP!QueueAssumption
BY ApprovalAssumption DEF SP!StoreAssumption, QP!QueueAssumption, QP!Kind, Q!Kind

-----------------------------------------------------------------------------
(* The inductive invariant: the parts', and the links between them.          *)

Gone(r)    == rows[r].state \in {"rejected", "absent"}
Fresh(r)   == rows[r].state \in {"absent", "pending"} /\ S!Untouched(r)
Started(r) == rows[r].state = "applying" \/ ~S!Untouched(r)
LetGo(r)   == rows[r].state \in {"applying", "applied", "failed"}

LinkTypes ==
  /\ rowOf \in [Ids -> {0} \cup Ids]
  /\ answer \in [Callers -> {"none", "ok", "error"}]
  /\ asked \subseteq Ids

\* A row is filed as one record, once it was submitted; the records that were
\* given out are those that stand for a row.
RowsAreFiledOnce ==
  /\ \A id \in Ids : Filed(id) <=> id < nextActionId
  /\ \A id \in Ids : Filed(id) => rowOf[id] < nextRow /\ rowOf[id] \notin submitting
  /\ \A i, j \in Ids : Filed(i) /\ rowOf[i] = rowOf[j] => i = j

\* Nobody can have asked for a row the overseer has no record of.
UnfiledIsFresh ==
  /\ \A r \in Ids : (\A id \in Ids : rowOf[id] # r) => Fresh(r)
  /\ \A r \in submitting : r < nextRow /\ rows[r].state = "pending"

\* How the RPC of a caller stands: a call in flight is about the row of the
\* record that the caller waits for, and what the facet answered is so.
CallerOK(k) ==
  /\ call[k].pc # "idle" =>
       Applying(k) # 0 /\ call[k].id = rowOf[Applying(k)] /\ answer[k] = "none"
  /\ answer[k] # "none" => IF k = Gatekeeper THEN drain[k].on ELSE ops[k].pc = "calling"
  /\ answer[k] = "ok" /\ Applying(k) # 0 => effects[rowOf[Applying(k)]] = 1
  /\ k # Gatekeeper /\ ops[k].pc = "calling" =>
       /\ ops[k].op \in {"approve", "reject"}
       /\ ops[k].op = "approve" => ops[k].id \in asked
       /\ ops[k].op = "reject" /\ answer[k] = "ok" => Gone(rowOf[ops[k].id])

CallsAreDecisions == \A k \in Callers : CallerOK(k)

ApprovedIsDone ==
  \A id \in Ids : Filed(id) /\ actions[id].state = "approved" => effects[rowOf[id]] = 1

RejectedIsGone ==
  \A id \in Ids : Filed(id) /\ actions[id].state = "rejected" => Gone(rowOf[id])

\* The gates that a drain found open for record id are open for good.
GatesOpenFor(id) ==
  /\ actions[id].kind.autoApprovable
  /\ \A j \in Ids : j < id => actions[j].state # "pending"

GatesWereOpen ==
  \A id \in Ids : Filed(id) /\ id \notin asked /\ Started(rowOf[id]) => GatesOpenFor(id)

Links ==
  /\ LinkTypes
  /\ RowsAreFiledOnce
  /\ UnfiledIsFresh
  /\ CallsAreDecisions
  /\ ApprovedIsDone
  /\ RejectedIsGone
  /\ GatesWereOpen

IInv == SP!IInv /\ QP!IInv /\ Links

-----------------------------------------------------------------------------
(* The invariants of the parts, as far as the links need them.               *)

StoreFacts ==
  /\ rows \in [Ids -> S!Row] /\ nextRow \in 1..(MaxActions + 1) /\ submitting \subseteq Ids
  /\ call \in [Callers -> S!Call]
  /\ orphans \in [Ids -> Nat] /\ effects \in [Ids -> Nat]
  /\ \A k \in Callers : call[k].pc # "idle" =>
       call[k].id \in Ids /\ rows[call[k].id].state = "applying"
  /\ \A k \in Callers : /\ call[k].pc \in {"connecting", "sent"} => S!Untouched(call[k].id)
                        /\ call[k].pc = "executed" => effects[call[k].id] = 1
  /\ \A id \in Ids : effects[id] + orphans[id] <= 1
  /\ S!RowTellsTheTruth
  /\ \A id \in Ids : id >= nextRow => rows[id] = S!Absent /\ S!Untouched(id)

LEMMA StoreKnows == SP!IInv => StoreFacts
BY DEF SP!IInv, StoreFacts, SP!TypeOK, SP!OwnersHoldClaims, SP!Busy, SP!ProgressIsKnown,
       SP!OneDeliveryAtMost, SP!RowTellsTheTruth, SP!FutureIsBlank, SP!Untouched, SP!Ids,
       SP!Row, SP!RowStates, SP!Call, SP!InFlight, SP!Absent, SP!RowOf, S!RowTellsTheTruth,
       S!Untouched, S!Row, S!RowStates, S!Call, S!InFlight, S!Absent, S!RowOf, Ids, S!Ids

QueueFacts ==
  /\ actions \in [Ids -> Q!Record \cup {Q!NoRecord}]
  /\ nextActionId \in 1..(MaxActions + 1)
  /\ drain \in [{Gatekeeper} -> Q!Drain] /\ ops \in [Clients -> Q!Op]
  /\ \A id \in Ids : actions[id] \in Q!Record <=> id < nextActionId
  /\ \A c \in Clients : ops[c].pc # "idle" => ops[c].id \in Ids /\ ops[c].id < nextActionId
  /\ drain[Gatekeeper].on => /\ drain[Gatekeeper].cur \in Ids
                             /\ drain[Gatekeeper].cur < nextActionId
                             /\ GatesOpenFor(drain[Gatekeeper].cur)
  /\ ~drain[Gatekeeper].on => drain[Gatekeeper].cur = 0

LEMMA QueueKnows == QP!IInv => QueueFacts
<1> SUFFICES ASSUME QP!IInv PROVE QueueFacts
  OBVIOUS
<1>1. /\ actions \in [Ids -> Q!Record \cup {Q!NoRecord}]
      /\ nextActionId \in 1..(MaxActions + 1)
      /\ drain \in [{Gatekeeper} -> Q!Drain] /\ ops \in [Clients -> Q!Op]
  BY DEF QP!IInv, QP!TypeOK, QP!Record, QP!NoRecord, QP!Drain, QP!Op, QP!Ids,
         Q!Record, Q!NoRecord, Q!Drain, Q!Op, Q!Ids, Ids
<1>2. \A id \in Ids : actions[id] \in Q!Record <=> id < nextActionId
  BY DEF QP!IInv, QP!FutureIsBlank, QP!Record, QP!Ids, Q!Record, Ids
<1>3. \A c \in Clients : ops[c].pc # "idle" => ops[c].id \in Ids /\ ops[c].id < nextActionId
  BY <1>2 DEF QP!IInv, QP!OpsAreFiled, QP!Record, QP!Ids, Q!Record, Ids
<1>4. QP!InOrder(drain[Gatekeeper], actions, Gatekeeper)
  BY DEF QP!IInv, QP!DrainsInOrder
<1>5. ASSUME drain[Gatekeeper].on
      PROVE  /\ drain[Gatekeeper].cur \in Ids /\ drain[Gatekeeper].cur < nextActionId
             /\ GatesOpenFor(drain[Gatekeeper].cur)
  <2> DEFINE d == drain[Gatekeeper]
  <2>1. /\ d.cur \in Ids /\ \A k \in d.rest : d.cur < k
        /\ actions[d.cur] \in Q!Record /\ actions[d.cur].kind.autoApprovable
        /\ \A j \in QP!PendingOn(actions, Gatekeeper) :
             j \in d.rest \cup {d.cur} \/ \A k \in d.rest \cup {d.cur} : k < j
    BY <1>4, <1>5 DEF QP!InOrder, QP!FiledWith, QP!Covers, QP!Record, Q!Record, QP!Ids, Ids
  <2>2. ASSUME NEW j \in Ids, j < d.cur, actions[j].state = "pending" PROVE FALSE
    <3>1. actions[j] \in Q!Record
      BY <1>1, <2>2 DEF Q!NoRecord
    <3>2. actions[j].kind.gk = Gatekeeper
      BY <3>1, ApprovalAssumption DEF Q!Record, Q!Kind
    <3>3. j \in QP!PendingOn(actions, Gatekeeper)
      BY <2>2, <3>2 DEF QP!PendingOn, QP!Pending, QP!Ids, Ids
    <3>4. d.cur < j \/ d.cur = j
      BY <2>1, <3>3
    <3> QED BY <2>1, <2>2, <3>4 DEF Ids
  <2> QED BY <1>2, <2>1, <2>2 DEF GatesOpenFor
<1>6. ~drain[Gatekeeper].on => drain[Gatekeeper].cur = 0
  BY <1>4 DEF QP!InOrder
<1> QED BY <1>1, <1>2, <1>3, <1>5, <1>6 DEF QueueFacts

\* A record that a caller acts on was filed, and stands for a row.
LEMMA CallersAct ==
  ASSUME QueueFacts, LinkTypes, RowsAreFiledOnce
  PROVE  /\ \A k \in Callers : Applying(k) # 0 =>
              Applying(k) \in Ids /\ Filed(Applying(k)) /\ rowOf[Applying(k)] \in Ids
         /\ \A c \in Clients : ops[c].pc # "idle" =>
              ops[c].id \in Ids /\ Filed(ops[c].id) /\ rowOf[ops[c].id] \in Ids
         /\ \A id \in Ids : Filed(id) <=> rowOf[id] \in Ids
<1>1. \A id \in Ids : id < nextActionId => Filed(id)
  BY DEF RowsAreFiledOnce
<1>2. \A id \in Ids : Filed(id) <=> rowOf[id] \in Ids
  BY DEF Filed, LinkTypes, Ids
<1>3. ASSUME NEW k \in Callers, Applying(k) # 0 PROVE Applying(k) \in Ids /\ Applying(k) < nextActionId
  BY <1>3 DEF QueueFacts, Applying, Callers
<1> QED BY <1>1, <1>2, <1>3 DEF QueueFacts

-----------------------------------------------------------------------------
(* Every step of the composition is a step of each part, or leaves it alone. *)

\* A set has one cardinality, whichever instance counts it.
LEMMA Cardinalities ==
  \A T : S!Cardinality(T) = Cardinality(T) /\ SP!Cardinality(T) = Cardinality(T)
BY DEF S!Cardinality, SP!Cardinality, Cardinality

\* What a step of the composition is to the store.
OfTheStore ==
  \/ \E r \in Ids : S!Submitted(r) \/ S!Discard(r) \/ S!Reject(r)
  \/ \E r \in Ids : S!OrphanExecutes(r) \/ S!OrphanLost(r)
  \/ \E k \in Callers : S!Send(k) \/ S!ServerExecutes(k) \/ S!SettleApplied(k)
  \/ \E k \in Callers, r \in Ids : S!Claim(k, r)
  \/ \E k \in Callers, err \in S!Errors : S!Failed(k, err)
  \/ S!Stage \/ S!Restart
  \/ UNCHANGED storeVars

LEMMA StoreActs ==
  ASSUME QueueFacts, LinkTypes, RowsAreFiledOnce, [Next]_vars
  PROVE  OfTheStore
<1>1. ASSUME NEW k \in Callers, ApplyClaims(k) PROVE \E r \in Ids : S!Claim(k, r)
  BY <1>1, CallersAct DEF ApplyClaims
<1>2. ASSUME NEW c \in Clients, RejectAnswers(c)
       PROVE  (\E r \in Ids : S!Reject(r)) \/ UNCHANGED storeVars
  <2>1. ops[c].pc # "idle"
    BY <1>2 DEF RejectAnswers
  <2> QED BY <1>2, <2>1, CallersAct DEF RejectAnswers
<1>3. \A k : ApplyAnswersAtOnce(k) \/ CallReturns(k) \/ CallThrows(k) \/ ProfileThrows(k)
                 => UNCHANGED storeVars
  BY DEF ApplyAnswersAtOnce, CallReturns, CallThrows, Answered, ProfileThrows, QueueStep
<1>4. \A c, op, id : Decide(c, op, id) => UNCHANGED storeVars
  BY DEF Decide
<1>5. UNCHANGED vars => UNCHANGED storeVars
  BY DEF vars, storeVars
<1> USE DEF OfTheStore
<1>6. ASSUME NEW k \in Callers
      PROVE  /\ ApplySettles(k) => S!SettleApplied(k)
             /\ \A err \in S!Errors : ApplyFails(k, err) => S!Failed(k, err)
  BY DEF ApplySettles, ApplyFails
<1>7. ASSUME NEW kind, NEW r \in Ids, File(kind, r) PROVE S!Submitted(r)
  BY <1>7 DEF File
<1>8. FacetRestart \/ OverseerRestart => S!Restart
  BY DEF FacetRestart, OverseerRestart
<1>9. Clients \subseteq Callers
  BY DEF Callers
<1>10. CASE \/ \E tag \in Tags : \/ QueueStep(Q!EnableRule(Gatekeeper, tag))
                                \/ QueueStep(Q!DisableRule(Gatekeeper, tag))
            \/ \E c \in Clients : QueueStep(Q!Resumed(c) \/ Q!ResumeThrew(c))
  BY <1>10 DEF QueueStep
<1>11. CASE \/ StoreStep(S!Stage)
            \/ \E r \in Ids : StoreStep(S!Discard(r))
            \/ \E r \in Ids : StoreStep(S!OrphanExecutes(r) \/ S!OrphanLost(r))
            \/ \E k \in Callers : StoreStep(S!Send(k)) \/ StoreStep(S!ServerExecutes(k))
  BY <1>11 DEF StoreStep
<1>12. CASE \/ \E k \in Callers : ApplyClaims(k)
            \/ \E c \in Clients : RejectAnswers(c)
  BY <1>1, <1>2, <1>12
<1>13. CASE \/ \E k \in Callers : ApplyAnswersAtOnce(k) \/ CallReturns(k) \/ CallThrows(k)
            \/ \E c \in Clients : ProfileThrows(c)
            \/ \E c \in Clients, op \in {"approve", "reject"}, id \in Ids : Decide(c, op, id)
  BY <1>3, <1>4, <1>13
<1>14. CASE \/ \E k \in Callers : ApplySettles(k)
            \/ \E k \in Callers, err \in S!Errors : ApplyFails(k, err)
            \/ \E kind \in Kinds, r \in Ids : File(kind, r)
            \/ FacetRestart \/ OverseerRestart
  BY <1>6, <1>7, <1>8, <1>14
<1>15. CASE UNCHANGED vars
  BY <1>5, <1>15
<1> HIDE DEF OfTheStore
<1>16. CASE Next
  BY <1>10, <1>12, <1>11, <1>13, <1>14, <1>16 DEF Next
<1> QED BY <1>15, <1>16

LEMMA StoreSteps ==
  ASSUME QueueFacts, LinkTypes, RowsAreFiledOnce, [Next]_vars
  PROVE  [SP!Next]_(SP!vars)
<1> USE Cardinalities DEF SP!Ids, S!Ids, Ids, SP!RowOf, S!RowOf
<1>1. S!Stage => SP!Stage
  BY DEF S!Stage, SP!Stage, S!Awaiting, SP!Awaiting
<1>2. \A r \in Ids : (S!Submitted(r) => SP!Submitted(r)) /\ (S!Discard(r) => SP!Discard(r))
  BY DEF S!Submitted, SP!Submitted, S!Discard, SP!Discard, S!Absent, SP!Absent
<1>3. \A k \in Callers, r \in Ids : S!Claim(k, r) => SP!Claim(k, r)
  BY DEF S!Claim, SP!Claim, S!Claimable, SP!Claimable
<1>4. \A k \in Callers : (S!Send(k) => SP!Send(k)) /\ (S!ServerExecutes(k) => SP!ServerExecutes(k))
  BY DEF S!Send, SP!Send, S!ServerExecutes, SP!ServerExecutes
<1>5. \A r \in Ids : /\ S!OrphanExecutes(r) => SP!OrphanExecutes(r)
                     /\ S!OrphanLost(r) => SP!OrphanLost(r)
  BY DEF S!OrphanExecutes, SP!OrphanExecutes, S!OrphanLost, SP!OrphanLost
<1> USE DEF S!Settled, SP!Settled, S!Pruned, SP!Pruned, S!Terminal, SP!Terminal,
            S!Absent, SP!Absent, S!Idle, SP!Idle, S!FailedRow, SP!FailedRow
<1>6. \A k \in Callers : S!SettleApplied(k) => SP!SettleApplied(k)
  BY DEF S!SettleApplied, SP!SettleApplied
<1>7. \A k \in Callers, err \in S!Errors : err \in SP!Errors /\ (S!Failed(k, err) => SP!Failed(k, err))
  BY DEF S!Failed, SP!Failed, S!ErrorsAt, SP!ErrorsAt, S!Errors, SP!Errors,
         S!StillOnTheWire, SP!StillOnTheWire, S!RetryOnExpiry, SP!RetryOnExpiry,
         S!CallMayHaveTakenEffect, SP!CallMayHaveTakenEffect, S!WithClientError,
         SP!WithClientError, S!InFlight, SP!InFlight
<1>8. \A r \in Ids : S!Reject(r) => SP!Reject(r)
  BY DEF S!Reject, SP!Reject
<1>9. S!Restart => SP!Restart
  BY DEF S!Restart, SP!Restart
<1>10. UNCHANGED storeVars => UNCHANGED SP!vars
  BY DEF storeVars, SP!vars
<1> HIDE DEF S!Settled, SP!Settled, S!Pruned, SP!Pruned, S!Idle, SP!Idle, Ids, S!Ids, SP!Ids,
             S!Terminal, SP!Terminal, S!Absent, SP!Absent, S!FailedRow, SP!FailedRow, S!RowOf, SP!RowOf
<1>11. OfTheStore
  BY StoreActs
<1> QED
  BY <1>1, <1>2, <1>3, <1>4, <1>5, <1>6, <1>7, <1>8, <1>9, <1>10, <1>11
  DEF OfTheStore, SP!Next, SP!Ids, Ids

\* The queue's helpers are the same operators in both instances.
LEMMA SameDrains ==
  /\ \A d, g, acts, rs : Q!Requested(d, g, acts, rs) = QP!Requested(d, g, acts, rs)
  /\ \A d, g, acts, rs : Q!NextPass(d, g, acts, rs) = QP!NextPass(d, g, acts, rs)
  /\ \A d, g, acts, rs : Q!Continue(d, g, acts, rs) = QP!Continue(d, g, acts, rs)
  /\ \A kind, rs : Q!Eligible(kind, rs) = QP!Eligible(kind, rs)
<1> USE DEF Q!Ids, QP!Ids, Q!Pending, QP!Pending, Q!Eligible, QP!Eligible, Q!NoDrain, QP!NoDrain
<1>1. \A rest, acts, rs : Q!Servable(rest, acts, rs) = QP!Servable(rest, acts, rs)
  BY DEF Q!Servable, QP!Servable
<1>2. \A ids : Q!Least(ids) = QP!Least(ids)
  BY DEF Q!Least, QP!Least
<1>3. \A rest, rerun, acts, rs : Q!Pass(rest, rerun, acts, rs) = QP!Pass(rest, rerun, acts, rs)
  BY <1>1, <1>2 DEF Q!Pass, QP!Pass
<1>4. \A acts, g : Q!PendingOn(acts, g) = QP!PendingOn(acts, g)
  BY DEF Q!PendingOn, QP!PendingOn
<1> QED
  BY <1>3, <1>4 DEF Q!Requested, QP!Requested, Q!NextPass, QP!NextPass, Q!Continue, QP!Continue

LEMMA QueueSteps ==
  ASSUME [Next]_vars
  PROVE  [QP!Next]_(QP!queueVars)
<1> USE SameDrains DEF Q!Ids, QP!Ids, Ids
<1>1. \A kind : Q!Submit(kind) => QP!Submit(kind) /\ kind \in Kinds
  BY DEF Q!Submit, QP!Submit, Q!NewRecord, QP!NewRecord
<1>2. \A tag \in Tags : /\ Q!EnableRule(Gatekeeper, tag) => QP!EnableRule(Gatekeeper, tag)
                        /\ Q!DisableRule(Gatekeeper, tag) => QP!DisableRule(Gatekeeper, tag)
  BY DEF Q!EnableRule, QP!EnableRule, Q!DisableRule, QP!DisableRule
<1>3. /\ Q!DrainApplied(Gatekeeper) => QP!DrainApplied(Gatekeeper)
      /\ Q!DrainThrew(Gatekeeper) => QP!DrainThrew(Gatekeeper)
  BY DEF Q!DrainApplied, QP!DrainApplied, Q!DrainThrew, QP!DrainThrew
<1>4. \A c, op, id : Q!Decide(c, op, id) => QP!Decide(c, op, id)
  BY DEF Q!Decide, QP!Decide, Q!Pending, QP!Pending
<1> USE DEF Q!DrainAndReturn, QP!DrainAndReturn, Q!NoOp, QP!NoOp
<1>5. \A c : /\ \A resumes : Q!Approved(c, resumes) => QP!Approved(c, resumes)
             /\ Q!Rejected(c) => QP!Rejected(c)
             /\ Q!DecisionThrew(c) => QP!DecisionThrew(c)
  BY DEF Q!Approved, QP!Approved, Q!Rejected, QP!Rejected, Q!DecisionThrew, QP!DecisionThrew
<1>6. \A c : (Q!Resumed(c) => QP!Resumed(c)) /\ (Q!ResumeThrew(c) => QP!ResumeThrew(c))
  BY DEF Q!Resumed, QP!Resumed, Q!ResumeThrew, QP!ResumeThrew
<1>7. Q!Restart => QP!Restart
  BY DEF Q!Restart, QP!Restart, Q!NoDrain, QP!NoDrain
<1>8. UNCHANGED queueVars => UNCHANGED QP!queueVars
  BY DEF queueVars, QP!queueVars
<1> HIDE DEF Q!DrainAndReturn, QP!DrainAndReturn, Q!NoOp, QP!NoOp
<1>9. ASSUME NEW k \in Callers, CallReturns(k) \/ CallThrows(k) \/ (k \in Clients /\ ProfileThrows(k))
      PROVE  \/ QP!DrainApplied(Gatekeeper) \/ QP!DrainThrew(Gatekeeper)
             \/ \E c \in Clients : \/ \E resumes \in BOOLEAN : QP!Approved(c, resumes)
                     \/ QP!Rejected(c) \/ QP!DecisionThrew(c)
  BY <1>3, <1>5, <1>9 DEF CallReturns, CallThrows, ProfileThrows, QueueStep, Callers
<1>10. \A k : /\ ApplyClaims(k) \/ ApplyAnswersAtOnce(k) \/ ApplySettles(k) \/ RejectAnswers(k)
                   => UNCHANGED queueVars
              /\ \A err : ApplyFails(k, err) => UNCHANGED queueVars
  BY DEF ApplyClaims, ApplyAnswersAtOnce, ApplySettles, ApplyFails, RejectAnswers
<1>11. UNCHANGED vars => UNCHANGED queueVars
  BY DEF vars, queueVars
<1> DEFINE OfTheQueue ==
       \/ \E kind \in Kinds : QP!Submit(kind)
       \/ \E tag \in Tags : QP!EnableRule(Gatekeeper, tag) \/ QP!DisableRule(Gatekeeper, tag)
       \/ QP!DrainApplied(Gatekeeper) \/ QP!DrainThrew(Gatekeeper)
       \/ \E c \in Clients, op \in {"approve", "reject"}, id \in Ids : QP!Decide(c, op, id)
       \/ \E c \in Clients : \/ \E resumes \in BOOLEAN : QP!Approved(c, resumes)
                             \/ QP!Rejected(c) \/ QP!DecisionThrew(c)
       \/ \E c \in Clients : QP!Resumed(c) \/ QP!ResumeThrew(c)
       \/ QP!Restart
       \/ UNCHANGED queueVars
<1>12. OfTheQueue
  <2>1. \A kind, r : File(kind, r) => QP!Submit(kind)
    BY <1>1 DEF File
  <2>2. \A c, op, id : Decide(c, op, id) => QP!Decide(c, op, id)
    BY <1>4 DEF Decide
  <2>3. (FacetRestart => UNCHANGED queueVars) /\ (OverseerRestart => QP!Restart)
    BY <1>7 DEF FacetRestart, OverseerRestart
  <2>3a. CASE \E k \in Callers : CallReturns(k) \/ CallThrows(k)
    BY <1>9, <2>3a
  <2>4. CASE \E c \in Clients : ProfileThrows(c)
    BY <1>5, <2>4 DEF ProfileThrows, QueueStep
  <2>5. CASE \/ \E k \in Callers : ApplyClaims(k) \/ ApplyAnswersAtOnce(k) \/ ApplySettles(k)
             \/ \E k \in Callers, err \in S!Errors : ApplyFails(k, err)
             \/ \E c \in Clients : RejectAnswers(c)
    BY <1>10, <2>5
  <2>6. CASE \/ \E tag \in Tags : \/ QueueStep(Q!EnableRule(Gatekeeper, tag))
                                 \/ QueueStep(Q!DisableRule(Gatekeeper, tag))
             \/ \E c \in Clients : QueueStep(Q!Resumed(c) \/ Q!ResumeThrew(c))
    BY <1>2, <1>6, <2>6 DEF QueueStep
  <2>7. CASE \/ StoreStep(S!Stage)
             \/ \E r \in Ids : StoreStep(S!Discard(r))
             \/ \E r \in Ids : StoreStep(S!OrphanExecutes(r) \/ S!OrphanLost(r))
             \/ \E k \in Callers : StoreStep(S!Send(k)) \/ StoreStep(S!ServerExecutes(k))
    BY <2>7 DEF StoreStep
  <2>8. CASE \/ \E kind \in Kinds, r \in Ids : File(kind, r)
             \/ \E c \in Clients, op \in {"approve", "reject"}, id \in Ids : Decide(c, op, id)
             \/ FacetRestart \/ OverseerRestart
             \/ UNCHANGED vars
    BY <1>11, <2>1, <2>2, <2>3, <2>8
  <2> HIDE DEF OfTheQueue
  <2>9. CASE Next
    BY <2>3a, <2>4, <2>5, <2>6, <2>7, <2>8, <2>9 DEF Next
  <2> QED BY <2>8, <2>9
<1> QED BY <1>8, <1>12 DEF QP!Next, QP!Ids, Ids

LEMMA PartsKeep == IInv /\ [Next]_vars => SP!IInv' /\ QP!IInv'
<1> SUFFICES ASSUME IInv, [Next]_vars PROVE SP!IInv' /\ QP!IInv'
  OBVIOUS
<1>1. /\ SP!IInv /\ QP!IInv /\ StoreFacts /\ QueueFacts /\ LinkTypes /\ RowsAreFiledOnce
  BY StoreKnows, QueueKnows DEF IInv, Links
<1>2. [SP!Next]_(SP!vars) /\ [QP!Next]_(QP!queueVars)
  BY <1>1, StoreSteps, QueueSteps
<1>3. SP!IInv'
  BY <1>1, <1>2, PartsAssumptions, SP!NextIInv
<1>4. QP!IInv'
  BY <1>1, <1>2, PartsAssumptions, QP!NextIInv
<1> QED BY <1>3, <1>4

-----------------------------------------------------------------------------
(* What a step of the store does to a row, up to a set X of rows on which it  *)
(* acts for a caller.                                                         *)

Calm(X) ==
  /\ nextRow' \in {nextRow, nextRow + 1}
  /\ \A r \in Ids : effects[r] = 1 => effects'[r] = 1
  /\ \A r \in Ids : r < nextRow /\ Gone(r) => Gone(r)'
  /\ \A r \in Ids : r < nextRow /\ LetGo(r) => rows'[r].state \notin {"pending", "rejected"}
  /\ \A r \in Ids \ X : /\ Started(r)' => Started(r)
                        /\ Fresh(r) => Fresh(r)'
                        /\ r \in submitting \cap submitting' /\ rows[r].state = "pending"
                             => rows'[r].state = "pending"

\* Rows that are settled or gone, at most disappear.
LEMMA PruningIsCalm ==
  ASSUME NEW table \in [Ids -> S!Row]
  PROVE  /\ S!Pruned(table) \in [Ids -> S!Row]
         /\ \A r \in Ids : \/ S!Pruned(table)[r] = table[r]
                           \/ /\ table[r].state \in {"applied", "rejected", "failed"}
                              /\ S!Pruned(table)[r].state = "absent"
BY DEF S!Pruned, S!Terminal, S!Absent, S!RowOf, S!Row, S!RowStates, Ids, S!Ids

LEMMA SettlingIsCalm ==
  ASSUME StoreFacts, NEW id \in Ids, NEW row \in S!Row,
         row.state \in {"applied", "rejected", "failed"}, rows' = S!Settled(id, row)
  PROVE  /\ rows' \in [Ids -> S!Row]
         /\ rows'[id].state \in {row.state, "absent"}
         /\ \A r \in Ids \ {id} : \/ rows'[r] = rows[r]
                                  \/ /\ rows[r].state \in {"applied", "rejected", "failed"}
                                     /\ rows'[r].state = "absent"
<1> DEFINE table == [rows EXCEPT ![id] = row]
<1>1. table \in [Ids -> S!Row] /\ table[id] = row /\ \A r \in Ids \ {id} : table[r] = rows[r]
  BY DEF StoreFacts
<1>2. rows' = S!Pruned(table)
  BY DEF S!Settled
<1> HIDE DEF table
<1> QED BY <1>1, <1>2, PruningIsCalm

LEMMA StoreIsCalm ==
  ASSUME StoreFacts,
         \/ S!Stage \/ S!Restart \/ UNCHANGED storeVars
         \/ \E r \in Ids : S!Submitted(r) \/ S!Discard(r)
         \/ \E r \in Ids : S!OrphanExecutes(r) \/ S!OrphanLost(r)
         \/ \E k \in Callers : S!Send(k) \/ S!ServerExecutes(k) \/ S!SettleApplied(k)
         \/ \E k \in Callers, err \in S!Errors : S!Failed(k, err)
  PROVE  Calm({})
<1> USE DEF Calm, Gone, Fresh, Started, LetGo, S!Untouched
<1>1. CASE S!Stage
  BY <1>1 DEF S!Stage, StoreFacts, S!RowOf, S!Absent, S!Ids, Ids
<1>2. CASE UNCHANGED storeVars
  BY <1>2 DEF storeVars, StoreFacts
<1>3. ASSUME NEW r \in Ids, S!Submitted(r) \/ S!Discard(r) PROVE Calm({})
  BY <1>3 DEF S!Submitted, S!Discard, StoreFacts, S!RowOf, S!Absent
<1>4. ASSUME NEW r \in Ids, S!OrphanExecutes(r) \/ S!OrphanLost(r) PROVE Calm({})
  <2>1. orphans[r] > 0 /\ UNCHANGED <<rows, nextRow, submitting>>
    BY <1>4 DEF S!OrphanExecutes, S!OrphanLost
  <2>2. orphans[r] = 1 /\ effects[r] = 0
    <3>1. orphans[r] \in Nat /\ effects[r] \in Nat /\ effects[r] + orphans[r] <= 1
      BY DEF StoreFacts
    <3> QED BY <2>1, <3>1
  <2>3. \A j \in Ids \ {r} : effects'[j] = effects[j] /\ orphans'[j] = orphans[j]
    BY <1>4 DEF S!OrphanExecutes, S!OrphanLost, StoreFacts
  <2> QED BY <2>1, <2>2, <2>3 DEF StoreFacts
<1>5. ASSUME NEW k \in Callers, S!Send(k) \/ S!ServerExecutes(k) PROVE Calm({})
  <2>1. /\ call[k].id \in Ids /\ rows[call[k].id].state = "applying" /\ S!Untouched(call[k].id)
    BY <1>5 DEF S!Send, S!ServerExecutes, StoreFacts
  <2>2. /\ UNCHANGED <<rows, nextRow, submitting, orphans>>
        /\ \A r \in Ids \ {call[k].id} : effects'[r] = effects[r]
    BY <1>5, <2>1 DEF S!Send, S!ServerExecutes, StoreFacts
  <2> QED BY <2>1, <2>2 DEF StoreFacts
<1>6. ASSUME NEW k \in Callers, S!SettleApplied(k) PROVE Calm({})
  <2>1. /\ call[k].id \in Ids /\ rows[call[k].id].state = "applying"
        /\ rows' = S!Settled(call[k].id, S!RowOf("applied"))
        /\ UNCHANGED <<nextRow, submitting, orphans, effects>>
    BY <1>6 DEF S!SettleApplied, StoreFacts
  <2>2. S!RowOf("applied") \in S!Row /\ S!RowOf("applied").state = "applied"
    BY DEF S!RowOf, S!Row, S!RowStates
  <2>3. /\ rows'[call[k].id].state \in {"applied", "absent"}
        /\ \A r \in Ids \ {call[k].id} :
             \/ rows'[r] = rows[r]
             \/ rows[r].state \in {"applied", "rejected", "failed"} /\ rows'[r].state = "absent"
    BY <2>1, <2>2, SettlingIsCalm
  <2> QED BY <2>1, <2>3 DEF StoreFacts
<1>7. ASSUME NEW k \in Callers, NEW err \in S!Errors, S!Failed(k, err) PROVE Calm({})
  <2> DEFINE id  == call[k].id
             row == S!FailedRow(~S!CallMayHaveTakenEffect(S!WithClientError(err)))
  <2>1. /\ id \in Ids /\ rows[id].state = "applying" /\ rows' = S!Settled(id, row)
        /\ UNCHANGED <<nextRow, submitting, effects>>
        /\ \A r \in Ids \ {id} : orphans'[r] = orphans[r]
    BY <1>7 DEF S!Failed, StoreFacts, S!RetryOnExpiry, S!InFlight
  <2>2. row \in S!Row /\ row.state = "failed"
    BY DEF S!FailedRow, S!Row, S!RowStates, S!CallMayHaveTakenEffect
  <2> HIDE DEF row
  <2>3. /\ rows'[id].state \in {"failed", "absent"}
        /\ \A r \in Ids \ {id} :
             \/ rows'[r] = rows[r]
             \/ rows[r].state \in {"applied", "rejected", "failed"} /\ rows'[r].state = "absent"
    BY <2>1, <2>2, SettlingIsCalm
  <2> QED BY <2>1, <2>3 DEF StoreFacts
<1>8. CASE S!Restart
  <2> DEFINE closed == [r \in Ids |-> IF rows[r].state = "applying"
                                      THEN S!FailedRow(FALSE) ELSE rows[r]]
  <2>1. /\ closed \in [Ids -> S!Row]
        /\ \A r \in Ids : \/ closed[r] = rows[r]
                          \/ rows[r].state = "applying" /\ closed[r].state = "failed"
    BY DEF StoreFacts, S!FailedRow, S!Row, S!RowStates
  <2>2. rows' = S!Pruned(closed) /\ UNCHANGED <<nextRow, effects>> /\ submitting' = {}
    BY <1>8 DEF S!Restart, Ids, S!Ids
  <2> HIDE DEF closed
  <2>3. \A r \in Ids : \/ rows'[r] = rows[r]
                       \/ rows[r].state = "applying" /\ rows'[r].state \in {"absent", "failed"}
                       \/ /\ rows[r].state \in {"applied", "rejected", "failed"}
                          /\ rows'[r].state = "absent"
    BY <2>1, <2>2, PruningIsCalm
  <2>4. \A r \in Ids : rows[r].state # "applying" => orphans'[r] = orphans[r]
    <3> SUFFICES ASSUME NEW r \in Ids, rows[r].state # "applying" PROVE orphans'[r] = orphans[r]
      OBVIOUS
    <3> DEFINE sending == {k \in Callers : call[k] = [pc |-> "sent", id |-> r]}
    <3>1. sending = {}
      BY DEF StoreFacts
    <3>2. orphans'[r] = orphans[r] + Cardinality(sending)
      BY <1>8, Cardinalities DEF S!Restart, Ids, S!Ids
    <3>3. orphans[r] \in Nat
      BY DEF StoreFacts
    <3> HIDE DEF sending
    <3> QED BY <3>1, <3>2, <3>3, FS_EmptySet
  <2>5. \A r \in Ids : Started(r)' => Started(r)
    BY <2>2, <2>3, <2>4
  <2>6. \A r \in Ids : Fresh(r) => Fresh(r)'
    BY <2>2, <2>3, <2>4
  <2> QED BY <2>2, <2>3, <2>5, <2>6
<1> QED BY <1>1, <1>2, <1>3, <1>4, <1>5, <1>6, <1>7, <1>8

\* A claim starts its row, and a rejection ends it; neither touches another.
LEMMA ClaimIsCalm ==
  ASSUME StoreFacts, NEW k \in Callers, NEW r \in Ids, S!Claim(k, r)
  PROVE  Calm({r})
BY DEF S!Claim, S!Claimable, StoreFacts, Calm, Gone, Fresh, Started, LetGo, S!Untouched

LEMMA RejectionIsCalm ==
  ASSUME StoreFacts, NEW r \in Ids, S!Reject(r)
  PROVE  Calm({r}) /\ Gone(r)' /\ ~Started(r)'
<1>1. S!RowOf("rejected") \in S!Row /\ S!RowOf("rejected").state = "rejected"
  BY DEF S!RowOf, S!Row, S!RowStates
<1>2. /\ rows[r].state = "pending" /\ rows' = S!Settled(r, S!RowOf("rejected"))
      /\ UNCHANGED <<nextRow, submitting, call, orphans, effects>>
  BY DEF S!Reject
<1>3. /\ rows'[r].state \in {"rejected", "absent"}
      /\ \A j \in Ids \ {r} :
           \/ rows'[j] = rows[j]
           \/ rows[j].state \in {"applied", "rejected", "failed"} /\ rows'[j].state = "absent"
  BY <1>1, <1>2, SettlingIsCalm
<1>4. S!Untouched(r)
  BY <1>2 DEF StoreFacts, S!RowTellsTheTruth, Ids, S!Ids
<1> QED BY <1>2, <1>3, <1>4 DEF StoreFacts, Calm, Gone, Fresh, Started, LetGo, S!Untouched

-----------------------------------------------------------------------------
(* What keeps each link.                                                     *)

Known == StoreFacts /\ QueueFacts /\ Links

\* Records keep their kind, and none becomes pending again.
QueueCalm ==
  \A id \in Ids : /\ actions'[id].kind = actions[id].kind
                  /\ actions'[id].state = "pending" => actions[id].state = "pending"

\* Rows stay filed as they are while the store only acts on filed ones.
LEMMA FilingKept ==
  ASSUME Known, NEW X \in SUBSET Ids, Calm(X),
         \A r \in X : \E id \in Ids : rowOf[id] = r,
         UNCHANGED <<rowOf, nextActionId>>, submitting' \subseteq submitting
  PROVE  RowsAreFiledOnce' /\ UnfiledIsFresh'
<1>1. submitting \subseteq Ids /\ nextRow \in Nat /\ \A id \in Ids : Filed(id) => rowOf[id] \in Nat
  BY DEF Known, StoreFacts, Links, LinkTypes, Ids
<1>2. nextRow <= nextRow'
  BY <1>1 DEF Calm
<1>3. RowsAreFiledOnce'
  <2>1. \A id \in Ids : Filed(id)' <=> Filed(id)
    BY DEF Filed
  <2>2. ASSUME NEW id \in Ids, Filed(id) PROVE rowOf[id] < nextRow' /\ rowOf[id] \notin submitting'
    <3>1. rowOf[id] < nextRow /\ rowOf[id] \notin submitting /\ nextRow' \in Nat
      BY <1>1, <2>2 DEF Known, Links, RowsAreFiledOnce, Calm
    <3> QED BY <1>1, <1>2, <2>2, <3>1
  <2> QED BY <2>1, <2>2 DEF Known, Links, RowsAreFiledOnce
<1>4. ASSUME NEW r \in submitting, r \in X PROVE FALSE
  <2>1. PICK id \in Ids : rowOf[id] = r
    BY <1>4
  <2>2. Filed(id)
    BY <1>1, <2>1 DEF Filed, Ids
  <2> QED BY <1>4, <2>1, <2>2 DEF Known, Links, RowsAreFiledOnce
<1>5. \A r \in Ids : (\A id \in Ids : rowOf[id] # r) => Fresh(r)'
  BY DEF Known, Links, UnfiledIsFresh, Calm
<1>6. \A r \in submitting' : r < nextRow' /\ rows'[r].state = "pending"
  <2> SUFFICES ASSUME NEW r \in submitting' PROVE r < nextRow' /\ rows'[r].state = "pending"
    OBVIOUS
  <2>1. r \in Ids \ X /\ r \in submitting /\ r < nextRow /\ rows[r].state = "pending"
    BY <1>1, <1>4 DEF Known, Links, UnfiledIsFresh
  <2>2. r \in Nat /\ nextRow' \in Nat
    BY <1>1, <2>1 DEF Calm, Ids
  <2> QED BY <1>1, <1>2, <2>1, <2>2 DEF Calm
<1> QED BY <1>3, <1>5, <1>6 DEF UnfiledIsFresh

\* What was decided stays true of the world.
LEMMA TruthKept ==
  ASSUME Known, NEW X, Calm(X), QueueCalm, UNCHANGED rowOf, asked \subseteq asked',
         \A id \in Ids : Filed(id) =>
           /\ actions'[id].state = "approved" =>
                actions[id].state = "approved" \/ effects[rowOf[id]] = 1
           /\ actions'[id].state = "rejected" =>
                actions[id].state = "rejected" \/ Gone(rowOf[id])
           /\ rowOf[id] \in X /\ id \notin asked /\ Started(rowOf[id])' => GatesOpenFor(id)
  PROVE  ApprovedIsDone' /\ RejectedIsGone' /\ GatesWereOpen'
<1>1. \A id \in Ids : /\ Filed(id)' <=> Filed(id)
                      /\ Filed(id) => rowOf[id] \in Ids /\ rowOf[id] < nextRow
  BY DEF Filed, Known, Links, LinkTypes, RowsAreFiledOnce
<1>2. ApprovedIsDone'
  BY <1>1 DEF Known, Links, ApprovedIsDone, Calm
<1>3. RejectedIsGone'
  BY <1>1 DEF Known, Links, RejectedIsGone, Calm, Gone
<1>4. ASSUME NEW id \in Ids, Filed(id), id \notin asked', Started(rowOf[id])'
      PROVE  GatesOpenFor(id)'
  <2>1. GatesOpenFor(id)
    BY <1>1, <1>4 DEF Known, Links, GatesWereOpen, Calm
  <2> QED BY <2>1 DEF GatesOpenFor, QueueCalm
<1>5. GatesWereOpen'
  BY <1>1, <1>4 DEF GatesWereOpen, Started, S!Untouched
<1> QED BY <1>2, <1>3, <1>5

\* A caller whose RPC goes on, or is over, while nobody answers it.
LEMMA CallerKept ==
  ASSUME Known, NEW k \in Callers, NEW X, Calm(X), UNCHANGED rowOf, asked \subseteq asked',
         call'[k].pc # "idle" => call[k].pc # "idle" /\ call'[k].id = call[k].id,
         answer'[k] \in {answer[k], "none"},
         Applying(k) # 0 => Applying(k)' = Applying(k),
         IF k = Gatekeeper THEN drain[k].on => drain'[k].on ELSE ops'[k] = ops[k]
  PROVE  CallerOK(k)'
<1>1. CallerOK(k)
  BY DEF Known, Links, CallsAreDecisions
<1>2. Applying(k) # 0 => rowOf[Applying(k)] \in Ids /\ Applying(k) \in Ids
  BY CallersAct DEF Known, Links
<1>3. k # Gatekeeper /\ ops[k].pc = "calling" =>
        rowOf[ops[k].id] \in Ids /\ rowOf[ops[k].id] < nextRow
  BY CallersAct DEF Known, Links, RowsAreFiledOnce, Callers
<1>4. answer[k] # "none" /\ Applying(k) = 0 => Applying(k)' = 0
  BY <1>1 DEF CallerOK, Applying, Known, QueueFacts, Ids
<1>5. answer'[k] = "ok" /\ Applying(k)' # 0 =>
        Applying(k)' = Applying(k) /\ effects'[rowOf[Applying(k)]] = 1
  BY <1>1, <1>2, <1>4 DEF CallerOK, Calm
<1>6. ASSUME k # Gatekeeper, ops'[k].pc = "calling"
      PROVE  /\ ops'[k] = ops[k] /\ ops[k].op \in {"approve", "reject"}
             /\ ops[k].op = "approve" => ops[k].id \in asked'
             /\ ops[k].op = "reject" /\ answer'[k] = "ok" =>
                  rows'[rowOf[ops[k].id]].state \in {"rejected", "absent"}
  <2>1. ops'[k] = ops[k] /\ ops[k].pc = "calling"
    BY <1>6
  <2>2. rowOf[ops[k].id] \in Ids /\ rowOf[ops[k].id] < nextRow
    BY <1>3, <1>6, <2>1
  <2>3. Gone(rowOf[ops[k].id]) => rows'[rowOf[ops[k].id]].state \in {"rejected", "absent"}
    BY <2>2 DEF Calm, Gone
  <2> QED BY <1>1, <1>6, <2>1, <2>3 DEF CallerOK
<1>7. call'[k].pc # "idle" =>
        /\ Applying(k)' # 0 /\ Applying(k)' = Applying(k)
        /\ call'[k].id = rowOf[Applying(k)] /\ answer'[k] = "none"
  BY <1>1 DEF CallerOK
<1>8. answer'[k] # "none" => IF k = Gatekeeper THEN drain'[k].on ELSE ops'[k].pc = "calling"
  BY <1>1 DEF CallerOK
<1> QED BY <1>5, <1>6, <1>7, <1>8 DEF CallerOK, Gone

\* A caller that is answered what is so.
LEMMA CallerAnswered ==
  ASSUME Known, NEW k \in Callers, NEW X, Calm(X), UNCHANGED <<queueVars, rowOf, asked>>,
         call'[k].pc = "idle",
         IF k = Gatekeeper THEN drain[k].on ELSE ops[k].pc = "calling",
         \/ answer'[k] = "error"
         \/ /\ answer'[k] = "ok"
            /\ Applying(k) # 0 => effects'[rowOf[Applying(k)]] = 1
            /\ k # Gatekeeper /\ ops[k].op = "reject" => Gone(rowOf[ops[k].id])'
  PROVE  CallerOK(k)'
<1>1. CallerOK(k)
  BY DEF Known, Links, CallsAreDecisions
<1>2. Applying(k)' = Applying(k) /\ drain' = drain /\ ops' = ops
  BY DEF Applying, queueVars
<1> QED BY <1>1, <1>2 DEF CallerOK, Gone

\* A caller that waits for nothing and was told nothing.
LEMMA CallerOver ==
  ASSUME NEW k \in Callers, call'[k].pc = "idle", answer'[k] = "none",
         k # Gatekeeper => ops'[k].pc # "calling"
  PROVE  CallerOK(k)'
BY DEF CallerOK

LEMMA StillIsCalm == StoreFacts /\ UNCHANGED storeVars => Calm({})
BY StoreIsCalm

-----------------------------------------------------------------------------
(* Steps of the store.                                                       *)

\* Nobody is answered.
LEMMA QuietStoreKeeps ==
  ASSUME Known, Calm({}), UNCHANGED <<queueVars, rowOf, answer, asked>>,
         submitting' \subseteq submitting,
         \A k \in Callers : call'[k].pc # "idle" => call[k].pc # "idle" /\ call'[k].id = call[k].id
  PROVE  Links'
<1>1. LinkTypes' /\ QueueCalm
  BY DEF Known, Links, LinkTypes, QueueCalm, queueVars
<1>2. RowsAreFiledOnce' /\ UnfiledIsFresh'
  BY FilingKept DEF queueVars
<1>3. ApprovedIsDone' /\ RejectedIsGone' /\ GatesWereOpen'
  BY <1>1, TruthKept DEF queueVars
<1>4. ASSUME NEW k \in Callers PROVE CallerOK(k)'
  <2>1. Applying(k)' = Applying(k)
    BY DEF Applying, queueVars
  <2> QED BY <2>1, CallerKept DEF queueVars
<1> QED BY <1>1, <1>2, <1>3, <1>4 DEF Links, CallsAreDecisions

LEMMA StoreStepKeeps ==
  ASSUME Known,
         \/ \E r \in Ids : StoreStep(S!Discard(r))
         \/ \E k \in Callers : StoreStep(S!Send(k)) \/ StoreStep(S!ServerExecutes(k))
         \/ \E r \in Ids : StoreStep(S!OrphanExecutes(r) \/ S!OrphanLost(r))
  PROVE  Links'
<1>1. Calm({})
  BY StoreIsCalm DEF StoreStep, Known
<1>2. UNCHANGED <<queueVars, rowOf, answer, asked>> /\ submitting' \subseteq submitting
  BY DEF StoreStep, S!Discard, S!Send, S!ServerExecutes, S!OrphanExecutes, S!OrphanLost
<1>3. \A k \in Callers : call'[k].pc # "idle" => call[k].pc # "idle" /\ call'[k].id = call[k].id
  <2>1. call \in [Callers -> S!Call]
    BY DEF Known, StoreFacts
  <2>2. \/ UNCHANGED call
        \/ \E k \in Callers, pc \in {"sent", "executed"} :
             call[k].pc # "idle" /\ call' = [call EXCEPT ![k].pc = pc]
    BY DEF StoreStep, S!Discard, S!Send, S!ServerExecutes, S!OrphanExecutes, S!OrphanLost
  <2> QED BY <2>1, <2>2 DEF S!Call
<1> QED BY <1>1, <1>2, <1>3, QuietStoreKeeps

\* Caller k is answered.
LEMMA AnswerKeeps ==
  ASSUME Known, NEW k \in Callers, NEW X \in SUBSET Ids, Calm(X),
         UNCHANGED <<queueVars, rowOf, asked>>, submitting' \subseteq submitting,
         NEW a \in {"ok", "error"}, answer' = [answer EXCEPT ![k] = a],
         call'[k].pc = "idle", \A j \in Callers \ {k} : call'[j] = call[j],
         \A r \in X : (\E id \in Ids : rowOf[id] = r) /\ ~Started(r)',
         IF k = Gatekeeper THEN drain[k].on ELSE ops[k].pc = "calling",
         a = "ok" =>
            /\ Applying(k) # 0 => effects'[rowOf[Applying(k)]] = 1
            /\ k # Gatekeeper /\ ops[k].op = "reject" => Gone(rowOf[ops[k].id])'
  PROVE  Links'
<1>1. LinkTypes' /\ QueueCalm
  BY DEF Known, Links, LinkTypes, QueueCalm, queueVars
<1>2. RowsAreFiledOnce' /\ UnfiledIsFresh'
  BY FilingKept DEF queueVars
<1>3. ApprovedIsDone' /\ RejectedIsGone' /\ GatesWereOpen'
  <2>1. \A id \in Ids : rowOf[id] \in X => ~Started(rowOf[id])'
    BY DEF Started, S!Untouched
  <2> QED BY <1>1, <2>1, TruthKept DEF queueVars
<1>4. answer'[k] = a /\ \A j \in Callers \ {k} : answer'[j] = answer[j]
  BY DEF Known, Links, LinkTypes
<1>5. CallerOK(k)'
  BY <1>4, CallerAnswered
<1>6. ASSUME NEW j \in Callers \ {k} PROVE CallerOK(j)'
  <2>1. Applying(j)' = Applying(j)
    BY DEF Applying, queueVars
  <2> QED BY <1>4, <2>1, CallerKept DEF queueVars
<1> QED BY <1>1, <1>2, <1>3, <1>5, <1>6 DEF Links, CallsAreDecisions

LEMMA QuietAnswerKeeps ==
  ASSUME Known, NEW k \in Callers, Calm({}),
         UNCHANGED <<queueVars, rowOf, asked>>, submitting' \subseteq submitting,
         NEW a \in {"ok", "error"}, answer' = [answer EXCEPT ![k] = a],
         call'[k].pc = "idle", \A j \in Callers \ {k} : call'[j] = call[j],
         IF k = Gatekeeper THEN drain[k].on ELSE ops[k].pc = "calling",
         a = "ok" =>
            /\ Applying(k) # 0 => effects'[rowOf[Applying(k)]] = 1
            /\ k # Gatekeeper /\ ops[k].op = "reject" => Gone(rowOf[ops[k].id])'
  PROVE  Links'
<1> DEFINE X == {}
<1>1. X \in SUBSET Ids /\ Calm(X) /\ \A r \in X : (\E id \in Ids : rowOf[id] = r) /\ ~Started(r)'
  OBVIOUS
<1> HIDE DEF X
<1> QED BY <1>1, AnswerKeeps

LEMMA AnswersAtOnceKeep ==
  ASSUME Known, NEW k \in Callers, ApplyAnswersAtOnce(k)
  PROVE  Links'
<1> DEFINE a == IF rows[rowOf[Applying(k)]].state = "applied" THEN "ok" ELSE "error"
<1>1. /\ Applying(k) # 0 /\ answer' = [answer EXCEPT ![k] = a] /\ call[k].pc = "idle"
      /\ UNCHANGED <<queueVars, storeVars, rowOf, asked>>
  BY DEF ApplyAnswersAtOnce, Unserved
<1>2. rowOf[Applying(k)] \in Ids
  BY <1>1, CallersAct DEF Known, Links
<1>3. a = "ok" => effects'[rowOf[Applying(k)]] = 1
  BY <1>1, <1>2 DEF Known, StoreFacts, S!RowTellsTheTruth, storeVars, S!Ids, Ids
<1>4. IF k = Gatekeeper THEN drain[k].on ELSE ops[k].pc = "calling" /\ ops[k].op = "approve"
  BY <1>1 DEF Applying, Known, QueueFacts
<1> HIDE DEF a
<1>5. Calm({}) /\ UNCHANGED call /\ UNCHANGED submitting
  BY <1>1, StillIsCalm DEF Known, storeVars
<1>6. a \in {"ok", "error"}
  BY DEF a
<1> QED BY <1>1, <1>3, <1>4, <1>5, <1>6, QuietAnswerKeeps

LEMMA SettlingKeeps ==
  ASSUME Known, NEW k \in Callers,
         ApplySettles(k) \/ \E err \in S!Errors : ApplyFails(k, err)
  PROVE  Links'
<1>1. /\ Calm({}) /\ UNCHANGED <<queueVars, rowOf, asked>> /\ UNCHANGED submitting
      /\ call[k].pc # "idle" /\ call'[k].pc = "idle"
      /\ \A j \in Callers \ {k} : call'[j] = call[j]
  BY StoreIsCalm DEF ApplySettles, ApplyFails, S!SettleApplied, S!Failed, S!Idle, S!InFlight,
     S!RetryOnExpiry, Known, StoreFacts
<1>2. Applying(k) # 0 /\ call[k].id = rowOf[Applying(k)]
  BY <1>1 DEF Known, Links, CallsAreDecisions, CallerOK
<1>3. IF k = Gatekeeper THEN drain[k].on ELSE ops[k].pc = "calling" /\ ops[k].op = "approve"
  BY <1>2 DEF Applying, Known, QueueFacts
<1>4. CASE ApplySettles(k)
  <2>1. answer' = [answer EXCEPT ![k] = "ok"] /\ effects'[rowOf[Applying(k)]] = 1
    BY <1>2, <1>4 DEF ApplySettles, S!SettleApplied, Known, StoreFacts
  <2> QED BY <1>1, <1>3, <2>1, QuietAnswerKeeps
<1>5. CASE \E err \in S!Errors : ApplyFails(k, err)
  <2>1. answer' = [answer EXCEPT ![k] = "error"]
    BY <1>1, <1>5 DEF ApplyFails
  <2> QED BY <1>1, <1>3, <2>1, QuietAnswerKeeps
<1> QED BY <1>4, <1>5

LEMMA RejectAnswersKeeps ==
  ASSUME Known, NEW c \in Clients, RejectAnswers(c)
  PROVE  Links'
<1>1. PICK r \in Ids : r = rowOf[ops[c].id]
  BY CallersAct DEF RejectAnswers, Known, Links
<1>2. PICK a \in {"ok", "error"} :
        a = IF rows[r].state \in {"pending", "rejected", "absent"} THEN "ok" ELSE "error"
  OBVIOUS
<1>3. /\ ops[c].op = "reject" /\ ops[c].pc = "calling" /\ call[c].pc = "idle"
      /\ answer' = [answer EXCEPT ![c] = a] /\ UNCHANGED <<queueVars, rowOf, asked>>
      /\ IF rows[r].state = "pending" THEN S!Reject(r) ELSE UNCHANGED storeVars
  BY <1>1, <1>2 DEF RejectAnswers, Unserved
<1>4. ops[c].id \in Ids /\ c \in Callers /\ c # Gatekeeper
  BY <1>3, CallersAct, ApprovalAssumption DEF Known, Links, Callers
<1>5. Applying(c) = 0
  BY <1>3, <1>4 DEF Applying
<1>6. Gone(rowOf[ops[c].id])' <=> Gone(r)'
  BY <1>1, <1>3 DEF Gone, queueVars
<1>7. CASE rows[r].state = "pending"
  <2>1. Calm({r}) /\ Gone(r)' /\ ~Started(r)'
    BY <1>3, <1>7, RejectionIsCalm DEF Known
  <2>2. UNCHANGED call /\ UNCHANGED submitting
    BY <1>3, <1>7 DEF S!Reject
  <2> DEFINE X == {r}
  <2>3. X \in SUBSET Ids /\ Calm(X) /\ \A x \in X : (\E id \in Ids : rowOf[id] = x) /\ ~Started(x)'
    BY <1>1, <1>4, <2>1
  <2> HIDE DEF X
  <2> QED BY <1>3, <1>4, <1>5, <1>6, <2>1, <2>2, <2>3, AnswerKeeps
<1>8. CASE rows[r].state # "pending"
  <2>1. Calm({}) /\ UNCHANGED call /\ UNCHANGED submitting /\ UNCHANGED rows
    BY <1>3, <1>8, StillIsCalm DEF Known, storeVars
  <2>2. a = "ok" => Gone(r)'
    BY <1>2, <1>8, <2>1 DEF Gone
  <2> QED BY <1>3, <1>4, <1>5, <1>6, <2>1, <2>2, QuietAnswerKeeps
<1> QED BY <1>7, <1>8

\* A claim lets a call go: a user asked for it, or its gates were open.
LEMMA ClaimsKeep ==
  ASSUME Known, NEW k \in Callers, ApplyClaims(k)
  PROVE  Links'
<1>1. PICK id \in Ids, r \in Ids : id = Applying(k) /\ r = rowOf[id] /\ Filed(id)
  BY CallersAct DEF ApplyClaims, Known, Links
<1>2. /\ S!Claim(k, r) /\ UNCHANGED <<queueVars, rowOf, answer, asked>> /\ answer[k] = "none"
      /\ id # 0
  BY <1>1 DEF ApplyClaims, Unserved, Ids
<1> DEFINE X == {r}
<1>3. X \in SUBSET Ids /\ Calm(X) /\ UNCHANGED submitting
  BY <1>2, ClaimIsCalm DEF Known, S!Claim
<1>4. call'[k] = [pc |-> "connecting", id |-> r] /\ \A j \in Callers \ {k} : call'[j] = call[j]
  BY <1>2 DEF S!Claim, Known, StoreFacts
<1>5. id \in asked \/ GatesOpenFor(id)
  <2>1. CASE k = Gatekeeper
    <3>1. drain[Gatekeeper].cur = id
      BY <1>1, <2>1 DEF Applying
    <3> QED BY <1>2, <3>1 DEF Known, QueueFacts
  <2>2. CASE k # Gatekeeper
    BY <1>1, <1>2, <2>2 DEF Applying, Known, Links, CallsAreDecisions, CallerOK
  <2> QED BY <2>1, <2>2
<1>6. LinkTypes' /\ QueueCalm
  BY <1>2 DEF Known, Links, LinkTypes, QueueCalm, queueVars
<1>7. RowsAreFiledOnce' /\ UnfiledIsFresh'
  BY <1>1, <1>2, <1>3, FilingKept DEF queueVars
<1>8. ApprovedIsDone' /\ RejectedIsGone' /\ GatesWereOpen'
  <2>1. \A j \in Ids : Filed(j) /\ rowOf[j] \in X => j = id
    BY <1>1 DEF Known, Links, RowsAreFiledOnce
  <2> HIDE DEF X
  <2> QED BY <1>2, <1>3, <1>5, <1>6, <2>1, TruthKept DEF queueVars
<1>9. CallerOK(k)'
  <2>1. Applying(k)' = id /\ rowOf' = rowOf /\ answer'[k] = "none" /\ asked' = asked /\ ops' = ops
    BY <1>1, <1>2 DEF Applying, queueVars
  <2>2. CallerOK(k)
    BY DEF Known, Links, CallsAreDecisions
  <2> QED BY <1>1, <1>2, <1>4, <2>1, <2>2 DEF CallerOK
<1>10. ASSUME NEW j \in Callers \ {k} PROVE CallerOK(j)'
  <2>1. Applying(j)' = Applying(j)
    BY <1>2 DEF Applying, queueVars
  <2> HIDE DEF X
  <2> QED BY <1>2, <1>3, <1>4, <2>1, CallerKept DEF queueVars
<1> QED BY <1>6, <1>7, <1>8, <1>9, <1>10 DEF Links, CallsAreDecisions

\* stage() writes a row of its own, of which nobody knows yet.
LEMMA StageKeeps ==
  ASSUME Known, StoreStep(S!Stage)
  PROVE  Links'
<1>1. /\ UNCHANGED <<queueVars, rowOf, answer, asked, call, effects, orphans>>
      /\ nextRow \in Ids /\ nextRow' = nextRow + 1 /\ submitting' = submitting \cup {nextRow}
      /\ rows' = [rows EXCEPT ![nextRow] = S!RowOf("pending")]
  BY DEF StoreStep, S!Stage, Ids, S!Ids
<1>2. Calm({})
  BY StoreIsCalm DEF StoreStep, Known
<1>3. LinkTypes' /\ QueueCalm
  BY <1>1 DEF Known, Links, LinkTypes, QueueCalm, queueVars
<1>4. RowsAreFiledOnce'
  <2>1. /\ nextActionId' = nextActionId /\ rowOf' = rowOf /\ nextRow \in Nat
        /\ \A id \in Ids : Filed(id) => rowOf[id] \in Nat
    BY <1>1 DEF queueVars, Known, Links, LinkTypes, Ids
  <2>2. ASSUME NEW id \in Ids, Filed(id) PROVE rowOf[id] < nextRow' /\ rowOf[id] \notin submitting'
    BY <1>1, <2>1, <2>2 DEF Known, Links, RowsAreFiledOnce
  <2> QED BY <2>1, <2>2 DEF Known, Links, RowsAreFiledOnce, Filed
<1>5. UnfiledIsFresh'
  <2>1. ASSUME NEW r \in submitting' PROVE r < nextRow' /\ rows'[r].state = "pending"
    <3>1. r \in submitting => r < nextRow /\ r \in Ids /\ rows[r].state = "pending"
      BY DEF Known, Links, UnfiledIsFresh, StoreFacts
    <3>2. rows' \in [Ids -> S!Row] /\ rows'[nextRow].state = "pending"
      BY <1>1 DEF Known, StoreFacts, S!RowOf, S!Row, S!RowStates
    <3> QED BY <1>1, <2>1, <3>1, <3>2 DEF Known, StoreFacts, Ids
  <2>2. \A r \in Ids : (\A id \in Ids : rowOf[id] # r) => Fresh(r)'
    BY <1>2 DEF Calm, Known, Links, UnfiledIsFresh
  <2> QED BY <1>1, <2>1, <2>2 DEF UnfiledIsFresh
<1>6. ApprovedIsDone' /\ RejectedIsGone' /\ GatesWereOpen'
  BY <1>1, <1>2, <1>3, TruthKept DEF queueVars
<1>7. ASSUME NEW k \in Callers PROVE CallerOK(k)'
  <2>1. Applying(k)' = Applying(k)
    BY <1>1 DEF Applying, queueVars
  <2> QED BY <1>1, <1>2, <2>1, CallerKept DEF queueVars
<1> QED BY <1>3, <1>4, <1>5, <1>6, <1>7 DEF Links, CallsAreDecisions

-----------------------------------------------------------------------------
(* Steps of the queue.                                                       *)

\* A drain that runs is not turned to another record.
DrainGoesOn ==
  drain[Gatekeeper].on => drain'[Gatekeeper].on /\ drain'[Gatekeeper].cur = drain[Gatekeeper].cur

LEMMA AskingGoesOn ==
  ASSUME Known, NEW acts, NEW rs,
         drain' = [drain EXCEPT ![Gatekeeper] = Q!Requested(@, Gatekeeper, acts, rs)]
  PROVE  DrainGoesOn
<1>1. drain[Gatekeeper] \in Q!Drain /\ drain'[Gatekeeper] = Q!Requested(drain[Gatekeeper], Gatekeeper, acts, rs)
  BY DEF Known, QueueFacts
<1> QED BY <1>1 DEF DrainGoesOn, Q!Requested, Q!Drain

\* A caller that is not concerned.
LEMMA OthersKept ==
  ASSUME Known, UNCHANGED <<storeVars, rowOf>>, asked \subseteq asked',
         NEW k \in Callers, answer'[k] = answer[k],
         IF k = Gatekeeper THEN DrainGoesOn ELSE ops'[k] = ops[k]
  PROVE  CallerOK(k)'
<1>1. Calm({}) /\ UNCHANGED call
  BY StillIsCalm DEF Known, storeVars
<1>2. Applying(k) # 0 => Applying(k)' = Applying(k)
  BY DEF Applying, DrainGoesOn, Known, QueueFacts
<1>3. IF k = Gatekeeper THEN drain[k].on => drain'[k].on ELSE ops'[k] = ops[k]
  BY DEF DrainGoesOn
<1> QED BY <1>1, <1>2, <1>3, CallerKept

\* A caller that is neither answered nor served.
LEMMA IdleCallers ==
  ASSUME Known, NEW k \in Callers
  PROVE  /\ answer[k] # "none" => call[k].pc = "idle"
         /\ k # Gatekeeper /\ ops[k].pc # "calling" => call[k].pc = "idle" /\ answer[k] = "none"
<1>1. CallerOK(k)
  BY DEF Known, Links, CallsAreDecisions
<1> QED BY <1>1 DEF CallerOK, Applying

\* What the queue does, if every caller is right about it.
LEMMA QueueKeeps ==
  ASSUME Known, UNCHANGED <<storeVars, rowOf, nextActionId>>, LinkTypes', asked \subseteq asked',
         QueueCalm,
         \A id \in Ids : Filed(id) =>
           /\ actions'[id].state = "approved" =>
                actions[id].state = "approved" \/ effects[rowOf[id]] = 1
           /\ actions'[id].state = "rejected" =>
                actions[id].state = "rejected" \/ Gone(rowOf[id]),
         \A k \in Callers : CallerOK(k)'
  PROVE  Links'
<1>1. Calm({}) /\ UNCHANGED submitting
  BY StillIsCalm DEF Known, storeVars
<1>2. RowsAreFiledOnce' /\ UnfiledIsFresh'
  BY <1>1, FilingKept
<1>3. ApprovedIsDone' /\ RejectedIsGone' /\ GatesWereOpen'
  BY <1>1, TruthKept
<1> QED BY <1>2, <1>3 DEF Links, CallsAreDecisions

LEMMA RulesKeep ==
  ASSUME Known, NEW tag,
         QueueStep(Q!EnableRule(Gatekeeper, tag)) \/ QueueStep(Q!DisableRule(Gatekeeper, tag))
  PROVE  Links'
<1>1. /\ UNCHANGED <<storeVars, rowOf, nextActionId, actions, ops, answer, asked>> /\ DrainGoesOn
  BY AskingGoesOn DEF QueueStep, Q!EnableRule, Q!DisableRule, DrainGoesOn
<1>2. LinkTypes' /\ QueueCalm
  BY <1>1 DEF Known, Links, LinkTypes, QueueCalm
<1>3. \A k \in Callers : CallerOK(k)'
  BY <1>1, OthersKept
<1> QED BY <1>1, <1>2, <1>3, QueueKeeps

LEMMA DecideKeeps ==
  ASSUME Known, NEW c \in Clients, NEW op \in {"approve", "reject"}, NEW id \in Ids,
         Decide(c, op, id)
  PROVE  Links'
<1>1. /\ UNCHANGED <<storeVars, rowOf, nextActionId, actions, drain, answer>>
      /\ ops[c].pc = "idle" /\ ops' = [ops EXCEPT ![c] = [op |-> op, id |-> id, pc |-> "calling"]]
      /\ asked' = IF op = "approve" THEN asked \cup {id} ELSE asked
  BY DEF Decide, Q!Decide
<1>2. LinkTypes' /\ QueueCalm
  BY <1>1 DEF Known, Links, LinkTypes, QueueCalm
<1>3. c \in Callers /\ c # Gatekeeper
  BY ApprovalAssumption DEF Callers
<1>4. CallerOK(c)'
  <2>1. ops'[c] = [op |-> op, id |-> id, pc |-> "calling"]
    BY <1>1 DEF Known, QueueFacts
  <2>2. call'[c].pc = "idle" /\ answer'[c] = "none"
    BY <1>1, <1>3, IdleCallers DEF storeVars
  <2> QED BY <1>1, <1>3, <2>1, <2>2 DEF CallerOK
<1>5. ASSUME NEW k \in Callers \ {c} PROVE CallerOK(k)'
  <2>1. IF k = Gatekeeper THEN DrainGoesOn ELSE ops'[k] = ops[k]
    BY <1>1 DEF DrainGoesOn, Known, QueueFacts, Callers
  <2> QED BY <1>1, <2>1, OthersKept
<1> QED BY <1>1, <1>2, <1>4, <1>5, QueueKeeps

\* The overseer has heard from caller k's gatekeeper, or gives the call up.
LEMMA CallEndKeeps ==
  ASSUME Known, NEW k \in Callers, call[k].pc = "idle",
         UNCHANGED <<storeVars, rowOf, nextActionId, asked>>,
         answer' = [answer EXCEPT ![k] = "none"],
         IF k = Gatekeeper THEN UNCHANGED ops
         ELSE DrainGoesOn /\ ops'[k].pc # "calling" /\ \A c \in Clients \ {k} : ops'[c] = ops[c],
         QueueCalm,
         \A id \in Ids : Filed(id) =>
           /\ actions'[id].state = "approved" =>
                actions[id].state = "approved" \/ effects[rowOf[id]] = 1
           /\ actions'[id].state = "rejected" =>
                actions[id].state = "rejected" \/ Gone(rowOf[id])
  PROVE  Links'
<1>1. LinkTypes' /\ answer'[k] = "none" /\ \A j \in Callers \ {k} : answer'[j] = answer[j]
  BY DEF Known, Links, LinkTypes
<1>2. CallerOK(k)'
  BY <1>1, CallerOver DEF storeVars
<1>3. ASSUME NEW j \in Callers \ {k} PROVE CallerOK(j)'
  <2>1. IF j = Gatekeeper THEN DrainGoesOn ELSE ops'[j] = ops[j]
    BY DEF Callers
  <2> QED BY <1>1, <2>1, OthersKept
<1> QED BY <1>1, <1>2, <1>3, QueueKeeps

\* A state that one record is given, after it was given out.
LEMMA OneIsDecided ==
  ASSUME Known, NEW id \in Ids, Filed(id), NEW st \in {"approved", "rejected"},
         actions' = [actions EXCEPT ![id].state = st]
  PROVE  /\ QueueCalm
         /\ \A j \in Ids \ {id} : actions'[j] = actions[j]
         /\ actions'[id].state = st
<1>1. actions[id] \in Q!Record
  BY DEF Known, Links, RowsAreFiledOnce, QueueFacts
<1>2. actions'[id] = [actions[id] EXCEPT !.state = st] /\ \A j \in Ids \ {id} : actions'[j] = actions[j]
  BY DEF Known, QueueFacts
<1> QED BY <1>1, <1>2 DEF QueueCalm, Q!Record

LEMMA ReturnsKeep ==
  ASSUME Known, NEW k \in Callers, CallReturns(k)
  PROVE  Links'
<1>1. /\ answer[k] = "ok" /\ answer' = [answer EXCEPT ![k] = "none"] /\ call[k].pc = "idle"
      /\ UNCHANGED <<storeVars, rowOf, asked>>
  BY IdleCallers DEF CallReturns, Answered
<1>2. CallerOK(k)
  BY DEF Known, Links, CallsAreDecisions
<1>3. CASE k = Gatekeeper
  <2>1. PICK id \in Ids : id = drain[Gatekeeper].cur /\ Filed(id) /\ id = Applying(k)
    BY <1>1, <1>2, <1>3, CallersAct DEF CallerOK, Applying, Known, QueueFacts, Links, Ids
  <2>2. actions' = [actions EXCEPT ![id].state = "approved"] /\ UNCHANGED <<nextActionId, ops>>
    BY <1>3, <2>1 DEF CallReturns, Q!DrainApplied
  <2>3. effects[rowOf[id]] = 1
    BY <1>1, <1>2, <2>1 DEF CallerOK, Ids
  <2>4. QueueCalm /\ actions'[id].state = "approved" /\ \A j \in Ids \ {id} : actions'[j] = actions[j]
    BY <2>1, <2>2, OneIsDecided
  <2> QED BY <1>1, <1>3, <2>1, <2>2, <2>3, <2>4, CallEndKeeps
<1>4. CASE k # Gatekeeper
  <2>1. PICK id \in Ids : id = ops[k].id /\ Filed(id)
    BY <1>1, <1>2, <1>4, CallersAct DEF CallerOK, Callers, Known, Links
  <2>2. k \in Clients /\ ops \in [Clients -> Q!Op]
    BY <1>4 DEF Callers, Known, QueueFacts
  <2>3. actions[id].kind.gk = Gatekeeper
    BY <2>1, ApprovalAssumption DEF Known, Links, RowsAreFiledOnce, QueueFacts, Q!Record, Q!Kind
  <2>4. ASSUME NEW resumes \in BOOLEAN, Q!Approved(k, resumes) PROVE Links'
    <3>1. /\ ops[k].pc = "calling" /\ ops[k].op = "approve" /\ UNCHANGED nextActionId
          /\ actions' = [actions EXCEPT ![id].state = "approved"]
      BY <2>1, <2>4 DEF Q!Approved
    <3>2. effects[rowOf[id]] = 1
      BY <1>1, <1>2, <1>4, <2>1, <3>1 DEF CallerOK, Applying, Ids
    <3>3. QueueCalm /\ actions'[id].state = "approved" /\ \A j \in Ids \ {id} : actions'[j] = actions[j]
      BY <2>1, <3>1, OneIsDecided
    <3>4. actions'[id].kind.gk = Gatekeeper
      BY <2>3, <3>3 DEF QueueCalm
    <3>5. DrainGoesOn /\ ops'[k].pc # "calling" /\ \A c \in Clients \ {k} : ops'[c] = ops[c]
      <4>1. CASE resumes
        BY <2>2, <2>4, <4>1 DEF Q!Approved, DrainGoesOn, Q!Op
      <4>2. CASE ~resumes
        <5>1. /\ drain' = [drain EXCEPT ![Gatekeeper] = Q!Requested(@, Gatekeeper, actions', rules)]
              /\ ops' = [ops EXCEPT ![k] = Q!NoOp]
          BY <2>1, <2>4, <3>1, <3>4, <4>2 DEF Q!Approved, Q!DrainAndReturn
        <5> QED BY <2>2, <5>1, AskingGoesOn DEF Q!NoOp
      <4> QED BY <4>1, <4>2
    <3> QED BY <1>1, <1>4, <2>1, <3>1, <3>2, <3>3, <3>5, CallEndKeeps
  <2>5. CASE Q!Rejected(k)
    <3>1. /\ ops[k].pc = "calling" /\ ops[k].op = "reject" /\ UNCHANGED <<nextActionId, drain>>
          /\ actions' = [actions EXCEPT ![id].state = "rejected"] /\ ops' = [ops EXCEPT ![k] = Q!NoOp]
      BY <2>1, <2>5 DEF Q!Rejected
    <3>2. Gone(rowOf[id])
      BY <1>1, <1>2, <1>4, <2>1, <3>1 DEF CallerOK
    <3>3. DrainGoesOn /\ ops'[k].pc # "calling" /\ \A c \in Clients \ {k} : ops'[c] = ops[c]
      BY <2>2, <3>1 DEF DrainGoesOn, Q!NoOp
    <3> QED BY <1>1, <1>4, <2>1, <3>1, <3>2, <3>3, OneIsDecided, CallEndKeeps
  <2> QED BY <1>4, <2>4, <2>5 DEF CallReturns
<1> QED BY <1>3, <1>4

LEMMA ThrowsKeep ==
  ASSUME Known, NEW k \in Callers, CallThrows(k)
  PROVE  Links'
<1>1. /\ answer' = [answer EXCEPT ![k] = "none"] /\ call[k].pc = "idle"
      /\ UNCHANGED <<storeVars, rowOf, asked>>
  BY IdleCallers DEF CallThrows, Answered
<1>2. UNCHANGED <<actions, nextActionId>>
  BY DEF CallThrows, Q!DrainThrew, Q!DecisionThrew
<1>3. IF k = Gatekeeper THEN UNCHANGED ops
      ELSE DrainGoesOn /\ ops'[k].pc # "calling" /\ \A c \in Clients \ {k} : ops'[c] = ops[c]
  BY DEF CallThrows, Q!DrainThrew, Q!DecisionThrew, DrainGoesOn, Q!NoOp, Callers, Known, QueueFacts
<1>4. QueueCalm
  BY <1>2 DEF QueueCalm
<1>5. \A id \in Ids : actions'[id].state = actions[id].state
  BY <1>2
<1> QED BY <1>1, <1>2, <1>3, <1>4, <1>5, CallEndKeeps

\* The steps of a user's call that concern the overseer alone.
LEMMA ClientStepsKeep ==
  ASSUME Known, NEW c \in Clients,
         ProfileThrows(c) \/ QueueStep(Q!Resumed(c) \/ Q!ResumeThrew(c))
  PROVE  Links'
<1>1. c \in Callers /\ c # Gatekeeper /\ ops \in [Clients -> Q!Op]
  BY ApprovalAssumption DEF Callers, Known, QueueFacts
<1>2. /\ UNCHANGED <<storeVars, rowOf, asked, answer, actions, nextActionId>>
      /\ answer[c] = "none" /\ call[c].pc = "idle"
  BY <1>1, IdleCallers DEF ProfileThrows, Unserved, QueueStep, Q!DecisionThrew, Q!Resumed, Q!ResumeThrew
<1>3. answer' = [answer EXCEPT ![c] = "none"]
  BY <1>1, <1>2 DEF Known, Links, LinkTypes
<1>4. ops' = [ops EXCEPT ![c] = Q!NoOp]
  BY DEF ProfileThrows, QueueStep, Q!DecisionThrew, Q!Resumed, Q!ResumeThrew, Q!DrainAndReturn
<1>5. DrainGoesOn
  <2>1. CASE Q!Resumed(c)
    <3>1. ops[c].id \in Ids /\ Filed(ops[c].id)
      BY <2>1, CallersAct DEF Q!Resumed, Known, Links
    <3>2. actions[ops[c].id].kind.gk = Gatekeeper
      BY <3>1, ApprovalAssumption DEF Known, Links, RowsAreFiledOnce, QueueFacts, Q!Record, Q!Kind
    <3> QED BY <2>1, <3>2, AskingGoesOn DEF Q!Resumed, Q!DrainAndReturn
  <2>2. CASE ~Q!Resumed(c)
    BY <2>2 DEF ProfileThrows, QueueStep, Q!DecisionThrew, Q!ResumeThrew, DrainGoesOn
  <2> QED BY <2>1, <2>2
<1>6. ops'[c].pc # "calling" /\ \A d \in Clients \ {c} : ops'[d] = ops[d]
  BY <1>1, <1>4 DEF Q!NoOp
<1>7. QueueCalm
  BY <1>2 DEF QueueCalm
<1>8. \A id \in Ids : actions'[id].state = actions[id].state
  BY <1>2
<1> QED BY <1>1, <1>2, <1>3, <1>5, <1>6, <1>7, <1>8, CallEndKeeps

-----------------------------------------------------------------------------
(* Steps of both, and restarts.                                              *)

LEMMA FacetRestartKeeps ==
  ASSUME Known, FacetRestart
  PROVE  Links'
<1>1. /\ Calm({}) /\ submitting' = {} /\ call' = [k \in Callers |-> S!Idle]
      /\ UNCHANGED <<queueVars, rowOf, asked>>
      /\ answer' = [k \in Callers |-> IF call[k].pc # "idle" THEN "error" ELSE answer[k]]
  BY StoreIsCalm DEF Known, FacetRestart, S!Restart
<1>2. LinkTypes' /\ QueueCalm
  BY <1>1 DEF Known, Links, LinkTypes, QueueCalm, queueVars
<1>3. RowsAreFiledOnce' /\ UnfiledIsFresh'
  BY <1>1, FilingKept DEF queueVars
<1>4. ApprovedIsDone' /\ RejectedIsGone' /\ GatesWereOpen'
  BY <1>1, <1>2, TruthKept DEF queueVars
<1>5. ASSUME NEW k \in Callers PROVE CallerOK(k)'
  <2>1. call'[k].pc = "idle" /\ Applying(k)' = Applying(k)
    BY <1>1 DEF S!Idle, Applying, queueVars
  <2>2. CASE call[k].pc = "idle"
    <3>1. answer'[k] = answer[k]
      BY <1>1, <2>2
    <3> QED BY <1>1, <2>1, <3>1, CallerKept DEF queueVars
  <2>3. CASE call[k].pc # "idle"
    <3>1. answer'[k] = "error"
      BY <1>1, <2>3
    <3>2. Applying(k) # 0
      BY <2>3 DEF Known, Links, CallsAreDecisions, CallerOK
    <3>3. IF k = Gatekeeper THEN drain[k].on ELSE ops[k].pc = "calling"
      BY <3>2 DEF Applying, Known, QueueFacts
    <3> QED BY <1>1, <2>1, <3>1, <3>3, CallerAnswered
  <2> QED BY <2>2, <2>3
<1> QED BY <1>2, <1>3, <1>4, <1>5 DEF Links, CallsAreDecisions

LEMMA OverseerRestartKeeps ==
  ASSUME Known, OverseerRestart
  PROVE  Links'
<1>1. /\ Calm({}) /\ submitting' = {} /\ call' = [k \in Callers |-> S!Idle]
      /\ ops' = [c \in Clients |-> Q!NoOp] /\ UNCHANGED <<actions, nextActionId, rowOf, asked>>
      /\ answer' = [k \in Callers |-> "none"]
  BY StoreIsCalm DEF Known, OverseerRestart, S!Restart, Q!Restart
<1>2. LinkTypes' /\ QueueCalm
  BY <1>1 DEF Known, Links, LinkTypes, QueueCalm
<1>3. RowsAreFiledOnce' /\ UnfiledIsFresh'
  BY <1>1, FilingKept
<1>4. ApprovedIsDone' /\ RejectedIsGone' /\ GatesWereOpen'
  BY <1>1, <1>2, TruthKept
<1>5. ASSUME NEW k \in Callers PROVE CallerOK(k)'
  BY <1>1, CallerOver DEF S!Idle, Q!NoOp, Callers
<1> QED BY <1>2, <1>3, <1>4, <1>5 DEF Links, CallsAreDecisions

\* A row is filed as a record of its own, before anyone can ask for it.
LEMMA FilingStep ==
  ASSUME Known, NEW kind, NEW r \in Ids, File(kind, r)
  PROVE  /\ nextActionId \in Ids /\ nextActionId' = nextActionId + 1
         /\ actions' = [actions EXCEPT ![nextActionId] = Q!NewRecord(kind)]
         /\ rowOf' = [rowOf EXCEPT ![nextActionId] = r]
         /\ r \in submitting /\ submitting' = submitting \ {r}
         /\ UNCHANGED <<rows, nextRow, call, orphans, effects, rules, ops, answer, asked>>
         /\ ~Filed(nextActionId) /\ \A id \in Ids : Filed(id) => rowOf[id] # r
         /\ Fresh(r) /\ rows[r].state = "pending" /\ r < nextRow
         /\ DrainGoesOn
<1>1. /\ nextActionId \in Ids /\ nextActionId' = nextActionId + 1 /\ kind \in Kinds
      /\ actions' = [actions EXCEPT ![nextActionId] = Q!NewRecord(kind)]
      /\ rowOf' = [rowOf EXCEPT ![nextActionId] = r]
      /\ r \in submitting /\ submitting' = submitting \ {r}
      /\ UNCHANGED <<rows, nextRow, call, orphans, effects, rules, ops, answer, asked>>
  BY DEF File, Q!Submit, S!Submitted, Ids, Q!Ids
<1>2. ~Filed(nextActionId) /\ \A id \in Ids : Filed(id) => rowOf[id] # r
  BY <1>1 DEF Known, Links, RowsAreFiledOnce, Ids
<1>3. Fresh(r) /\ rows[r].state = "pending" /\ r < nextRow
  <2>1. \A id \in Ids : rowOf[id] # r
    BY <1>2 DEF Filed, Ids
  <2> QED BY <1>1, <2>1 DEF Known, Links, UnfiledIsFresh
<1>4. DrainGoesOn
  <2>1. kind.gk = Gatekeeper
    BY <1>1, ApprovalAssumption DEF Q!Kind
  <2>2. CASE Q!Eligible(kind, rules)
    BY <2>1, <2>2, AskingGoesOn DEF File, Q!Submit
  <2>3. CASE ~Q!Eligible(kind, rules)
    BY <2>3 DEF File, Q!Submit, DrainGoesOn
  <2> QED BY <2>2, <2>3
<1> QED BY <1>1, <1>2, <1>3, <1>4

LEMMA FileKeeps ==
  ASSUME Known, NEW kind, NEW r \in Ids, File(kind, r)
  PROVE  Links'
<1> DEFINE n == nextActionId
<1>1. /\ n \in Ids /\ nextActionId' = n + 1 /\ actions' = [actions EXCEPT ![n] = Q!NewRecord(kind)]
      /\ rowOf' = [rowOf EXCEPT ![n] = r] /\ r \in submitting /\ submitting' = submitting \ {r}
      /\ UNCHANGED <<rows, nextRow, call, orphans, effects, rules, ops, answer, asked>>
      /\ ~Filed(n) /\ \A id \in Ids : Filed(id) => rowOf[id] # r
      /\ Fresh(r) /\ rows[r].state = "pending" /\ r < nextRow
      /\ DrainGoesOn
  BY FilingStep
<1>2. rowOf'[n] = r /\ \A id \in Ids \ {n} : rowOf'[id] = rowOf[id] /\ actions'[id] = actions[id]
  BY <1>1 DEF Known, Links, LinkTypes, QueueFacts
<1>3. \A id \in Ids : (Filed(id)' <=> Filed(id) \/ id = n) /\ (Filed(id) => id # n /\ id < n)
  BY <1>1, <1>2 DEF Filed, Known, Links, RowsAreFiledOnce, Ids
<1>4. LinkTypes'
  BY <1>1 DEF Known, Links, LinkTypes
<1>5. actions'[n].state = "pending"
  BY <1>1 DEF Q!NewRecord, Known, QueueFacts
<1> HIDE DEF n
<1>6. RowsAreFiledOnce'
  <2>1. \A id \in Ids : Filed(id)' <=> id < nextActionId'
    BY <1>1, <1>3 DEF Known, Links, RowsAreFiledOnce, n, Ids
  <2>2. \A id \in Ids : Filed(id)' => rowOf'[id] < nextRow' /\ rowOf'[id] \notin submitting'
    BY <1>1, <1>2, <1>3 DEF Known, Links, RowsAreFiledOnce
  <2>3. \A i, j \in Ids : Filed(i)' /\ rowOf'[i] = rowOf'[j] => i = j
    <3> SUFFICES ASSUME NEW i \in Ids, NEW j \in Ids, Filed(i)', rowOf'[i] = rowOf'[j], i # j
                 PROVE  FALSE
      OBVIOUS
    <3>1. CASE i = n
      BY <1>1, <1>2, <1>3, <3>1 DEF Filed, Ids
    <3>2. CASE j = n
      BY <1>1, <1>2, <1>3, <3>2
    <3>3. CASE i # n /\ j # n
      BY <1>2, <1>3, <3>3 DEF Known, Links, RowsAreFiledOnce
    <3> QED BY <3>1, <3>2, <3>3
  <2> QED BY <2>1, <2>2, <2>3 DEF RowsAreFiledOnce
<1>7. UnfiledIsFresh'
  <2>1. \A j \in Ids : (\A id \in Ids : rowOf'[id] # j) => Fresh(j)'
    <3> SUFFICES ASSUME NEW j \in Ids, \A id \in Ids : rowOf'[id] # j PROVE Fresh(j)'
      OBVIOUS
    <3>1. rowOf[n] # j
      BY <1>1 DEF Filed, Ids
    <3>2. \A id \in Ids : rowOf[id] # j
      BY <1>2, <3>1
    <3> QED BY <1>1, <3>2 DEF Known, Links, UnfiledIsFresh, Fresh, S!Untouched
  <2> QED BY <1>1, <2>1 DEF Known, Links, UnfiledIsFresh
<1>8. ApprovedIsDone' /\ RejectedIsGone'
  BY <1>1, <1>2, <1>3, <1>5 DEF Known, Links, ApprovedIsDone, RejectedIsGone, Gone
<1>9. GatesWereOpen'
  <2> SUFFICES ASSUME NEW id \in Ids, Filed(id)', id \notin asked, Started(rowOf[id])'
               PROVE  GatesOpenFor(id)'
    BY <1>1 DEF GatesWereOpen
  <2>1. id # n
    BY <1>1, <1>2 DEF Started, Fresh, S!Untouched
  <2>2. GatesOpenFor(id) /\ id < n
    BY <1>1, <1>2, <1>3, <2>1 DEF Known, Links, GatesWereOpen, Started, S!Untouched
  <2>3. \A j \in Ids : j < id => j # n
    BY <1>1, <2>2 DEF Ids
  <2> QED BY <1>2, <2>1, <2>2, <2>3 DEF GatesOpenFor
<1>10. ASSUME NEW k \in Callers PROVE CallerOK(k)'
  <2>1. CallerOK(k)
    BY DEF Known, Links, CallsAreDecisions
  <2>2. CASE k = Gatekeeper
    <3>1. drain[k].on => Applying(k)' = Applying(k) /\ drain'[k].on
      BY <1>1, <2>2 DEF Applying, DrainGoesOn
    <3>2. Applying(k) # 0 => /\ Applying(k) \in Ids /\ drain[k].on
                             /\ rowOf'[Applying(k)] = rowOf[Applying(k)]
      BY <1>2, <1>3, <2>2, CallersAct DEF Known, Links, QueueFacts, Applying
    <3>3. drain[k].on => Applying(k) # 0
      BY <2>2 DEF Applying, Known, QueueFacts, Ids
    <3> QED BY <1>1, <2>1, <2>2, <3>1, <3>2, <3>3 DEF CallerOK
  <2>3. CASE k # Gatekeeper
    <3>1. Applying(k)' = Applying(k) /\ ops' = ops
      BY <1>1, <2>3 DEF Applying
    <3>2. Applying(k) # 0 => rowOf'[Applying(k)] = rowOf[Applying(k)]
      BY <1>2, <1>3, CallersAct DEF Known, Links
    <3>3. ops[k].pc = "calling" => rowOf'[ops[k].id] = rowOf[ops[k].id]
      BY <1>2, <1>3, <2>3, CallersAct DEF Known, Links, Callers
    <3> QED BY <1>1, <2>1, <2>3, <3>1, <3>2, <3>3 DEF CallerOK, Gone
  <2> QED BY <2>2, <2>3
<1> QED BY <1>4, <1>6, <1>7, <1>8, <1>9, <1>10 DEF Links, CallsAreDecisions

-----------------------------------------------------------------------------
(* The inductive invariant.                                                  *)

LEMMA InitIInv == Init => IInv
<1> SUFFICES ASSUME Init PROVE IInv
  OBVIOUS
<1>1. S!Init /\ Q!Init /\ rowOf = [id \in Ids |-> 0] /\ answer = [k \in Callers |-> "none"] /\ asked = {}
  BY DEF Init
<1>2. SP!Init /\ QP!Init
  BY <1>1 DEF S!Init, SP!Init, Q!Init, QP!Init, S!Absent, SP!Absent, S!RowOf, SP!RowOf, S!Idle,
     SP!Idle, S!Ids, SP!Ids, Q!Ids, QP!Ids, Q!NoRecord, QP!NoRecord, Q!NoDrain, QP!NoDrain,
     Q!NoOp, QP!NoOp
<1>3. SP!IInv /\ QP!IInv
  BY <1>2, PartsAssumptions, SP!InitIInv, QP!InitIInv
<1>4. /\ \A id \in Ids : rows[id].state = "absent" /\ S!Untouched(id) /\ ~Filed(id)
      /\ \A id \in Ids : actions[id].state = "absent"
      /\ nextActionId = 1 /\ submitting = {}
  BY <1>1 DEF S!Init, Q!Init, S!Absent, S!RowOf, S!Untouched, S!Ids, Q!Ids, Ids, Q!NoRecord, Filed
<1>5. \A k \in Callers : call[k].pc = "idle" /\ answer[k] = "none"
  BY <1>1 DEF S!Init, S!Idle
<1>6. \A c \in Clients : ops[c].pc = "idle"
  BY <1>1 DEF Q!Init, Q!NoOp
<1>7. LinkTypes
  BY <1>1 DEF LinkTypes
<1>8. RowsAreFiledOnce /\ UnfiledIsFresh
  BY <1>4 DEF RowsAreFiledOnce, UnfiledIsFresh, Fresh, Ids
<1>9. CallsAreDecisions
  BY <1>5, <1>6 DEF CallsAreDecisions, CallerOK, Callers
<1>10. ApprovedIsDone /\ RejectedIsGone /\ GatesWereOpen
  BY <1>4 DEF ApprovedIsDone, RejectedIsGone, GatesWereOpen
<1> QED BY <1>3, <1>7, <1>8, <1>9, <1>10 DEF IInv, Links

LEMMA IInvKnows == IInv => Known
BY StoreKnows, QueueKnows DEF IInv, Known

LEMMA LinksKeep ==
  ASSUME Known, [Next]_vars
  PROVE  Links'
<1>1. CASE \/ \E kind \in Kinds, r \in Ids : File(kind, r)
           \/ FacetRestart
           \/ OverseerRestart
  BY <1>1, FileKeeps, FacetRestartKeeps, OverseerRestartKeeps
<1>2. CASE \/ StoreStep(S!Stage)
           \/ \E r \in Ids : StoreStep(S!Discard(r))
           \/ \E k \in Callers : StoreStep(S!Send(k)) \/ StoreStep(S!ServerExecutes(k))
           \/ \E r \in Ids : StoreStep(S!OrphanExecutes(r) \/ S!OrphanLost(r))
  BY <1>2, StageKeeps, StoreStepKeeps
<1>3. CASE \E k \in Callers : ApplyClaims(k) \/ ApplyAnswersAtOnce(k)
  BY <1>3, ClaimsKeep, AnswersAtOnceKeep
<1>4. CASE \/ \E k \in Callers : ApplySettles(k)
           \/ \E k \in Callers, err \in S!Errors : ApplyFails(k, err)
  BY <1>4, SettlingKeeps
<1>5. CASE \E c \in Clients : RejectAnswers(c)
  BY <1>5, RejectAnswersKeeps
<1>6. CASE \E tag \in Tags : \/ QueueStep(Q!EnableRule(Gatekeeper, tag))
                           \/ QueueStep(Q!DisableRule(Gatekeeper, tag))
  BY <1>6, RulesKeep
<1>7. CASE \E c \in Clients, op \in {"approve", "reject"}, id \in Ids : Decide(c, op, id)
  BY <1>7, DecideKeeps
<1>8. CASE \E k \in Callers : CallReturns(k) \/ CallThrows(k)
  BY <1>8, ReturnsKeep, ThrowsKeep
<1>9. CASE \/ \E c \in Clients : ProfileThrows(c)
           \/ \E c \in Clients : QueueStep(Q!Resumed(c) \/ Q!ResumeThrew(c))
  BY <1>9, ClientStepsKeep
<1>10. CASE UNCHANGED vars
  <2>1. UNCHANGED <<queueVars, storeVars, rowOf, answer, asked>> /\ UNCHANGED <<submitting, call>>
    BY <1>10 DEF vars, storeVars
  <2> QED BY <2>1, StillIsCalm, QuietStoreKeeps DEF Known
<1> QED
  BY <1>1, <1>2, <1>3, <1>4, <1>5, <1>6, <1>7, <1>8, <1>9, <1>10 DEF Next

LEMMA NextIInv == IInv /\ [Next]_vars => IInv'
<1> SUFFICES ASSUME IInv, [Next]_vars PROVE IInv'
  OBVIOUS
<1>1. SP!IInv' /\ QP!IInv'
  BY PartsKeep
<1>2. Links'
  BY IInvKnows, LinksKeep
<1> QED BY <1>1, <1>2 DEF IInv

\* The parts keep their own invariants, and the links between the two tables,
\* the RPCs in flight and the world hold, over every step of either and every
\* restart.
THEOREM InductiveInvariant == Spec => []IInv
BY InitIInv, NextIInv, PTL DEF Spec

-----------------------------------------------------------------------------
(* What follows from it.                                                     *)

\* Every record the overseer calls approved was carried out exactly once, and
\* of every one it calls rejected whose row the store still has, nothing was
\* or will be, although approveAction() and rejectAction() check the record
\* before they await the facet and write it after.
THEOREM TablesAgree == Spec => []DecisionMatchesWorld
<1>1. ASSUME Known PROVE DecisionMatchesWorld
  <2> SUFFICES ASSUME NEW id \in Ids, Filed(id)
               PROVE  /\ actions[id].state = "approved" => effects[rowOf[id]] = 1
                      /\ actions[id].state = "rejected" /\ rows[rowOf[id]].state # "absent"
                           => effects[rowOf[id]] = 0 /\ orphans[rowOf[id]] = 0
    BY DEF DecisionMatchesWorld
  <2>1. rowOf[id] \in Ids
    BY <1>1, CallersAct DEF Known, Links
  <2>2. rows[rowOf[id]].state = "rejected" => effects[rowOf[id]] = 0 /\ orphans[rowOf[id]] = 0
    BY <1>1, <2>1 DEF Known, StoreFacts, S!RowTellsTheTruth, S!Untouched, S!Ids, Ids
  <2> QED BY <1>1, <2>2 DEF Known, Links, ApprovedIsDone, RejectedIsGone, Gone
<1>2. IInv => DecisionMatchesWorld
  BY <1>1, IInvKnows
<1> QED BY <1>2, InductiveInvariant, PTL

\* Nothing happens at the server that nobody approved: whatever was carried
\* out, or is still on the wire, was filed with the overseer, and a user asked
\* for it or its author and a user's rule let it through.
THEOREM NothingHappensUnasked == Spec => []NothingUnfiled
<1>1. ASSUME Known PROVE NothingUnfiled
  <2> SUFFICES ASSUME NEW r \in Ids, effects[r] + orphans[r] > 0
               PROVE  \E id \in Ids : rowOf[id] = r /\ (id \in asked \/ actions[id].kind.autoApprovable)
    BY DEF NothingUnfiled
  <2>1. ~S!Untouched(r)
    BY DEF S!Untouched
  <2>2. PICK id \in Ids : rowOf[id] = r
    BY <1>1, <2>1 DEF Known, Links, UnfiledIsFresh, Fresh
  <2>3. Filed(id) /\ Started(rowOf[id])
    BY <2>1, <2>2 DEF Filed, Started, Ids
  <2> QED BY <1>1, <2>2, <2>3 DEF Known, Links, GatesWereOpen, GatesOpenFor
<1>2. IInv => NothingUnfiled
  BY <1>1, IInvKnows
<1> QED BY <1>2, InductiveInvariant, PTL

\* A call takes effect by a step of the server, on a row that was started.
LEMMA EffectsComeFromTheWire ==
  ASSUME Known, [Next]_vars
  PROVE  \/ UNCHANGED effects
         \/ \E r \in Ids : /\ StoreStep(S!OrphanExecutes(r)) \/ \E k \in Callers : StoreStep(S!ServerExecutes(k))
                        /\ effects' = [effects EXCEPT ![r] = 1] /\ effects[r] = 0
                        /\ UNCHANGED rows /\ Started(r)
<1>1. ASSUME NEW k \in Callers, StoreStep(S!ServerExecutes(k))
      PROVE  /\ call[k].id \in Ids /\ effects[call[k].id] = 0 /\ Started(call[k].id) /\ UNCHANGED rows
             /\ effects' = [effects EXCEPT ![call[k].id] = 1]
  <2>1. /\ call[k].pc = "sent" /\ UNCHANGED rows
        /\ effects' = [effects EXCEPT ![call[k].id] = @ + 1]
    BY <1>1 DEF StoreStep, S!ServerExecutes
  <2>2. call[k].id \in Ids /\ effects[call[k].id] = 0 /\ rows[call[k].id].state = "applying"
    BY <2>1 DEF Known, StoreFacts, S!Untouched
  <2> QED BY <2>1, <2>2 DEF Known, StoreFacts, Started
<1>2. ASSUME NEW r \in Ids, StoreStep(S!OrphanExecutes(r))
      PROVE  effects[r] = 0 /\ effects' = [effects EXCEPT ![r] = 1] /\ UNCHANGED rows /\ Started(r)
  <2>1. orphans[r] > 0 /\ UNCHANGED rows /\ effects' = [effects EXCEPT ![r] = @ + 1]
    BY <1>2 DEF StoreStep, S!OrphanExecutes
  <2>2. orphans[r] \in Nat /\ effects[r] \in Nat /\ effects[r] + orphans[r] <= 1
    BY DEF Known, StoreFacts
  <2>3. effects[r] = 0 /\ orphans[r] # 0
    BY <2>1, <2>2
  <2> QED BY <2>1, <2>3 DEF Known, StoreFacts, Started, S!Untouched
<1>3. CASE \/ \E k \in Callers : ApplyClaims(k) \/ ApplyAnswersAtOnce(k) \/ ApplySettles(k)
           \/ \E k \in Callers, err \in S!Errors : ApplyFails(k, err)
           \/ \E c \in Clients : RejectAnswers(c)
           \/ FacetRestart \/ OverseerRestart
  BY <1>3 DEF ApplyClaims, S!Claim, ApplyAnswersAtOnce, ApplySettles, S!SettleApplied, ApplyFails,
     S!Failed, RejectAnswers, S!Reject, FacetRestart, OverseerRestart, S!Restart, storeVars
<1>4. CASE \/ StoreStep(S!Stage)
           \/ \E r \in Ids : StoreStep(S!Discard(r))
           \/ \E k \in Callers : StoreStep(S!Send(k))
           \/ \E r \in Ids : StoreStep(S!OrphanLost(r))
           \/ \E kind \in Kinds, r \in Ids : File(kind, r)
  BY <1>4 DEF StoreStep, S!Stage, S!Discard, S!Send, S!OrphanLost, File, S!Submitted
<1>5. CASE \/ \E k \in Callers : CallReturns(k) \/ CallThrows(k)
           \/ \E c \in Clients : ProfileThrows(c) \/ QueueStep(Q!Resumed(c) \/ Q!ResumeThrew(c))
           \/ \E tag \in Tags : \/ QueueStep(Q!EnableRule(Gatekeeper, tag))
                               \/ QueueStep(Q!DisableRule(Gatekeeper, tag))
           \/ \E c \in Clients, op \in {"approve", "reject"}, id \in Ids : Decide(c, op, id)
           \/ UNCHANGED vars
  BY <1>5 DEF CallReturns, CallThrows, Answered, ProfileThrows, QueueStep, Decide, vars, storeVars
<1>6. CASE \/ \E k \in Callers : StoreStep(S!ServerExecutes(k))
           \/ \E r \in Ids : StoreStep(S!OrphanExecutes(r))
  BY <1>1, <1>2, <1>6
<1>7. \A r \in Ids : StoreStep(S!OrphanExecutes(r) \/ S!OrphanLost(r)) =>
        StoreStep(S!OrphanExecutes(r)) \/ StoreStep(S!OrphanLost(r))
  BY DEF StoreStep
<1> QED BY <1>3, <1>4, <1>5, <1>6, <1>7 DEF Next

\* Nothing jumps a human gate end to end: when a call that no user asked for
\* takes effect, on its own or as a request that was given up, every action
\* filed before it has been decided.
THEOREM GatesHoldAtTheServer == Spec => EffectsRespectGates
<1>1. ASSUME Known, [Next]_vars,
             NEW id \in Ids, NEW j \in Ids, Filed(id), effects'[rowOf[id]] > effects[rowOf[id]],
             id \notin asked, j < id
      PROVE  actions[j].state # "pending"
  <2>1. rowOf[id] \in Ids /\ effects \in [Ids -> Nat]
    BY <1>1, CallersAct DEF Known, Links, StoreFacts
  <2>2. Started(rowOf[id])
    <3>1. CASE UNCHANGED effects
      BY <1>1, <2>1, <3>1
    <3>2. ASSUME NEW r \in Ids, effects' = [effects EXCEPT ![r] = 1], Started(r)
          PROVE  Started(rowOf[id])
      BY <1>1, <2>1, <3>2
    <3> QED BY <1>1, <3>1, <3>2, EffectsComeFromTheWire
  <2> QED BY <1>1, <2>2 DEF Known, Links, GatesWereOpen, GatesOpenFor
<1>2. IInv /\ [Next]_vars =>
        [\A id, j \in Ids :
           (Filed(id) /\ effects'[rowOf[id]] > effects[rowOf[id]] /\ id \notin asked /\ j < id)
             => actions[j].state # "pending"]_vars
  BY <1>1, IInvKnows
<1> QED BY <1>2, InductiveInvariant, PTL DEF Spec, EffectsRespectGates

-----------------------------------------------------------------------------
(* Refinement: the two tables and the wire implement ApprovedCall, also when  *)
(* rows are pruned under their records.                                      *)

\* The states a step takes the rows through; of the rows that wait for a
\* decision it decides those in X, and discards those that are being submitted.
RowsLive(X) ==
  \A r \in Ids :
    \/ rows'[r].state = rows[r].state
    \/ rows[r].state = "absent" /\ rows'[r].state = "pending" /\ r >= nextRow
    \/ rows[r].state = "pending" /\ rows'[r].state = "absent" /\ r \in submitting
    \/ rows[r].state = "pending" /\ rows'[r].state \in {"applying", "rejected", "absent"} /\ r \in X
    \/ rows[r].state = "failed" /\ rows'[r].state = "applying"
    \/ rows[r].state = "applying" /\ rows'[r].state \in {"applied", "failed", "absent"}
    \/ rows[r].state \in {"applied", "rejected", "failed"} /\ rows'[r].state = "absent"

LEMMA QuietRowsLive ==
  ASSUME StoreFacts,
         \/ S!Stage \/ S!Restart \/ UNCHANGED storeVars
         \/ \E r \in Ids : S!Submitted(r) \/ S!Discard(r)
         \/ \E r \in Ids : S!OrphanExecutes(r) \/ S!OrphanLost(r)
         \/ \E k \in Callers : S!Send(k) \/ S!ServerExecutes(k) \/ S!SettleApplied(k)
         \/ \E k \in Callers, err \in S!Errors : S!Failed(k, err)
  PROVE  RowsLive({})
<1>1. CASE S!Stage
  BY <1>1 DEF S!Stage, StoreFacts, S!RowOf, S!Absent, RowsLive, S!Ids, Ids
<1>2. CASE \E r \in Ids : S!Discard(r)
  BY <1>2 DEF S!Discard, StoreFacts, S!RowOf, S!Absent, RowsLive
<1>3. CASE \/ UNCHANGED storeVars
           \/ \E r \in Ids : S!Submitted(r) \/ S!OrphanExecutes(r) \/ S!OrphanLost(r)
           \/ \E k \in Callers : S!Send(k) \/ S!ServerExecutes(k)
  <2>1. UNCHANGED rows
    BY <1>3 DEF storeVars, S!Submitted, S!OrphanExecutes, S!OrphanLost, S!Send, S!ServerExecutes
  <2> QED BY <2>1 DEF RowsLive
<1>4. ASSUME NEW id \in Ids, NEW row \in S!Row, row.state \in {"applied", "failed"},
             rows[id].state = "applying", rows' = S!Settled(id, row)
      PROVE  RowsLive({})
  <2>1. /\ rows'[id].state \in {row.state, "absent"}
        /\ \A r \in Ids \ {id} :
             \/ rows'[r] = rows[r]
             \/ rows[r].state \in {"applied", "rejected", "failed"} /\ rows'[r].state = "absent"
    BY <1>4, SettlingIsCalm
  <2> QED BY <1>4, <2>1 DEF RowsLive
<1>5. ASSUME NEW k \in Callers, S!SettleApplied(k) PROVE RowsLive({})
  <2>1. S!RowOf("applied") \in S!Row /\ S!RowOf("applied").state = "applied"
    BY DEF S!RowOf, S!Row, S!RowStates
  <2>2. /\ call[k].id \in Ids /\ rows[call[k].id].state = "applying"
        /\ rows' = S!Settled(call[k].id, S!RowOf("applied"))
    BY <1>5 DEF S!SettleApplied, StoreFacts
  <2> QED BY <1>4, <2>1, <2>2
<1>6. ASSUME NEW k \in Callers, NEW err \in S!Errors, S!Failed(k, err) PROVE RowsLive({})
  <2> DEFINE row == S!FailedRow(~S!CallMayHaveTakenEffect(S!WithClientError(err)))
  <2>1. row \in S!Row /\ row.state = "failed"
    BY DEF S!FailedRow, S!Row, S!RowStates, S!CallMayHaveTakenEffect
  <2>2. /\ call[k].id \in Ids /\ rows[call[k].id].state = "applying"
        /\ rows' = S!Settled(call[k].id, row)
    BY <1>6 DEF S!Failed, StoreFacts, S!RetryOnExpiry, S!InFlight
  <2> HIDE DEF row
  <2> QED BY <1>4, <2>1, <2>2
<1>7. CASE S!Restart
  <2> DEFINE closed == [r \in Ids |-> IF rows[r].state = "applying"
                                      THEN S!FailedRow(FALSE) ELSE rows[r]]
  <2>1. /\ closed \in [Ids -> S!Row]
        /\ \A r \in Ids : \/ closed[r] = rows[r]
                          \/ rows[r].state = "applying" /\ closed[r].state = "failed"
    BY DEF StoreFacts, S!FailedRow, S!Row, S!RowStates
  <2>2. rows' = S!Pruned(closed)
    BY <1>7 DEF S!Restart, Ids, S!Ids
  <2> HIDE DEF closed
  <2> QED BY <2>1, <2>2, PruningIsCalm DEF RowsLive
<1> QED BY <1>1, <1>2, <1>3, <1>5, <1>6, <1>7

LEMMA ClaimRowsLive ==
  ASSUME StoreFacts, NEW k \in Callers, NEW r \in Ids, S!Claim(k, r)
  PROVE  RowsLive({r}) /\ rows'[r].state = "applying"
BY DEF S!Claim, S!Claimable, StoreFacts, S!Row, RowsLive

LEMMA RejectionRowsLive ==
  ASSUME StoreFacts, NEW r \in Ids, S!Reject(r)
  PROVE  /\ RowsLive({r}) /\ rows[r].state = "pending"
         /\ rows'[r].state \in {"rejected", "absent"}
<1>1. S!RowOf("rejected") \in S!Row /\ S!RowOf("rejected").state = "rejected"
  BY DEF S!RowOf, S!Row, S!RowStates
<1>2. rows[r].state = "pending" /\ rows' = S!Settled(r, S!RowOf("rejected"))
  BY DEF S!Reject
<1> QED BY <1>1, <1>2, SettlingIsCalm DEF RowsLive

LEMMA EveryRowLives == ASSUME StoreFacts, OfTheStore PROVE \E X : RowsLive(X)
BY QuietRowsLive, ClaimRowsLive, RejectionRowsLive DEF OfTheStore

-----------------------------------------------------------------------------
(* The history says what became of a row, whether or not it was pruned.      *)

ClaimsTell ==
  \A r \in Ids :
    /\ rows[r].state \in {"pending", "rejected"} => r \notin claimed
    /\ LetGo(r) \/ Started(r) => r \in claimed
    /\ r >= nextRow => r \notin claimed

ClaimsAreNoted == claimed' = claimed \cup {r \in Ids : rows'[r].state = "applying"}

LEMMA InitClaims == PromiseInit => ClaimsTell
BY DEF PromiseInit, Init, S!Init, S!Ids, Ids, S!RowOf, S!Absent, ClaimsTell, LetGo, Started,
       S!Untouched

LEMMA StartsAreClaims ==
  ASSUME StoreFacts, OfTheStore, NEW r \in Ids, Started(r)'
  PROVE  Started(r) \/ rows'[r].state = "applying"
<1>1. CASE \E k \in Callers, j \in Ids : S!Claim(k, j)
  BY <1>1, ClaimIsCalm, ClaimRowsLive DEF Calm
<1>2. CASE \E j \in Ids : S!Reject(j)
  BY <1>2, RejectionIsCalm DEF Calm
<1>3. Calm({}) => Started(r)
  BY DEF Calm
<1> QED BY <1>1, <1>2, <1>3, StoreIsCalm DEF OfTheStore

LEMMA ClaimsGoOnTelling ==
  ASSUME StoreFacts, StoreFacts', OfTheStore, ClaimsTell, ClaimsAreNoted
  PROVE  ClaimsTell'
<1> SUFFICES ASSUME NEW r \in Ids
             PROVE  /\ rows'[r].state \in {"pending", "rejected"} => r \notin claimed'
                    /\ LetGo(r)' \/ Started(r)' => r \in claimed'
                    /\ r >= nextRow' => r \notin claimed'
  BY DEF ClaimsTell
<1>1. PICK X : RowsLive(X)
  BY EveryRowLives
<1>2. r \in claimed' <=> r \in claimed \/ rows'[r].state = "applying"
  BY DEF ClaimsAreNoted
<1>3. ASSUME rows'[r].state \in {"pending", "rejected"} PROVE r \notin claimed'
  <2>1. rows[r].state \in {"pending", "rejected"} \/ r >= nextRow
    BY <1>1, <1>3 DEF RowsLive
  <2> QED BY <1>2, <1>3, <2>1 DEF ClaimsTell
<1>4. ASSUME LetGo(r)' PROVE r \in claimed'
  <2>1. LetGo(r) \/ rows'[r].state = "applying"
    BY <1>1, <1>4 DEF RowsLive, LetGo
  <2> QED BY <1>2, <2>1 DEF ClaimsTell
<1>5. ASSUME Started(r)' PROVE r \in claimed'
  BY <1>2, <1>5, StartsAreClaims DEF ClaimsTell
<1>6. ASSUME r >= nextRow' PROVE r \notin claimed'
  <2>1. rows'[r].state = "absent"
    BY <1>6 DEF StoreFacts, S!Absent, S!RowOf
  <2>2. r >= nextRow
    <3>1. nextRow' \in {nextRow, nextRow + 1} /\ nextRow \in Nat /\ r \in Nat
      <4>1. \E Y : Calm(Y)
        BY StoreIsCalm, ClaimIsCalm, RejectionIsCalm DEF OfTheStore
      <4> QED BY <4>1, ApprovalAssumption DEF Calm, StoreFacts, Ids
    <3> QED BY <1>6, <3>1
  <2> QED BY <1>2, <2>1, <2>2 DEF ClaimsTell
<1> QED BY <1>3, <1>4, <1>5, <1>6

-----------------------------------------------------------------------------
(* How a record looks to ApprovedCall.                                       *)

Told == Known /\ ClaimsTell

LEMMA Fates ==
  ASSUME Told, NEW id \in Ids
  PROVE  /\ Fate(id) = "open" <=> Filed(id) /\ rows[rowOf[id]].state = "pending"
         /\ Fate(id) = "letGo" <=> Filed(id) /\ rowOf[id] \in claimed
         /\ Filed(id) => rowOf[id] \in Ids /\ rowOf[id] < nextRow /\ rowOf[id] \notin submitting
         /\ ~Filed(id) <=> Fate(id) = "none"
<1>1. Filed(id) => rowOf[id] \in Ids /\ rowOf[id] < nextRow /\ rowOf[id] \notin submitting
  BY CallersAct DEF Told, Known, Links, RowsAreFiledOnce
<1>2. CASE ~Filed(id)
  BY <1>2 DEF Fate
<1>3. CASE Filed(id)
  BY <1>1, <1>3 DEF Fate, Told, ClaimsTell
<1> QED BY <1>1, <1>2, <1>3

\* A step that decides no row of a record keeps its fate, pruned or not.
LEMMA FatesAreKept ==
  ASSUME Told, NEW X, RowsLive(X), ClaimsAreNoted, UNCHANGED rowOf,
         NEW id \in Ids, rowOf[id] \notin X
  PROVE  Fate(id)' = Fate(id)
<1> DEFINE r == rowOf[id]
<1>1. CASE ~Filed(id)
  BY <1>1 DEF Fate, Filed
<1>2. CASE Filed(id)
  <2>1. /\ r \in Ids \ X /\ r < nextRow /\ r \notin submitting /\ rows[r] \in S!Row
        /\ ~(r >= nextRow)
    BY <1>2, Fates DEF Told, Known, StoreFacts, Ids
  <2>2. Filed(id)' /\ (r \in claimed' <=> r \in claimed \/ rows'[r].state = "applying")
    BY <1>2, <2>1 DEF Filed, ClaimsAreNoted
  <2>3. CASE r \in claimed
    BY <1>2, <2>2, <2>3 DEF Fate
  <2>4. CASE r \notin claimed
    <3>1. rows[r].state \in {"absent", "pending", "rejected"}
      BY <2>1, <2>4 DEF Told, ClaimsTell, LetGo, S!Row, S!RowStates
    <3>2. /\ rows[r].state = "pending" <=> rows'[r].state = "pending"
          /\ rows'[r].state # "applying"
      BY <2>1, <3>1 DEF RowsLive
    <3> QED BY <1>2, <2>2, <2>4, <3>2 DEF Fate
  <2> QED BY <2>3, <2>4
<1> QED BY <1>1, <1>2

\* What is forgotten was settled, and stays forgotten.
LEMMA ForgettingIsFine ==
  ASSUME Told, NEW X, RowsLive(X), UNCHANGED rowOf
  PROVE  A!Forgets
<1>1. ASSUME NEW id \in Ids, Forgotten(id) PROVE Forgotten(id)'
  <2>1. rowOf[id] \in Ids /\ ~(rowOf[id] >= nextRow) /\ rows[rowOf[id]].state = "absent"
    BY <1>1, Fates DEF Forgotten, Told, Known, StoreFacts, Ids
  <2>2. rows'[rowOf[id]].state = "absent"
    BY <2>1 DEF RowsLive
  <2> QED BY <1>1, <2>2 DEF Forgotten, Filed
<1>2. ASSUME NEW id \in Ids, Forgotten(id)' PROVE Fate(id)' \in {"letGo", "ruledOut"}
  BY <1>2 DEF Forgotten, Fate
<1> QED BY <1>1, <1>2 DEF A!Forgets

LEMMA Stutters ==
  ASSUME \A id \in Ids : Fate(id)' = Fate(id) /\ Done(id)' = Done(id) /\ Verdict(id)' = Verdict(id),
         A!Forgets
  PROVE  A!Next
BY DEF A!Next

\* A step of the store that decides nothing is a stutter, but for the rows it prunes.
LEMMA QuietStutters ==
  ASSUME Told, RowsLive({}), ClaimsAreNoted, UNCHANGED <<rowOf, actions, effects>>
  PROVE  A!Next
<1>1. \A id \in Ids : Fate(id)' = Fate(id)
  <2> DEFINE X == {}
  <2>1. RowsLive(X) /\ \A id \in Ids : rowOf[id] \notin X
    OBVIOUS
  <2> HIDE DEF X
  <2> QED BY <2>1, FatesAreKept
<1>2. \A id \in Ids : Done(id)' = Done(id) /\ Verdict(id)' = Verdict(id)
  BY DEF Done, Verdict, Filed
<1> QED BY <1>1, <1>2, Stutters, ForgettingIsFine

\* The server carries a call out: it was let go.
LEMMA EffectsAreEffects ==
  ASSUME Told, ClaimsAreNoted, NEW r \in Ids, Started(r), effects[r] = 0,
         effects' = [effects EXCEPT ![r] = 1], UNCHANGED <<rows, rowOf, actions>>
  PROVE  A!Next
<1>1. PICK id \in Ids : rowOf[id] = r /\ Filed(id)
  <2>1. ~Fresh(r)
    BY DEF Fresh, Started
  <2>2. PICK id \in Ids : rowOf[id] = r
    BY <2>1 DEF Told, Known, Links, UnfiledIsFresh
  <2> QED BY <2>2 DEF Filed, Ids
<1>2. Fate(id) = "letGo"
  BY <1>1, Fates DEF Told, ClaimsTell
<1>3. RowsLive({})
  BY DEF RowsLive
<1>4. \A j \in Ids : Fate(j)' = Fate(j) /\ Verdict(j)' = Verdict(j)
  <2> DEFINE X == {}
  <2>1. RowsLive(X) /\ \A j \in Ids : rowOf[j] \notin X
    BY <1>3
  <2> HIDE DEF X
  <2>2. \A j \in Ids : Fate(j)' = Fate(j)
    BY <2>1, FatesAreKept
  <2> QED BY <2>2 DEF Verdict, Filed
<1>5. ~Done(id) /\ Done(id)'
  BY <1>1 DEF Done, Filed, Told, Known, StoreFacts
<1>6. \A j \in Ids \ {id} : Done(j)' = Done(j)
  <2> SUFFICES ASSUME NEW j \in Ids \ {id} PROVE Done(j)' = Done(j)
    OBVIOUS
  <2>1. Filed(j) => rowOf[j] # r /\ rowOf[j] \in Ids
    BY <1>1, Fates DEF Told, Known, Links, RowsAreFiledOnce
  <2>2. Filed(j) => effects'[rowOf[j]] = effects[rowOf[j]]
    BY <2>1 DEF Told, Known, StoreFacts
  <2> QED BY <2>2 DEF Done, Filed
<1>7. A!TakesEffect(id)
  BY <1>2, <1>4, <1>5, <1>6 DEF A!TakesEffect, Done
<1> QED BY <1>3, <1>7, ForgettingIsFine DEF A!Next, A!Acts

\* The store settles the fate of an open row, and of no other.
LEMMA SettlesFate ==
  ASSUME Told, ClaimsAreNoted, NEW id \in Ids, Fate(id) = "open", RowsLive({rowOf[id]}),
         UNCHANGED <<rowOf, actions, effects>>,
         NEW ruling \in {"letGo", "ruledOut"}, Fate(id)' = ruling
  PROVE  A!Next
<1>1. Filed(id) /\ \A j \in Ids \ {id} : rowOf[j] # rowOf[id]
  BY Fates DEF Told, Known, Links, RowsAreFiledOnce, Filed
<1> DEFINE X == {rowOf[id]}
<1>2. RowsLive(X) /\ \A j \in Ids \ {id} : rowOf[j] \notin X
  BY <1>1
<1> HIDE DEF X
<1>3. \A j \in Ids \ {id} : Fate(j)' = Fate(j)
  BY <1>2, FatesAreKept
<1>4. \A j \in Ids : Done(j)' = Done(j) /\ Verdict(j)' = Verdict(j)
  BY DEF Done, Verdict, Filed
<1>5. A!Settle(id, ruling)
  BY <1>3, <1>4 DEF A!Settle
<1> QED BY <1>2, <1>5, ForgettingIsFine DEF A!Next, A!Acts

LEMMA ClaimsRefine ==
  ASSUME Told, ClaimsAreNoted, NEW k \in Callers, ApplyClaims(k)
  PROVE  A!Next
<1>1. PICK id \in Ids, r \in Ids : id = Applying(k) /\ r = rowOf[id] /\ Filed(id)
  BY CallersAct DEF ApplyClaims, Told, Known, Links
<1>2. S!Claim(k, r) /\ UNCHANGED <<rowOf, actions, effects>>
  BY <1>1 DEF ApplyClaims, S!Claim, queueVars
<1>3. /\ rows[r].state \in {"pending", "failed"} /\ RowsLive({rowOf[id]})
      /\ rows'[r].state = "applying"
  BY <1>1, <1>2, ClaimRowsLive DEF Told, Known, S!Claim, S!Claimable
<1>4. Fate(id)' = "letGo"
  BY <1>1, <1>2, <1>3 DEF Fate, Filed, ClaimsAreNoted
<1>5. CASE rows[r].state = "pending"
  <2>1. Fate(id) = "open"
    BY <1>1, <1>5, Fates
  <2> QED BY <1>2, <1>3, <1>4, <2>1, SettlesFate
<1>6. CASE rows[r].state = "failed"
  <2>1. Fate(id)' = Fate(id)
    BY <1>1, <1>4, <1>6, Fates DEF Told, ClaimsTell, LetGo
  <2> DEFINE X == {rowOf[id]}
  <2>2. RowsLive(X) /\ \A j \in Ids \ {id} : rowOf[j] \notin X
    BY <1>1, <1>3 DEF Told, Known, Links, RowsAreFiledOnce, Filed
  <2> HIDE DEF X
  <2>3. \A j \in Ids \ {id} : Fate(j)' = Fate(j)
    BY <1>2, <2>2, FatesAreKept
  <2>4. \A j \in Ids : Done(j)' = Done(j) /\ Verdict(j)' = Verdict(j)
    BY <1>2 DEF Done, Verdict, Filed
  <2> QED BY <1>2, <2>1, <2>2, <2>3, <2>4, Stutters, ForgettingIsFine
<1> QED BY <1>3, <1>5, <1>6

LEMMA RejectionsRefine ==
  ASSUME Told, ClaimsAreNoted, NEW c \in Clients, RejectAnswers(c)
  PROVE  A!Next
<1>1. PICK id \in Ids, r \in Ids : id = ops[c].id /\ r = rowOf[id] /\ Filed(id)
  BY CallersAct DEF RejectAnswers, Told, Known, Links
<1>2. /\ IF rows[r].state = "pending" THEN S!Reject(r) ELSE UNCHANGED storeVars
      /\ UNCHANGED <<rowOf, actions>>
  BY <1>1 DEF RejectAnswers, queueVars
<1>3. CASE rows[r].state = "pending"
  <2>1. /\ RowsLive({rowOf[id]}) /\ UNCHANGED effects
        /\ rows'[r].state \in {"rejected", "absent"}
    BY <1>1, <1>2, <1>3, RejectionRowsLive DEF Told, Known, S!Reject
  <2>2. Fate(id) = "open" /\ r \notin claimed
    BY <1>1, <1>3, Fates DEF Told, ClaimsTell
  <2>3. Fate(id)' = "ruledOut"
    BY <1>1, <1>2, <2>1, <2>2 DEF Fate, Filed, ClaimsAreNoted
  <2> QED BY <1>2, <2>1, <2>2, <2>3, SettlesFate
<1>4. CASE rows[r].state # "pending"
  BY <1>2, <1>4, QuietRowsLive, QuietStutters DEF Told, Known, storeVars
<1> QED BY <1>3, <1>4

LEMMA FilingRefines ==
  ASSUME Told, ClaimsAreNoted, NEW kind, NEW r \in Ids, File(kind, r)
  PROVE  A!Next
<1>1. PICK n \in Ids : n = nextActionId
  BY FilingStep DEF Told
<1>2. /\ actions' = [actions EXCEPT ![n] = Q!NewRecord(kind)]
      /\ rowOf' = [rowOf EXCEPT ![n] = r] /\ ~Filed(n)
      /\ UNCHANGED <<rows, effects>> /\ Fresh(r) /\ rows[r].state = "pending"
  BY <1>1, FilingStep DEF Told
<1>3. rowOf'[n] = r /\ \A id \in Ids \ {n} : rowOf'[id] = rowOf[id] /\ actions'[id] = actions[id]
  BY <1>2 DEF Told, Known, Links, LinkTypes, QueueFacts
<1>4. actions'[n].state = "pending"
  BY <1>2 DEF Q!NewRecord, Told, Known, QueueFacts
<1>5. claimed' = claimed /\ r \notin claimed
  BY <1>2 DEF ClaimsAreNoted, Told, ClaimsTell, LetGo
<1>6. \A id \in Ids \ {n} : /\ Fate(id)' = Fate(id) /\ Done(id)' = Done(id)
                            /\ Verdict(id)' = Verdict(id) /\ (Forgotten(id)' <=> Forgotten(id))
  BY <1>2, <1>3, <1>5 DEF Fate, Done, Verdict, Forgotten, Filed
<1>7. Fate(n) = "none" /\ Done(n) = FALSE /\ ~Forgotten(n)
  BY <1>2 DEF Fate, Done, Forgotten
<1>8. Filed(n)'
  BY <1>3 DEF Filed, Ids
<1>9. /\ Fate(n)' = "open" /\ Done(n)' = FALSE /\ Verdict(n)' = "pending" /\ ~Forgotten(n)'
  BY <1>2, <1>3, <1>4, <1>5, <1>8 DEF Fate, Done, Verdict, Forgotten, Fresh, S!Untouched
<1>10. A!Propose(n)
  BY <1>6, <1>7, <1>9 DEF A!Propose
<1>11. A!Forgets
  BY <1>6, <1>7, <1>9 DEF A!Forgets
<1> QED BY <1>10, <1>11 DEF A!Next, A!Acts

\* The user is told what happened, unless the row was pruned meanwhile.
LEMMA ReturnsRefine ==
  ASSUME Told, ClaimsAreNoted, NEW k \in Callers, CallReturns(k)
  PROVE  A!Next
<1>1. answer[k] = "ok" /\ UNCHANGED <<storeVars, rowOf>> /\ UNCHANGED <<rows, effects>>
  BY DEF CallReturns, Answered, storeVars
<1>2. CallerOK(k)
  BY DEF Told, Known, Links, CallsAreDecisions
<1>3. PICK id \in Ids, st \in {"approved", "rejected"} :
        /\ Filed(id) /\ actions' = [actions EXCEPT ![id].state = st]
        /\ st = "approved" => effects[rowOf[id]] = 1
        /\ st = "rejected" => Gone(rowOf[id])
  <2>1. CASE k = Gatekeeper
    <3>1. drain[Gatekeeper].on /\ drain[Gatekeeper].cur \in Ids /\ Applying(k) = drain[Gatekeeper].cur
      BY <1>1, <1>2, <2>1 DEF CallerOK, Told, Known, QueueFacts, Applying
    <3>2. PICK id \in Ids : id = drain[Gatekeeper].cur /\ Filed(id) /\ id = Applying(k)
      BY <3>1, CallersAct DEF Told, Known, Links, Ids
    <3>3. actions' = [actions EXCEPT ![id].state = "approved"] /\ effects[rowOf[id]] = 1
      BY <1>1, <1>2, <2>1, <3>2 DEF CallReturns, Q!DrainApplied, CallerOK, Ids
    <3> QED BY <3>2, <3>3
  <2>2. CASE k # Gatekeeper
    <3>1. PICK id \in Ids : id = ops[k].id /\ Filed(id) /\ ops[k].pc = "calling"
      BY <1>1, <1>2, <2>2, CallersAct DEF CallerOK, Callers, Told, Known, Links
    <3>2. ASSUME NEW resumes \in BOOLEAN, Q!Approved(k, resumes)
          PROVE  ops[k].op = "approve" /\ actions' = [actions EXCEPT ![id].state = "approved"]
      BY <3>1, <3>2 DEF Q!Approved
    <3>3. ops[k].op = "approve" => effects[rowOf[id]] = 1
      BY <1>1, <1>2, <2>2, <3>1 DEF CallerOK, Applying, Ids
    <3>4. ASSUME Q!Rejected(k)
          PROVE  Gone(rowOf[id]) /\ actions' = [actions EXCEPT ![id].state = "rejected"]
      BY <1>1, <1>2, <2>2, <3>1, <3>4 DEF Q!Rejected, CallerOK
    <3> QED BY <2>2, <3>1, <3>2, <3>3, <3>4 DEF CallReturns
  <2> QED BY <2>1, <2>2
<1>4. /\ actions[id] \in Q!Record /\ actions'[id].state = st
      /\ \A j \in Ids \ {id} : actions'[j] = actions[j]
  BY <1>3, OneIsDecided DEF Told, Known, Links, RowsAreFiledOnce, QueueFacts
<1>5. RowsLive({})
  BY <1>1 DEF RowsLive
<1>6. \A j \in Ids : Fate(j)' = Fate(j) /\ Done(j)' = Done(j)
  <2> DEFINE X == {}
  <2>1. RowsLive(X) /\ \A j \in Ids : rowOf[j] \notin X
    BY <1>5
  <2> HIDE DEF X
  <2>2. \A j \in Ids : Fate(j)' = Fate(j)
    BY <1>1, <2>1, FatesAreKept
  <2> QED BY <1>1, <2>2 DEF Done, Filed
<1>7. \A j \in Ids \ {id} : Verdict(j)' = Verdict(j)
  BY <1>1, <1>4 DEF Verdict, Filed
<1>8. Verdict(id)' = st /\ Verdict(id) = actions[id].state
  BY <1>1, <1>3, <1>4 DEF Verdict, Filed
<1>9. /\ st = "approved" => Done(id)
      /\ st = "rejected" => Fate(id) = "ruledOut" \/ Forgotten(id)
  <2>1. rows[rowOf[id]].state = "rejected" => rowOf[id] \notin claimed
    BY <1>3, Fates DEF Told, ClaimsTell
  <2> QED BY <1>3, <2>1 DEF Done, Gone, Forgotten, Fate
<1>10. actions[id].state \in {"pending", st} \/ Forgotten(id)
  <2>1. actions[id].state = "approved" => effects[rowOf[id]] = 1
    BY <1>3 DEF Told, Known, Links, ApprovedIsDone
  <2>2. rows[rowOf[id]].state = "rejected" => effects[rowOf[id]] = 0
    BY <1>3, Fates DEF Told, Known, StoreFacts, S!RowTellsTheTruth, S!Untouched, S!Ids, Ids
  <2>3. st = "rejected" \/ actions[id].state = "rejected" =>
          rows[rowOf[id]].state = "rejected" \/ Forgotten(id)
    BY <1>3 DEF Told, Known, Links, RejectedIsGone, Gone, Forgotten
  <2> QED BY <1>3, <1>4, <2>1, <2>2, <2>3 DEF Q!Record
<1>11. A!Forgets
  BY <1>1, <1>5, ForgettingIsFine
<1>12. CASE actions[id].state = st
  BY <1>6, <1>7, <1>8, <1>11, <1>12, Stutters
<1>13. CASE actions[id].state = "pending" \/ Forgotten(id)
  <2>1. A!Tell(id)
    BY <1>3, <1>6, <1>7, <1>8, <1>9, <1>13 DEF A!Tell
  <2> QED BY <1>11, <2>1 DEF A!Next, A!Acts
<1> QED BY <1>10, <1>12, <1>13

LEMMA NextRefines ==
  ASSUME Told, ClaimsAreNoted, [Next]_vars
  PROVE  A!Next
<1>1. CASE ~UNCHANGED effects
  <2>1. PICK r \in Ids : /\ StoreStep(S!OrphanExecutes(r)) \/ \E k \in Callers : StoreStep(S!ServerExecutes(k))
                         /\ effects' = [effects EXCEPT ![r] = 1] /\ effects[r] = 0
                         /\ UNCHANGED rows /\ Started(r)
    BY <1>1, EffectsComeFromTheWire DEF Told
  <2>2. UNCHANGED <<rows, rowOf, actions>>
    BY <2>1 DEF StoreStep, queueVars
  <2> QED BY <2>1, <2>2, EffectsAreEffects
<1>2. CASE UNCHANGED effects
  <2>1. CASE \/ \E k \in Callers : ApplyClaims(k) \/ CallReturns(k)
             \/ \E c \in Clients : RejectAnswers(c)
             \/ \E kind \in Kinds, r \in Ids : File(kind, r)
    BY <2>1, ClaimsRefine, ReturnsRefine, RejectionsRefine, FilingRefines
  <2>2. CASE \/ StoreStep(S!Stage)
             \/ \E r \in Ids : StoreStep(S!Discard(r)) \/ StoreStep(S!OrphanExecutes(r) \/ S!OrphanLost(r))
             \/ \E k \in Callers : StoreStep(S!Send(k)) \/ StoreStep(S!ServerExecutes(k))
    <3>1. RowsLive({})
      BY <2>2, QuietRowsLive DEF StoreStep, Told, Known
    <3>2. UNCHANGED <<rowOf, actions>>
      BY <2>2 DEF StoreStep, queueVars
    <3> QED BY <1>2, <3>1, <3>2, QuietStutters
  <2>3. CASE \/ \E k \in Callers : ApplySettles(k)
             \/ \E k \in Callers, err \in S!Errors : ApplyFails(k, err)
             \/ FacetRestart \/ OverseerRestart
    <3>1. RowsLive({})
      BY <2>3, QuietRowsLive DEF ApplySettles, ApplyFails, FacetRestart, OverseerRestart, Told, Known
    <3>2. UNCHANGED <<rowOf, actions>>
      BY <2>3 DEF ApplySettles, ApplyFails, FacetRestart, OverseerRestart, Q!Restart, queueVars
    <3> QED BY <1>2, <3>1, <3>2, QuietStutters
  <2>4. CASE \/ \E k \in Callers : ApplyAnswersAtOnce(k) \/ CallThrows(k)
             \/ \E c \in Clients : ProfileThrows(c) \/ QueueStep(Q!Resumed(c) \/ Q!ResumeThrew(c))
             \/ \E tag \in Tags : \/ QueueStep(Q!EnableRule(Gatekeeper, tag))
                                 \/ QueueStep(Q!DisableRule(Gatekeeper, tag))
             \/ \E c \in Clients, op \in {"approve", "reject"}, id \in Ids : Decide(c, op, id)
             \/ UNCHANGED vars
    <3>1. UNCHANGED <<storeVars, rowOf, actions>>
      BY <2>4 DEF ApplyAnswersAtOnce, CallThrows, Answered, ProfileThrows, QueueStep, Decide,
         Q!DrainThrew, Q!DecisionThrew, Q!Resumed, Q!ResumeThrew, Q!EnableRule, Q!DisableRule,
         Q!Decide, vars, queueVars
    <3>2. RowsLive({})
      BY <3>1, QuietRowsLive DEF Told, Known
    <3> QED BY <1>2, <3>1, <3>2, QuietStutters
  <2> QED BY <2>1, <2>2, <2>3, <2>4 DEF Next
<1> QED BY <1>1, <1>2

LEMMA InitRefines == PromiseInit => A!Init
BY DEF PromiseInit, Init, S!Init, S!Ids, Ids, A!Init, Fate, Done, Verdict, Forgotten, Filed

\* The queue, the store and the wire keep what approval promises, in every run:
\* a call is let go or ruled out once and for all, it takes effect at most once
\* and only if it was let go, and the user is told what happened, as long as the
\* store has not pruned the row; what it prunes was settled.
THEOREM ApprovalIsImplemented == PromiseSpec => KeepsItsPromise
<1>1. PromiseInit => Init /\ ClaimsTell
  BY InitClaims DEF PromiseInit
<1>2. ASSUME Told, [PromiseNext]_<<vars, claimed>> PROVE [Next]_vars /\ ClaimsAreNoted
  <2>1. CASE PromiseNext
    BY <2>1 DEF PromiseNext, ClaimsAreNoted
  <2>2. CASE UNCHANGED <<vars, claimed>>
    <3>1. UNCHANGED vars /\ UNCHANGED rows /\ claimed' = claimed
      BY <2>2 DEF vars, storeVars
    <3> QED BY <1>2, <3>1 DEF ClaimsAreNoted, Told, ClaimsTell, LetGo
  <2> QED BY <1>2, <2>1, <2>2
<1>3. Known /\ Known' /\ ClaimsTell /\ [PromiseNext]_<<vars, claimed>> => ClaimsTell'
  <2> SUFFICES ASSUME Known, Known', ClaimsTell, [PromiseNext]_<<vars, claimed>> PROVE ClaimsTell'
    OBVIOUS
  <2>1. Told
    BY DEF Told
  <2>2. OfTheStore
    BY <1>2, <2>1, StoreActs DEF Told, Known, Links
  <2> QED BY <1>2, <2>1, <2>2, ClaimsGoOnTelling DEF Told, Known
<1>4. IInv /\ ClaimsTell /\ [PromiseNext]_<<vars, claimed>> => [A!Next]_(A!vars)
  BY <1>2, NextRefines, IInvKnows DEF Told
<1>5. IInv /\ [Next]_vars => IInv'
  BY NextIInv
<1>6. Init => IInv
  BY InitIInv
<1>7. IInv /\ ClaimsTell /\ [PromiseNext]_<<vars, claimed>> => [Next]_vars
  BY <1>2, IInvKnows DEF Told
<1> QED BY <1>1, <1>3, <1>4, <1>5, <1>6, <1>7, InitRefines, IInvKnows, PTL DEF PromiseSpec, KeepsItsPromise, A!Spec

=============================================================================
