----------------------------- MODULE TurnProofs -----------------------------
(***************************************************************************)
(* About the agent's turns, in two parts.                                  *)
(*                                                                         *)
(* TurnSuspension: for any number of actions, users and rules, a turn that *)
(* waits for decisions is resumed once they are all approvals, and no turn *)
(* goes on past an action that only a user can approve.  The argument      *)
(* follows what the log shows of the turn: who approves an action looks    *)
(* there for the others that the turn waits for.                           *)
(*                                                                         *)
(* ChatTurns: for any number of callbacks, turns, users and restarts, a    *)
(* chat has one agent at most.  Everybody who starts a turn awaits         *)
(* something between finding the chat idle and starting it; that the       *)
(* second look is enough is what this shows.  And no callback and no       *)
(* answer to the outside is left without somebody who will see to it.      *)
(***************************************************************************)
EXTENDS TurnSuspension, ChatTurns, FiniteSetTheorems, TLAPS

-----------------------------------------------------------------------------
(* The inductive invariant                                                   *)

Filed(id) == id \in Ids /\ id < nextActionId

\* What the turn needs to know of the queue.
QueueTyped ==
  /\ actions \in [Ids -> Q!Record \cup {Q!NoRecord}]
  /\ nextActionId \in 1..(MaxActions + 1)
  /\ \A id \in Ids : actions[id] \in Q!Record <=> id < nextActionId
  /\ ops \in [Clients -> Q!Op]

\* A turn that does not run has captured nothing, what the log shows of it and
\* what its step has captured was submitted by it, and who posted a note is
\* resuming.
TurnInv ==
  /\ TypeOK
  /\ turn # "running" => captured = Nothing
  /\ \A id \in captured.ids \cup owed : Filed(id)
  /\ \A id \in owed : actions[id].kind.awaited
  /\ logged \cup Awaited(captured.ids) \subseteq owed
  /\ \A c \in noted : ops[c].pc = "resuming"

\* Nothing that only a user can approve is pending in the log.
LogSettled == \A id \in logged : actions[id].state = "pending" => actions[id].kind.autoApprovable

\* A turn goes on only if its log is settled, and whoever is about to start it
\* again has found the log so, or will tell.
SettledInv ==
  /\ ~captured.awaits => \A id \in Awaited(captured.ids) : actions[id].kind.autoApprovable
  /\ turn \in {"running", "ending"} /\ why \cap {"failed", "stale"} = {} => LogSettled
  /\ noted # {} /\ "stale" \notin why => turn \in {"suspending", "suspended"} \/ LogSettled

\* No excuse has been seen yet.
Clean == why \cap {"early", "drained", "failed"} = {}

\* The log shows what the turn awaits, unless a note has just ended it.
LogShows ==
  why \cap {"early", "failed"} = {} =>
    owed = logged \cup Awaited(captured.ids) \/ (~Running /\ noted # {})

\* A turn is suspended for an action that nobody has approved, and while it is
\* suspended, somebody resumes it or there still is one.
WaitInv ==
  Clean =>
    /\ captured.awaits => \E id \in Awaited(captured.ids) : actions[id].state # "approved"
    /\ turn = "suspending" => ~AllApproved(owed)
    /\ turn = "suspended" /\ AllApproved(owed) => Resuming

IInv == QueueTyped /\ TurnInv /\ SettledInv /\ LogShows /\ WaitInv

-----------------------------------------------------------------------------
(* What the steps do to the records.                                         *)

\* A record stays filed with its kind, and is pending only if it was.
Stay(id) ==
  /\ Filed(id)'
  /\ actions'[id].kind = actions[id].kind
  /\ actions'[id].state = "pending" => actions[id].state = "pending"

LEMMA RecordsDiffer == Q!NoRecord \notin Q!Record /\ Q!NoOp \in Q!Op
BY DEF Q!NoRecord, Q!Record, Q!NoOp, Q!Op

\* Recording a decision about what was filed keeps the table.
LEMMA DecidingKeeps ==
  ASSUME QueueTyped, NEW id, NEW state \in {"approved", "rejected"},
         id \in Ids => actions[id].state \in {"pending", "approved"},
         actions' = [actions EXCEPT ![id].state = state], UNCHANGED nextActionId
  PROVE  /\ actions' \in [Ids -> Q!Record \cup {Q!NoRecord}]
         /\ \A j \in Ids : actions'[j] \in Q!Record <=> j < nextActionId'
         /\ \A j \in Ids : Filed(j) => Stay(j)
         /\ \A j \in Ids \ {id} : actions'[j] = actions[j]
         /\ id \in Ids => Filed(id) /\ actions'[id].state = state
<1>1. ASSUME id \in Ids PROVE actions[id] \in Q!Record /\ Filed(id)
  BY <1>1 DEF QueueTyped, Q!NoRecord, Filed
<1>2. ASSUME id \in Ids
      PROVE  /\ [actions[id] EXCEPT !.state = state] \in Q!Record
             /\ [actions[id] EXCEPT !.state = state].kind = actions[id].kind
             /\ [actions[id] EXCEPT !.state = state].state = state
  BY <1>1, <1>2 DEF Q!Record
<1> DEFINE r == [actions[id] EXCEPT !.state = state]
<1>3. actions' = [actions EXCEPT ![id] = r]
  OBVIOUS
<1> HIDE DEF r
<1>4. \A j \in Ids : actions'[j] = IF j = id THEN r ELSE actions[j]
  BY <1>3 DEF QueueTyped
<1>5. id \in Ids => r \in Q!Record /\ r.kind = actions[id].kind /\ r.state = state
  BY <1>2 DEF r
<1>6. actions' \in [Ids -> Q!Record \cup {Q!NoRecord}]
  BY <1>3, <1>5 DEF QueueTyped
<1> QED BY <1>1, <1>4, <1>5, <1>6 DEF QueueTyped, Filed, Stay

LEMMA SubmittingKeeps ==
  ASSUME QueueTyped, NEW kind \in Kinds, Q!Submit(kind), NEW id, id = nextActionId
  PROVE  /\ QueueTyped' /\ ops' = ops
         /\ \A j \in Ids : Filed(j) => j # id /\ Filed(j)' /\ actions'[j] = actions[j]
         /\ id \in Ids /\ Filed(id)' /\ actions'[id] = [kind |-> kind, state |-> "pending"]
<1>1. [kind |-> kind, state |-> "pending"] \in Q!Record
  BY DEF Q!Record
<1>2. /\ id \in Ids /\ nextActionId' = id + 1 /\ ops' = ops
      /\ actions' = [actions EXCEPT ![id] = [kind |-> kind, state |-> "pending"]]
  BY DEF Q!Submit, Q!NewRecord, Q!Ids, Ids
<1>3. \A j \in Ids : actions'[j] = IF j = id THEN [kind |-> kind, state |-> "pending"] ELSE actions[j]
  BY <1>2 DEF QueueTyped
<1>4. /\ nextActionId' \in 1..(MaxActions + 1)
      /\ \A j \in Ids : j < nextActionId' <=> j < id \/ j = id
      /\ ~(id < id)
  BY <1>2, SuspensionAssumption DEF Ids
<1>5. actions' \in [Ids -> Q!Record \cup {Q!NoRecord}]
  BY <1>1, <1>2 DEF QueueTyped
<1>6. QueueTyped'
  BY <1>1, <1>2, <1>3, <1>4, <1>5 DEF QueueTyped
<1> QED BY <1>2, <1>3, <1>4, <1>6 DEF Filed

\* What changes neither the turn nor the table, nor who is resuming.
Calm ==
  /\ UNCHANGED <<turnVars, actions, nextActionId>>
  /\ \A c \in Clients : ops'[c].pc = "resuming" <=> ops[c].pc = "resuming"
  /\ ops' \in [Clients -> Q!Op]

QueueOnly ==
  \/ \E tag \in Tags : QueueStep(Q!EnableRule(Gatekeeper, tag))
  \/ \E tag \in Tags : QueueStep(Q!DisableRule(Gatekeeper, tag))
  \/ \E c \in Clients, op \in {"approve", "reject"}, id \in Ids : QueueStep(Q!Decide(c, op, id))
  \/ \E c \in Clients : QueueStep(Q!DecisionThrew(c))
  \/ QueueStep(Q!DrainThrew(Gatekeeper))
  \/ UNCHANGED vars

LEMMA QueueOnlyIsCalm ==
  ASSUME QueueTyped, QueueOnly
  PROVE  Calm
<1>1. ASSUME NEW c \in Clients, NEW op \in {"approve", "reject"}, NEW id \in Ids,
             QueueStep(Q!Decide(c, op, id))
      PROVE  Calm
  <2>1. [op |-> op, id |-> id, pc |-> "calling"] \in Q!Op
    BY DEF Q!Op, Q!Ids, Ids
  <2>2. /\ ops[c].pc = "idle" /\ UNCHANGED <<turnVars, actions, nextActionId>>
        /\ ops' = [ops EXCEPT ![c] = [op |-> op, id |-> id, pc |-> "calling"]]
    BY <1>1 DEF QueueStep, Q!Decide
  <2> QED BY <2>1, <2>2 DEF Calm, QueueTyped
<1>2. ASSUME NEW c \in Clients, QueueStep(Q!DecisionThrew(c)) PROVE Calm
  <2>1. /\ ops[c].pc = "calling" /\ UNCHANGED <<turnVars, actions, nextActionId>>
        /\ ops' = [ops EXCEPT ![c] = Q!NoOp] /\ Q!NoOp.pc = "idle"
    BY <1>2 DEF QueueStep, Q!DecisionThrew, Q!NoOp
  <2> QED BY <2>1, RecordsDiffer DEF Calm, QueueTyped
<1>3. ASSUME UNCHANGED <<turnVars, actions, nextActionId, ops>> PROVE Calm
  BY <1>3 DEF Calm, QueueTyped
<1> QED
  BY <1>1, <1>2, <1>3
  DEF QueueOnly, QueueStep, Q!EnableRule, Q!DisableRule, Q!DrainThrew, vars, queueVars

LEMMA CalmKeeps ==
  ASSUME IInv, Calm
  PROVE  IInv'
<1>1. UNCHANGED <<turn, captured, logged, noted, owed, why, actions, nextActionId>>
  BY DEF Calm, turnVars
<1>2. Resuming' = Resuming
  BY DEF Calm, Resuming
<1>3. QueueTyped'
  BY <1>1 DEF IInv, QueueTyped, Calm
<1>4. TurnInv'
  BY <1>1 DEF IInv, TurnInv, TypeOK, Calm, Running, Filed, Awaited, Nothing
<1>5. SettledInv' /\ LogShows'
  BY <1>1 DEF IInv, SettledInv, LogShows, LogSettled, Awaited, Running
<1>6. WaitInv'
  BY <1>1, <1>2 DEF IInv, WaitInv, Clean, Awaited, AllApproved
<1> QED BY <1>3, <1>4, <1>5, <1>6 DEF IInv
-----------------------------------------------------------------------------
(* The steps of the turn                                                     *)

LEMMA UserMessageKeeps ==
  ASSUME IInv, UserMessage
  PROVE  IInv'
<1>1. /\ turn' = "running" /\ logged' = {} /\ owed' = {} /\ why' = {} /\ captured' = Nothing
      /\ UNCHANGED <<noted, actions, nextActionId, ops>>
  BY DEF UserMessage, queueVars, IInv, TurnInv, Running
<1>2. QueueTyped'
  BY <1>1 DEF IInv, QueueTyped
<1>3. Awaited(captured.ids)' = {} /\ ~captured'.awaits /\ captured'.ids = {}
  BY <1>1 DEF Nothing, Awaited
<1>4. TurnInv'
  BY <1>1, <1>3 DEF IInv, TurnInv, TypeOK, Running, Nothing
<1>5. SettledInv' /\ LogShows' /\ WaitInv'
  BY <1>1, <1>3 DEF SettledInv, LogShows, WaitInv, LogSettled
<1> QED BY <1>2, <1>4, <1>5 DEF IInv

LEMMA AgentSubmitsKeeps ==
  ASSUME IInv, NEW kind \in Kinds, AgentSubmits(kind)
  PROVE  IInv'
<1> PICK id : id = nextActionId
  OBVIOUS
<1>0. IInv /\ turn = "running" /\ Running
  BY DEF AgentSubmits, Running
<1>1. /\ turn' = "running" /\ UNCHANGED <<logged, noted, why>>
      /\ captured' = [ids |-> captured.ids \cup {id},
                      awaits |-> captured.awaits \/ (kind.awaited /\ ~Q!Eligible(kind, rules))]
      /\ owed' = IF kind.awaited THEN owed \cup {id} ELSE owed
      /\ Q!Submit(kind)
  BY DEF AgentSubmits
<1>2. /\ QueueTyped' /\ ops' = ops /\ id \in Ids /\ Filed(id)'
      /\ actions'[id] = [kind |-> kind, state |-> "pending"]
      /\ \A j \in Ids : Filed(j) => j # id /\ Filed(j)' /\ actions'[j] = actions[j]
  BY <1>1, SubmittingKeeps DEF IInv
<1>3. /\ captured'.ids = captured.ids \cup {id}
      /\ captured'.awaits = (captured.awaits \/ (kind.awaited /\ ~Q!Eligible(kind, rules)))
  BY <1>1
<1>4. /\ \A j \in captured.ids \cup owed \cup logged : j \in Ids /\ Filed(j)
      /\ \A j \in captured.ids \cup owed \cup logged : j # id /\ actions'[j] = actions[j]
  BY <1>2 DEF IInv, TurnInv, Filed
<1>5. Awaited(captured.ids)' = Awaited(captured.ids) \cup {j \in {id} : kind.awaited}
  BY <1>2, <1>3, <1>4 DEF Awaited
<1>6. owed' = owed \cup {j \in {id} : kind.awaited}
  BY <1>1
<1>7. TypeOK'
  <2>1. captured' \in [ids : SUBSET Ids, awaits : BOOLEAN]
    BY <1>0, <1>1, <1>2 DEF IInv, TurnInv, TypeOK
  <2> QED BY <1>0, <1>1, <1>2, <2>1 DEF IInv, TurnInv, TypeOK
<1>8. TurnInv'
  <2>1. \A j \in captured'.ids \cup owed' : Filed(j)'
    BY <1>2, <1>3, <1>4, <1>6
  <2>2. \A j \in owed' : actions'[j].kind.awaited
    BY <1>0, <1>2, <1>4, <1>6 DEF IInv, TurnInv
  <2>3. logged' \cup Awaited(captured.ids)' \subseteq owed'
    BY <1>0, <1>1, <1>5, <1>6 DEF IInv, TurnInv
  <2>4. Running' /\ \A c \in noted' : ops'[c].pc = "resuming"
    BY <1>0, <1>1, <1>2 DEF IInv, TurnInv, Running
  <2> QED BY <1>1, <1>7, <2>1, <2>2, <2>3, <2>4 DEF TurnInv
<1>9. LogSettled' = LogSettled
  BY <1>1, <1>4 DEF LogSettled
<1>10. SettledInv'
  <2>1. ASSUME ~captured'.awaits, NEW j \in Awaited(captured.ids)' PROVE actions'[j].kind.autoApprovable
    <3>1. ~captured.awaits /\ (kind.awaited => Q!Eligible(kind, rules))
      BY <1>3, <2>1
    <3>2. CASE j = id
      BY <1>2, <1>5, <2>1, <3>1, <3>2, <1>4 DEF Q!Eligible, Awaited
    <3>3. CASE j # id
      <4>1. j \in Awaited(captured.ids) /\ j \in captured.ids
        BY <1>5, <2>1, <3>3 DEF Awaited
      <4> QED BY <1>0, <1>4, <3>1, <4>1 DEF IInv, SettledInv
    <3> QED BY <3>2, <3>3
  <2> QED BY <1>0, <1>1, <1>9, <2>1 DEF IInv, SettledInv
<1>11. LogShows'
  BY <1>0, <1>1, <1>5, <1>6 DEF IInv, LogShows, Running
<1>12. WaitInv'
  <2>1. ASSUME Clean, captured'.awaits
        PROVE  \E j \in Awaited(captured.ids)' : actions'[j].state # "approved"
    <3>1. CASE captured.awaits
      <4>1. PICK j \in Awaited(captured.ids) : actions[j].state # "approved"
        BY <1>0, <2>1, <3>1 DEF IInv, WaitInv
      <4> QED BY <1>4, <1>5, <4>1 DEF Awaited
    <3>2. CASE ~captured.awaits
      <4>1. kind.awaited
        BY <1>3, <2>1, <3>2
      <4> QED BY <1>2, <1>5, <4>1
    <3> QED BY <3>1, <3>2
  <2>2. Clean' = Clean
    BY <1>1 DEF Clean
  <2> QED BY <1>1, <2>1, <2>2 DEF WaitInv
<1> QED BY <1>2, <1>8, <1>10, <1>11, <1>12 DEF IInv

LEMMA StepEndsKeeps ==
  ASSUME IInv, StepEnds
  PROVE  IInv'
<1>1. /\ turn = "running" /\ Running /\ logged' = logged \cup Awaited(captured.ids)
      /\ captured' = Nothing
      /\ turn' \in IF captured.awaits THEN {"suspending"} ELSE {"running", "ending"}
      /\ UNCHANGED <<actions, nextActionId, ops, noted, owed, why>>
  BY DEF StepEnds, queueVars, Running
<1>2. QueueTyped'
  BY <1>1 DEF IInv, QueueTyped
<1>3. /\ Awaited(captured.ids)' = {} /\ ~captured'.awaits /\ captured'.ids = {}
      /\ captured' \in [ids : SUBSET Ids, awaits : BOOLEAN]
  BY <1>1 DEF Nothing, Awaited
<1>4. TurnInv'
  <2>1. logged' \subseteq owed' /\ logged' \subseteq Ids
    BY <1>1 DEF IInv, TurnInv, TypeOK
  <2>2. turn' \in {"running", "ending", "suspending"}
    BY <1>1
  <2> QED BY <1>1, <1>3, <2>1, <2>2 DEF IInv, TurnInv, TypeOK, Running, Filed
<1>5. SettledInv'
  <2>1. CASE captured.awaits
    BY <1>1, <1>3, <2>1 DEF SettledInv
  <2>2. CASE ~captured.awaits
    <3>1. LogSettled => LogSettled'
      BY <1>1, <2>2 DEF IInv, SettledInv, LogSettled
    <3> QED BY <1>1, <1>3, <3>1 DEF IInv, SettledInv
  <2> QED BY <2>1, <2>2
<1>6. LogShows'
  BY <1>1, <1>3 DEF IInv, LogShows
<1>7. WaitInv'
  <2>1. ASSUME Clean, turn' = "suspending" PROVE ~AllApproved(owed)
    <3>1. captured.awaits
      BY <1>1, <2>1
    <3>2. PICK id \in Awaited(captured.ids) : actions[id].state # "approved"
      BY <2>1, <3>1 DEF IInv, WaitInv
    <3> QED BY <3>2 DEF IInv, TurnInv, AllApproved
  <2> QED BY <1>1, <1>3, <2>1 DEF WaitInv, Clean, AllApproved
<1> QED BY <1>2, <1>4, <1>5, <1>6, <1>7 DEF IInv

LEMMA TurnEndsKeeps ==
  ASSUME IInv, TurnEnds
  PROVE  IInv'
<1>1. /\ turn \in {"ending", "suspending"} /\ Running
      /\ turn' = IF turn = "ending" THEN "idle" ELSE "suspended"
      /\ UNCHANGED <<actions, nextActionId, ops, captured, logged, noted, owed, why>>
  BY DEF TurnEnds, queueVars, Running
<1>2. QueueTyped'
  BY <1>1 DEF IInv, QueueTyped
<1>3. Awaited(captured.ids)' = Awaited(captured.ids)
  BY <1>1 DEF Awaited
<1>4. TurnInv'
  BY <1>1 DEF IInv, TurnInv, TypeOK, Running, Filed, Awaited
<1>5. SettledInv' /\ LogShows' /\ WaitInv'
  BY <1>1, <1>3
  DEF IInv, SettledInv, LogShows, WaitInv, LogSettled, Clean, AllApproved
<1> QED BY <1>2, <1>4, <1>5 DEF IInv

-----------------------------------------------------------------------------
(* The decisions                                                             *)

\* A decision about one action, whoever makes it: the log stays settled, and if
\* it is not what a suspended turn waits for, or whoever made it resumes the turn,
\* the turn is not forgotten.
LEMMA DecidedKeeps ==
  ASSUME IInv, NEW id, NEW state \in {"approved", "rejected"},
         id \in Ids => actions[id].state \in {"pending", "approved"},
         actions' = [actions EXCEPT ![id].state = state],
         ops' \in [Clients -> Q!Op],
         \A c \in Clients : ops[c].pc = "resuming" => ops'[c].pc = "resuming",
         UNCHANGED <<nextActionId, turn, captured, logged, noted, owed>>,
         why \subseteq why', why' \subseteq {"early", "drained", "stale", "failed"},
         Clean' /\ id \in owed /\ state = "approved" =>
            /\ ~Running
            /\ turn = "suspended" /\ AllApproved(owed)' => Resuming'
  PROVE  IInv'
<1>1. /\ actions' \in [Ids -> Q!Record \cup {Q!NoRecord}]
      /\ \A j \in Ids : actions'[j] \in Q!Record <=> j < nextActionId'
      /\ \A j \in Ids : Filed(j) => Stay(j)
      /\ \A j \in Ids \ {id} : actions'[j] = actions[j]
      /\ id \in Ids => Filed(id) /\ actions'[id].state = state
  BY DecidingKeeps DEF IInv
<1>2. QueueTyped'
  BY <1>1 DEF IInv, QueueTyped
<1>3. \A j \in captured.ids \cup owed \cup logged :
        /\ j \in Ids /\ Filed(j) /\ Filed(j)' /\ actions'[j].kind = actions[j].kind
        /\ actions'[j].state = "pending" => actions[j].state = "pending"
        /\ j # id => actions'[j] = actions[j]
  BY <1>1 DEF IInv, TurnInv, Filed, Stay
<1>4. Awaited(captured.ids)' = Awaited(captured.ids)
  BY <1>3 DEF Awaited
<1>5. TurnInv'
  BY <1>3, <1>4 DEF IInv, TurnInv, TypeOK
<1>6. LogSettled => LogSettled'
  BY <1>3 DEF LogSettled
<1>7. SettledInv'
  <2>1. \A j \in Awaited(captured.ids) : actions'[j].kind.autoApprovable <=> actions[j].kind.autoApprovable
    BY <1>3 DEF Awaited
  <2> QED BY <1>4, <1>6, <2>1 DEF IInv, SettledInv
<1>8. LogShows'
  BY <1>4 DEF IInv, LogShows, Running
<1>9. Clean' => Clean
  BY DEF Clean
<1>10. Resuming => Resuming'
  BY DEF Resuming
<1>11. ASSUME id \in owed, state = "approved" PROVE WaitInv'
  <2>1. Clean' => ~Running /\ (turn = "suspended" /\ AllApproved(owed)' => Resuming')
    BY <1>11
  <2>2. ~Running => captured.awaits = FALSE /\ turn # "suspending"
    BY DEF IInv, TurnInv, Nothing, Running
  <2>3. captured' = captured /\ turn' = turn
    OBVIOUS
  <2> QED BY <2>1, <2>2, <2>3 DEF WaitInv
<1>12. ASSUME id \notin owed \/ state = "rejected" PROVE WaitInv'
  <2>1. \A j \in owed : actions'[j].state = "approved" => actions[j].state = "approved"
    BY <1>1, <1>3, <1>12
  <2>2. AllApproved(owed)' => AllApproved(owed)
    BY <2>1 DEF AllApproved
  <2>3. \A j \in Awaited(captured.ids) : j \in owed
    BY DEF IInv, TurnInv
  <2>4. captured' = captured /\ turn' = turn
    OBVIOUS
  <2>5. ASSUME Clean', captured.awaits
        PROVE  \E j \in Awaited(captured.ids)' : actions'[j].state # "approved"
    <3>1. PICK j \in Awaited(captured.ids) : actions[j].state # "approved"
      BY <1>9, <2>5 DEF IInv, WaitInv
    <3> QED BY <1>4, <2>1, <2>3, <3>1
  <2>6. Clean' => (turn = "suspending" => ~AllApproved(owed)')
    BY <1>9, <2>2 DEF IInv, WaitInv
  <2>7. Clean' => (turn = "suspended" /\ AllApproved(owed)' => Resuming')
    BY <1>9, <1>10, <2>2 DEF IInv, WaitInv
  <2> QED BY <2>4, <2>5, <2>6, <2>7 DEF WaitInv
<1> QED BY <1>2, <1>5, <1>7, <1>8, <1>11, <1>12 DEF IInv

LEMMA ApproveKeeps ==
  ASSUME IInv, NEW c \in Clients, Approve(c)
  PROVE  IInv'
<1> PICK id : id = ops[c].id
  OBVIOUS
<1>1. /\ ops[c].pc = "calling" /\ actions[id].state \in {"pending", "approved"}
      /\ Q!Approved(c, actions[id].kind.awaited /\ MayResume(id))
      /\ why' = why \cup {r \in {"early"} : Running /\ id \in owed}
      /\ UNCHANGED <<turn, captured, logged, noted, owed>>
  BY DEF Approve, Accepted
<1>2. /\ actions' = [actions EXCEPT ![id].state = "approved"] /\ nextActionId' = nextActionId
      /\ ops' = IF actions[id].kind.awaited /\ MayResume(id)
                THEN [ops EXCEPT ![c].pc = "resuming"] ELSE [ops EXCEPT ![c] = Q!NoOp]
  BY <1>1 DEF Q!Approved, Q!DrainAndReturn
<1>3. [ops[c] EXCEPT !.pc = "resuming"] \in Q!Op
  BY DEF IInv, QueueTyped, Q!Op
<1>4. /\ ops' \in [Clients -> Q!Op]
      /\ \A d \in Clients \ {c} : ops'[d] = ops[d]
      /\ actions[id].kind.awaited /\ MayResume(id) => ops'[c].pc = "resuming"
  <2>1. ops \in [Clients -> Q!Op]
    BY DEF IInv, QueueTyped
  <2>2. CASE actions[id].kind.awaited /\ MayResume(id)
    BY <1>2, <1>3, <2>1, <2>2
  <2>3. CASE ~(actions[id].kind.awaited /\ MayResume(id))
    BY <1>2, <2>1, <2>3, RecordsDiffer
  <2> QED BY <2>2, <2>3
<1>5. why \subseteq why' /\ why' \subseteq {"early", "drained", "stale", "failed"}
  BY <1>1 DEF IInv, TurnInv, TypeOK
<1>6. ASSUME Clean', id \in owed
      PROVE  ~Running
  BY <1>1, <1>6 DEF Clean
<1>7. Resuming => Resuming'
  BY <1>1, <1>4 DEF Resuming
<1>8. ASSUME Clean', id \in owed, AllApproved(owed)', turn = "suspended"
      PROVE  Resuming'
  <2>1. CASE Resuming
    BY <1>7, <2>1
  <2>2. CASE ~Resuming
    <3>1. noted = {} /\ captured = Nothing
      BY <1>8, <2>2 DEF IInv, TurnInv, TypeOK, Resuming
    <3>2. owed = logged /\ owed # {}
      <4>1. Awaited(captured.ids) = {}
        BY <3>1 DEF Awaited, Nothing
      <4> QED BY <1>5, <1>8, <3>1, <4>1 DEF IInv, LogShows, Clean
    <3>3. \A j \in logged : j = id \/ actions[j].state = "approved"
      <4> SUFFICES ASSUME NEW j \in logged, j # id PROVE actions[j].state = "approved"
        OBVIOUS
      <4>1. actions'[j].state = "approved" /\ j \in Ids
        BY <1>1, <1>8, <3>2 DEF AllApproved, IInv, TurnInv, TypeOK
      <4>2. actions'[j] = actions[j]
        BY <1>2, <4>1 DEF IInv, QueueTyped
      <4> QED BY <4>1, <4>2
    <3>4. actions[id].kind.awaited /\ MayResume(id)
      BY <1>8, <3>2, <3>3 DEF IInv, TurnInv, MayResume
    <3> QED BY <1>4, <3>4 DEF Resuming
  <2> QED BY <2>1, <2>2
<1>9. \A d \in Clients : ops[d].pc = "resuming" => ops'[d].pc = "resuming"
  BY <1>1, <1>4
<1>10. /\ "approved" \in {"approved", "rejected"}
       /\ id \in Ids => actions[id].state \in {"pending", "approved"}
       /\ UNCHANGED <<nextActionId, turn, captured, logged, noted, owed>>
  BY <1>1, <1>2
<1> QED BY <1>2, <1>4, <1>5, <1>6, <1>8, <1>9, <1>10, DecidedKeeps

LEMMA RejectKeeps ==
  ASSUME IInv, NEW c \in Clients, Reject(c)
  PROVE  IInv'
<1> PICK id : id = ops[c].id
  OBVIOUS
<1>1. /\ ops[c].pc = "calling" /\ actions[id].state = "pending"
      /\ actions' = [actions EXCEPT ![id].state = "rejected"]
      /\ ops' = [ops EXCEPT ![c] = Q!NoOp]
      /\ UNCHANGED <<nextActionId, turn, captured, logged, noted, owed, why>>
  BY DEF Reject, Accepted, Q!Rejected, turnVars
<1>2. /\ ops' \in [Clients -> Q!Op]
      /\ \A d \in Clients : ops[d].pc = "resuming" => ops'[d].pc = "resuming"
  BY <1>1, RecordsDiffer DEF IInv, QueueTyped
<1>3. why \subseteq why' /\ why' \subseteq {"early", "drained", "stale", "failed"}
  BY <1>1 DEF IInv, TurnInv, TypeOK
<1> QED BY <1>1, <1>2, <1>3, DecidedKeeps

LEMMA DrainAppliedKeeps ==
  ASSUME IInv, DrainApplied
  PROVE  IInv'
<1> PICK id : id = drain[Gatekeeper].cur
  OBVIOUS
<1>1. /\ actions[id].state \in {"pending", "approved"}
      /\ actions' = [actions EXCEPT ![id].state = "approved"] /\ ops' = ops
      /\ UNCHANGED <<nextActionId, turn, captured, logged, noted, owed>>
      /\ why' = why \cup {r \in {"drained"} : id \in owed}
  BY DEF DrainApplied, Accepted, Q!DrainApplied
<1>2. /\ why \subseteq why' /\ why' \subseteq {"early", "drained", "stale", "failed"}
      /\ Clean' => id \notin owed
  BY <1>1 DEF IInv, TurnInv, TypeOK, Clean
<1>3. ops' \in [Clients -> Q!Op]
  BY <1>1 DEF IInv, QueueTyped
<1> QED BY <1>1, <1>2, <1>3, DecidedKeeps

\* An approval's note is the new boundary of the log.
LEMMA PostNoteKeeps ==
  ASSUME IInv, NEW c \in Clients, PostNote(c)
  PROVE  IInv'
<1>1. /\ ops[c].pc = "resuming" /\ logged' = {}
      /\ why' = why \cup {r \in {"early"} : Running}
      /\ UNCHANGED <<turn, captured, owed, actions, nextActionId>>
  BY DEF PostNote, queueVars, Q!Resumed
<1>2. CASE Running
  <2>1. ops' = [ops EXCEPT ![c] = Q!NoOp] /\ c \notin noted /\ noted' = noted
    BY <1>2 DEF PostNote, Q!Resumed, Q!DrainAndReturn
  <2>2. QueueTyped'
    BY <1>1, <2>1, RecordsDiffer DEF IInv, QueueTyped
  <2>3. \A d \in noted : ops'[d].pc = "resuming"
    BY <2>1 DEF IInv, QueueTyped, TurnInv, TypeOK
  <2>4. TurnInv'
    BY <1>1, <1>2, <2>1, <2>3 DEF IInv, TurnInv, TypeOK, Filed, Awaited
  <2>5. LogSettled' /\ "early" \in why'
    BY <1>1, <1>2 DEF LogSettled
  <2>6. SettledInv' /\ LogShows' /\ WaitInv'
    BY <1>1, <2>1, <2>5 DEF IInv, SettledInv, LogShows, WaitInv, Clean, Awaited
  <2> QED BY <2>2, <2>4, <2>6 DEF IInv
<1>3. CASE ~Running
  <2>1. ops' = ops /\ noted' = noted \cup {c}
    BY <1>3 DEF PostNote, queueVars
  <2>2. why' = why
    BY <1>1, <1>3
  <2>3. QueueTyped'
    BY <1>1, <2>1 DEF IInv, QueueTyped
  <2>4. TurnInv'
    BY <1>1, <2>1, <2>2 DEF IInv, TurnInv, TypeOK, Filed, Awaited
  <2>5. LogSettled'
    BY <1>1 DEF LogSettled
  <2>6. Awaited(captured.ids)' = Awaited(captured.ids) /\ AllApproved(owed)' = AllApproved(owed)
        /\ Resuming' = Resuming /\ Clean' = Clean /\ Running' = Running
    BY <1>1, <2>1, <2>2 DEF Awaited, AllApproved, Resuming, Clean, Running
  <2>7. SettledInv'
    BY <1>1, <2>2, <2>5, <2>6 DEF IInv, SettledInv
  <2>8. LogShows' /\ WaitInv'
    BY <1>1, <1>3, <2>1, <2>2, <2>6 DEF IInv, LogShows, WaitInv
  <2> QED BY <2>3, <2>4, <2>7, <2>8 DEF IInv
<1> QED BY <1>2, <1>3

\* The agent is started for a note: what the log shows since is all approved, or
\* was no reason to stop, or the start is noted as stale.
LEMMA StartKeeps ==
  ASSUME IInv, NEW c \in Clients, Start(c)
  PROVE  IInv'
<1>1. /\ c \in noted /\ noted' = noted \ {c} /\ ops' = [ops EXCEPT ![c] = Q!NoOp]
      /\ UNCHANGED <<actions, nextActionId, captured, logged>>
  BY DEF Start, Q!Resumed, Q!DrainAndReturn
<1>2. QueueTyped'
  BY <1>1, RecordsDiffer DEF IInv, QueueTyped
<1>3. \A d \in noted' : ops'[d].pc = "resuming"
  BY <1>1 DEF IInv, QueueTyped, TurnInv, TypeOK
<1>4. CASE Running
  <2>1. UNCHANGED <<turn, owed, why>>
    BY <1>4 DEF Start
  <2>2. TurnInv'
    BY <1>1, <1>3, <2>1 DEF IInv, TurnInv, TypeOK, Filed, Awaited
  <2>3. /\ Awaited(captured.ids)' = Awaited(captured.ids) /\ AllApproved(owed)' = AllApproved(owed)
        /\ LogSettled' = LogSettled /\ Clean' = Clean /\ Running' = Running
    BY <1>1, <2>1 DEF Awaited, AllApproved, LogSettled, Clean, Running
  <2>4. SettledInv'
    BY <1>1, <2>1, <2>3 DEF IInv, SettledInv
  <2>5. LogShows'
    BY <1>1, <1>4, <2>1, <2>3 DEF IInv, LogShows
  <2>6. WaitInv'
    BY <1>1, <1>4, <2>1, <2>3 DEF IInv, WaitInv, Running
  <2> QED BY <1>2, <2>2, <2>4, <2>5, <2>6 DEF IInv
<1>5. CASE ~Running
  <2>1. /\ turn' = "running" /\ owed' = logged
        /\ why' = {r \in {"stale"} : r \in why \/ (turn = "suspended" /\ ~AllApproved(owed))}
    BY <1>5 DEF Start
  <2>2. /\ captured = Nothing /\ captured' = Nothing
        /\ Awaited(captured.ids)' = {} /\ ~captured'.awaits /\ captured'.ids = {}
    BY <1>1, <1>5 DEF IInv, TurnInv, Running, Nothing, Awaited
  <2>3. TurnInv'
    BY <1>1, <1>3, <2>1, <2>2 DEF IInv, TurnInv, TypeOK, Filed, Nothing
  <2>4. ASSUME "stale" \notin why' PROVE LogSettled
    <3>1. "stale" \notin why /\ (turn = "suspended" => AllApproved(owed))
      BY <2>1, <2>4
    <3>2. CASE turn = "suspended"
      BY <3>1, <3>2 DEF IInv, TurnInv, AllApproved, LogSettled
    <3>3. CASE turn # "suspended"
      BY <1>1, <1>5, <3>1, <3>3 DEF IInv, SettledInv, Running
    <3> QED BY <3>2, <3>3
  <2>5. LogSettled' = LogSettled
    BY <1>1 DEF LogSettled
  <2>6. SettledInv' /\ LogShows' /\ WaitInv'
    BY <1>1, <2>1, <2>2, <2>4, <2>5 DEF SettledInv, LogShows, WaitInv
  <2> QED BY <1>2, <2>3, <2>6 DEF IInv
<1> QED BY <1>4, <1>5

LEMMA StartFailsKeeps ==
  ASSUME IInv, NEW c \in Clients, StartFails(c)
  PROVE  IInv'
<1>1. /\ noted' = noted \ {c} /\ ops' = [ops EXCEPT ![c] = Q!NoOp]
      /\ why' = why \cup {"failed"}
      /\ UNCHANGED <<actions, nextActionId, turn, captured, logged, owed>>
  BY DEF StartFails, Q!Resumed, Q!ResumeThrew, Q!DrainAndReturn
<1>2. QueueTyped'
  BY <1>1, RecordsDiffer DEF IInv, QueueTyped
<1>3. TurnInv'
  <2>1. \A d \in noted' : ops'[d].pc = "resuming"
    BY <1>1 DEF IInv, QueueTyped, TurnInv, TypeOK
  <2> QED BY <1>1, <2>1 DEF IInv, TurnInv, TypeOK, Filed, Awaited
<1>4. Awaited(captured.ids)' = Awaited(captured.ids) /\ LogSettled' = LogSettled
  BY <1>1 DEF Awaited, LogSettled
<1>5. SettledInv' /\ LogShows' /\ WaitInv'
  BY <1>1, <1>4 DEF IInv, SettledInv, LogShows, WaitInv, Clean
<1> QED BY <1>2, <1>3, <1>5 DEF IInv

LEMMA RestartKeeps ==
  ASSUME IInv, Restart
  PROVE  IInv'
<1>1. /\ ops' = [c \in Clients |-> Q!NoOp] /\ noted' = {} /\ captured' = Nothing
      /\ turn' = (IF Running THEN "running" ELSE turn)
      /\ owed' = (IF Running THEN logged ELSE owed)
      /\ why' = why \cup {r \in {"failed"} : turn = "suspending" \/ \E c \in Clients : ops[c].pc # "idle"}
      /\ UNCHANGED <<actions, nextActionId, logged>>
  BY DEF Restart, Q!Restart
<1>2. QueueTyped'
  BY <1>1, RecordsDiffer DEF IInv, QueueTyped
<1>3. Awaited(captured.ids)' = {} /\ ~captured'.awaits /\ captured'.ids = {}
  BY <1>1 DEF Nothing, Awaited
<1>4. TurnInv'
  BY <1>1, <1>3 DEF IInv, TurnInv, TypeOK, Filed, Nothing
<1>5. LogSettled' = LogSettled
  BY <1>1 DEF LogSettled
<1>6. SettledInv'
  BY <1>1, <1>3, <1>5 DEF IInv, SettledInv, Running
<1>7. "failed" \notin why' => noted = {} /\ ~Resuming
  BY <1>1 DEF IInv, TurnInv, TypeOK, Resuming
<1>8. LogShows'
  <2>1. CASE Running
    BY <1>1, <1>3, <2>1 DEF LogShows
  <2>2. CASE ~Running
    <3>1. captured = Nothing /\ Awaited(captured.ids) = {}
      BY <2>2 DEF IInv, TurnInv, Running, Nothing, Awaited
    <3> QED BY <1>1, <1>3, <1>7, <2>2, <3>1 DEF IInv, LogShows
  <2> QED BY <2>1, <2>2
<1>9. WaitInv'
  <2>1. ASSUME Clean', turn' = "suspended" PROVE ~AllApproved(owed)'
    <3>1. Clean /\ turn = "suspended" /\ owed' = owed /\ ~Resuming
      BY <1>1, <1>7, <2>1 DEF Clean, Running
    <3> QED BY <1>1, <3>1 DEF IInv, WaitInv, AllApproved
  <2>2. turn' # "suspending"
    BY <1>1 DEF Running
  <2> QED BY <1>3, <2>1, <2>2 DEF WaitInv
<1> QED BY <1>2, <1>4, <1>6, <1>8, <1>9 DEF IInv

-----------------------------------------------------------------------------
LEMMA InitIInv == Init => IInv
<1> SUFFICES ASSUME Init PROVE IInv
  OBVIOUS
<1>1. /\ actions = [id \in Ids |-> Q!NoRecord] /\ nextActionId = 1
      /\ ops = [c \in Clients |-> Q!NoOp]
      /\ turn = "idle" /\ captured = Nothing /\ logged = {} /\ noted = {} /\ owed = {} /\ why = {}
  BY DEF Init, Q!Init, Q!Ids, Ids
<1>2. QueueTyped
  <2>1. nextActionId \in 1..(MaxActions + 1) /\ \A id \in Ids : ~(id < 1)
    BY <1>1, SuspensionAssumption DEF Ids
  <2> QED BY <1>1, <2>1, RecordsDiffer DEF QueueTyped
<1>3. Awaited(captured.ids) = {} /\ ~captured.awaits /\ captured.ids = {}
  BY <1>1 DEF Nothing, Awaited
<1>4. TurnInv
  BY <1>1, <1>3 DEF TurnInv, TypeOK, Nothing
<1>5. SettledInv /\ LogShows /\ WaitInv
  BY <1>1, <1>3 DEF SettledInv, LogShows, WaitInv
<1> QED BY <1>2, <1>4, <1>5 DEF IInv

LEMMA NextIInv == IInv /\ [Next]_vars => IInv'
<1> SUFFICES ASSUME IInv, [Next]_vars PROVE IInv'
  OBVIOUS
<1>1. CASE QueueOnly
  BY <1>1, QueueOnlyIsCalm, CalmKeeps DEF IInv
<1>2. CASE UserMessage \/ StepEnds \/ TurnEnds
  BY <1>2, UserMessageKeeps, StepEndsKeeps, TurnEndsKeeps
<1>3. CASE \E kind \in Kinds : AgentSubmits(kind)
  BY <1>3, AgentSubmitsKeeps
<1>4. CASE \E c \in Clients : Approve(c) \/ Reject(c)
  BY <1>4, ApproveKeeps, RejectKeeps
<1>5. CASE \E c \in Clients : PostNote(c) \/ Start(c) \/ StartFails(c)
  BY <1>5, PostNoteKeeps, StartKeeps, StartFailsKeeps
<1>6. CASE DrainApplied \/ Restart
  BY <1>6, DrainAppliedKeeps, RestartKeeps
<1> QED BY <1>1, <1>2, <1>3, <1>4, <1>5, <1>6 DEF Next, QueueOnly

\* The turn's variables keep their types, and whatever users, drains, notes and
\* restarts do between its steps, its log, its captured actions, what it awaits
\* and who resumes it stay in step.
THEOREM InductiveInvariant == Spec => []IInv
BY InitIInv, NextIInv, PTL DEF Spec

\* A suspended turn whose awaited actions have all been approved is being resumed,
\* in whatever order users decide them and whatever notes come in between, unless
\* the decision came before the turn was suspended, was the drain's, or met a failure.
THEOREM NobodyIsForgotten == Spec => []SuspendedIsResumed
<1>1. IInv => SuspendedIsResumed
  BY DEF IInv, WaitInv, Clean, SuspendedIsResumed, Forgotten
<1> QED BY <1>1, InductiveInvariant, PTL

\* A turn does not go on past a pending action that only a user can approve, unless
\* a restart or the approval of an earlier turn's action set it going again.
THEOREM TurnsStop == Spec => []StopsForDecisions
<1>1. IInv => StopsForDecisions
  BY DEF IInv, SettledInv, LogSettled, StopsForDecisions
<1> QED BY <1>1, InductiveInvariant, PTL

-----------------------------------------------------------------------------
(* ChatTurns: turns under way, of which there is one at most.                *)

TurnRecord ==
    [at : {"none", "resuming", "starting", "prompting", "ending"}, stopAsked : BOOLEAN]

\* No two turns are under way.  (Without cardinalities.)
TurnsAreOne == \A t, u \in Underway : t = u

\* The three records of the turn agree with it.
RecordsAgree ==
    /\ running <=> Underway # {}
    /\ chat # "deleted" => (chat = "active" <=> running) /\ (row <=> running)
    /\ chat = "deleted" => ~row

\* The part of TypeOK that this needs.
TurnsTyped ==
    /\ chat \in {"idle", "active", "deleted"}
    /\ row \in BOOLEAN /\ running \in BOOLEAN
    /\ turns \in [Turns -> TurnRecord]

ChatInv == TurnsTyped /\ TurnsAreOne /\ RecordsAgree

-----------------------------------------------------------------------------
(* The four ways in which a step can touch the turn.                         *)

LEMMA MovingKeeps ==
    ASSUME ChatInv, UNCHANGED <<chat, row, running>>,
           turns' \in [Turns -> TurnRecord],
           \A t \in Turns : turns'[t].at = "none" <=> turns[t].at = "none"
    PROVE  ChatInv'
<1>1. Underway' = Underway
  BY DEF Underway
<1> QED BY <1>1 DEF ChatInv, TurnsTyped, TurnsAreOne, RecordsAgree

LEMMA StartingKeeps ==
    ASSUME ChatInv, chat = "idle", StartAgent
    PROVE  ChatInv'
<1> USE DEF ChatInv
<1>1. Underway = {}
  BY DEF TurnsAreOne, RecordsAgree
<1>2. PICK t \in Turns : turns' = [turns EXCEPT ![t].at = "starting"]
  <2>1. \E t \in Turns : turns[t].at = "none"
    BY <1>1, TurnsAssumption DEF Underway
  <2> QED BY <2>1 DEF StartAgent
<1>3. turns' \in [Turns -> TurnRecord] /\ Underway' = {t}
  <2> DEFINE r == [turns[t] EXCEPT !.at = "starting"]
  <2>1. r \in TurnRecord /\ r.at = "starting"
    BY DEF TurnsTyped, TurnRecord
  <2>2. turns' = [turns EXCEPT ![t] = r]
    BY <1>2
  <2> HIDE DEF r
  <2> QED BY <1>1, <2>1, <2>2 DEF TurnsTyped, Underway
<1> QED BY <1>3 DEF StartAgent, TurnsTyped, TurnsAreOne, RecordsAgree

LEMMA EndingKeeps ==
    ASSUME ChatInv, NEW t \in Turns, turns[t].at # "none",
           turns' = [turns EXCEPT ![t] = NoTurn],
           chat' = IF chat = "active" THEN "idle" ELSE chat,
           row' = FALSE, running' = FALSE
    PROVE  ChatInv'
<1> USE DEF ChatInv
<1>1. turns' \in [Turns -> TurnRecord] /\ Underway' = Underway \ {t} /\ t \in Underway
  BY DEF TurnsTyped, TurnRecord, NoTurn, Underway
<1>2. Underway' = {}
  BY <1>1 DEF TurnsAreOne
<1> QED BY <1>1, <1>2 DEF TurnsTyped, TurnsAreOne, RecordsAgree

LEMMA ChatRestartKeeps == ChatInv /\ TurnsRestart => ChatInv'
<1> SUFFICES ASSUME ChatInv, TurnsRestart PROVE ChatInv'
  OBVIOUS
<1> USE DEF ChatInv
<1>1. UNCHANGED <<chat, row>> /\ running' = row
  BY DEF TurnsRestart
<1>2. PICK t \in Turns :
          turns' = [u \in Turns |->
              IF row /\ u = t THEN [NoTurn EXCEPT !.at = "resuming"] ELSE NoTurn]
  BY DEF TurnsRestart
<1>3. turns' \in [Turns -> TurnRecord] /\ Underway' = IF row THEN {t} ELSE {}
  <2> DEFINE r == [NoTurn EXCEPT !.at = "resuming"]
  <2>1. r \in TurnRecord /\ r.at = "resuming" /\ NoTurn \in TurnRecord /\ NoTurn.at = "none"
    BY DEF TurnRecord, NoTurn
  <2>2. turns' = [u \in Turns |-> IF row /\ u = t THEN r ELSE NoTurn]
    BY <1>2
  <2> HIDE DEF r
  <2> QED BY <2>1, <2>2 DEF Underway
<1> QED BY <1>1, <1>3 DEF TurnsTyped, TurnsAreOne, RecordsAgree

\* deleteChat() drops the chat's records and lets the turn come to its end.
LEMMA DeletionKeeps == ChatInv /\ DeleteEnds => ChatInv'
<1> SUFFICES ASSUME ChatInv, DeleteEnds PROVE ChatInv'
  OBVIOUS
<1>1. chat' = "deleted" /\ row' = FALSE /\ UNCHANGED <<running, turns>>
  BY DEF DeleteEnds
<1> QED BY <1>1 DEF ChatInv, TurnsTyped, TurnsAreOne, RecordsAgree, Underway

-----------------------------------------------------------------------------
LEMMA ChatInit == TurnsInit => ChatInv
<1> SUFFICES ASSUME TurnsInit PROVE ChatInv
  OBVIOUS
<1>1. NoTurn \in TurnRecord /\ NoTurn.at = "none"
  BY DEF NoTurn, TurnRecord
<1>2. turns = [t \in Turns |-> NoTurn] /\ chat = "idle" /\ row = FALSE /\ running = FALSE
  BY DEF TurnsInit
<1>3. turns \in [Turns -> TurnRecord] /\ Underway = {}
  BY <1>1, <1>2 DEF Underway
<1> QED BY <1>2, <1>3 DEF ChatInv, TurnsTyped, TurnsAreOne, RecordsAgree

LEMMA ChatNext ==
    ASSUME ChatInv, [TurnsNext]_turnsVars
    PROVE  ChatInv'
<1>0. turns \in [Turns -> TurnRecord]
  BY DEF ChatInv, TurnsTyped
<1>1. ASSUME UNCHANGED <<chat, row, running, turns>> PROVE ChatInv'
  BY <1>0, <1>1, MovingKeeps
<1>2. CASE Commit \/ Retry
  BY <1>2, StartingKeeps DEF Commit, Retry
<1>3. ASSUME NEW s, StarterStarts(s) PROVE ChatInv'
  BY <1>3, StartingKeeps DEF StarterStarts, StillIdle
<1>4. ASSUME NEW t \in Turns, NEW to \in {"starting", "prompting", "ending"}, NEW from,
             Moves(t, from, to), from # "none", UNCHANGED <<chat, row, running>>
      PROVE  ChatInv'
  <2> DEFINE r == [turns[t] EXCEPT !.at = to]
  <2>1. r \in TurnRecord /\ r.at # "none"
    BY <1>0 DEF TurnRecord
  <2>2. turns' = [turns EXCEPT ![t] = r]
    BY <1>4 DEF Moves
  <2> HIDE DEF r
  <2>3. turns' \in [Turns -> TurnRecord]
    BY <1>0, <2>1, <2>2
  <2>4. \A u \in Turns : turns'[u].at = "none" <=> turns[u].at = "none"
    BY <1>0, <1>4, <2>1, <2>2 DEF Moves
  <2> QED BY <1>4, <2>3, <2>4, MovingKeeps
<1>5. ASSUME NEW t \in Turns, TurnStep(t) PROVE ChatInv'
  <2>1. CASE Prompts(t)
    BY <1>4, <2>1 DEF Prompts
  <2>2. CASE Finishes(t)
    BY <1>4, <2>2 DEF Finishes
  <2>3. CASE Resumes(t)
    BY <1>4, <2>3 DEF Resumes
  <2>4. CASE Ends(t)
    BY <2>4, EndingKeeps DEF Ends
  <2>5. CASE ResumeFails(t)
    BY <2>5, EndingKeeps DEF ResumeFails
  <2> QED BY <1>5, <2>1, <2>2, <2>3, <2>4, <2>5 DEF TurnStep
<1>6. CASE StopAgent
  <2>1. UNCHANGED <<chat, row, running>>
    BY <1>6 DEF StopAgent
  <2>2. turns' = [t \in Turns |-> [turns[t] EXCEPT !.stopAsked = turns[t].at # "none"]]
    BY <1>6 DEF StopAgent
  <2>3. ASSUME NEW t \in Turns
        PROVE  turns'[t] \in TurnRecord /\ turns'[t].at = turns[t].at
    <3>1. turns[t] \in TurnRecord
      BY <1>0
    <3>2. /\ [turns[t] EXCEPT !.stopAsked = turns[t].at # "none"] \in TurnRecord
          /\ [turns[t] EXCEPT !.stopAsked = turns[t].at # "none"].at = turns[t].at
      BY <3>1 DEF TurnRecord
    <3> QED BY <2>2, <3>2
  <2>4. turns' \in [Turns -> TurnRecord]
    BY <2>2, <2>3
  <2> QED BY <2>1, <2>3, <2>4, MovingKeeps
<1>7. CASE TurnsRestart
  BY <1>7, ChatRestartKeeps
<1>8. CASE DeleteEnds
  BY <1>8, DeletionKeeps
<1>9. ASSUME NEW s, StarterStep(s) PROVE ChatInv'
  <2>1. CASE StarterWaits(s) \/ StarterYields(s) \/ StarterFails(s)
    BY <1>1, <2>1 DEF StarterWaits, StarterYields, StarterFails
  <2> QED BY <1>3, <1>9, <2>1 DEF StarterStep
<1>10. CASE \/ \E kind \in {"user", "outside"} : Prepare(kind)
            \/ CommitsNoTurn \/ DeleteBegins \/ Delivered
            \/ \E c \in Callbacks : DeliverCallback(c) \/ Answers(c)
  BY <1>1, <1>10 DEF Prepare, CommitsNoTurn, DeleteBegins, Delivered, DeliverCallback, Answers
<1>11. CASE UNCHANGED turnsVars
  BY <1>1, <1>11 DEF turnsVars
<1> QED BY <1>2, <1>5, <1>6, <1>7, <1>8, <1>9, <1>10, <1>11 DEF TurnsNext, MessageStep

-----------------------------------------------------------------------------
LEMMA ChatInvariance == TurnsSpec => []ChatInv
<1>1. ChatInv /\ [TurnsNext]_turnsVars => ChatInv'
  BY ChatNext
<1> QED BY <1>1, ChatInit, PTL DEF TurnsSpec

\* However messages, retries, resumptions, callbacks, deletions and restarts
\* interleave, a chat never has two turns at once, and its metadata, the stored
\* row and the registry of running agents agree with the turn there is.
THEOREM NeverTwoAgents == TurnsSpec => []OneAgentPerChat
<1>1. ASSUME ChatInv PROVE OneAgentPerChat
  <2>1. Cardinality(Underway) <= 1
    <3>1. CASE Underway = {}
      BY <3>1, FS_EmptySet
    <3>2. CASE Underway # {}
      <4>1. PICK t : t \in Underway
        BY <3>2
      <4>2. \A u \in Underway : u = t
        BY <1>1, <4>1 DEF ChatInv, TurnsAreOne
      <4>3. Underway = {t}
        BY <4>1, <4>2
      <4>4. Cardinality({t}) = 1
        BY FS_Singleton
      <4>5. Cardinality(Underway) = 1
        BY <4>3, <4>4
      <4> QED BY <4>5
    <3> QED BY <3>1, <3>2
  <2> QED BY <1>1, <2>1 DEF ChatInv, RecordsAgree, OneAgentPerChat
<1>2. ChatInv => OneAgentPerChat
  BY <1>1
<1> QED BY <1>2, ChatInvariance, PTL

-----------------------------------------------------------------------------
(* ChatTurns: who looks after callbacks and after a waiting response.        *)

\* A starter that will find what the queue holds, in the context that is live.
Holds(s) == s.attached /\ s.knows

\* Somebody will look at the queue.
Looked == running \/ preparing # "none" \/ \E s \in DOMAIN starters : Holds(s)

Unsettled(c) == callback[c] = "unsettled" /\ c \notin forgotten

HeldTypes ==
    /\ preparing \in {"none", "user", "outside"} /\ live \in BOOLEAN
    /\ queue \subseteq Callbacks /\ answering \subseteq Callbacks
    /\ callback \in [Callbacks -> {"unsent", "unsettled", "settled"}]

\* Each starter that holds the queue can be counted.  (Of the others it does not
\* matter how many there are.)
StartersInv ==
    /\ DOMAIN starters \subseteq Starter
    /\ \A s \in DOMAIN starters : Holds(s) => starters[s] \in Nat \ {0}

\* Only a turn that has begun has callbacks to answer.
AnsweringInv ==
    /\ answering # {} => running
    /\ (\E t \in Turns : turns[t].at = "resuming") => answering = {}

UnsettledInv ==
    \A c \in Callbacks : Unsettled(c) =>
        /\ live
        /\ c \in answering \/ c \in queue
        /\ c \in queue => Looked

HeldInv == /\ ChatInv /\ HeldTypes /\ StartersInv /\ AnsweringInv /\ UnsettledInv
           /\ ResponseIsHeld

-----------------------------------------------------------------------------
(* The bag of starters.                                                      *)

FreshStarter == [at |-> "asking", knows |-> TRUE, attached |-> TRUE, batch |-> {}]

LEMMA AddingToABag ==
    ASSUME NEW B, NEW s
    PROVE  /\ DOMAIN (B (+) SetToBag({s})) = DOMAIN B \cup {s}
           /\ \A u \in DOMAIN B : u # s => (B (+) SetToBag({s}))[u] = B[u] + 0
           /\ s \in DOMAIN B => (B (+) SetToBag({s}))[s] = B[s] + 1
           /\ s \notin DOMAIN B => (B (+) SetToBag({s}))[s] = 0 + 1
BY DEF (+), SetToBag

LEMMA TakingFromABag ==
    ASSUME NEW B, NEW s
    PROVE  /\ DOMAIN (B (-) SetToBag({s})) \subseteq DOMAIN B
           /\ \A u \in DOMAIN (B (-) SetToBag({s})) :
                 (B (-) SetToBag({s}))[u] = (IF u = s THEN B[u] - 1 ELSE B[u])
           /\ \A u \in DOMAIN (B (-) SetToBag({s})) : (B (-) SetToBag({s}))[u] > 0
           /\ \A u \in DOMAIN B : u # s /\ B[u] > 0 => u \in DOMAIN (B (-) SetToBag({s}))
BY DEF (-), SetToBag

LEMMA Launching ==
    ASSUME StartersInv, LaunchStarter
    PROVE  StartersInv' /\ \E s \in DOMAIN starters' : Holds(s)
<1>1. starters' = starters (+) SetToBag({FreshStarter})
  BY DEF LaunchStarter, FreshStarter
<1>2. FreshStarter \in Starter /\ Holds(FreshStarter)
  BY DEF FreshStarter, Starter, Holds
<1>3. DOMAIN starters' = DOMAIN starters \cup {FreshStarter}
  BY <1>1, AddingToABag
<1>4. ASSUME NEW s \in DOMAIN starters', Holds(s)
      PROVE  starters'[s] \in Nat \ {0}
  <2>1. CASE s = FreshStarter /\ s \in DOMAIN starters
    <3>1. starters'[s] = starters[s] + 1 /\ starters[s] \in Nat
      BY <1>1, <1>2, <2>1, AddingToABag DEF StartersInv
    <3> QED BY <3>1
  <2>2. CASE s = FreshStarter /\ s \notin DOMAIN starters
    <3>1. starters'[s] = 0 + 1
      BY <1>1, <2>2, AddingToABag
    <3> QED BY <3>1
  <2>3. CASE s # FreshStarter
    <3>1. s \in DOMAIN starters /\ starters'[s] = starters[s] + 0 /\ starters[s] \in Nat \ {0}
      BY <1>1, <1>3, <1>4, <2>3, AddingToABag DEF StartersInv
    <3> QED BY <3>1
  <2> QED BY <2>1, <2>2, <2>3
<1> QED BY <1>2, <1>3, <1>4 DEF StartersInv

LEMMA Leaving ==
    ASSUME StartersInv, NEW s \in DOMAIN starters
    PROVE  /\ DOMAIN Without(s) \subseteq DOMAIN starters
           /\ \A u \in DOMAIN Without(s) : Holds(u) => Without(s)[u] \in Nat \ {0}
           /\ \A u \in DOMAIN starters : Holds(u) /\ u # s => u \in DOMAIN Without(s)
<1>1. DOMAIN Without(s) \subseteq DOMAIN starters
  BY TakingFromABag DEF Without
<1>2. ASSUME NEW u \in DOMAIN Without(s), Holds(u)
      PROVE  Without(s)[u] \in Nat \ {0}
  <2>1. starters[u] \in Nat \ {0}
    BY <1>1, <1>2 DEF StartersInv
  <2>2. Without(s)[u] = (IF u = s THEN starters[u] - 1 ELSE starters[u]) /\ Without(s)[u] > 0
    BY <1>2, TakingFromABag DEF Without
  <2> QED BY <2>1, <2>2
<1>3. ASSUME NEW u \in DOMAIN starters, Holds(u), u # s
      PROVE  u \in DOMAIN Without(s)
  <2>1. starters[u] > 0
    BY <1>3 DEF StartersInv
  <2> QED BY <1>3, <2>1, TakingFromABag DEF Without
<1> QED BY <1>1, <1>2, <1>3

LEMMA Answering ==
    ASSUME StartersInv, NEW s \in DOMAIN starters,
           starters' = Without(s) (+) SetToBag({[s EXCEPT !.at = "answered"]})
    PROVE  StartersInv' /\ DOMAIN starters' # {}
<1> DEFINE r == [s EXCEPT !.at = "answered"]
           others == Without(s)
<1>1. r \in Starter /\ starters' = others (+) SetToBag({r})
  BY DEF StartersInv, Starter
<1>2. DOMAIN others \subseteq Starter /\ \A u \in DOMAIN others : Holds(u) => others[u] \in Nat \ {0}
  BY Leaving DEF StartersInv
<1> HIDE DEF r, others
<1> DEFINE all == others (+) SetToBag({r})
<1>3. /\ DOMAIN all = DOMAIN others \cup {r}
      /\ \A u \in DOMAIN others : u # r => all[u] = others[u] + 0
      /\ r \in DOMAIN others => all[r] = others[r] + 1
      /\ r \notin DOMAIN others => all[r] = 0 + 1
  BY AddingToABag, Zenon
<1> HIDE DEF all
<1>4. ASSUME NEW u \in DOMAIN all, Holds(u)
      PROVE  all[u] \in Nat \ {0}
  BY <1>2, <1>3, <1>4
<1>5. starters' = all
  BY <1>1 DEF all
<1>6. DOMAIN all \subseteq Starter /\ DOMAIN all # {}
  BY <1>1, <1>2, <1>3
<1>7. StartersInv'
  BY <1>4, <1>5, <1>6 DEF StartersInv
<1> QED BY <1>5, <1>6, <1>7

\* With a new queue nobody holds it yet.
LEMMA Detaching ==
    ASSUME queue \subseteq Callbacks, NEW B, DOMAIN B \subseteq Starter,
           starters' = BagOfAll(Detach, B)
    PROVE  StartersInv'
<1>1. DOMAIN starters' = {Detach(u) : u \in DOMAIN B}
  BY DEF BagOfAll, BagToSet
<1>2. ASSUME NEW u \in Starter
      PROVE  Detach(u) \in Starter /\ ~Holds(Detach(u))
  BY <1>2 DEF Detach, Starter, Holds
<1> QED BY <1>1, <1>2 DEF StartersInv

\* The context leaves the map: nobody knows the next one.
LEMMA Forgetting ==
    ASSUME StartersInv, starters' = BagOfAll(Forget, starters)
    PROVE  StartersInv'
<1>1. DOMAIN starters' = {Forget(u) : u \in DOMAIN starters}
  BY DEF BagOfAll, BagToSet
<1>2. ASSUME NEW u \in Starter
      PROVE  Forget(u) \in Starter /\ ~Holds(Forget(u))
  BY <1>2 DEF Forget, Starter, Holds
<1> QED BY <1>1, <1>2 DEF StartersInv

-----------------------------------------------------------------------------
(* The steps.  What they do to ChatInv is known.                             *)

\* A step that leaves callbacks and queue alone, and after which somebody looks
\* at the queue if anybody did.
LEMMA LeavingAlone ==
    ASSUME HeldInv, ChatInv', StartersInv', AnsweringInv',
           UNCHANGED <<queue, answering, callback, forgotten>>,
           preparing' \in {"none", "user", "outside"},
           live' \in BOOLEAN, live => live',
           (live /\ queue # {} /\ Looked) => Looked',
           response' = "waiting" => response = "waiting",
           response' = "waiting" => abandoned' \/ running' \/ DOMAIN starters' # {}
    PROVE  HeldInv'
<1>1. UnsettledInv'
  BY DEF HeldInv, UnsettledInv, Unsettled
<1>2. HeldTypes'
  BY DEF HeldInv, HeldTypes
<1> QED BY <1>1, <1>2 DEF HeldInv, ResponseIsHeld, BagToSet

LEMMA StartedNotResumed ==
    ASSUME ChatInv, chat = "idle", StartAgent
    PROVE  \A t \in Turns : turns'[t].at # "resuming"
<1>1. turns \in [Turns -> TurnRecord] /\ Underway = {}
  BY DEF ChatInv, TurnsTyped, RecordsAgree
<1>2. PICK u : turns' = [turns EXCEPT ![u].at = "starting"]
  BY DEF StartAgent
<1>3. ASSUME NEW t \in Turns, turns'[t].at = "resuming" PROVE FALSE
  <2>1. CASE t = u
    BY <1>1, <1>2, <1>3, <2>1 DEF TurnRecord
  <2>2. CASE t # u
    BY <1>1, <1>2, <1>3, <2>2 DEF Underway
  <2> QED BY <2>1, <2>2
<1> QED BY <1>3

\* A turn starts: it will look at the queue when it ends.
LEMMA StartingHolds ==
    ASSUME HeldInv, ChatInv', chat = "idle", StartAgent,
           starters' = starters, preparing' \in {"none", "user", "outside"},
           UNCHANGED <<queue, answering, callback, forgotten>>
    PROVE  HeldInv'
<1>1. running' /\ live'
  BY DEF StartAgent
<1>2. \A t \in Turns : turns'[t].at # "resuming"
  BY StartedNotResumed DEF HeldInv
<1>3. AnsweringInv'
  BY <1>1, <1>2 DEF AnsweringInv
<1>4. StartersInv' /\ Looked'
  BY <1>1 DEF HeldInv, StartersInv, Looked
<1>5. UnsettledInv' /\ HeldTypes' /\ ResponseIsHeld'
  BY <1>1, <1>4 DEF HeldInv, UnsettledInv, Unsettled, HeldTypes, ResponseIsHeld, StartAgent
<1> QED BY <1>3, <1>4, <1>5 DEF HeldInv

LEMMA MessagesHold ==
    ASSUME HeldInv, ChatInv',
           \/ \E kind \in {"user", "outside"} : Prepare(kind)
           \/ MessageStep \/ Retry
    PROVE  HeldInv'
<1>1. CASE Commit \/ Retry
  <2>1. UNCHANGED <<queue, answering, callback, forgotten, starters>>
    BY <1>1 DEF Commit, Retry, history
  <2>2. preparing' \in {"none", "user", "outside"}
    BY <1>1 DEF Commit, Retry, HeldInv, HeldTypes
  <2>3. chat = "idle" /\ StartAgent
    BY <1>1 DEF Commit, Retry
  <2> QED BY <2>1, <2>2, <2>3, StartingHolds
<1>2. ASSUME NEW kind \in {"user", "outside"}, Prepare(kind) PROVE HeldInv'
  <2>1. /\ UNCHANGED <<queue, answering, callback, forgotten, starters, live, response,
                       abandoned, running, turns>>
        /\ preparing' = kind
    BY <1>2 DEF Prepare, context, history
  <2>2. StartersInv' /\ AnsweringInv' /\ Looked'
    BY <2>1 DEF HeldInv, StartersInv, AnsweringInv, Looked
  <2> QED BY <2>1, <2>2, LeavingAlone DEF HeldInv, ResponseIsHeld, HeldTypes, BagToSet
<1>3. CASE CommitsNoTurn
  <2>1. UNCHANGED <<chat, queue, answering, callback, forgotten, live, response, abandoned,
                    running, turns>> /\ preparing' = "none"
    BY <1>3 DEF CommitsNoTurn, context, history
  <2>2. AnsweringInv'
    BY <2>1 DEF HeldInv, AnsweringInv
  <2>3. CASE live /\ queue # {} /\ chat # "active"
    <3>1. StartersInv' /\ Looked' /\ DOMAIN starters' # {}
      BY <1>3, <2>3, Launching DEF CommitsNoTurn, HeldInv, Looked
    <3> QED BY <2>1, <2>2, <3>1, LeavingAlone DEF HeldInv, HeldTypes
  <2>4. CASE ~(live /\ queue # {} /\ chat # "active")
    <3>1. starters' = starters /\ StartersInv'
      BY <1>3, <2>4 DEF CommitsNoTurn, HeldInv, StartersInv
    <3>2. live /\ queue # {} => Looked'
      BY <2>1, <2>4 DEF HeldInv, ChatInv, RecordsAgree, Looked
    <3> QED BY <2>1, <2>2, <3>1, <3>2, LeavingAlone DEF HeldInv, HeldTypes, ResponseIsHeld, BagToSet
  <2> QED BY <2>3, <2>4
<1> QED BY <1>1, <1>2, <1>3 DEF MessageStep

\* Steps that nobody waits for.
LEMMA IdleStepsHold ==
    ASSUME HeldInv, ChatInv', StopAgent \/ DeleteBegins \/ Delivered \/ UNCHANGED turnsVars
    PROVE  HeldInv'
<1>1. UNCHANGED <<queue, answering, callback, forgotten, live, running, starters, preparing,
                  abandoned>>
  BY DEF StopAgent, DeleteBegins, Delivered, turnsVars, context, history
<1>2. \A t \in Turns : turns'[t].at = turns[t].at
  <2>1. CASE StopAgent
    <3>1. turns' = [t \in Turns |-> [turns[t] EXCEPT !.stopAsked = turns[t].at # "none"]]
      BY <2>1 DEF StopAgent
    <3>2. ASSUME NEW t \in Turns PROVE turns'[t].at = turns[t].at
      <4>1. turns[t] \in TurnRecord
        BY DEF HeldInv, ChatInv, TurnsTyped
      <4>2. [turns[t] EXCEPT !.stopAsked = turns[t].at # "none"].at = turns[t].at
        BY <4>1 DEF TurnRecord
      <4> QED BY <3>1, <4>2
    <3> QED BY <3>2
  <2>2. CASE DeleteBegins \/ Delivered \/ UNCHANGED turnsVars
    BY <2>2 DEF DeleteBegins, Delivered, turnsVars
  <2> QED BY <2>1, <2>2
<1>3. response' = "waiting" => response = "waiting"
  BY DEF StopAgent, DeleteBegins, DeliverWaiting, Delivered, turnsVars
<1>4. StartersInv' /\ AnsweringInv' /\ (Looked => Looked')
  BY <1>1, <1>2 DEF HeldInv, StartersInv, AnsweringInv, Looked
<1> QED BY <1>1, <1>3, <1>4, LeavingAlone DEF HeldInv, ResponseIsHeld, HeldTypes, BagToSet

\* What is settled need not be looked after.
LEMMA SettledAre ==
    ASSUME HeldTypes, NEW cs, callback' = Settled(cs)
    PROVE  /\ callback' \in [Callbacks -> {"unsent", "unsettled", "settled"}]
           /\ \A c \in Callbacks : callback'[c] = "unsettled" <=> callback[c] = "unsettled" /\ c \notin cs
BY DEF Settled, HeldTypes

LEMMA DeletionHolds ==
    ASSUME HeldInv, ChatInv', DeleteEnds
    PROVE  HeldInv'
<1>1. UNCHANGED <<queue, answering, forgotten, running, turns, starters, preparing, response,
                  abandoned>> /\ live' = FALSE
  BY DEF DeleteEnds, history
<1>2. /\ callback' \in [Callbacks -> {"unsent", "unsettled", "settled"}]
      /\ \A c \in Callbacks : ~Unsettled(c)'
  <2>1. CASE live
    <3>1. callback' = Settled(queue \cup answering)
      BY <2>1 DEF DeleteEnds
    <3>2. /\ callback' \in [Callbacks -> {"unsent", "unsettled", "settled"}]
          /\ \A c \in Callbacks : callback'[c] = "unsettled" <=>
                callback[c] = "unsettled" /\ c \notin queue \cup answering
      BY <3>1, SettledAre DEF HeldInv
    <3> QED BY <1>1, <3>2 DEF HeldInv, UnsettledInv, Unsettled
  <2>2. CASE ~live
    BY <1>1, <2>2 DEF DeleteEnds, HeldInv, UnsettledInv, Unsettled, HeldTypes
  <2> QED BY <2>1, <2>2
<1>3. UnsettledInv' /\ HeldTypes'
  BY <1>1, <1>2 DEF UnsettledInv, HeldInv, HeldTypes
<1>4. StartersInv' /\ AnsweringInv' /\ ResponseIsHeld'
  BY <1>1 DEF HeldInv, StartersInv, AnsweringInv, ResponseIsHeld
<1> QED BY <1>3, <1>4 DEF HeldInv

LEMMA CallbacksHold ==
    ASSUME HeldInv, ChatInv', NEW c \in Callbacks, DeliverCallback(c) \/ Answers(c)
    PROVE  HeldInv'
<1>1. CASE DeliverCallback(c)
  <2>1. /\ UNCHANGED <<chat, answering, forgotten, running, turns, preparing, response, abandoned>>
        /\ live' /\ queue' = queue \cup {c} /\ callback' = [callback EXCEPT ![c] = "unsettled"]
        /\ chat # "deleted"
    BY <1>1 DEF DeliverCallback, history
  <2>2. StartersInv' /\ Looked' /\ DOMAIN starters \subseteq DOMAIN starters'
    <3>1. CASE chat = "idle" /\ preparing = "none"
      <4>1. LaunchStarter
        BY <1>1, <3>1 DEF DeliverCallback
      <4>2. StartersInv' /\ Looked'
        BY <4>1, Launching DEF HeldInv, Looked
      <4>3. starters' = starters (+) SetToBag({FreshStarter})
        BY <4>1 DEF LaunchStarter, FreshStarter
      <4>4. DOMAIN starters' = DOMAIN starters \cup {FreshStarter}
        BY <4>3, AddingToABag
      <4> QED BY <4>2, <4>4
    <3>2. CASE ~(chat = "idle" /\ preparing = "none")
      <4>1. starters' = starters
        BY <1>1, <3>2 DEF DeliverCallback
      <4>2. Looked'
        BY <2>1, <3>2 DEF HeldInv, ChatInv, TurnsTyped, RecordsAgree, Looked
      <4> QED BY <4>1, <4>2 DEF HeldInv, StartersInv
    <3> QED BY <3>1, <3>2
  <2>3. AnsweringInv' /\ ResponseIsHeld'
    BY <2>1, <2>2 DEF HeldInv, AnsweringInv, ResponseIsHeld, BagToSet
  <2>4. HeldTypes'
    <3>1. callback' \in [Callbacks -> {"unsent", "unsettled", "settled"}]
      BY <2>1 DEF HeldInv, HeldTypes
    <3>2. live' = TRUE
      BY <1>1 DEF DeliverCallback
    <3> QED BY <2>1, <3>1, <3>2 DEF HeldInv, HeldTypes
  <2>5. UnsettledInv'
    <3> SUFFICES ASSUME NEW b \in Callbacks, Unsettled(b)' PROVE b \in answering' \/ b \in queue'
      BY <2>1, <2>2 DEF UnsettledInv
    <3>1. b = c \/ Unsettled(b)
      BY <2>1 DEF Unsettled, HeldInv, HeldTypes
    <3> QED BY <2>1, <3>1 DEF HeldInv, UnsettledInv
  <2> QED BY <2>2, <2>3, <2>4, <2>5 DEF HeldInv
<1>2. CASE Answers(c)
  <2>1. /\ UNCHANGED <<queue, forgotten, running, live, turns, starters, preparing, response,
                       abandoned>>
        /\ answering' = answering \ {c} /\ callback' = Settled({c})
    BY <1>2 DEF Answers, history
  <2>2. /\ callback' \in [Callbacks -> {"unsent", "unsettled", "settled"}]
        /\ \A b \in Callbacks : callback'[b] = "unsettled" <=> callback[b] = "unsettled" /\ b \notin {c}
    BY <2>1, SettledAre DEF HeldInv
  <2>3. StartersInv' /\ AnsweringInv' /\ ResponseIsHeld' /\ HeldTypes' /\ (Looked => Looked')
    BY <2>1, <2>2 DEF HeldInv, StartersInv, AnsweringInv, ResponseIsHeld, HeldTypes, Looked
  <2>4. UnsettledInv'
    BY <2>1, <2>2, <2>3 DEF HeldInv, UnsettledInv, Unsettled
  <2> QED BY <2>3, <2>4 DEF HeldInv
<1> QED BY <1>1, <1>2

\* A starter comes to its end, or waits for a message that is prepared.
LEMMA StartersHold ==
    ASSUME HeldInv, ChatInv', NEW s, StarterStep(s)
    PROVE  HeldInv'
<1>1. s \in DOMAIN starters /\ s \in Starter
  BY DEF StarterStep, BagIn, BagToSet, HeldInv, StartersInv
<1>2. /\ DOMAIN Without(s) \subseteq Starter
      /\ \A u \in DOMAIN Without(s) : Holds(u) => Without(s)[u] \in Nat \ {0}
      /\ \A u \in DOMAIN starters : Holds(u) /\ u # s => u \in DOMAIN Without(s)
  BY <1>1, Leaving DEF HeldInv, StartersInv
<1>3. Batch(s) \subseteq Callbacks /\ (s.attached => Batch(s) = queue) /\ s.knows \in BOOLEAN
  BY <1>1 DEF Batch, Starter, HeldInv, HeldTypes
<1>4. CASE StarterWaits(s)
  <2>1. /\ UNCHANGED <<queue, answering, callback, forgotten, live, running, turns, preparing,
                       response, abandoned>>
        /\ preparing # "none"
        /\ starters' = Without(s) (+) SetToBag({[s EXCEPT !.at = "answered"]})
    BY <1>4 DEF StarterWaits, context, history
  <2>2. StartersInv' /\ DOMAIN starters' # {}
    BY <1>1, <2>1, Answering DEF HeldInv
  <2>3. AnsweringInv' /\ Looked'
    BY <2>1 DEF HeldInv, AnsweringInv, Looked
  <2> QED BY <2>1, <2>2, <2>3, LeavingAlone DEF HeldInv, HeldTypes
<1>5. CASE StarterYields(s)
  <2>1. /\ UNCHANGED <<queue, answering, callback, forgotten, live, running, turns, preparing,
                       response, abandoned>>
        /\ starters' = Without(s) /\ chat = "active"
    BY <1>5 DEF StarterYields, context, history
  <2>2. running'
    BY <2>1 DEF HeldInv, ChatInv, RecordsAgree
  <2>3. StartersInv' /\ AnsweringInv' /\ Looked'
    BY <1>2, <2>1, <2>2 DEF HeldInv, StartersInv, AnsweringInv, Looked
  <2> QED BY <2>1, <2>2, <2>3, LeavingAlone DEF HeldInv, HeldTypes
<1>6. CASE StarterStarts(s)
  <2>1. /\ chat = "idle" /\ StartAgent /\ running' /\ live' = TRUE
        /\ UNCHANGED <<preparing, response, callback, abandoned>>
    BY <1>6 DEF StarterStarts, StillIdle, StartAgent
  <2>2. AnsweringInv' /\ Looked' /\ ResponseIsHeld'
    BY <2>1, StartedNotResumed DEF HeldInv, AnsweringInv, Looked, ResponseIsHeld
  <2>3. CASE s.knows
    <3>1. /\ starters' = BagOfAll(Detach, Without(s)) /\ queue' = {}
          /\ answering' = answering \cup Batch(s) /\ forgotten' = forgotten \cup Dropped(s)
      BY <1>6, <2>3 DEF StarterStarts
    <3>2. StartersInv' /\ HeldTypes'
      BY <1>2, <1>3, <2>1, <3>1, Detaching DEF HeldInv, HeldTypes
    <3>3. UnsettledInv'
      BY <2>1, <3>1 DEF HeldInv, UnsettledInv, Unsettled, Dropped
    <3> QED BY <2>2, <3>2, <3>3 DEF HeldInv
  <2>4. CASE ~s.knows
    <3>1. /\ starters' = Without(s) /\ UNCHANGED <<queue, answering>>
          /\ forgotten' = forgotten \cup Batch(s)
      BY <1>6, <2>4 DEF StarterStarts
    <3>2. StartersInv' /\ HeldTypes'
      BY <1>2, <2>1, <3>1 DEF HeldInv, HeldTypes, StartersInv
    <3>3. UnsettledInv'
      BY <2>1, <2>2, <3>1 DEF HeldInv, UnsettledInv, Unsettled
    <3> QED BY <2>2, <3>2, <3>3 DEF HeldInv
  <2> QED BY <2>3, <2>4
<1>7. CASE StarterFails(s)
  <2>1. /\ UNCHANGED <<chat, running, live, answering, turns, preparing, response>>
        /\ callback' = Settled(Batch(s))
        /\ abandoned' = (abandoned \/ (response = "waiting" /\ chat # "active"))
    BY <1>7 DEF StarterFails
  <2>2. /\ callback' \in [Callbacks -> {"unsent", "unsettled", "settled"}]
        /\ \A c \in Callbacks :
              callback'[c] = "unsettled" <=> callback[c] = "unsettled" /\ c \notin Batch(s)
    BY <2>1, SettledAre DEF HeldInv
  <2>3. AnsweringInv' /\ ResponseIsHeld'
    BY <2>1 DEF HeldInv, AnsweringInv, ResponseIsHeld, ChatInv, RecordsAgree
  <2>4. CASE s.knows
    <3>1. /\ starters' = BagOfAll(Detach, Without(s)) /\ queue' = {}
          /\ forgotten' = forgotten \cup Dropped(s)
      BY <1>7, <2>4 DEF StarterFails
    <3>2. StartersInv' /\ HeldTypes'
      BY <1>2, <2>1, <2>2, <3>1, Detaching DEF HeldInv, HeldTypes
    <3>3. UnsettledInv'
      BY <2>1, <2>2, <3>1 DEF HeldInv, UnsettledInv, Unsettled, Dropped
    <3> QED BY <2>3, <3>2, <3>3 DEF HeldInv
  <2>5. CASE ~s.knows
    <3>1. starters' = Without(s) /\ UNCHANGED <<queue, forgotten>>
      BY <1>7, <2>5 DEF StarterFails
    <3>2. StartersInv' /\ HeldTypes'
      BY <1>2, <2>1, <2>2, <3>1 DEF HeldInv, HeldTypes, StartersInv
    <3>3. Looked => Looked'
      <4>1. ~Holds(s)
        BY <2>5 DEF Holds
      <4> QED BY <1>2, <2>1, <3>1, <4>1 DEF Looked
    <3>4. UnsettledInv'
      BY <2>1, <2>2, <3>1, <3>3 DEF HeldInv, UnsettledInv, Unsettled
    <3> QED BY <2>3, <3>2, <3>4 DEF HeldInv
  <2> QED BY <1>3, <2>4, <2>5
<1> QED BY <1>4, <1>5, <1>6, <1>7 DEF StarterStep

-----------------------------------------------------------------------------
(* The turn itself.                                                          *)

LEMMA MovedNotResumed ==
    ASSUME ChatInv, NEW t \in Turns, NEW from, NEW to \in {"starting", "prompting", "ending"},
           Moves(t, from, to)
    PROVE  \A u \in Turns : turns'[u].at = "resuming" => turns[u].at = "resuming"
<1>1. turns \in [Turns -> TurnRecord] /\ turns' = [turns EXCEPT ![t].at = to]
  BY DEF ChatInv, TurnsTyped, Moves
<1>2. ASSUME NEW u \in Turns, turns'[u].at = "resuming" PROVE turns[u].at = "resuming"
  <2>1. CASE u = t
    BY <1>1, <1>2, <2>1 DEF TurnRecord
  <2>2. CASE u # t
    BY <1>1, <1>2, <2>2
  <2> QED BY <2>1, <2>2
<1> QED BY <1>2

\* Nobody waits for a turn that goes on; one that finishes has settled what it
\* was given.
LEMMA GoingOnHolds ==
    ASSUME HeldInv, ChatInv', NEW t \in Turns, Prompts(t) \/ Resumes(t) \/ Finishes(t)
    PROVE  HeldInv'
<1>1. UNCHANGED <<queue, forgotten, live, running, starters, preparing, response, abandoned>>
  BY DEF Prompts, Resumes, Finishes, context, history
<1>2. \A u \in Turns : turns'[u].at = "resuming" => turns[u].at = "resuming"
  BY MovedNotResumed DEF Prompts, Resumes, Finishes, HeldInv
<1>3. StartersInv' /\ ResponseIsHeld' /\ (Looked => Looked')
  BY <1>1 DEF HeldInv, StartersInv, ResponseIsHeld, Looked
<1>4. CASE UNCHANGED <<answering, callback>>
  <2>1. AnsweringInv'
    BY <1>1, <1>2, <1>4 DEF HeldInv, AnsweringInv
  <2> QED BY <1>1, <1>3, <1>4, <2>1, LeavingAlone DEF HeldInv, HeldTypes, ResponseIsHeld, BagToSet
<1>5. CASE answering' = {} /\ callback' = Settled(answering)
  <2>1. /\ callback' \in [Callbacks -> {"unsent", "unsettled", "settled"}]
        /\ \A c \in Callbacks :
              callback'[c] = "unsettled" <=> callback[c] = "unsettled" /\ c \notin answering
    BY <1>5, SettledAre DEF HeldInv
  <2>2. HeldTypes' /\ AnsweringInv' /\ UnsettledInv'
    BY <1>1, <1>3, <1>5, <2>1 DEF HeldInv, HeldTypes, AnsweringInv, UnsettledInv, Unsettled
  <2> QED BY <1>3, <2>2 DEF HeldInv
<1> QED BY <1>4, <1>5 DEF Prompts, Resumes, Finishes, context

\* The end of a turn hands the queue on, unless it is empty or the chat is gone.
LEMMA EndHolds ==
    ASSUME HeldInv, ChatInv', NEW t \in Turns, Ends(t)
    PROVE  HeldInv'
<1>1. UNCHANGED <<preparing, forgotten>> /\ answering' = {} /\ running' = FALSE
  BY DEF Ends
<1>2. AnsweringInv'
  BY <1>1 DEF AnsweringInv
<1>3. CASE NothingQueued
  <2>1. /\ live' = FALSE /\ starters' = BagOfAll(Forget, starters) /\ queue' = queue /\ queue = {}
        /\ callback' = Settled(answering) /\ DeliverWaiting
    BY <1>3 DEF Ends, NothingQueued
  <2>2. StartersInv' /\ ResponseIsHeld'
    BY <2>1, Forgetting DEF HeldInv, ResponseIsHeld, DeliverWaiting
  <2>3. /\ callback' \in [Callbacks -> {"unsent", "unsettled", "settled"}]
        /\ \A c \in Callbacks :
              callback'[c] = "unsettled" <=> callback[c] = "unsettled" /\ c \notin answering
    BY <2>1, SettledAre DEF HeldInv
  <2>4. HeldTypes' /\ UnsettledInv'
    BY <1>1, <2>1, <2>3 DEF HeldInv, HeldTypes, UnsettledInv, Unsettled
  <2> QED BY <1>2, <2>2, <2>4 DEF HeldInv
<1>4. CASE ~NothingQueued /\ chat # "deleted"
  <2>1. LaunchStarter /\ callback' = Settled(answering) /\ UNCHANGED <<queue, live, response>>
    BY <1>4 DEF Ends
  <2>2. StartersInv' /\ Looked' /\ DOMAIN starters' # {}
    BY <2>1, Launching DEF HeldInv, Looked
  <2>3. /\ callback' \in [Callbacks -> {"unsent", "unsettled", "settled"}]
        /\ \A c \in Callbacks :
              callback'[c] = "unsettled" <=> callback[c] = "unsettled" /\ c \notin answering
    BY <2>1, SettledAre DEF HeldInv
  <2>4. HeldTypes' /\ UnsettledInv' /\ ResponseIsHeld'
    BY <1>1, <2>1, <2>2, <2>3
       DEF HeldInv, HeldTypes, UnsettledInv, Unsettled, ResponseIsHeld, BagToSet
  <2> QED BY <1>2, <2>2, <2>4 DEF HeldInv
<1>5. CASE ~NothingQueued /\ chat = "deleted"
  <2>1. /\ queue' = {} /\ starters' = BagOfAll(Detach, starters)
        /\ callback' = Settled(answering \cup queue)
        /\ abandoned' = (abandoned \/ response = "waiting") /\ UNCHANGED <<live, response>>
    BY <1>5 DEF Ends
  <2>2. StartersInv' /\ ResponseIsHeld'
    BY <2>1, Detaching DEF HeldInv, HeldTypes, StartersInv, ResponseIsHeld
  <2>3. /\ callback' \in [Callbacks -> {"unsent", "unsettled", "settled"}]
        /\ \A c \in Callbacks :
              callback'[c] = "unsettled" <=> callback[c] = "unsettled" /\ c \notin answering \cup queue
    BY <2>1, SettledAre DEF HeldInv
  <2>4. HeldTypes' /\ UnsettledInv'
    BY <1>1, <2>1, <2>3 DEF HeldInv, HeldTypes, UnsettledInv, Unsettled
  <2> QED BY <1>2, <2>2, <2>4 DEF HeldInv
<1> QED BY <1>3, <1>4, <1>5

LEMMA ResumeFailsHolds ==
    ASSUME HeldInv, ChatInv', NEW t \in Turns, ResumeFails(t)
    PROVE  HeldInv'
<1>1. /\ UNCHANGED <<queue, answering, live, starters, preparing, callback>>
      /\ forgotten' = forgotten \cup queue /\ DeliverWaiting /\ answering = {}
  BY DEF ResumeFails, context, HeldInv, AnsweringInv
<1>2. HeldTypes' /\ StartersInv' /\ AnsweringInv' /\ UnsettledInv' /\ ResponseIsHeld'
  BY <1>1 DEF HeldInv, HeldTypes, StartersInv, AnsweringInv, UnsettledInv, Unsettled,
              ResponseIsHeld, DeliverWaiting
<1> QED BY <1>2 DEF HeldInv

LEMMA ChatRestartHolds ==
    ASSUME HeldInv, ChatInv', TurnsRestart
    PROVE  HeldInv'
<1>1. /\ running' = row /\ live' = row /\ queue' = {} /\ answering' = {} /\ preparing' = "none"
      /\ starters' = EmptyBag /\ UNCHANGED <<response, forgotten>>
      /\ callback' = Settled({c \in Callbacks : callback[c] = "unsettled"})
      /\ abandoned' = (abandoned \/ (response = "waiting" /\ ~row))
  BY DEF TurnsRestart
<1>2. /\ callback' \in [Callbacks -> {"unsent", "unsettled", "settled"}]
      /\ \A c \in Callbacks : callback'[c] # "unsettled"
  BY <1>1, SettledAre DEF HeldInv
<1>3. DOMAIN starters' = {}
  BY <1>1 DEF EmptyBag, SetToBag
<1>4. row \in BOOLEAN
  BY DEF HeldInv, ChatInv, TurnsTyped
<1>5. HeldTypes' /\ StartersInv' /\ AnsweringInv' /\ UnsettledInv' /\ ResponseIsHeld'
  BY <1>1, <1>2, <1>3, <1>4 DEF HeldTypes, StartersInv, AnsweringInv, UnsettledInv, Unsettled,
                                 ResponseIsHeld, HeldInv
<1> QED BY <1>5 DEF HeldInv

-----------------------------------------------------------------------------
LEMMA HeldInit == TurnsInit => HeldInv
<1> SUFFICES ASSUME TurnsInit PROVE HeldInv
  OBVIOUS
<1>1. /\ live = FALSE /\ queue = {} /\ answering = {} /\ starters = EmptyBag /\ preparing = "none"
      /\ response = "none" /\ callback = [c \in Callbacks |-> "unsent"]
  BY DEF TurnsInit
<1>2. DOMAIN starters = {}
  BY <1>1 DEF EmptyBag, SetToBag
<1>3. HeldTypes /\ StartersInv /\ AnsweringInv /\ UnsettledInv /\ ResponseIsHeld
  BY <1>1, <1>2 DEF HeldTypes, StartersInv, AnsweringInv, UnsettledInv, Unsettled, ResponseIsHeld
<1> QED BY <1>3, ChatInit DEF HeldInv

LEMMA HeldNext ==
    ASSUME HeldInv, [TurnsNext]_turnsVars
    PROVE  HeldInv'
<1>1. ChatInv'
  BY ChatNext DEF HeldInv
<1>2. CASE (\E kind \in {"user", "outside"} : Prepare(kind)) \/ MessageStep \/ Retry
  BY <1>1, <1>2, MessagesHold
<1>3. CASE StopAgent \/ DeleteBegins \/ Delivered \/ UNCHANGED turnsVars
  BY <1>1, <1>3, IdleStepsHold
<1>4. CASE DeleteEnds
  BY <1>1, <1>4, DeletionHolds
<1>5. ASSUME NEW c \in Callbacks, DeliverCallback(c) \/ Answers(c) PROVE HeldInv'
  BY <1>1, <1>5, CallbacksHold
<1>6. ASSUME NEW s, StarterStep(s) PROVE HeldInv'
  BY <1>1, <1>6, StartersHold
<1>7. ASSUME NEW t \in Turns, TurnStep(t) PROVE HeldInv'
  BY <1>1, <1>7, GoingOnHolds, EndHolds, ResumeFailsHolds DEF TurnStep
<1>8. CASE TurnsRestart
  BY <1>1, <1>8, ChatRestartHolds
<1> QED BY <1>2, <1>3, <1>4, <1>5, <1>6, <1>7, <1>8 DEF TurnsNext

LEMMA HeldInvariance == TurnsSpec => []HeldInv
<1>1. HeldInv /\ [TurnsNext]_turnsVars => HeldInv'
  BY HeldNext
<1> QED BY <1>1, HeldInit, PTL DEF TurnsSpec

\* Whatever order callbacks, messages, starters, ends of turns, failures and
\* deletions come in, a callback that is not settled is in somebody's hands, unless
\* it was dropped where the history says (forgotten).
THEOREM CallbacksHeld == TurnsSpec => []CallbacksAreHeld
<1>1. HeldInv => CallbacksAreHeld
  BY DEF HeldInv, UnsettledInv, Unsettled, AnsweringInv, Looked, Holds, CallbacksAreHeld, BagToSet
<1> QED BY <1>1, HeldInvariance, PTL

\* And a response to a message from outside that is not delivered is in somebody's.
THEOREM ResponseHeld == TurnsSpec => []ResponseIsHeld
<1>1. HeldInv => ResponseIsHeld
  BY DEF HeldInv
<1> QED BY <1>1, HeldInvariance, PTL
=============================================================================
