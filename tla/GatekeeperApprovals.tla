------------------------ MODULE GatekeeperApprovals ------------------------
(***************************************************************************)
(* The overseer's approval queue (ActionQueue) in front of two gatekeepers *)
(* that, unlike the MCP one, claim nothing before they act: GitHub and     *)
(* Home Assistant.  Neither has actions that a rule may approve, so that   *)
(* every decision is a user's.                                             *)
(***************************************************************************)
EXTENDS Integers, FiniteSets

CONSTANTS
  GitHub, HomeAssistant,   \* the two gatekeepers
  GitHubWrites, HomeWrites, Creates, On, Nobody,
  Clients, MaxActions

Writes == GitHubWrites \cup HomeWrites

\* A provisional id is made up when the write that creates the resource is staged:
\* no two writes create the same.  Such a write has no target of its own.
ASSUME WritesAssumption ==
  /\ GitHubWrites \cap HomeWrites = {}
  /\ Nobody \notin Writes
  /\ \A w, v \in GitHubWrites : (Creates[w] = Creates[v] /\ Creates[w] # Nobody) => w = v
  /\ \A w \in GitHubWrites : Creates[w] = Nobody \/ On[w] = Nobody
  /\ MaxActions \in Nat

VARIABLES
  actions, nextActionId, rules, drain, ops,
  live, retired, provisional, handed, ghCall, posted,
  pendingRows, appliedRows, haCall, executed,
  session,      \* the submission of each write by its session
  writeOf,      \* ActionRecord.action: the write that a record stands for
  answer,       \* what the gatekeeper answered to a client's RPC, on its way back
  contested,    \* history: records with two calls at once, or whose call was
                \* cut short
  early         \* history: writes decided before their submission had returned

Tag == "write"
GatekeeperOf(w) == IF w \in GitHubWrites THEN GitHub ELSE HomeAssistant
KindOf(w) == [gk |-> GatekeeperOf(w), tag |-> Tag, autoApprovable |-> FALSE, awaited |-> FALSE]

Q == INSTANCE ActionQueue WITH
       Gatekeepers <- {GitHub, HomeAssistant}, Tags <- {Tag}, Kinds <- {KindOf(w) : w \in Writes}
G == INSTANCE GitHubStore WITH Callers <- Clients
H == INSTANCE HomeAssistantStore WITH Callers <- Clients

queueVars == <<actions, nextActionId, rules, drain, ops>>
ghVars == <<live, retired, provisional, handed, ghCall, posted>>
haVars == <<pendingRows, appliedRows, haCall, executed>>
vars == <<queueVars, ghVars, haVars, session, writeOf, answer, contested, early>>

Ids == 1..MaxActions

-----------------------------------------------------------------------------
Init ==
  /\ Q!Init /\ G!Init /\ H!Init
  /\ session = [w \in Writes |-> "new"]
  /\ writeOf = [id \in Ids |-> Nobody]
  /\ answer = [c \in Clients |-> "none"]
  /\ contested = {} /\ early = {}

\* A step of the one gatekeeper or of the other
OfGitHub(A) == A /\ UNCHANGED haVars
OfHome(A) == A /\ UNCHANGED ghVars

-----------------------------------------------------------------------------
(* A session proposes a write: it is staged, filed with the overseer, and    *)
(* the overseer's answer comes back.                                         *)

Moves(w, from, to) ==
  session[w] = from /\ session' = [session EXCEPT ![w] = to]

Stage(w) ==
  /\ Moves(w, "new", "staged")
  /\ IF w \in GitHubWrites THEN OfGitHub(G!Stage(w)) ELSE OfHome(H!Stage(w))
  /\ UNCHANGED <<queueVars, writeOf, answer, contested, early>>

File(w) ==
  /\ Moves(w, "staged", "filed")
  /\ Q!Submit(KindOf(w))
  /\ writeOf' = [writeOf EXCEPT ![nextActionId] = w]
  /\ UNCHANGED <<ghVars, haVars, answer, contested, early>>

SubmissionThrows(w) ==
  /\ Moves(w, "staged", "done")
  /\ IF w \in GitHubWrites THEN OfGitHub(G!Unstage(w)) ELSE OfHome(H!DeletePending(w))
  /\ UNCHANGED <<queueVars, writeOf, answer, contested, early>>

SubmissionReturns(w) ==
  /\ Moves(w, "filed", "done")
  /\ IF w \in GitHubWrites THEN OfGitHub(G!MarkPending(w)) ELSE UNCHANGED <<ghVars, haVars>>
  /\ UNCHANGED <<queueVars, writeOf, answer, contested, early>>

-----------------------------------------------------------------------------
(* Users decide. *)

\* The calls under way on the record id
CallsOn(id) == {c \in Clients : ops[c].pc = "calling" /\ ops[c].id = id}

Decide(c, op, id) ==
  /\ Q!Decide(c, op, id)
  /\ contested' = IF CallsOn(id) = {} THEN contested ELSE contested \cup {id}
  /\ early' = IF session[writeOf[id]] = "filed" THEN early \cup {writeOf[id]} ELSE early
  /\ UNCHANGED <<ghVars, haVars, session, writeOf, answer>>

Asks(c, op) == ops[c].pc = "calling" /\ ops[c].op = op /\ answer[c] = "none"
WriteOf(c) == writeOf[ops[c].id]
Served == UNCHANGED <<queueVars, session, writeOf, early>>
Answers(c, what) == answer' = [answer EXCEPT ![c] = what]

Applies(w) == IF w \in GitHubWrites THEN G!Applies(w) ELSE H!Applies(w)

\* applyAction() awaits GitHub or Home Assistant ...
ApplyStarts(c) ==
  /\ Asks(c, "approve")
  /\ \/ OfGitHub(WriteOf(c) \in GitHubWrites /\ G!ApplyStarts(c, WriteOf(c)))
     \/ OfHome(WriteOf(c) \in HomeWrites /\ H!ApplyStarts(c, WriteOf(c)))
  /\ Served /\ UNCHANGED <<answer, contested>>

\* ... or throws at once.
ApplyRefuses(c) ==
  /\ Asks(c, "approve") /\ ghCall[c].pc = "idle" /\ haCall[c].pc = "idle"
  /\ ~Applies(WriteOf(c))
  /\ Answers(c, "error")
  /\ Served /\ UNCHANGED <<ghVars, haVars, contested>>

Executes(c) ==
  /\ OfGitHub(G!GitHubPosts(c)) \/ OfHome(H!HomeExecutes(c))
  /\ Served /\ UNCHANGED <<answer, contested>>

ApplyEnds(c) ==
  /\ OfGitHub(G!ApplyEnds(c)) \/ OfHome(H!ApplyEnds(c))
  /\ Answers(c, "ok")
  /\ Served /\ UNCHANGED contested

\* An error of the service that is swallowed.
ApplyThrowsMut(c) ==
  /\ OfGitHub(G!ApplyThrows(c)) \/ OfHome(H!ApplyThrows(c))
  /\ Answers(c, "ok")
  /\ contested' = contested \cup {ops[c].id}
  /\ Served

\* The service fails, or fails to answer.
ApplyThrows(c) ==
  /\ OfGitHub(G!ApplyThrows(c)) \/ OfHome(H!ApplyThrows(c))
  /\ Answers(c, "error")
  /\ contested' = contested \cup {ops[c].id}
  /\ Served

\* rejectAction()
RejectAnswers(c) ==
  LET w == WriteOf(c) IN
  /\ Asks(c, "reject")
  /\ \/ OfGitHub(w \in GitHubWrites /\ G!Reject(w)) /\ Answers(c, "ok")
     \/ /\ w \in GitHubWrites /\ ~G!Undecided(w)
        /\ Answers(c, "error") /\ UNCHANGED <<ghVars, haVars>>
     \/ OfHome(w \in HomeWrites /\ H!DeletePending(w)) /\ Answers(c, "ok")
  /\ Served /\ UNCHANGED contested

\* The answer reaches the overseer.
Answered(c) ==
  /\ answer[c] # "none" /\ Answers(c, "none")
  /\ IF answer[c] = "ok" THEN Q!Approved(c, FALSE) \/ Q!Rejected(c) ELSE Q!DecisionThrew(c)
  /\ UNCHANGED <<ghVars, haVars, session, writeOf, contested, early>>

\* The profile could not be fetched, and the gatekeeper is never asked.
ProfileThrows(c) ==
  /\ answer[c] = "none" /\ ghCall[c].pc = "idle" /\ haCall[c].pc = "idle"
  /\ Q!DecisionThrew(c)
  /\ UNCHANGED <<ghVars, haVars, session, writeOf, answer, contested, early>>

\* The Durable Object dies, with its facets and their sessions.
Restart ==
  /\ Q!Restart /\ G!Restart /\ H!Restart
  /\ session' = [w \in Writes |-> IF session[w] = "new" THEN "new" ELSE "done"]
  /\ answer' = [c \in Clients |-> "none"]
  /\ contested' = contested \cup {id \in Ids : CallsOn(id) # {}}
  /\ UNCHANGED <<writeOf, early>>

Next ==
  \/ \E w \in Writes : Stage(w)
  \/ \E w \in Writes : File(w)
  \/ \E w \in Writes : SubmissionThrows(w)
  \/ \E w \in Writes : SubmissionReturns(w)
  \/ \E c \in Clients, op \in {"approve", "reject"}, id \in Ids : Decide(c, op, id)
  \/ \E c \in Clients : ApplyStarts(c)
  \/ \E c \in Clients : ApplyRefuses(c)
  \/ \E c \in Clients : Executes(c)
  \/ \E c \in Clients : ApplyEnds(c)
  \/ \E c \in Clients : ApplyThrows(c)
  \/ \E c \in Clients : RejectAnswers(c)
  \/ \E c \in Clients : Answered(c)
  \/ \E c \in Clients : ProfileThrows(c)
  \/ Restart

Spec == Init /\ [][Next]_vars

-----------------------------------------------------------------------------
TypeOK ==
  /\ Q!TypeOK /\ G!TypeOK /\ H!TypeOK
  /\ session \in [Writes -> {"new", "staged", "filed", "done"}]
  /\ writeOf \in [Ids -> Writes \cup {Nobody}]
  /\ answer \in [Clients -> {"none", "ok", "error"}]
  /\ contested \subseteq Ids /\ early \subseteq Writes

Filed == {id \in Ids : writeOf[id] # Nobody}
Effects(w) == IF w \in GitHubWrites THEN posted[w] ELSE executed[w]

\* What the log says was approved was carried out, whatever raced with it; and as
\* long as no two calls were made at once on a record and none was cut short, what
\* is approved was carried out once and what is not approved was not: the most
\* that a gatekeeper without a claim can offer (homeassistant.ts:1150-1169).
LogTellsTheTruth ==
  \A id \in Filed :
    LET n == Effects(writeOf[id]) IN
    /\ actions[id].state = "approved" => n > 0
    /\ (id \notin contested /\ CallsOn(id) = {}) => n = IF actions[id].state = "approved" THEN 1 ELSE 0

\* Nothing is written about an issue or a pull request that GitHub has not been
\* asked to create, whatever was rejected, retried or proposed meanwhile; and what
\* was created can be found by the writes about it, unless two calls raced for it
\* or it was approved before its own submission had returned (which then takes it
\* for pending and forgets its number).
DependantsFollow ==
  /\ \A w, d \in GitHubWrites :
       (Creates[w] # Nobody /\ On[d] = Creates[w] /\ posted[d] > 0) => posted[w] > 0
  /\ \A id \in Filed \ contested :
       LET w == writeOf[id] IN
       (/\ w \in GitHubWrites \ early
        /\ Creates[w] # Nobody /\ actions[id].state = "approved")
         => provisional[Creates[w]] = "real"

\* The records whose write creates what w is about
About(w) == {id \in Filed : writeOf[id] \in GitHubWrites /\ Creates[writeOf[id]] = On[w]}

\* A write that is pending with the overseer can still be decided with its
\* gatekeeper, unless calls raced for it (or for what it is about), a crash came
\* in between, or GitHub rejected it along with what it is about.
PendingIsOpen ==
  \A id \in Filed \ contested :
    LET w == writeOf[id] IN
    (/\ w \in GitHubWrites /\ CallsOn(id) = {} /\ actions[id].state = "pending"
     /\ On[w] # Nobody => provisional[On[w]] # "absent" /\ About(w) \cap contested = {})
      => G!Undecided(w)

\* What the API promises of a pending action whose application failed: that the
\* user can retry or discard it (gatekeeper.ts:747-748).  Here for the writes that
\* no two calls raced for and no crash cut short.
PendingIsDecidable ==
  \A id \in Filed \ contested :
    (writeOf[id] \in GitHubWrites /\ actions[id].state = "pending" /\ CallsOn(id) = {})
      => G!Undecided(writeOf[id])
=============================================================================
