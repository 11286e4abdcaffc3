--------------------------- MODULE OverseerProofs ---------------------------
(***************************************************************************)
(* What the overseer's records say of its gatekeepers, which it asks by    *)
(* RPC and does not lock.  The first part is about the writes to GitHub    *)
(* and Home Assistant (GatekeeperApprovals), for every number of writes,   *)
(* resources, users and actions; the second about the hooks (BoundHooks),  *)
(* for every number of hooks, gadgets and calls at once.                   *)
(***************************************************************************)
EXTENDS GatekeeperApprovals, BoundHooks, TLAPS

-----------------------------------------------------------------------------
(* The inductive invariant                                                   *)

\* What this needs to know of the queue.
QueueTyped ==
  /\ actions \in [Ids -> Q!Record \cup {Q!NoRecord}]
  /\ nextActionId \in 1..(MaxActions + 1)
  /\ \A id \in Ids : actions[id] \in Q!Record <=> id < nextActionId
  /\ ops \in [Clients -> Q!Op]

PartsTyped ==
  /\ QueueTyped /\ G!TypeOK /\ H!TypeOK
  /\ session \in [Writes -> {"new", "staged", "filed", "done"}]
  /\ writeOf \in [Ids -> Writes \cup {Nobody}]
  /\ answer \in [Clients -> {"none", "ok", "error"}]
  /\ contested \subseteq Ids

\* A record stands for one write, whose session has filed it, and no other
\* record does.
WritesAreFiledOnce ==
  /\ \A id \in Ids : writeOf[id] # Nobody <=> id < nextActionId
  /\ \A id \in Filed : session[writeOf[id]] \in {"filed", "done"}
  /\ \A id, j \in Filed : writeOf[id] = writeOf[j] => id = j

\* Client c decides the record id.
Decides(c, id) == ops[c].pc = "calling" /\ ops[c].id = id

\* What a gatekeeper does or has answered is about a user's decision.
CallInv(c) ==
  /\ ops[c].pc \in {"idle", "calling"}
  /\ ops[c].pc = "calling" => ops[c].id \in Filed
  /\ ghCall[c] # G!NoCall =>
       /\ ghCall[c].pc \in {"sent", "done"} /\ haCall[c] = H!NoCall /\ answer[c] = "none"
       /\ ops[c].pc = "calling" /\ ops[c].op = "approve"
       /\ ghCall[c].write = WriteOf(c) /\ ghCall[c].write \in GitHubWrites
  /\ haCall[c] # H!NoCall =>
       /\ haCall[c].pc \in {"sent", "done"} /\ answer[c] = "none"
       /\ ops[c].pc = "calling" /\ ops[c].op = "approve"
       /\ haCall[c].write = WriteOf(c) /\ haCall[c].write \in HomeWrites
  /\ answer[c] # "none" => ops[c].pc = "calling"
CallsInv == \A c \in Clients : CallInv(c)

\* A record that is not contested is decided once.
DecidedOnce ==
  \A id \in Filed \ contested :
    /\ \A c, d \in Clients : Decides(c, id) /\ Decides(d, id) => c = d
    /\ actions[id].state # "pending" => \A c \in Clients : ~Decides(c, id)

\* The service has carried out what client c approves.
Carried(c) ==
  \/ ghCall[c].pc = "done" \/ haCall[c].pc = "done"
  \/ answer[c] = "ok" /\ ops[c].op = "approve"

\* What was carried out was asked for, and, uncontested, once.
EffectsInv ==
  /\ \A w \in Writes : (\A id \in Filed : writeOf[id] # w) => Effects(w) = 0
  /\ \A c \in Clients : Carried(c) => Effects(WriteOf(c)) > 0
  /\ \A id \in Filed : actions[id].state = "approved" => Effects(writeOf[id]) > 0
  /\ \A id \in Filed \ contested :
       Effects(writeOf[id]) =
         IF actions[id].state = "approved" \/ \E c \in Clients : Decides(c, id) /\ Carried(c) THEN 1 ELSE 0

-----------------------------------------------------------------------------
(* What the writes to GitHub are about.                                      *)

Created(w) == Creates[w] # Nobody

\* A resource has a number only if its write was posted and is settled; what a
\* session was handed stays there until its write is rejected.
ResourcesInv ==
  /\ \A w \in GitHubWrites : Created(w) =>
       /\ provisional[Creates[w]] = "real" => posted[w] > 0
       /\ Creates[w] \in handed =>
            /\ session[w] = "done"
            /\ live[w] # "none" <=> provisional[Creates[w]] = "open"
  /\ \A w \in GitHubWrites : session[w] # "new" /\ On[w] # Nobody => On[w] \in handed
  /\ \A w \in GitHubWrites : session[w] = "staged" => live[w] = "staged"

\* What is posted about a resource has its number.
DependantsInv ==
  /\ \A c \in Clients : ghCall[c] # G!NoCall /\ On[ghCall[c].write] # Nobody =>
       On[ghCall[c].write] \in handed /\ provisional[On[ghCall[c].write]] = "real"
  /\ \A w, d \in GitHubWrites :
       Created(w) /\ On[d] = Creates[w] /\ posted[d] > 0 => posted[w] > 0

\* A write that is not decided before its submission returned and not contested
\* leaves the number of what it creates.
NumbersInv ==
  /\ \A w \in GitHubWrites \ early : session[w] = "filed" =>
       \A id \in Filed : writeOf[id] = w =>
         actions[id].state = "pending" /\ \A c \in Clients : ~Decides(c, id)
  /\ \A id \in Filed \ contested :
       (/\ writeOf[id] \in GitHubWrites \ early /\ Created(writeOf[id])
        /\ \/ actions[id].state = "approved"
           \/ \E c \in Clients : Decides(c, id) /\ ops[c].op = "approve" /\ answer[c] = "ok")
         => provisional[Creates[writeOf[id]]] = "real"

\* A pending write that its gatekeeper has settled waits for the answer, or has
\* gone with what it is about.
Settled(id) ==
  LET w == writeOf[id] IN
  (w \in GitHubWrites /\ actions[id].state = "pending" /\ live[w] = "none") =>
    \/ \E c \in Clients : Decides(c, id) /\ answer[c] = "ok"
    \/ On[w] # Nobody /\ (provisional[On[w]] = "absent" \/ About(w) \cap contested # {})
OpenInv ==
  \A id \in Filed \ contested :
    /\ \A c \in Clients : Decides(c, id) /\ ghCall[c] # G!NoCall => live[writeOf[id]] # "none"
    /\ Settled(id)

IInv ==
  /\ PartsTyped /\ WritesAreFiledOnce /\ CallsInv /\ DecidedOnce /\ EffectsInv
  /\ ResourcesInv /\ DependantsInv /\ NumbersInv /\ OpenInv

-----------------------------------------------------------------------------
(* What the conjuncts depend on, and what they say of one call.              *)

LEMMA Frames ==
  /\ WritesAreFiledOnce /\ UNCHANGED <<nextActionId, writeOf, session>> => WritesAreFiledOnce'
  /\ CallsInv /\ UNCHANGED <<ops, ghCall, haCall, answer, writeOf>> => CallsInv'
  /\ DecidedOnce /\ UNCHANGED <<writeOf, contested, ops, actions>> => DecidedOnce'
  /\ EffectsInv /\ UNCHANGED <<writeOf, contested, ops, actions, ghCall, haCall, answer,
                               posted, executed>> => EffectsInv'
  /\ ResourcesInv /\ UNCHANGED <<provisional, handed, posted, session, live>> => ResourcesInv'
  /\ DependantsInv /\ UNCHANGED <<ghCall, handed, provisional, posted>> => DependantsInv'
  /\ NumbersInv /\ UNCHANGED <<early, session, writeOf, actions, ops, contested, answer,
                               provisional>> => NumbersInv'
  /\ OpenInv /\ UNCHANGED <<writeOf, contested, ops, ghCall, live, actions, answer,
                            provisional>> => OpenInv'
<1>1. UNCHANGED writeOf => Filed' = Filed /\ \A w : About(w)' = About(w)
  BY DEF Filed, About
<1>2. WritesAreFiledOnce /\ UNCHANGED <<nextActionId, writeOf, session>> => WritesAreFiledOnce'
  BY <1>1 DEF WritesAreFiledOnce
<1>3. CallsInv /\ UNCHANGED <<ops, ghCall, haCall, answer, writeOf>> => CallsInv'
  BY <1>1 DEF CallsInv, CallInv, WriteOf
<1>4. DecidedOnce /\ UNCHANGED <<writeOf, contested, ops, actions>> => DecidedOnce'
  BY <1>1 DEF DecidedOnce, Decides
<1>5. EffectsInv /\ UNCHANGED <<writeOf, contested, ops, actions, ghCall, haCall, answer,
                                posted, executed>> => EffectsInv'
  BY <1>1 DEF EffectsInv, Carried, Decides, Effects, WriteOf
<1>6. ResourcesInv /\ UNCHANGED <<provisional, handed, posted, session, live>> => ResourcesInv'
  BY DEF ResourcesInv
<1>7. DependantsInv /\ UNCHANGED <<ghCall, handed, provisional, posted>> => DependantsInv'
  BY DEF DependantsInv
<1>8. NumbersInv /\ UNCHANGED <<early, session, writeOf, actions, ops, contested, answer,
                                provisional>> => NumbersInv'
  BY <1>1 DEF NumbersInv, Decides
<1>9. OpenInv /\ UNCHANGED <<writeOf, contested, ops, ghCall, live, actions, answer,
                             provisional>> => OpenInv'
  BY <1>1 DEF OpenInv, Settled, Decides
<1> QED BY <1>2, <1>3, <1>4, <1>5, <1>6, <1>7, <1>8, <1>9

LEMMA Nothings ==
  /\ Q!NoRecord \notin Q!Record /\ Q!NoOp \in Q!Op /\ Q!NoOp.pc = "idle"
  /\ G!NoCall.pc = "idle" /\ H!NoCall.pc = "idle"
BY DEF Q!NoRecord, Q!Record, Q!NoOp, Q!Op, G!NoCall, H!NoCall

\* What is known of the record that client c decides.
LEMMA OneCall ==
  ASSUME IInv, NEW c \in Clients, ops[c].pc = "calling", NEW id, id = ops[c].id
  PROVE  /\ id \in Filed /\ id \in Ids /\ WriteOf(c) = writeOf[id] /\ writeOf[id] \in Writes
         /\ Decides(c, id)
         /\ \A j \in Filed : writeOf[j] = writeOf[id] => j = id
         /\ id \notin contested =>
              /\ actions[id].state = "pending"
              /\ \A d \in Clients : Decides(d, id) => d = c
              /\ Effects(writeOf[id]) = IF Carried(c) THEN 1 ELSE 0
<1>1. id \in Filed /\ id \in Ids /\ writeOf[id] \in Writes
  BY DEF IInv, CallsInv, CallInv, Filed, PartsTyped
<1>2. WriteOf(c) = writeOf[id] /\ Decides(c, id)
  BY DEF WriteOf, Decides
<1>3. \A j \in Filed : writeOf[j] = writeOf[id] => j = id
  BY <1>1 DEF IInv, WritesAreFiledOnce
<1>4. ASSUME id \notin contested
      PROVE  /\ actions[id].state = "pending"
             /\ \A d \in Clients : Decides(d, id) => d = c
  BY <1>1, <1>2, <1>4 DEF IInv, DecidedOnce
<1>5. ASSUME id \notin contested
      PROVE  Effects(writeOf[id]) = IF Carried(c) THEN 1 ELSE 0
  BY <1>1, <1>2, <1>4, <1>5 DEF IInv, EffectsInv
<1> QED BY <1>1, <1>2, <1>3, <1>4, <1>5

\* What is posted for a record is its write.
LEMMA PostedIsItsWrite ==
  ASSUME IInv, NEW c \in Clients, NEW id, Decides(c, id), ghCall[c] # G!NoCall
  PROVE  /\ id \in Filed /\ writeOf[id] \in GitHubWrites /\ ghCall[c].write = writeOf[id]
         /\ ops[c].op = "approve" /\ answer[c] = "none"
BY DEF IInv, CallsInv, CallInv, Decides, WriteOf

-----------------------------------------------------------------------------
(* A session's steps                                                         *)

\* The variables that a session's step leaves alone.
Decisions == <<actions, nextActionId, ops, ghCall, haCall, posted, executed, writeOf, answer,
               contested, early>>

\* What only moves a session on, and not to where it has filed its write, and what
\* stages or unstages that write, keeps the decisions.
LEMMA SessionKeeps ==
  ASSUME IInv, NEW w \in Writes, NEW from, NEW to, Moves(w, from, to), UNCHANGED Decisions,
         <<from, to>> \in {<<"new", "staged">>, <<"staged", "done">>, <<"filed", "done">>}
  PROVE  /\ session' \in [Writes -> {"new", "staged", "filed", "done"}]
         /\ QueueTyped' /\ WritesAreFiledOnce' /\ CallsInv' /\ DecidedOnce' /\ EffectsInv'
<1>1. /\ session[w] = from /\ session' = [session EXCEPT ![w] = to]
      /\ session \in [Writes -> {"new", "staged", "filed", "done"}]
  BY DEF Moves, IInv, PartsTyped
<1>2. session' \in [Writes -> {"new", "staged", "filed", "done"}]
  BY <1>1
<1>3. QueueTyped'
  BY DEF IInv, PartsTyped, QueueTyped, Decisions
<1>4. WritesAreFiledOnce'
  <2>1. Filed' = Filed /\ \A id \in Filed : writeOf[id] \in Writes
    BY DEF Decisions, Filed, IInv, PartsTyped
  <2>2. \A id \in Filed : session'[writeOf[id]] \in {"filed", "done"}
    BY <1>1, <2>1 DEF IInv, WritesAreFiledOnce
  <2> QED BY <2>1, <2>2 DEF IInv, WritesAreFiledOnce, Decisions
<1>5. CallsInv' /\ DecidedOnce' /\ EffectsInv'
  BY Frames DEF IInv, Decisions
<1> QED BY <1>2, <1>3, <1>4, <1>5

LEMMA StageKeeps ==
  ASSUME IInv, NEW w \in Writes, Stage(w)
  PROVE  IInv'
<1>1. Moves(w, "new", "staged") /\ UNCHANGED Decisions
  BY DEF Stage, OfGitHub, OfHome, G!Stage, H!Stage, queueVars, ghVars, haVars, Decisions
<1>2. /\ session' \in [Writes -> {"new", "staged", "filed", "done"}]
      /\ QueueTyped' /\ WritesAreFiledOnce' /\ CallsInv' /\ DecidedOnce' /\ EffectsInv'
  BY <1>1, SessionKeeps
<1>3. session[w] = "new" /\ \A v \in Writes : session'[v] = IF v = w THEN "staged" ELSE session[v]
  BY <1>1 DEF Moves, IInv, PartsTyped
<1>4. /\ UNCHANGED <<retired, provisional, handed, appliedRows>>
      /\ w \in GitHubWrites =>
           /\ live[w] = "none" /\ live' = [live EXCEPT ![w] = "staged"] /\ pendingRows' = pendingRows
           /\ On[w] # Nobody => On[w] \in handed
      /\ w \notin GitHubWrites => live' = live /\ pendingRows' = pendingRows \cup {w}
  BY DEF Stage, OfGitHub, OfHome, G!Stage, H!Stage, ghVars, haVars
<1>5. PartsTyped'
  BY <1>1, <1>2, <1>4 DEF IInv, PartsTyped, Decisions, G!TypeOK, H!TypeOK, Ids, Writes
<1>6. \A v \in GitHubWrites : live'[v] = IF v = w THEN "staged" ELSE live[v]
  BY <1>4 DEF IInv, PartsTyped, G!TypeOK
<1>7. ResourcesInv'
  BY <1>1, <1>3, <1>4, <1>6 DEF IInv, ResourcesInv, Decisions, Writes
<1>8. DependantsInv'
  BY <1>1, <1>4, Frames DEF IInv, Decisions
<1>9. NumbersInv'
  <2>1. Filed' = Filed /\ \A v \in GitHubWrites : session'[v] = "filed" <=> session[v] = "filed"
    BY <1>1, <1>3 DEF Decisions, Filed, Writes
  <2> QED BY <1>1, <1>4, <2>1 DEF IInv, NumbersInv, Decisions, Decides
<1>10. OpenInv'
  <2>1. Filed' = Filed /\ \A v : About(v)' = About(v)
    BY <1>1 DEF Decisions, Filed, About
  <2>2. \A v \in GitHubWrites : live'[v] = "none" => live[v] = "none"
    BY <1>6
  <2>3. \A id \in Filed : Settled(id) => Settled(id)'
    BY <1>1, <1>4, <2>1, <2>2 DEF Settled, Decides, Decisions
  <2> QED BY <1>1, <2>1, <2>2, <2>3, PostedIsItsWrite DEF IInv, OpenInv, Decisions, Decides
<1> QED BY <1>2, <1>5, <1>7, <1>8, <1>9, <1>10 DEF IInv

LEMMA SubmissionThrowsKeeps ==
  ASSUME IInv, NEW w \in Writes, SubmissionThrows(w)
  PROVE  IInv'
<1>1. Moves(w, "staged", "done") /\ UNCHANGED Decisions
  BY DEF SubmissionThrows, OfGitHub, OfHome, G!Unstage, H!DeletePending, queueVars,
         ghVars, haVars, Decisions
<1>2. /\ session' \in [Writes -> {"new", "staged", "filed", "done"}]
      /\ QueueTyped' /\ WritesAreFiledOnce' /\ CallsInv' /\ DecidedOnce' /\ EffectsInv'
  BY <1>1, SessionKeeps
<1>3. session[w] = "staged" /\ \A v \in Writes : session'[v] = IF v = w THEN "done" ELSE session[v]
  BY <1>1 DEF Moves, IInv, PartsTyped
<1>4. /\ UNCHANGED <<retired, provisional, handed, appliedRows>>
      /\ w \in GitHubWrites => live' = [live EXCEPT ![w] = "none"] /\ pendingRows' = pendingRows
      /\ w \notin GitHubWrites => live' = live /\ pendingRows' = pendingRows \ {w}
  BY DEF SubmissionThrows, OfGitHub, OfHome, G!Unstage, H!DeletePending, ghVars, haVars
<1>5. PartsTyped'
  BY <1>1, <1>2, <1>4 DEF IInv, PartsTyped, Decisions, G!TypeOK, H!TypeOK, Ids
<1>6. \A v \in GitHubWrites : live'[v] = IF v = w THEN "none" ELSE live[v]
  BY <1>4 DEF IInv, PartsTyped, G!TypeOK
<1>7. ResourcesInv'
  BY <1>1, <1>3, <1>4, <1>6 DEF IInv, ResourcesInv, Decisions, Writes
<1>8. DependantsInv'
  BY <1>1, <1>4, Frames DEF IInv, Decisions
<1>9. Filed' = Filed /\ \A v : About(v)' = About(v)
  BY <1>1 DEF Decisions, Filed, About
<1>10. NumbersInv'
  <2>1. \A v \in GitHubWrites : session'[v] = "filed" <=> session[v] = "filed"
    BY <1>3 DEF Writes
  <2> QED BY <1>1, <1>4, <1>9, <2>1 DEF IInv, NumbersInv, Decisions, Decides
<1>11. OpenInv'
  <2>1. \A id \in Filed : writeOf[id] # w
    BY <1>3 DEF IInv, WritesAreFiledOnce
  <2>2. \A id \in Filed : writeOf[id] \in GitHubWrites => live'[writeOf[id]] = live[writeOf[id]]
    BY <1>6, <2>1
  <2>3. \A id \in Filed : Settled(id) => Settled(id)'
    BY <1>1, <1>4, <1>9, <2>2 DEF Settled, Decides, Decisions
  <2> QED BY <1>1, <1>9, <2>2, <2>3, PostedIsItsWrite DEF IInv, OpenInv, Decisions, Decides
<1> QED BY <1>2, <1>5, <1>7, <1>8, <1>10, <1>11 DEF IInv

\* What the session is handed exists from now on.
LEMMA SubmissionReturnsKeeps ==
  ASSUME IInv, NEW w \in Writes, SubmissionReturns(w)
  PROVE  IInv'
<1>1. Moves(w, "filed", "done") /\ UNCHANGED Decisions /\ UNCHANGED <<retired, haVars>>
  BY DEF SubmissionReturns, OfGitHub, G!MarkPending, queueVars, ghVars, haVars, Decisions
<1>2. /\ session' \in [Writes -> {"new", "staged", "filed", "done"}]
      /\ QueueTyped' /\ WritesAreFiledOnce' /\ CallsInv' /\ DecidedOnce' /\ EffectsInv'
  BY <1>1, SessionKeeps
<1>3. session[w] = "filed" /\ \A v \in Writes : session'[v] = IF v = w THEN "done" ELSE session[v]
  BY <1>1 DEF Moves, IInv, PartsTyped
<1>4. Filed' = Filed /\ \A v : About(v)' = About(v)
  BY <1>1 DEF Decisions, Filed, About
<1>5. CASE w \notin GitHubWrites \/ ~Created(w)
  <2>1. /\ UNCHANGED <<provisional, handed>>
        /\ w \in GitHubWrites => live' = [live EXCEPT ![w] = "pending"]
        /\ w \notin GitHubWrites => live' = live
    BY <1>5 DEF SubmissionReturns, OfGitHub, G!MarkPending, ghVars, Created
  <2>2. PartsTyped'
    BY <1>1, <1>2, <2>1 DEF IInv, PartsTyped, Decisions, G!TypeOK, H!TypeOK, Ids, haVars
  <2>3. \A v \in GitHubWrites : live'[v] = IF v = w THEN "pending" ELSE live[v]
    BY <2>1 DEF IInv, PartsTyped, G!TypeOK
  <2>4. ResourcesInv'
    BY <1>1, <1>3, <1>5, <2>1, <2>3 DEF IInv, ResourcesInv, Decisions, Writes
  <2>5. DependantsInv'
    BY <1>1, <2>1, Frames DEF IInv, Decisions
  <2>6. NumbersInv'
    <3>1. \A v \in GitHubWrites : session'[v] = "filed" => session[v] = "filed"
      BY <1>3 DEF Writes
    <3> QED BY <1>1, <1>4, <2>1, <3>1 DEF IInv, NumbersInv, Decisions, Decides
  <2>7. OpenInv'
    <3>1. \A v \in GitHubWrites : live'[v] = "none" => live[v] = "none"
      BY <2>3
    <3>2. \A id \in Filed : Settled(id) => Settled(id)'
      BY <1>1, <1>4, <2>1, <3>1 DEF Settled, Decides, Decisions
    <3> QED BY <1>1, <1>4, <3>1, <3>2, PostedIsItsWrite DEF IInv, OpenInv, Decisions, Decides
  <2> QED BY <1>2, <2>2, <2>4, <2>5, <2>6, <2>7 DEF IInv
<1>6. CASE w \in GitHubWrites /\ Created(w)
  <2> DEFINE r == Creates[w]
  <2>1. /\ provisional' = [provisional EXCEPT ![r] = "open"] /\ handed' = handed \cup {r}
        /\ live' = [live EXCEPT ![w] = "pending"] /\ r \in G!Resources
    BY <1>6 DEF SubmissionReturns, OfGitHub, G!MarkPending, Created, G!Resources
  <2>2. PartsTyped'
    BY <1>1, <1>2, <2>1 DEF IInv, PartsTyped, Decisions, G!TypeOK, H!TypeOK, Ids, haVars
  <2>3. /\ \A v \in GitHubWrites : live'[v] = IF v = w THEN "pending" ELSE live[v]
        /\ \A v \in G!Resources : provisional'[v] = IF v = r THEN "open" ELSE provisional[v]
    BY <2>1 DEF IInv, PartsTyped, G!TypeOK
  <2>4. r \notin handed
    BY <1>3, <1>6 DEF IInv, ResourcesInv
  <2>5. \A v \in GitHubWrites : Created(v) => Creates[v] \in G!Resources /\ (Creates[v] = r => v = w)
    BY <1>6, WritesAssumption DEF Created, G!Resources, IInv, WritesAssumption
  <2>6. ResourcesInv'
    BY <1>1, <1>3, <1>6, <2>1, <2>3, <2>5 DEF IInv, ResourcesInv, Decisions, Writes
  <2>7. handed \subseteq G!Resources
    BY DEF IInv, PartsTyped, G!TypeOK
  <2>8. DependantsInv'
    BY <1>1, <2>1, <2>3, <2>4, <2>7 DEF IInv, DependantsInv, Decisions
  <2>9. NumbersInv'
    <3>1. \A v \in GitHubWrites : session'[v] = "filed" => session[v] = "filed"
      BY <1>3 DEF Writes
    <3>2. w \notin early => \A id \in Filed : writeOf[id] = w =>
            actions[id].state = "pending" /\ \A c \in Clients : ~Decides(c, id)
      BY <1>3, <1>6 DEF IInv, NumbersInv
    <3>3. \A v \in GitHubWrites : v # w /\ Created(v) => provisional'[Creates[v]] = provisional[Creates[v]]
      BY <2>3, <2>5
    <3> QED BY <1>1, <1>4, <3>1, <3>2, <3>3 DEF IInv, NumbersInv, Decisions, Decides, Created
  <2>10. OpenInv'
    <3>1. \A v \in GitHubWrites : live'[v] = "none" => live[v] = "none"
      BY <2>3
    <3>2. ASSUME NEW id \in Filed, writeOf[id] \in GitHubWrites, On[writeOf[id]] # Nobody
          PROVE  provisional'[On[writeOf[id]]] = provisional[On[writeOf[id]]]
      <4>1. On[writeOf[id]] \in handed
        BY <3>2 DEF IInv, WritesAreFiledOnce, ResourcesInv
      <4> QED BY <2>3, <2>4, <2>7, <4>1
    <3>3. \A id \in Filed : Settled(id) => Settled(id)'
      BY <1>1, <1>4, <3>1, <3>2 DEF Settled, Decides, Decisions
    <3> QED BY <1>1, <1>4, <3>1, <3>3, PostedIsItsWrite DEF IInv, OpenInv, Decisions, Decides
  <2> QED BY <1>2, <2>2, <2>6, <2>8, <2>9, <2>10 DEF IInv
<1> QED BY <1>5, <1>6

\* A new record, which nobody decides yet.
LEMMA FileKeeps ==
  ASSUME IInv, NEW w \in Writes, File(w)
  PROVE  IInv'
<1> PICK id : id = nextActionId
  OBVIOUS
<1>1. /\ id \in Ids /\ nextActionId' = id + 1
      /\ actions' = [actions EXCEPT ![id] = [kind |-> KindOf(w), state |-> "pending"]]
      /\ session[w] = "staged" /\ session' = [session EXCEPT ![w] = "filed"]
      /\ writeOf' = [writeOf EXCEPT ![id] = w]
      /\ UNCHANGED <<ops, answer, contested, early>> /\ UNCHANGED <<ghVars, haVars>>
  BY DEF File, Q!Submit, Q!NewRecord, Q!Ids, Ids, Moves, ghVars, haVars
<1>2. [kind |-> KindOf(w), state |-> "pending"] \in Q!Record
  BY DEF Q!Record
<1>3. /\ \A j \in Ids : j < id + 1 <=> j < id \/ j = id
      /\ id + 1 \in 1..(MaxActions + 1) /\ ~(id < id)
  BY <1>1, WritesAssumption DEF Ids, WritesAssumption
<1>4. /\ \A j \in Ids : actions'[j] = IF j = id THEN [kind |-> KindOf(w), state |-> "pending"] ELSE actions[j]
      /\ \A j \in Ids : writeOf'[j] = IF j = id THEN w ELSE writeOf[j]
      /\ \A v \in Writes : session'[v] = IF v = w THEN "filed" ELSE session[v]
  BY <1>1 DEF IInv, PartsTyped, QueueTyped
<1>5. w # Nobody
  BY WritesAssumption DEF WritesAssumption
<1>6. id \notin Filed /\ Filed' = Filed \cup {id} /\ Filed \subseteq Ids
  BY <1>1, <1>3, <1>4, <1>5 DEF Filed, IInv, WritesAreFiledOnce
<1>7. \A j \in Filed : j # id /\ writeOf'[j] = writeOf[j] /\ actions'[j] = actions[j] /\ writeOf[j] # w
  BY <1>1, <1>4, <1>6 DEF IInv, WritesAreFiledOnce
<1>8. QueueTyped'
  BY <1>1, <1>2, <1>3, <1>4 DEF IInv, PartsTyped, QueueTyped
<1>9. PartsTyped'
  BY <1>1, <1>8 DEF IInv, PartsTyped, G!TypeOK, H!TypeOK, ghVars, haVars
<1>10. WritesAreFiledOnce'
  <2>1. \A j \in Filed : writeOf[j] \in Writes
    BY <1>6 DEF Filed, IInv, PartsTyped
  <2> QED BY <1>1, <1>3, <1>4, <1>5, <1>6, <1>7, <2>1 DEF IInv, WritesAreFiledOnce
<1>11. \A c \in Clients : ops[c].pc = "calling" => ops[c].id \in Filed /\ WriteOf(c)' = WriteOf(c)
  BY <1>1, <1>7 DEF IInv, CallsInv, CallInv, WriteOf
<1>12. CallsInv'
  BY <1>1, <1>6, <1>11 DEF IInv, CallsInv, CallInv, ghVars, haVars
<1>13. \A c \in Clients : ~Decides(c, id)
  BY <1>6, <1>11 DEF Decides
<1>14. DecidedOnce'
  BY <1>1, <1>4, <1>6, <1>7, <1>13 DEF IInv, DecidedOnce, Decides
<1>15. EffectsInv'
  <2>1. /\ \A v : Effects(v)' = Effects(v)
        /\ \A c \in Clients : Carried(c)' <=> Carried(c)
    BY <1>1 DEF Effects, Carried, ghVars, haVars
  <2>2. Effects(w) = 0
    BY <1>7 DEF IInv, EffectsInv
  <2>3. \A c \in Clients : Carried(c) => ops[c].pc = "calling"
    BY Nothings DEF IInv, CallsInv, CallInv, Carried
  <2>4. /\ \A v \in Writes : (\A j \in Filed' : writeOf'[j] # v) => Effects(v) = 0
        /\ \A c \in Clients : Carried(c) => Effects(WriteOf(c)') > 0
    BY <1>6, <1>7, <1>11, <2>3 DEF IInv, EffectsInv
  <2>5. actions'[id].state = "pending" /\ writeOf'[id] = w
    BY <1>1, <1>4
  <2>6. \A c \in Clients, j \in Ids : Decides(c, j)' <=> Decides(c, j)
    BY <1>1 DEF Decides
  <2> QED BY <1>1, <1>6, <1>7, <1>13, <2>1, <2>2, <2>4, <2>5, <2>6 DEF IInv, EffectsInv
<1>16. ResourcesInv'
  BY <1>1, <1>4 DEF IInv, ResourcesInv, ghVars, Writes
<1>17. DependantsInv'
  BY <1>1, Frames DEF IInv, ghVars
<1>18. NumbersInv'
  <2>1. actions'[id].state = "pending" /\ writeOf'[id] = w
    BY <1>1, <1>4
  <2>2. \A v \in GitHubWrites : v # w => session'[v] = session[v]
    BY <1>4 DEF Writes
  <2>3. \A c \in Clients, j \in Ids : Decides(c, j)' <=> Decides(c, j)
    BY <1>1 DEF Decides
  <2> QED BY <1>1, <1>6, <1>7, <1>13, <2>1, <2>2, <2>3 DEF IInv, NumbersInv, ghVars
<1>19. OpenInv'
  <2>1. w \in GitHubWrites => live[w] = "staged"
    BY <1>1 DEF IInv, ResourcesInv
  <2>2. \A v : About(v) \subseteq About(v)'
    BY <1>6, <1>7 DEF About
  <2>3. \A j \in Filed : Settled(j) => Settled(j)'
    BY <1>1, <1>7, <2>2 DEF Settled, Decides, ghVars
  <2>4. Settled(id)'
    BY <1>1, <1>4, <2>1 DEF Settled, ghVars
  <2>5. \A c \in Clients, j \in Ids : Decides(c, j)' <=> Decides(c, j)
    BY <1>1 DEF Decides
  <2> QED BY <1>1, <1>6, <1>7, <1>13, <2>3, <2>4, <2>5 DEF IInv, OpenInv, ghVars
<1> QED BY <1>9, <1>10, <1>12, <1>14, <1>15, <1>16, <1>17, <1>18, <1>19 DEF IInv

-----------------------------------------------------------------------------
(* Users decide                                                              *)

LEMMA DecideKeeps ==
  ASSUME IInv, NEW c \in Clients, NEW op \in {"approve", "reject"}, NEW id \in Ids,
         Decide(c, op, id)
  PROVE  IInv'
<1>1. /\ ops[c].pc = "idle" /\ actions[id].state = "pending"
      /\ ops' = [ops EXCEPT ![c] = [op |-> op, id |-> id, pc |-> "calling"]]
      /\ UNCHANGED <<actions, nextActionId, session, writeOf, answer>> /\ UNCHANGED <<ghVars, haVars>>
      /\ contested' = (IF CallsOn(id) = {} THEN contested ELSE contested \cup {id})
      /\ early' = (IF session[writeOf[id]] = "filed" THEN early \cup {writeOf[id]} ELSE early)
  BY DEF Decide, Q!Decide, Q!Pending, ghVars, haVars
<1>2. id \in Filed
  BY <1>1 DEF IInv, PartsTyped, QueueTyped, Q!NoRecord, WritesAreFiledOnce, Filed
<1>3. Filed' = Filed /\ \A v : About(v)' = About(v)
  BY <1>1 DEF Filed, About
<1>4. [op |-> op, id |-> id, pc |-> "calling"] \in Q!Op
  BY DEF Q!Op, Q!Ids, Ids
<1>5. \A d \in Clients : ops'[d] = IF d = c THEN [op |-> op, id |-> id, pc |-> "calling"] ELSE ops[d]
  BY <1>1 DEF IInv, PartsTyped, QueueTyped
<1>6. \A j : \A d \in Clients : Decides(d, j)' <=> (d = c /\ j = id) \/ Decides(d, j)
  BY <1>1, <1>5 DEF Decides
<1>7. ghCall[c] = G!NoCall /\ haCall[c] = H!NoCall /\ answer[c] = "none"
  BY <1>1 DEF IInv, CallsInv, CallInv
<1>8. contested \subseteq contested' /\ contested' \subseteq contested \cup {id}
      /\ (id \notin contested' => \A d \in Clients : ~Decides(d, id))
  BY <1>1 DEF CallsOn, Decides
<1>9. PartsTyped'
  <2>1. QueueTyped'
    BY <1>1, <1>4 DEF IInv, PartsTyped, QueueTyped
  <2> QED BY <1>1, <1>8, <2>1 DEF IInv, PartsTyped, G!TypeOK, H!TypeOK, ghVars, haVars
<1>10. WritesAreFiledOnce'
  BY <1>1, Frames DEF IInv
<1>11. CallsInv'
  BY <1>1, <1>2, <1>3, <1>5, <1>7 DEF IInv, CallsInv, CallInv, WriteOf, ghVars, haVars
<1>12. DecidedOnce'
  BY <1>1, <1>3, <1>6, <1>8 DEF IInv, DecidedOnce
<1>13. EffectsInv'
  <2>1. \A d \in Clients : Carried(d)' <=> (d # c /\ Carried(d))
    BY <1>1, <1>5, <1>7, Nothings DEF Carried, ghVars, haVars
  <2>2. /\ \A v : Effects(v)' = Effects(v)
        /\ \A d \in Clients : d # c => WriteOf(d)' = WriteOf(d)
    BY <1>1, <1>5 DEF Effects, WriteOf, ghVars, haVars
  <2>3. ~Carried(c)
    BY <1>7, Nothings DEF Carried
  <2> QED BY <1>1, <1>3, <1>6, <1>8, <2>1, <2>2, <2>3 DEF IInv, EffectsInv
<1>14. ResourcesInv' /\ DependantsInv'
  BY <1>1, Frames DEF IInv, ghVars
<1>15. NumbersInv'
  <2>1. \A d \in Clients : d # c => ops'[d] = ops[d]
    BY <1>5
  <2>2. early \subseteq early' /\ (session[writeOf[id]] = "filed" => writeOf[id] \in early')
    BY <1>1
  <2> QED BY <1>1, <1>3, <1>6, <1>7, <1>8, <2>1, <2>2 DEF IInv, NumbersInv, ghVars
<1>16. OpenInv'
  <2>1. \A j \in Filed : Settled(j) => Settled(j)'
    BY <1>1, <1>3, <1>6, <1>8 DEF Settled, ghVars
  <2> QED BY <1>1, <1>3, <1>6, <1>7, <1>8, <2>1 DEF IInv, OpenInv, ghVars
<1> QED BY <1>9, <1>10, <1>11, <1>12, <1>13, <1>14, <1>15, <1>16 DEF IInv

\* A call to GitHub or to Home Assistant begins: nothing is carried out yet.
LEMMA ApplyStartsKeeps ==
  ASSUME IInv, NEW c \in Clients, ApplyStarts(c)
  PROVE  IInv'
<1> PICK w : w = WriteOf(c)
  OBVIOUS
<1>1. /\ ops[c].pc = "calling" /\ ops[c].op = "approve" /\ answer[c] = "none"
      /\ UNCHANGED <<actions, nextActionId, ops, session, writeOf, answer, contested, early>>
      /\ UNCHANGED <<live, retired, provisional, handed, posted, pendingRows, appliedRows, executed>>
  BY DEF ApplyStarts, Asks, Served, OfGitHub, OfHome, G!ApplyStarts, H!ApplyStarts,
         queueVars, ghVars, haVars
<1>2. /\ QueueTyped' /\ WritesAreFiledOnce' /\ DecidedOnce' /\ ResourcesInv' /\ NumbersInv'
  BY <1>1, Frames DEF IInv, PartsTyped, QueueTyped
<1>3. Filed' = Filed /\ \A v : About(v)' = About(v)
  BY <1>1 DEF Filed, About
<1>4. \A j \in Filed : Settled(j) => Settled(j)'
  BY <1>1, <1>3 DEF Settled, Decides
<1>5. ASSUME \A d \in Clients : Carried(d)' <=> Carried(d) PROVE EffectsInv'
  BY <1>1, <1>3, <1>5 DEF IInv, EffectsInv, Decides, Effects, WriteOf
<1>6. CASE w \in GitHubWrites
  <2>1. /\ ghCall[c] = G!NoCall /\ ghCall' = [ghCall EXCEPT ![c] = [pc |-> "sent", write |-> w]]
        /\ live[w] # "none" /\ (On[w] # Nobody => provisional[On[w]] = "real") /\ haCall' = haCall
    BY <1>6, WritesAssumption DEF ApplyStarts, OfGitHub, OfHome, G!ApplyStarts, G!Applies,
       G!Undecided,
                haVars, IInv, WritesAssumption
  <2>2. /\ [pc |-> "sent", write |-> w] # G!NoCall
        /\ \A d \in Clients : ghCall'[d] = IF d = c THEN [pc |-> "sent", write |-> w] ELSE ghCall[d]
    BY <2>1, Nothings DEF IInv, PartsTyped, G!TypeOK
  <2>3. haCall[c] = H!NoCall
    BY <1>6, WritesAssumption DEF IInv, CallsInv, CallInv, WritesAssumption
  <2>4. PartsTyped'
    BY <1>1, <1>2, <1>6, <2>1 DEF IInv, PartsTyped, G!TypeOK, H!TypeOK
  <2>5. CallsInv'
    BY <1>1, <1>3, <1>6, <2>1, <2>2, <2>3 DEF IInv, CallsInv, CallInv, WriteOf
  <2>6. EffectsInv'
    BY <1>1, <1>5, <2>1, <2>2, Nothings DEF Carried
  <2>7. DependantsInv'
    <3>1. On[w] # Nobody => On[w] \in handed
      BY <1>1, <1>6, OneCall DEF IInv, WritesAreFiledOnce, ResourcesInv
    <3> QED BY <1>1, <2>1, <2>2, <3>1 DEF IInv, DependantsInv
  <2>8. OpenInv'
    <3>1. \A id : Decides(c, id) => writeOf[id] = w
      BY DEF Decides, WriteOf
    <3> QED BY <1>1, <1>3, <1>4, <2>1, <2>2, <3>1 DEF IInv, OpenInv, Decides
  <2> QED BY <1>2, <2>4, <2>5, <2>6, <2>7, <2>8 DEF IInv
<1>7. CASE w \notin GitHubWrites
  <2>1. /\ haCall[c] = H!NoCall /\ haCall' = [haCall EXCEPT ![c] = [pc |-> "sent", write |-> w]]
        /\ w \in HomeWrites /\ ghCall' = ghCall
    BY <1>7 DEF ApplyStarts, OfGitHub, OfHome, H!ApplyStarts, ghVars
  <2>2. /\ [pc |-> "sent", write |-> w] # H!NoCall
        /\ \A d \in Clients : haCall'[d] = IF d = c THEN [pc |-> "sent", write |-> w] ELSE haCall[d]
    BY <2>1, Nothings DEF IInv, PartsTyped, H!TypeOK
  <2>3. ghCall[c] = G!NoCall
    BY <1>7 DEF IInv, CallsInv, CallInv
  <2>4. PartsTyped'
    BY <1>1, <1>2, <2>1 DEF IInv, PartsTyped, G!TypeOK, H!TypeOK
  <2>5. CallsInv'
    BY <1>1, <1>3, <2>1, <2>2, <2>3 DEF IInv, CallsInv, CallInv, WriteOf
  <2>6. EffectsInv'
    BY <1>1, <1>5, <2>1, <2>2, Nothings DEF Carried
  <2>7. DependantsInv' /\ OpenInv'
    BY <1>1, <2>1, Frames DEF IInv
  <2> QED BY <1>2, <2>4, <2>5, <2>6, <2>7 DEF IInv
<1> QED BY <1>6, <1>7

\* The gatekeeper throws at once.
LEMMA ApplyRefusesKeeps ==
  ASSUME IInv, NEW c \in Clients, ApplyRefuses(c)
  PROVE  IInv'
<1>1. /\ ops[c].pc = "calling" /\ answer[c] = "none" /\ answer' = [answer EXCEPT ![c] = "error"]
      /\ ghCall[c].pc = "idle" /\ haCall[c].pc = "idle"
      /\ UNCHANGED <<actions, nextActionId, ops, session, writeOf, contested, early>>
      /\ UNCHANGED <<ghVars, haVars>>
  BY DEF ApplyRefuses, Asks, Answers, Served, queueVars
<1>2. /\ WritesAreFiledOnce' /\ DecidedOnce' /\ ResourcesInv' /\ DependantsInv'
  BY <1>1, Frames DEF IInv, ghVars
<1>3. PartsTyped'
  BY <1>1 DEF IInv, PartsTyped, QueueTyped, G!TypeOK, H!TypeOK, ghVars, haVars
<1>4. \A d \in Clients : answer'[d] = IF d = c THEN "error" ELSE answer[d]
  BY <1>1 DEF IInv, PartsTyped
<1>5. Filed' = Filed /\ \A v : About(v)' = About(v)
  BY <1>1 DEF Filed, About
<1>6. CallsInv'
  BY <1>1, <1>4, <1>5 DEF IInv, CallsInv, CallInv, WriteOf, ghVars, haVars
<1>7. EffectsInv'
  <2>1. \A d \in Clients : Carried(d)' <=> Carried(d)
    BY <1>1, <1>4 DEF Carried, ghVars, haVars
  <2> QED BY <1>1, <1>5, <2>1 DEF IInv, EffectsInv, Decides, Effects, WriteOf, ghVars, haVars
<1>8. NumbersInv'
  BY <1>1, <1>4, <1>5 DEF IInv, NumbersInv, Decides, ghVars
<1>9. OpenInv'
  BY <1>1, <1>4, <1>5 DEF IInv, OpenInv, Settled, Decides, ghVars
<1> QED BY <1>2, <1>3, <1>6, <1>7, <1>8, <1>9 DEF IInv

\* GitHub or Home Assistant carries the write out: for an uncontested record, once.
LEMMA ExecutesKeeps ==
  ASSUME IInv, NEW c \in Clients, Executes(c)
  PROVE  IInv'
<1> PICK id : id = ops[c].id
  OBVIOUS
<1>1. /\ UNCHANGED <<actions, nextActionId, ops, session, writeOf, answer, contested, early>>
      /\ UNCHANGED <<live, retired, provisional, handed, pendingRows, appliedRows>>
  BY DEF Executes, Served, OfGitHub, OfHome, G!GitHubPosts, H!HomeExecutes,
         queueVars, ghVars, haVars
<1>2. QueueTyped' /\ WritesAreFiledOnce' /\ DecidedOnce' /\ NumbersInv'
  BY <1>1, Frames DEF IInv, PartsTyped, QueueTyped
<1>3. Filed' = Filed /\ \A v : About(v)' = About(v)
  BY <1>1 DEF Filed, About
<1>4. \A n \in 0..2 : G!OneMore(n) \in 0..2 /\ G!OneMore(n) > 0 /\ (n = 0 => G!OneMore(n) = 1)
                      /\ H!OneMore(n) = G!OneMore(n)
  BY DEF G!OneMore, H!OneMore
\* What it takes of either gatekeeper
<1>5. ASSUME NEW w \in Writes, w = WriteOf(c), ops[c].pc = "calling", ~Carried(c), Carried(c)',
             \A d \in Clients : d # c => (Carried(d)' <=> Carried(d)),
             Effects(w) = 0 => Effects(w)' = 1, Effects(w)' > 0,
             \A v \in Writes : v # w => Effects(v)' = Effects(v)
      PROVE  EffectsInv'
  <2>1. /\ id \in Filed /\ w = writeOf[id] /\ Decides(c, id)
        /\ \A j \in Filed : writeOf[j] = w => j = id
        /\ id \notin contested => actions[id].state = "pending" /\ Effects(w) = 0
    BY <1>5, OneCall
  <2>2. /\ \A j : \A d \in Clients : Decides(d, j)' <=> Decides(d, j)
        /\ \A d \in Clients : WriteOf(d)' = WriteOf(d)
        /\ \A j \in Filed : writeOf[j] \in Writes
    BY <1>1 DEF Decides, WriteOf, Filed, IInv, PartsTyped
  <2>3. \A v \in Writes : Effects(v) > 0 => Effects(v)' > 0
    <3> SUFFICES ASSUME NEW v \in Writes, Effects(v) > 0 PROVE Effects(v)' > 0
      OBVIOUS
    <3>1. CASE v = w
      BY <1>5, <3>1
    <3>2. CASE v # w
      BY <1>5, <3>2
    <3> QED BY <3>1, <3>2
  <2>4. \A d \in Clients : Carried(d) => WriteOf(d) \in Writes
    <3>1. \A d \in Clients : Carried(d) => ops[d].pc = "calling"
      BY Nothings DEF IInv, CallsInv, CallInv, Carried
    <3> QED BY <3>1, OneCall
  <2>5. \A v \in Writes : (\A j \in Filed : writeOf[j] # v) => Effects(v)' = 0
    BY <1>5, <2>1 DEF IInv, EffectsInv
  <2>6. ASSUME NEW d \in Clients, Carried(d)', NEW v, v = WriteOf(d) PROVE Effects(v)' > 0
    <3>1. CASE d = c
      BY <1>5, <2>6, <3>1
    <3>2. CASE d # c
      <4>1. v \in Writes /\ Effects(v) > 0
        BY <1>5, <2>4, <2>6, <3>2 DEF IInv, EffectsInv
      <4> QED BY <2>3, <4>1
    <3> QED BY <3>1, <3>2
  <2>7. \A j \in Filed, v \in Writes : v = writeOf[j] /\ actions[j].state = "approved" => Effects(v)' > 0
    BY <2>3 DEF IInv, EffectsInv
  <2>8. ASSUME NEW j \in Filed \ contested, NEW v \in Writes, v = writeOf[j]
        PROVE  Effects(v)' =
                 IF actions[j].state = "approved" \/ \E d \in Clients : Decides(d, j) /\ Carried(d)' THEN 1 ELSE 0
    <3>1. CASE j = id
      BY <1>5, <2>1, <2>8, <3>1
    <3>2. CASE j # id
      <4>1. ~Decides(c, j)
        BY <3>2 DEF Decides
      <4>2. v # w
        BY <2>1, <2>8, <3>2
      <4>3. Effects(v)' = Effects(v)
        BY <1>5, <4>2
      <4>4. (\E d \in Clients : Decides(d, j) /\ Carried(d)') <=> (\E d \in Clients : Decides(d, j) /\ Carried(d))
        BY <1>5, <4>1
      <4> QED BY <2>8, <4>3, <4>4 DEF IInv, EffectsInv
    <3> QED BY <3>1, <3>2
  <2>9. \A d \in Clients : Carried(d)' => Effects(WriteOf(d))' > 0
    BY <2>2, <2>6
  <2>10. \A j \in Filed \ contested : Effects(writeOf[j])' =
           IF actions[j].state = "approved" \/ \E d \in Clients : Decides(d, j) /\ Carried(d)' THEN 1 ELSE 0
    BY <1>1, <2>2, <2>8
  <2>11. \A j \in Filed : actions[j].state = "approved" => Effects(writeOf[j])' > 0
    BY <1>1, <2>2, <2>7
  <2> QED BY <1>1, <1>3, <2>2, <2>5, <2>9, <2>10, <2>11 DEF EffectsInv
<1>6. CASE OfGitHub(G!GitHubPosts(c))
  <2> PICK w : w = ghCall[c].write
    OBVIOUS
  <2> DEFINE r == [ghCall[c] EXCEPT !.pc = "done"]
  <2>1. /\ ghCall[c].pc = "sent" /\ ghCall' = [ghCall EXCEPT ![c] = r]
        /\ posted' = [posted EXCEPT ![w] = G!OneMore(posted[w])]
        /\ UNCHANGED <<haCall, executed>>
    BY <1>6 DEF OfGitHub, G!GitHubPosts, haVars
  <2>2. /\ ghCall[c] # G!NoCall /\ haCall[c] = H!NoCall /\ answer[c] = "none" /\ Decides(c, id)
        /\ w = WriteOf(c) /\ w \in GitHubWrites /\ w \in Writes /\ w = writeOf[id] /\ id \in Filed
        /\ ops[c].pc = "calling" /\ ops[c].op = "approve"
    BY <2>1, Nothings DEF IInv, CallsInv, CallInv, Writes, WriteOf, Decides
  <2>3. r.pc = "done" /\ r.write = w /\ r # G!NoCall
        /\ r \in [pc : {"idle", "sent", "done"}, write : GitHubWrites \cup {Nobody}]
    BY <2>2, Nothings DEF IInv, PartsTyped, G!TypeOK
  <2> HIDE DEF r
  <2>4. /\ \A d \in Clients : ghCall'[d] = IF d = c THEN r ELSE ghCall[d]
        /\ \A v \in GitHubWrites : posted'[v] = IF v = w THEN G!OneMore(posted[w]) ELSE posted[v]
        /\ posted[w] \in 0..2
    BY <2>1, <2>2 DEF IInv, PartsTyped, G!TypeOK
  <2>5. PartsTyped'
    BY <1>1, <1>2, <1>4, <2>1, <2>3, <2>4 DEF IInv, PartsTyped, G!TypeOK, H!TypeOK
  <2>6. CallsInv'
    BY <1>1, <1>3, <2>1, <2>2, <2>3, <2>4 DEF IInv, CallsInv, CallInv, WriteOf
  <2>7. EffectsInv'
    <3>1. /\ ~Carried(c) /\ Carried(c)'
          /\ \A d \in Clients : d # c => (Carried(d)' <=> Carried(d))
      BY <1>1, <2>1, <2>2, <2>3, <2>4, Nothings DEF Carried
    <3>2. /\ Effects(w) = 0 => Effects(w)' = 1
          /\ Effects(w)' > 0
          /\ \A v \in Writes : v # w => Effects(v)' = Effects(v)
      BY <1>4, <2>1, <2>2, <2>4 DEF Effects
    <3> QED BY <1>5, <2>2, <3>1, <3>2
  <2>8. \A v \in GitHubWrites : posted[v] > 0 => posted'[v] > 0
    BY <1>4, <2>4
  <2>9. ResourcesInv'
    BY <1>1, <2>8 DEF IInv, ResourcesInv
  <2>10. DependantsInv'
    <3>1. On[w] # Nobody => On[w] \in handed /\ provisional[On[w]] = "real"
      BY <2>2 DEF IInv, DependantsInv
    <3>2. \A v \in GitHubWrites : Created(v) /\ On[w] = Creates[v] => posted'[v] > 0
      BY <2>8, <3>1 DEF IInv, ResourcesInv, Created
    <3> QED BY <1>1, <2>2, <2>3, <2>4, <2>8, <3>1, <3>2 DEF IInv, DependantsInv
  <2>11. OpenInv'
    <3>1. \A j \in Filed : Settled(j) => Settled(j)'
      BY <1>1, <1>3 DEF Settled, Decides
    <3> QED BY <1>1, <1>3, <2>2, <2>4, <3>1 DEF IInv, OpenInv, Decides
  <2> QED BY <1>2, <2>5, <2>6, <2>7, <2>9, <2>10, <2>11 DEF IInv
<1>7. CASE OfHome(H!HomeExecutes(c))
  <2> PICK w : w = haCall[c].write
    OBVIOUS
  <2> DEFINE r == [haCall[c] EXCEPT !.pc = "done"]
  <2>1. /\ haCall[c].pc = "sent" /\ haCall' = [haCall EXCEPT ![c] = r]
        /\ executed' = [executed EXCEPT ![w] = H!OneMore(executed[w])]
        /\ UNCHANGED <<ghCall, posted>>
    BY <1>7 DEF OfHome, H!HomeExecutes, ghVars
  <2>2. /\ haCall[c] # H!NoCall /\ ghCall[c] = G!NoCall /\ answer[c] = "none"
        /\ w = WriteOf(c) /\ w \in HomeWrites /\ w \in Writes /\ w \notin GitHubWrites
        /\ ops[c].pc = "calling" /\ ops[c].op = "approve"
    BY <2>1, Nothings, WritesAssumption DEF IInv, CallsInv, CallInv, Writes, WritesAssumption
  <2>3. r.pc = "done" /\ r.write = w /\ r # H!NoCall
        /\ r \in [pc : {"idle", "sent", "done"}, write : HomeWrites \cup {Nobody}]
    BY <2>2, Nothings DEF IInv, PartsTyped, H!TypeOK
  <2> HIDE DEF r
  <2>4. /\ \A d \in Clients : haCall'[d] = IF d = c THEN r ELSE haCall[d]
        /\ \A v \in HomeWrites : executed'[v] = IF v = w THEN H!OneMore(executed[w]) ELSE executed[v]
        /\ executed[w] \in 0..2
    BY <2>1, <2>2 DEF IInv, PartsTyped, H!TypeOK
  <2>5. PartsTyped'
    <3>1. H!OneMore(executed[w]) \in 0..2
      BY <1>4, <2>4
    <3>2. executed' \in [HomeWrites -> 0..2]
      BY <2>1, <3>1 DEF IInv, PartsTyped, H!TypeOK
    <3> QED BY <1>1, <1>2, <2>1, <2>3, <3>2 DEF IInv, PartsTyped, G!TypeOK, H!TypeOK
  <2>6. CallsInv'
    BY <1>1, <1>3, <2>1, <2>2, <2>3, <2>4 DEF IInv, CallsInv, CallInv, WriteOf
  <2>7. EffectsInv'
    <3>1. /\ ~Carried(c) /\ Carried(c)'
          /\ \A d \in Clients : d # c => (Carried(d)' <=> Carried(d))
      BY <1>1, <2>1, <2>2, <2>3, <2>4, Nothings DEF Carried
    <3>2. /\ Effects(w) = 0 => Effects(w)' = 1
          /\ Effects(w)' > 0
          /\ \A v \in Writes : v # w => Effects(v)' = Effects(v)
      BY <1>4, <2>1, <2>2, <2>4 DEF Effects, Writes
    <3> QED BY <1>5, <2>2, <3>1, <3>2
  <2>8. ResourcesInv' /\ DependantsInv' /\ OpenInv'
    BY <1>1, <2>1, Frames DEF IInv
  <2> QED BY <1>2, <2>5, <2>6, <2>7, <2>8 DEF IInv
<1> QED BY <1>6, <1>7 DEF Executes

\* The service has answered.  What was created has its number now.
LEMMA ApplyEndsKeeps ==
  ASSUME IInv, NEW c \in Clients, ApplyEnds(c)
  PROVE  IInv'
<1> PICK id : id = ops[c].id
  OBVIOUS
<1>1. /\ answer' = [answer EXCEPT ![c] = "ok"]
      /\ UNCHANGED <<actions, nextActionId, ops, session, writeOf, contested, early>>
      /\ UNCHANGED <<handed, posted, executed>>
  BY DEF ApplyEnds, Served, Answers, OfGitHub, OfHome, G!ApplyEnds, H!ApplyEnds,
         queueVars, ghVars, haVars
<1>2. QueueTyped' /\ WritesAreFiledOnce' /\ DecidedOnce'
  BY <1>1, Frames DEF IInv, PartsTyped, QueueTyped
<1>3. Filed' = Filed /\ \A v : About(v)' = About(v)
  BY <1>1 DEF Filed, About
<1>4. \A d \in Clients : answer'[d] = IF d = c THEN "ok" ELSE answer[d]
  BY <1>1 DEF IInv, PartsTyped
<1>5. ASSUME \A d \in Clients : Carried(d)' <=> Carried(d) PROVE EffectsInv'
  BY <1>1, <1>3, <1>5 DEF IInv, EffectsInv, Decides, Effects, WriteOf
<1>6. CASE OfGitHub(G!ApplyEnds(c))
  <2> PICK w : w = ghCall[c].write
    OBVIOUS
  <2>1. /\ ghCall[c].pc = "done" /\ ghCall' = [ghCall EXCEPT ![c] = G!NoCall]
        /\ live' = [live EXCEPT ![w] = "none"] /\ retired' = [retired EXCEPT ![w] = "approved"]
        /\ provisional' = [r \in G!Resources |-> IF r = Creates[w] THEN "real" ELSE provisional[r]]
        /\ UNCHANGED <<haCall, pendingRows, appliedRows>>
    BY <1>6 DEF OfGitHub, G!ApplyEnds, haVars
  <2>2. /\ ghCall[c] # G!NoCall /\ haCall[c] = H!NoCall /\ answer[c] = "none" /\ Decides(c, id)
        /\ w = WriteOf(c) /\ w \in GitHubWrites /\ w \in Writes /\ w = writeOf[id] /\ id \in Filed
        /\ ops[c].pc = "calling" /\ ops[c].op = "approve"
        /\ \A j \in Filed : writeOf[j] = w => j = id
        /\ id \notin contested => \A d \in Clients : Decides(d, id) => d = c
    BY <2>1, Nothings, OneCall DEF IInv, CallsInv, CallInv, Writes, WriteOf, Decides
  <2>3. /\ \A d \in Clients : ghCall'[d] = IF d = c THEN G!NoCall ELSE ghCall[d]
        /\ \A v \in GitHubWrites : live'[v] = IF v = w THEN "none" ELSE live[v]
        /\ \A v \in GitHubWrites : Created(v) =>
             /\ Creates[v] \in G!Resources
             /\ provisional'[Creates[v]] = IF v = w THEN "real" ELSE provisional[Creates[v]]
    BY <2>1, <2>2, WritesAssumption DEF IInv, PartsTyped, G!TypeOK, G!Resources, Created,
       WritesAssumption
  <2>4. PartsTyped'
    <3>1. G!NoCall \in [pc : {"idle", "sent", "done"}, write : GitHubWrites \cup {Nobody}]
      BY DEF G!NoCall
    <3> QED BY <1>1, <1>2, <2>1, <3>1 DEF IInv, PartsTyped, G!TypeOK, H!TypeOK
  <2>5. CallsInv'
    BY <1>1, <1>3, <1>4, <2>1, <2>2, <2>3 DEF IInv, CallsInv, CallInv, WriteOf
  <2>6. EffectsInv'
    BY <1>1, <1>4, <1>5, <2>1, <2>2, <2>3, Nothings DEF Carried
  <2>7. posted[w] > 0
    BY <2>1, <2>2 DEF IInv, EffectsInv, Carried, Effects
  <2>8. ResourcesInv'
    <3>1. session[w] # "staged"
      BY <2>2 DEF IInv, WritesAreFiledOnce
    <3> QED BY <1>1, <2>3, <2>7, <3>1 DEF IInv, ResourcesInv
  <2>9. DependantsInv'
    <3>1. \A r \in G!Resources : provisional[r] = "real" => provisional'[r] = "real"
      BY <2>1
    <3>2. handed \subseteq G!Resources
      BY DEF IInv, PartsTyped, G!TypeOK
    <3> QED BY <1>1, <2>3, <3>1, <3>2 DEF IInv, DependantsInv
  <2>10. NumbersInv'
    BY <1>1, <1>3, <1>4, <2>2, <2>3 DEF IInv, NumbersInv, Decides, Created
  <2>11. OpenInv'
    <3>1. ASSUME NEW d \in Clients, NEW j \in Filed \ contested, Decides(d, j), ghCall'[d] # G!NoCall
          PROVE  live'[writeOf[j]] # "none"
      <4>1. d # c /\ ghCall[d] # G!NoCall
        BY <2>3, <3>1
      <4>2. writeOf[j] # w
        BY <2>2, <3>1, <4>1
      <4>3. writeOf[j] \in GitHubWrites /\ live[writeOf[j]] # "none"
        BY <3>1, <4>1, PostedIsItsWrite DEF IInv, OpenInv
      <4> QED BY <2>3, <4>2, <4>3
    <3>2. ASSUME NEW j \in Filed \ contested, NEW v \in GitHubWrites, v = writeOf[j], v # w,
                 On[v] # Nobody, provisional[On[v]] = "absent", provisional'[On[v]] # "absent"
          PROVE  About(v) \cap contested # {}
      <4>1. On[v] \in handed /\ On[v] \in G!Resources
        BY <3>2 DEF IInv, WritesAreFiledOnce, ResourcesInv, PartsTyped, G!TypeOK
      <4>2. On[v] = Creates[w] /\ Created(w)
        BY <2>1, <3>2, <4>1 DEF Created
      <4>3. id \in About(v)
        BY <2>2, <4>2 DEF About
      <4>4. id \notin contested => live[w] # "none"
        BY <2>2 DEF IInv, OpenInv
      <4> QED BY <2>2, <3>2, <4>1, <4>2, <4>3, <4>4 DEF IInv, ResourcesInv
    <3>3. ASSUME NEW j \in Filed \ contested PROVE Settled(j)'
      <4>1. CASE writeOf[j] = w
        BY <1>1, <1>4, <2>2, <4>1 DEF Settled, Decides
      <4>2. CASE writeOf[j] # w
        <5>1. \A v \in GitHubWrites : v = writeOf[j] => live'[v] = live[v]
          BY <2>3, <4>2
        <5>2. \A d \in Clients : Decides(d, j)' <=> Decides(d, j)
          BY <1>1 DEF Decides
        <5>3. \A d \in Clients : answer[d] = "ok" => answer'[d] = "ok"
          BY <1>4
        <5> QED BY <1>1, <1>3, <3>2, <3>3, <4>2, <5>1, <5>2, <5>3 DEF IInv, OpenInv, Settled
      <4> QED BY <4>1, <4>2
    <3> QED BY <1>1, <1>3, <3>1, <3>3 DEF OpenInv, Decides
  <2> QED BY <1>2, <2>4, <2>5, <2>6, <2>8, <2>9, <2>10, <2>11 DEF IInv
<1>7. CASE OfHome(H!ApplyEnds(c))
  <2> PICK w : w = haCall[c].write
    OBVIOUS
  <2>1. /\ haCall[c].pc = "done" /\ haCall' = [haCall EXCEPT ![c] = H!NoCall]
        /\ appliedRows' = appliedRows \cup {w} /\ pendingRows' = pendingRows \ {w}
        /\ UNCHANGED <<live, retired, provisional, ghCall>>
    BY <1>7 DEF OfHome, H!ApplyEnds, ghVars
  <2>2. /\ haCall[c] # H!NoCall /\ ghCall[c] = G!NoCall /\ answer[c] = "none"
        /\ w = WriteOf(c) /\ w \in HomeWrites /\ w \notin GitHubWrites
        /\ ops[c].pc = "calling" /\ ops[c].op = "approve"
    BY <2>1, Nothings, WritesAssumption DEF IInv, CallsInv, CallInv, WritesAssumption
  <2>3. \A d \in Clients : haCall'[d] = IF d = c THEN H!NoCall ELSE haCall[d]
    BY <2>1 DEF IInv, PartsTyped, H!TypeOK
  <2>4. PartsTyped'
    <3>1. H!NoCall \in [pc : {"idle", "sent", "done"}, write : HomeWrites \cup {Nobody}]
      BY DEF H!NoCall
    <3> QED BY <1>1, <1>2, <2>1, <2>2, <3>1 DEF IInv, PartsTyped, G!TypeOK, H!TypeOK
  <2>5. CallsInv'
    BY <1>1, <1>3, <1>4, <2>1, <2>2, <2>3 DEF IInv, CallsInv, CallInv, WriteOf
  <2>6. EffectsInv'
    BY <1>1, <1>4, <1>5, <2>1, <2>2, <2>3, Nothings DEF Carried
  <2>7. ResourcesInv' /\ DependantsInv'
    BY <1>1, <2>1, Frames DEF IInv
  <2>8. \A j : Decides(c, j) => writeOf[j] \notin GitHubWrites
    BY <2>2 DEF Decides, WriteOf
  <2>9. NumbersInv'
    BY <1>1, <1>3, <1>4, <2>1, <2>8 DEF IInv, NumbersInv, Decides
  <2>10. OpenInv'
    BY <1>1, <1>3, <1>4, <2>1 DEF IInv, OpenInv, Settled, Decides
  <2> QED BY <1>2, <2>4, <2>5, <2>6, <2>7, <2>9, <2>10 DEF IInv
<1> QED BY <1>6, <1>7 DEF ApplyEnds

\* The service throws, whether or not it has carried the write out.
LEMMA ApplyThrowsKeeps ==
  ASSUME IInv, NEW c \in Clients, ApplyThrows(c)
  PROVE  IInv'
<1> PICK id : id = ops[c].id
  OBVIOUS
<1>1. /\ answer' = [answer EXCEPT ![c] = "error"] /\ contested' = contested \cup {id}
      /\ UNCHANGED <<actions, nextActionId, ops, session, writeOf, early>>
      /\ UNCHANGED <<live, retired, provisional, handed, posted, pendingRows, appliedRows, executed>>
      /\ \/ ghCall[c].pc \in {"sent", "done"} /\ ghCall' = [ghCall EXCEPT ![c] = G!NoCall] /\ haCall' = haCall
         \/ haCall[c].pc \in {"sent", "done"} /\ haCall' = [haCall EXCEPT ![c] = H!NoCall] /\ ghCall' = ghCall
  BY DEF ApplyThrows, Served, Answers, OfGitHub, OfHome, G!ApplyThrows, H!ApplyThrows,
         queueVars, ghVars, haVars
<1>2. QueueTyped' /\ WritesAreFiledOnce' /\ ResourcesInv'
  BY <1>1, Frames DEF IInv, PartsTyped, QueueTyped
<1>3. Filed' = Filed /\ \A v : About(v)' = About(v)
  BY <1>1 DEF Filed, About
<1>4. /\ ops[c].pc = "calling" /\ answer[c] = "none" /\ Decides(c, id) /\ id \in Filed
      /\ ghCall[c] = G!NoCall \/ haCall[c] = H!NoCall
  BY <1>1, Nothings DEF IInv, CallsInv, CallInv, Decides
<1>5. /\ \A d \in Clients : answer'[d] = IF d = c THEN "error" ELSE answer[d]
      /\ \A d \in Clients : ghCall'[d] = IF d = c THEN G!NoCall ELSE ghCall[d]
      /\ \A d \in Clients : haCall'[d] = IF d = c THEN H!NoCall ELSE haCall[d]
  BY <1>1, <1>4, Nothings DEF IInv, PartsTyped, G!TypeOK, H!TypeOK
<1>6. PartsTyped'
  <2>1. /\ G!NoCall \in [pc : {"idle", "sent", "done"}, write : GitHubWrites \cup {Nobody}]
        /\ H!NoCall \in [pc : {"idle", "sent", "done"}, write : HomeWrites \cup {Nobody}]
    BY DEF G!NoCall, H!NoCall
  <2>2. id \in Ids
    BY <1>4 DEF Filed
  <2>3. ghCall' \in [Clients -> [pc : {"idle", "sent", "done"}, write : GitHubWrites \cup {Nobody}]]
    BY <1>1, <2>1 DEF IInv, PartsTyped, G!TypeOK
  <2>4. haCall' \in [Clients -> [pc : {"idle", "sent", "done"}, write : HomeWrites \cup {Nobody}]]
    BY <1>1, <2>1 DEF IInv, PartsTyped, H!TypeOK
  <2> QED BY <1>1, <1>2, <2>2, <2>3, <2>4 DEF IInv, PartsTyped, G!TypeOK, H!TypeOK
<1>7. CallsInv'
  BY <1>1, <1>3, <1>4, <1>5 DEF IInv, CallsInv, CallInv, WriteOf
<1>8. DecidedOnce'
  BY <1>1, <1>3 DEF IInv, DecidedOnce, Decides
<1>9. EffectsInv'
  <2>1. \A d \in Clients : Carried(d)' <=> (d # c /\ Carried(d))
    BY <1>1, <1>5, Nothings DEF Carried
  <2>2. \A j : j # id => ~Decides(c, j)
    BY DEF Decides
  <2> QED BY <1>1, <1>3, <2>1, <2>2 DEF IInv, EffectsInv, Decides, Effects, WriteOf
<1>10. DependantsInv'
  BY <1>1, <1>5 DEF IInv, DependantsInv
<1>11. NumbersInv'
  BY <1>1, <1>3, <1>5 DEF IInv, NumbersInv, Decides
<1>12. OpenInv'
  <2>1. \A j \in Filed : Settled(j) => Settled(j)'
    BY <1>1, <1>3, <1>4, <1>5 DEF Settled, Decides
  <2> QED BY <1>1, <1>3, <1>5, <2>1 DEF IInv, OpenInv, Decides
<1> QED BY <1>2, <1>6, <1>7, <1>8, <1>9, <1>10, <1>11, <1>12 DEF IInv

\* rejectAction(): what GitHub was to create is absent, and the writes about it
\* go with it; no call about it is under way, for it has no number.
LEMMA RejectAnswersKeeps ==
  ASSUME IInv, NEW c \in Clients, RejectAnswers(c)
  PROVE  IInv'
<1> PICK id : id = ops[c].id
  OBVIOUS
<1> PICK w : w = WriteOf(c)
  OBVIOUS
<1>1. /\ ops[c].pc = "calling" /\ ops[c].op = "reject" /\ answer[c] = "none"
      /\ UNCHANGED <<actions, nextActionId, ops, session, writeOf, contested, early>>
      /\ UNCHANGED <<handed, ghCall, haCall, posted, executed, appliedRows>>
      /\ \/ answer' = [answer EXCEPT ![c] = "ok"]
         \/ answer' = [answer EXCEPT ![c] = "error"]
  BY DEF RejectAnswers, Asks, Served, Answers, OfGitHub, OfHome, G!Reject,
         H!DeletePending, queueVars, ghVars, haVars
<1>2. QueueTyped' /\ WritesAreFiledOnce' /\ DecidedOnce'
  BY <1>1, Frames DEF IInv, PartsTyped, QueueTyped
<1>3. Filed' = Filed /\ \A v : About(v)' = About(v)
  BY <1>1 DEF Filed, About
<1>4. \A d \in Clients : d # c => answer'[d] = answer[d]
  BY <1>1 DEF IInv, PartsTyped
<1>5. CallsInv'
  <2>1. ghCall[c] = G!NoCall /\ haCall[c] = H!NoCall
    BY <1>1 DEF IInv, CallsInv, CallInv
  <2> QED BY <1>1, <1>3, <1>4, <2>1 DEF IInv, CallsInv, CallInv, WriteOf
<1>6. EffectsInv'
  <2>1. \A d \in Clients : Carried(d)' <=> Carried(d)
    BY <1>1, <1>4 DEF Carried
  <2> QED BY <1>1, <1>3, <2>1 DEF IInv, EffectsInv, Decides, Effects, WriteOf
<1>7. CASE UNCHANGED <<live, retired, provisional>>
  <2>1. pendingRows' \subseteq pendingRows
    BY <1>7 DEF RejectAnswers, OfGitHub, OfHome, G!Reject, H!DeletePending, ghVars, haVars
  <2>2. PartsTyped'
    BY <1>1, <1>2, <1>7, <2>1 DEF IInv, PartsTyped, G!TypeOK, H!TypeOK
  <2>3. ResourcesInv' /\ DependantsInv'
    BY <1>1, <1>7, Frames DEF IInv
  <2>4. NumbersInv'
    BY <1>1, <1>3, <1>4, <1>7 DEF IInv, NumbersInv, Decides
  <2>5. OpenInv'
    BY <1>1, <1>3, <1>4, <1>7 DEF IInv, OpenInv, Settled, Decides
  <2> QED BY <1>2, <1>5, <1>6, <2>2, <2>3, <2>4, <2>5 DEF IInv
<1>8. CASE w \in GitHubWrites /\ OfGitHub(G!Reject(w)) /\ Answers(c, "ok")
  <2>1. /\ live[w] # "none" /\ UNCHANGED pendingRows
        /\ live' = [d \in GitHubWrites |-> IF d \in G!Doomed(w) THEN "none" ELSE live[d]]
        /\ retired' = [d \in GitHubWrites |-> IF d \in G!Doomed(w) THEN "rejected" ELSE retired[d]]
        /\ provisional' = [r \in G!Resources |-> IF r = Creates[w] THEN "absent" ELSE provisional[r]]
        /\ answer'[c] = "ok"
    BY <1>8 DEF OfGitHub, G!Reject, G!Undecided, Answers, haVars, IInv, PartsTyped
  <2>2. /\ id \in Filed /\ Decides(c, id) /\ writeOf[id] = w
        /\ \A j \in Filed : writeOf[j] = w => j = id
        /\ id \notin contested => actions[id].state = "pending" /\ \A d \in Clients : Decides(d, id) => d = c
        /\ session[w] \in {"filed", "done"}
    BY <1>1, OneCall DEF IInv, WritesAreFiledOnce
  <2>3. ASSUME NEW v \in GitHubWrites, v # w, live'[v] # live[v]
        PROVE  Created(w) /\ On[v] = Creates[w] /\ live[v] = "pending" /\ live'[v] = "none" /\ ~Created(v)
    BY <1>8, <2>1, <2>3, WritesAssumption DEF G!Doomed, G!Dependants, Created, WritesAssumption
  <2>4. live'[w] = "none"
    BY <1>8, <2>1 DEF G!Doomed
  <2>5. \A v \in GitHubWrites : Created(v) =>
          /\ Creates[v] \in G!Resources
          /\ provisional'[Creates[v]] = IF v = w THEN "absent" ELSE provisional[Creates[v]]
    BY <1>8, <2>1, WritesAssumption DEF IInv, PartsTyped, G!TypeOK, G!Resources, Created,
       WritesAssumption
  <2>6. handed \subseteq G!Resources /\ (Created(w) /\ Creates[w] \in handed => provisional[Creates[w]] # "real")
    BY <1>8, <2>1 DEF IInv, PartsTyped, G!TypeOK, ResourcesInv
  <2>7. PartsTyped'
    BY <1>1, <1>2, <2>1 DEF IInv, PartsTyped, G!TypeOK, H!TypeOK
  <2>8. ResourcesInv'
    <3>1. \A v \in GitHubWrites : Created(v) /\ provisional'[Creates[v]] = "real" => posted'[v] > 0
      BY <1>1, <2>5 DEF IInv, ResourcesInv
    <3>2. ASSUME NEW v \in GitHubWrites, Created(v), Creates[v] \in handed'
          PROVE  session'[v] = "done" /\ (live'[v] # "none" <=> provisional'[Creates[v]] = "open")
      BY <1>1, <2>3, <2>4, <2>5, <3>2 DEF IInv, ResourcesInv
    <3>3. \A v \in GitHubWrites : session[v] = "staged" => live'[v] = "staged"
      BY <2>2, <2>3 DEF IInv, ResourcesInv
    <3> QED BY <1>1, <3>1, <3>2, <3>3 DEF IInv, ResourcesInv
  <2>9. DependantsInv'
    <3>1. \A r \in handed : provisional[r] = "real" => provisional'[r] = "real"
      BY <2>1, <2>6 DEF Created, G!Resources
    <3> QED BY <1>1, <3>1 DEF IInv, DependantsInv
  <2>10. NumbersInv'
    <3>1. ASSUME NEW j \in Filed \ contested, writeOf[j] \in GitHubWrites, Created(writeOf[j]),
                 \/ actions[j].state = "approved"
                 \/ \E d \in Clients : Decides(d, j) /\ ops[d].op = "approve" /\ answer'[d] = "ok"
          PROVE  writeOf[j] # w /\ provisional'[Creates[writeOf[j]]] = provisional[Creates[writeOf[j]]]
      BY <1>1, <2>2, <2>5, <3>1
    <3>2. \A d \in Clients : ops[d].op = "approve" => answer'[d] = answer[d]
      BY <1>1, <1>4
    <3> QED BY <1>1, <1>3, <3>1, <3>2 DEF IInv, NumbersInv, Decides
  <2>11. OpenInv'
    <3>1. ASSUME NEW d \in Clients, NEW j \in Filed \ contested, Decides(d, j), ghCall[d] # G!NoCall
          PROVE  live'[writeOf[j]] # "none"
      <4>1. /\ writeOf[j] \in GitHubWrites /\ ghCall[d].write = writeOf[j] /\ ops[d].op = "approve"
            /\ live[writeOf[j]] # "none"
        BY <3>1, PostedIsItsWrite DEF IInv, OpenInv
      <4>2. writeOf[j] # w
        BY <1>1, <2>2, <3>1, <4>1
      <4>3. ~(Created(w) /\ On[writeOf[j]] = Creates[w])
        BY <2>6, <3>1, <4>1 DEF IInv, DependantsInv, Created
      <4> QED BY <2>3, <4>1, <4>2, <4>3
    <3>2. ASSUME NEW j \in Filed \ contested PROVE Settled(j)'
      <4>1. CASE writeOf[j] = w
        BY <1>1, <2>1, <2>2, <4>1 DEF Settled, Decides
      <4>2. CASE writeOf[j] \in GitHubWrites /\ writeOf[j] # w /\ live'[writeOf[j]] # live[writeOf[j]]
        <5>1. PICK v \in GitHubWrites : v = writeOf[j]
          BY <4>2
        <5>2. On[v] # Nobody /\ provisional'[On[v]] = "absent"
          BY <1>8, <2>3, <2>5, <4>2, <5>1 DEF Created
        <5> QED BY <1>1, <5>1, <5>2 DEF Settled
      <4>3. CASE writeOf[j] \in GitHubWrites /\ live'[writeOf[j]] = live[writeOf[j]]
        <5>1. PICK v \in GitHubWrites : v = writeOf[j]
          BY <4>3
        <5>2. On[v] # Nobody => On[v] \in G!Resources
          BY <2>6, <5>1 DEF IInv, WritesAreFiledOnce, ResourcesInv
        <5>3. On[v] # Nobody /\ provisional[On[v]] = "absent" => provisional'[On[v]] = "absent"
          BY <2>1, <5>2
        <5>4. \A d \in Clients : answer[d] = "ok" => answer'[d] = "ok"
          BY <1>1, <1>4
        <5>5. \A d \in Clients : Decides(d, j)' <=> Decides(d, j)
          BY <1>1 DEF Decides
        <5>6. Settled(j)
          BY <3>2 DEF IInv, OpenInv
        <5> QED BY <1>1, <1>3, <4>3, <5>1, <5>3, <5>4, <5>5, <5>6 DEF Settled
      <4>4. CASE writeOf[j] \notin GitHubWrites
        BY <1>1, <4>4 DEF Settled
      <4> QED BY <4>1, <4>2, <4>3, <4>4
    <3> QED BY <1>1, <1>3, <3>1, <3>2 DEF OpenInv, Decides
  <2> QED BY <1>2, <1>5, <1>6, <2>7, <2>8, <2>9, <2>10, <2>11 DEF IInv
<1>9. \/ w \in GitHubWrites /\ OfGitHub(G!Reject(w)) /\ Answers(c, "ok")
      \/ UNCHANGED <<live, retired, provisional>>
  BY DEF RejectAnswers, OfGitHub, OfHome, ghVars
<1> QED BY <1>7, <1>8, <1>9

\* What ends a decision leaves the services and the gatekeepers as they are.
LEMMA DecisionEnds ==
  ASSUME IInv, NEW c \in Clients, ops[c].pc = "calling", ops' = [ops EXCEPT ![c] = Q!NoOp],
         answer' = [answer EXCEPT ![c] = "none"],
         UNCHANGED <<nextActionId, session, writeOf, contested, early>>,
         UNCHANGED <<ghVars, haVars>>,
         ghCall[c] = G!NoCall, haCall[c] = H!NoCall,
         NEW id, id = ops[c].id,
         \/ actions' = actions /\ answer[c] # "ok"
         \/ /\ actions' = [actions EXCEPT ![id].state = "approved"]
            /\ answer[c] = "ok" /\ ops[c].op = "approve"
         \/ /\ actions' = [actions EXCEPT ![id].state = "rejected"]
            /\ ops[c].op = "reject"
  PROVE  IInv'
<1>1. UNCHANGED <<live, retired, provisional, handed, ghCall, posted>>
      /\ UNCHANGED <<pendingRows, appliedRows, haCall, executed>>
  BY DEF ghVars, haVars
<1>2. Filed' = Filed /\ \A v : About(v)' = About(v)
  BY DEF Filed, About
<1>3. /\ id \in Filed /\ id \in Ids /\ WriteOf(c) = writeOf[id] /\ Decides(c, id)
      /\ actions[id] \in Q!Record
      /\ id \notin contested =>
           /\ actions[id].state = "pending" /\ \A d \in Clients : Decides(d, id) => d = c
           /\ Effects(writeOf[id]) = IF Carried(c) THEN 1 ELSE 0
  <2>1. id \in Filed /\ id \in Ids /\ WriteOf(c) = writeOf[id] /\ Decides(c, id)
    BY OneCall
  <2>2. actions[id] \in Q!Record
    BY <2>1 DEF IInv, WritesAreFiledOnce, PartsTyped, QueueTyped, Filed
  <2> QED BY <2>1, <2>2, OneCall
<1>4. /\ \A d \in Clients : ops'[d] = IF d = c THEN Q!NoOp ELSE ops[d]
      /\ \A d \in Clients : answer'[d] = IF d = c THEN "none" ELSE answer[d]
  BY DEF IInv, PartsTyped, QueueTyped
<1>5. /\ \A j \in Ids : j # id => actions'[j] = actions[j]
      /\ \/ actions' = actions /\ answer[c] # "ok"
         \/ actions'[id].state = "approved" /\ answer[c] = "ok" /\ ops[c].op = "approve"
         \/ actions'[id].state = "rejected" /\ ops[c].op = "reject"
  BY <1>3 DEF IInv, PartsTyped, QueueTyped, Q!Record
<1>6. /\ \A j : \A d \in Clients : Decides(d, j)' <=> d # c /\ Decides(d, j)
      /\ \A j : j # id => ~Decides(c, j)
  BY <1>4, Nothings DEF Decides
<1>7. \A d \in Clients : Carried(d)' <=> d # c /\ Carried(d)
  BY <1>1, <1>4, Nothings DEF Carried
<1>8. Carried(c) <=> answer[c] = "ok" /\ ops[c].op = "approve"
  BY Nothings DEF Carried
<1>9. PartsTyped'
  <2>1. QueueTyped'
    <3>1. actions' \in [Ids -> Q!Record \cup {Q!NoRecord}]
          /\ \A j \in Ids : actions'[j] \in Q!Record <=> actions[j] \in Q!Record
      BY <1>3, Nothings DEF IInv, PartsTyped, QueueTyped, Q!Record
    <3> QED BY <3>1, Nothings DEF IInv, PartsTyped, QueueTyped
  <2> QED BY <1>1, <2>1 DEF IInv, PartsTyped, G!TypeOK, H!TypeOK
<1>10. WritesAreFiledOnce' /\ ResourcesInv' /\ DependantsInv'
  BY <1>1, Frames DEF IInv
<1>11. CallsInv'
  BY <1>1, <1>2, <1>4, Nothings DEF IInv, CallsInv, CallInv, WriteOf
<1>12. \A j \in Filed : j \in Ids
  BY DEF Filed
<1>13. DecidedOnce'
  BY <1>2, <1>3, <1>5, <1>6, <1>12 DEF IInv, DecidedOnce
<1>14. EffectsInv'
  <2>1. \A v : Effects(v)' = Effects(v)
    BY <1>1 DEF Effects
  <2>2. /\ \A v \in Writes : (\A j \in Filed : writeOf[j] # v) => Effects(v) = 0
        /\ \A d \in Clients : Carried(d)' => Effects(WriteOf(d))' > 0
    BY <1>4, <1>7, <2>1 DEF IInv, EffectsInv, WriteOf
  <2>3. \A j \in Filed : actions'[j].state = "approved" => Effects(writeOf[j]) > 0
    BY <1>3, <1>5, <1>8, <1>12 DEF IInv, EffectsInv
  <2>4. \A j \in Filed \ contested : j # id =>
          Effects(writeOf[j]) =
            IF actions'[j].state = "approved" \/ \E d \in Clients : Decides(d, j)' /\ Carried(d)' THEN 1 ELSE 0
    BY <1>5, <1>6, <1>7, <1>12 DEF IInv, EffectsInv
  <2>5. id \notin contested =>
          Effects(writeOf[id]) =
            IF actions'[id].state = "approved" \/ \E d \in Clients : Decides(d, id)' /\ Carried(d)' THEN 1 ELSE 0
    BY <1>3, <1>5, <1>6, <1>8
  <2> QED BY <1>2, <2>1, <2>2, <2>3, <2>4, <2>5 DEF EffectsInv
<1>15. NumbersInv'
  <2>1. \A v \in GitHubWrites \ early : session[v] = "filed" =>
          \A j \in Filed : writeOf[j] = v => actions'[j].state = "pending" /\ \A d \in Clients : ~Decides(d, j)'
    BY <1>3, <1>5, <1>6, <1>12 DEF IInv, NumbersInv
  <2>2. ASSUME NEW j \in Filed \ contested, writeOf[j] \in GitHubWrites \ early, Created(writeOf[j]),
               \/ actions'[j].state = "approved"
               \/ \E d \in Clients : Decides(d, j)' /\ ops'[d].op = "approve" /\ answer'[d] = "ok"
        PROVE  provisional[Creates[writeOf[j]]] = "real"
    <3>1. \/ actions[j].state = "approved"
          \/ \E d \in Clients : Decides(d, j) /\ ops[d].op = "approve" /\ answer[d] = "ok"
      BY <1>3, <1>4, <1>5, <1>6, <1>12, <2>2
    <3> QED BY <2>2, <3>1 DEF IInv, NumbersInv
  <2> QED BY <1>1, <1>2, <2>1, <2>2 DEF NumbersInv
<1>16. OpenInv'
  <2>1. ASSUME NEW j \in Filed \ contested PROVE Settled(j)'
    <3>1. Settled(j) /\ j \in Ids
      BY <1>12, <2>1 DEF IInv, OpenInv
    <3>2. actions'[j].state = "pending" =>
            /\ actions[j].state = "pending"
            /\ \A d \in Clients : Decides(d, j) /\ answer[d] = "ok" => Decides(d, j)' /\ answer'[d] = "ok"
      BY <1>3, <1>4, <1>5, <1>6, <2>1, <3>1
    <3> QED BY <1>1, <1>2, <3>1, <3>2 DEF Settled
  <2> QED BY <1>1, <1>2, <1>6, <2>1 DEF IInv, OpenInv
<1> QED BY <1>9, <1>10, <1>11, <1>13, <1>14, <1>15, <1>16 DEF IInv

\* The answer reaches the overseer.
LEMMA AnsweredKeeps ==
  ASSUME IInv, NEW c \in Clients, Answered(c)
  PROVE  IInv'
<1>1. /\ answer[c] # "none" /\ answer' = [answer EXCEPT ![c] = "none"]
      /\ UNCHANGED <<nextActionId, session, writeOf, contested, early>>
      /\ UNCHANGED <<ghVars, haVars>>
  BY DEF Answered, Answers, Q!Approved, Q!Rejected, Q!DecisionThrew
<1>2. ghCall[c] = G!NoCall /\ haCall[c] = H!NoCall
  BY <1>1 DEF IInv, CallsInv, CallInv
<1>3. /\ ops[c].pc = "calling" /\ ops' = [ops EXCEPT ![c] = Q!NoOp]
      /\ \/ actions' = actions /\ answer[c] # "ok"
         \/ /\ actions' = [actions EXCEPT ![ops[c].id].state = "approved"]
            /\ answer[c] = "ok" /\ ops[c].op = "approve"
         \/ /\ actions' = [actions EXCEPT ![ops[c].id].state = "rejected"]
            /\ ops[c].op = "reject"
  BY DEF Answered, Q!Approved, Q!Rejected, Q!DecisionThrew, Q!DrainAndReturn
<1> QED BY <1>1, <1>2, <1>3, DecisionEnds

\* The gatekeeper is never asked.
LEMMA ProfileThrowsKeeps ==
  ASSUME IInv, NEW c \in Clients, ProfileThrows(c)
  PROVE  IInv'
<1>1. /\ answer[c] = "none" /\ answer' = [answer EXCEPT ![c] = "none"]
      /\ ops[c].pc = "calling" /\ ops' = [ops EXCEPT ![c] = Q!NoOp] /\ actions' = actions
      /\ UNCHANGED <<nextActionId, session, writeOf, contested, early>>
      /\ UNCHANGED <<ghVars, haVars>>
  BY DEF ProfileThrows, Q!DecisionThrew, IInv, PartsTyped
<1>2. ghCall[c] = G!NoCall /\ haCall[c] = H!NoCall
  BY DEF ProfileThrows, IInv, CallsInv, CallInv
<1> QED BY <1>1, <1>2, DecisionEnds

\* A crash: what was sent may still take effect, but only for records that the
\* crash makes contested.
LEMMA RestartKeeps ==
  ASSUME IInv, Restart
  PROVE  IInv'
<1>1. /\ ops' = [c \in Clients |-> Q!NoOp]
      /\ ghCall' = [c \in Clients |-> G!NoCall] /\ haCall' = [c \in Clients |-> H!NoCall]
      /\ answer' = [c \in Clients |-> "none"]
      /\ session' = [w \in Writes |-> IF session[w] = "new" THEN "new" ELSE "done"]
      /\ contested' = contested \cup {id \in Ids : CallsOn(id) # {}}
      /\ UNCHANGED <<actions, nextActionId, writeOf, early, live, retired, provisional, handed>>
      /\ UNCHANGED <<pendingRows, appliedRows>>
  BY DEF Restart, Q!Restart, G!Restart, H!Restart
<1>2. Filed' = Filed /\ \A v : About(v)' = About(v)
  BY <1>1 DEF Filed, About
<1>3. /\ \A id : \A c \in Clients : ~Decides(c, id)'
      /\ \A c \in Clients : ~Carried(c)'
  BY <1>1, Nothings DEF Decides, Carried
<1>4. \A j \in Filed \ contested' : j \in Filed \ contested /\ \A c \in Clients : ~Decides(c, j)
  BY <1>1 DEF CallsOn, Decides, Filed
<1>5. \A w \in GitHubWrites :
        \/ posted'[w] = posted[w]
        \/ posted'[w] \in 1..2 /\ \E c \in Clients : ghCall[c].pc = "sent" /\ ghCall[c].write = w
  <2>1. PICK late \in SUBSET {c \in Clients : ghCall[c].pc = "sent"} :
          posted' = [w \in GitHubWrites |->
            IF \E c \in late : ghCall[c].write = w THEN G!OneMore(posted[w]) ELSE posted[w]]
    BY DEF Restart, G!Restart
  <2>2. \A n : G!OneMore(n) \in 1..2
    BY DEF G!OneMore
  <2> TAKE w \in GitHubWrites
  <2>3. CASE \E c \in late : ghCall[c].write = w
    <3>1. posted'[w] = G!OneMore(posted[w])
      BY <2>1, <2>3
    <3> QED BY <2>2, <2>3, <3>1
  <2>4. CASE ~\E c \in late : ghCall[c].write = w
    <3>1. posted'[w] = posted[w]
      BY <2>1, <2>4
    <3> QED BY <3>1
  <2> QED BY <2>3, <2>4
<1>6. \A w \in HomeWrites :
        \/ executed'[w] = executed[w]
        \/ executed'[w] \in 1..2 /\ \E c \in Clients : haCall[c].pc = "sent" /\ haCall[c].write = w
  <2>1. PICK late \in SUBSET {c \in Clients : haCall[c].pc = "sent"} :
          executed' = [w \in HomeWrites |->
            IF \E c \in late : haCall[c].write = w THEN H!OneMore(executed[w]) ELSE executed[w]]
    BY DEF Restart, H!Restart
  <2>2. \A n : H!OneMore(n) \in 1..2
    BY DEF H!OneMore
  <2> TAKE w \in HomeWrites
  <2>3. CASE \E c \in late : haCall[c].write = w
    <3>1. executed'[w] = H!OneMore(executed[w])
      BY <2>1, <2>3
    <3> QED BY <2>2, <2>3, <3>1
  <2>4. CASE ~\E c \in late : haCall[c].write = w
    <3>1. executed'[w] = executed[w]
      BY <2>1, <2>4
    <3> QED BY <3>1
  <2> QED BY <2>3, <2>4
<1>7. /\ DOMAIN posted' = GitHubWrites /\ posted' = [w \in GitHubWrites |-> posted'[w]]
      /\ DOMAIN executed' = HomeWrites /\ executed' = [w \in HomeWrites |-> executed'[w]]
  BY DEF Restart, G!Restart, H!Restart
<1>8. PartsTyped'
  <2>1. QueueTyped'
    BY <1>1, Nothings DEF IInv, PartsTyped, QueueTyped
  <2>2. G!TypeOK'
    <3>1. posted' \in [GitHubWrites -> 0..2]
      BY <1>5, <1>7 DEF IInv, PartsTyped, G!TypeOK
    <3>2. ghCall' \in [Clients -> [pc : {"idle", "sent", "done"}, write : GitHubWrites \cup {Nobody}]]
      BY <1>1 DEF G!NoCall
    <3> QED BY <1>1, <3>1, <3>2 DEF IInv, PartsTyped, G!TypeOK
  <2>3. H!TypeOK'
    <3>1. executed' \in [HomeWrites -> 0..2]
      BY <1>6, <1>7 DEF IInv, PartsTyped, H!TypeOK
    <3>2. haCall' \in [Clients -> [pc : {"idle", "sent", "done"}, write : HomeWrites \cup {Nobody}]]
      BY <1>1 DEF H!NoCall
    <3> QED BY <1>1, <3>1, <3>2 DEF IInv, PartsTyped, H!TypeOK
  <2> QED BY <1>1, <2>1, <2>2, <2>3 DEF IInv, PartsTyped
<1>9. WritesAreFiledOnce'
  <2>1. \A id \in Filed : writeOf[id] \in Writes
    BY DEF IInv, PartsTyped, Filed
  <2> QED BY <1>1, <1>2, <2>1 DEF IInv, WritesAreFiledOnce
<1>10. CallsInv'
  BY <1>1, Nothings DEF CallsInv, CallInv
<1>11. DecidedOnce'
  BY <1>3 DEF DecidedOnce
<1> DEFINE After(v) == IF v \in GitHubWrites THEN posted'[v] ELSE executed'[v]
<1>12. \A v \in Writes :
         \/ After(v) = Effects(v)
         \/ /\ After(v) > 0
            /\ \E c \in Clients : Decides(c, ops[c].id) /\ ops[c].id \in Filed /\ v = writeOf[ops[c].id]
  <2> TAKE v \in Writes
  <2>1. CASE v \in GitHubWrites
    BY <1>5, <2>1, Nothings DEF Effects, Decides, IInv, CallsInv, CallInv, WriteOf
  <2>2. CASE v \notin GitHubWrites
    BY <1>6, <2>2, Nothings DEF Effects, Writes, Decides, IInv, CallsInv, CallInv, WriteOf
  <2> QED BY <2>1, <2>2
<1>13. EffectsInv'
  <2> HIDE DEF After
  <2>1. \A v \in Writes : (\A id \in Filed : writeOf[id] # v) => After(v) = 0
    BY <1>12 DEF IInv, EffectsInv
  <2>2. \A id \in Filed : writeOf[id] \in Writes
    BY DEF IInv, PartsTyped, Filed
  <2>3. \A id \in Filed : actions[id].state = "approved" => After(writeOf[id]) > 0
    BY <1>12, <2>2 DEF IInv, EffectsInv
  <2>4. ASSUME NEW id \in Filed \ contested'
        PROVE  After(writeOf[id]) = IF actions[id].state = "approved" THEN 1 ELSE 0
    <3>1. Effects(writeOf[id]) = IF actions[id].state = "approved" THEN 1 ELSE 0
      BY <1>4, <2>4 DEF IInv, EffectsInv
    <3>2. \A c \in Clients : ops[c].id \in Filed /\ writeOf[id] = writeOf[ops[c].id] => ~Decides(c, ops[c].id)
      BY <1>4, <2>4 DEF IInv, WritesAreFiledOnce
    <3> QED BY <1>12, <2>2, <2>4, <3>1, <3>2
  <2> QED BY <1>1, <1>2, <1>3, <2>1, <2>3, <2>4 DEF EffectsInv, Effects, After
<1>14. ResourcesInv'
  <2>1. \A v \in GitHubWrites : posted[v] > 0 => posted'[v] > 0
    BY <1>5
  <2>2. \A v \in GitHubWrites : session[v] = "done" => session'[v] = "done"
    BY <1>1 DEF Writes
  <2>3. \A v \in GitHubWrites : session'[v] # "staged" /\ (session'[v] # "new" => session[v] # "new")
    BY <1>1 DEF Writes
  <2> QED BY <1>1, <2>1, <2>2, <2>3 DEF IInv, ResourcesInv
<1>15. DependantsInv'
  <2>1. \A c \in Clients : ghCall'[c] = G!NoCall
    BY <1>1
  <2>2. ASSUME NEW v \in GitHubWrites, NEW d \in GitHubWrites, Created(v), On[d] = Creates[v], posted'[d] > 0
        PROVE  posted[v] > 0
    <3>1. CASE posted[d] > 0
      BY <2>2, <3>1 DEF IInv, DependantsInv
    <3>2. CASE ~(posted[d] > 0)
      <4>1. PICK c \in Clients : ghCall[c].pc = "sent" /\ ghCall[c].write = d
        BY <1>5, <2>2, <3>2
      <4>2. provisional[Creates[v]] = "real"
        BY <2>2, <4>1, Nothings DEF IInv, DependantsInv, Created
      <4> QED BY <2>2, <4>2 DEF IInv, ResourcesInv
    <3> QED BY <3>1, <3>2
  <2>3. \A v \in GitHubWrites : posted[v] > 0 => posted'[v] > 0
    BY <1>5
  <2> QED BY <1>1, <2>1, <2>2, <2>3 DEF DependantsInv
<1>16. NumbersInv'
  <2>1. \A v \in GitHubWrites : session'[v] # "filed"
    BY <1>1 DEF Writes
  <2> QED BY <1>1, <1>2, <1>3, <1>4, <2>1 DEF IInv, NumbersInv
<1>17. OpenInv'
  <2>1. \A j \in Filed \ contested' : Settled(j) => Settled(j)'
    BY <1>1, <1>2, <1>4 DEF Settled
  <2> QED BY <1>2, <1>3, <1>4, <2>1 DEF IInv, OpenInv
<1> QED BY <1>1, <1>8, <1>9, <1>10, <1>11, <1>13, <1>14, <1>15, <1>16, <1>17 DEF IInv

-----------------------------------------------------------------------------
(* The theorems on writes                                                    *)

LEMMA InitIInv == Init => IInv
<1> SUFFICES ASSUME Init PROVE IInv
  OBVIOUS
<1>1. /\ actions = [id \in Ids |-> Q!NoRecord] /\ nextActionId = 1
      /\ ops = [c \in Clients |-> Q!NoOp]
  BY DEF Init, Q!Init, Q!Ids, Ids
<1>2. /\ live = [w \in GitHubWrites |-> "none"] /\ retired = [w \in GitHubWrites |-> "none"]
      /\ provisional = [r \in G!Resources |-> "absent"] /\ handed = {}
      /\ ghCall = [c \in Clients |-> G!NoCall] /\ posted = [w \in GitHubWrites |-> 0]
  BY DEF Init, G!Init
<1>3. /\ pendingRows = {} /\ appliedRows = {}
      /\ haCall = [c \in Clients |-> H!NoCall] /\ executed = [w \in HomeWrites |-> 0]
  BY DEF Init, H!Init
<1>4. /\ session = [w \in Writes |-> "new"] /\ writeOf = [id \in Ids |-> Nobody]
      /\ answer = [c \in Clients |-> "none"] /\ contested = {} /\ early = {}
  BY DEF Init
<1>5. Filed = {} /\ MaxActions \in Nat
  BY <1>4, WritesAssumption DEF Filed, WritesAssumption
<1>6. PartsTyped
  <2>1. QueueTyped
    BY <1>1, <1>5, Nothings DEF QueueTyped, Ids
  <2>2. G!TypeOK /\ H!TypeOK
    BY <1>2, <1>3 DEF G!TypeOK, H!TypeOK, G!NoCall, H!NoCall
  <2> QED BY <1>4, <2>1, <2>2 DEF PartsTyped
<1>7. WritesAreFiledOnce /\ CallsInv /\ DecidedOnce /\ OpenInv
  BY <1>1, <1>2, <1>3, <1>4, <1>5, Nothings
     DEF WritesAreFiledOnce, CallsInv, CallInv, DecidedOnce, OpenInv, Ids
<1>8. EffectsInv
  BY <1>2, <1>3, <1>4, <1>5, Nothings DEF EffectsInv, Carried, Effects, Writes
<1>9. ResourcesInv /\ DependantsInv /\ NumbersInv
  BY <1>2, <1>4, <1>5 DEF ResourcesInv, DependantsInv, NumbersInv, Writes, G!Resources, Created
<1> QED BY <1>6, <1>7, <1>8, <1>9 DEF IInv

LEMMA NextIInv == IInv /\ [Next]_vars => IInv'
<1> SUFFICES ASSUME IInv, [Next]_vars PROVE IInv'
  OBVIOUS
<1>1. CASE UNCHANGED vars
  <2>1. /\ UNCHANGED <<actions, nextActionId, ops, session, writeOf, answer, contested, early>>
        /\ UNCHANGED <<live, retired, provisional, handed, ghCall, posted>>
        /\ UNCHANGED <<pendingRows, appliedRows, haCall, executed>>
    BY <1>1 DEF vars, queueVars, ghVars, haVars
  <2>2. PartsTyped'
    BY <2>1 DEF IInv, PartsTyped, QueueTyped, G!TypeOK, H!TypeOK
  <2> QED BY <2>1, <2>2, Frames DEF IInv
<1>2. CASE \E w \in Writes : Stage(w)
  BY <1>2, StageKeeps
<1>3. CASE \E w \in Writes : File(w)
  BY <1>3, FileKeeps
<1>4. CASE \E w \in Writes : SubmissionThrows(w)
  BY <1>4, SubmissionThrowsKeeps
<1>5. CASE \E w \in Writes : SubmissionReturns(w)
  BY <1>5, SubmissionReturnsKeeps
<1>6. CASE \E c \in Clients, op \in {"approve", "reject"}, id \in Ids : Decide(c, op, id)
  BY <1>6, DecideKeeps
<1>7. CASE \E c \in Clients : ApplyStarts(c)
  BY <1>7, ApplyStartsKeeps
<1>8. CASE \E c \in Clients : ApplyRefuses(c)
  BY <1>8, ApplyRefusesKeeps
<1>9. CASE \E c \in Clients : Executes(c)
  BY <1>9, ExecutesKeeps
<1>10. CASE \E c \in Clients : ApplyEnds(c)
  BY <1>10, ApplyEndsKeeps
<1>11. CASE \E c \in Clients : ApplyThrows(c)
  BY <1>11, ApplyThrowsKeeps
<1>12. CASE \E c \in Clients : RejectAnswers(c)
  BY <1>12, RejectAnswersKeeps
<1>13. CASE \E c \in Clients : Answered(c)
  BY <1>13, AnsweredKeeps
<1>14. CASE \E c \in Clients : ProfileThrows(c)
  BY <1>14, ProfileThrowsKeeps
<1>15. CASE Restart
  BY <1>15, RestartKeeps
<1> QED BY <1>1, <1>2, <1>3, <1>4, <1>5, <1>6, <1>7, <1>8, <1>9, <1>10, <1>11, <1>12, <1>13, <1>14,
           <1>15 DEF Next

\* What overseer, gatekeepers and services know of each write while it is staged,
\* filed, decided and carried out (File(), Decide(), Apply...(), RejectAnswers())
\* fits together in every state.
THEOREM WritesAreTracked == Spec => []IInv
BY InitIInv, NextIInv, PTL DEF Spec

\* The state of a record is true of the service behind it: what is approved was
\* carried out, and without races or crashes exactly once, and nothing else was
\* (approveAction(), and applyAction() of the two gatekeepers).
THEOREM LogSaysWhatWasDone == Spec => []LogTellsTheTruth
<1>1. IInv => LogTellsTheTruth
  BY DEF IInv, EffectsInv, LogTellsTheTruth, CallsOn, Decides
<1> QED BY <1>1, WritesAreTracked, PTL

\* No write reaches GitHub before that which creates what it is about, and an
\* approved creation leaves its number for them (#markActionApproved(),
\* #rejectActionsForResource()).
THEOREM DependantsComeAfter == Spec => []DependantsFollow
<1>1. IInv => DependantsFollow
  BY DEF IInv, DependantsInv, NumbersInv, DependantsFollow, Created
<1> QED BY <1>1, WritesAreTracked, PTL

\* What is pending with the overseer, undisturbed, can still be approved or rejected
\* at the GitHub gatekeeper (#getActionRecord()).
THEOREM PendingStaysOpen == Spec => []PendingIsOpen
<1>1. IInv => PendingIsOpen
  BY DEF IInv, OpenInv, Settled, PendingIsOpen, CallsOn, G!Undecided, Decides
<1> QED BY <1>1, WritesAreTracked, PTL

-----------------------------------------------------------------------------
(* Hooks.                                                                    *)

(* The inductive invariant.  That overseer and gatekeeper agree when all is  *)
(* quiet must follow from what is known of the calls while they are under    *)
(* way: which of them are alone, and what those that are have done already.  *)

\* A call that is under way is about a hook.
CallsHaveHooks ==
  \A c \in Calls : calls[c] # Resting => calls[c].hook \in Hooks /\ calls[c].kind # "none"

\* A hook that nobody has bound is nobody's business.
UnboundIsUntouched ==
  \A h \in Hooks : hooks[h] = "unbound" => Busy(h) = {} /\ h \notin regs

\* A call that is alone is the only one on its hook, and has not been given up.
AloneIsAlone ==
  \A c \in Calls : calls[c].alone =>
    Busy(calls[c].hook) = {c} /\ calls[c].pc \in {"calling", "landed", "orphan"}

\* One that is not, or that nobody waits for, has its hook marked.
OthersTangle ==
  \A c \in Calls : calls[c] # Resting /\ (~calls[c].alone \/ calls[c].pc = "orphan")
    => calls[c].hook \in tangled

\* What a call has done at the gatekeeper stays done if it is alone.
LandedHolds ==
  \A c \in Calls : calls[c].alone /\ calls[c].pc = "landed" =>
    (calls[c].hook \in regs <=> calls[c].kind = "enable")

\* Whose end was told is off, about to be turned on by nobody, and no event of
\* it that the gatekeeper would deliver has passed startHook()'s check.
QuietIsOff ==
  \A h \in quiet : /\ hooks[h] # "on"
                   /\ Enabling(h) = {}
                   /\ ~(firing[h].live /\ firing[h].pc \in {"checked", "admitted"})

HooksInv ==
  /\ HooksTypeOK
  /\ CallsHaveHooks
  /\ UnboundIsUntouched
  /\ AloneIsAlone
  /\ OthersTangle
  /\ LandedHolds
  /\ SettledHooksAgree
  /\ LogAgrees
  /\ QuietIsOff

CallRecord == [kind : {"none", "enable", "disable", "delete"}, hook : Hooks \cup {Nothing},
               pc : {"idle", "calling", "landed", "orphan"}, alone : BOOLEAN]
FiringRecord == [pc : {"idle", "asked", "checked", "admitted", "callback"}, live : BOOLEAN]

-----------------------------------------------------------------------------
(* What updates of these records leave.                                      *)

LEMMA CallMoves ==
  ASSUME NEW r \in CallRecord, NEW x \in {"idle", "calling", "landed", "orphan"}
  PROVE  /\ [r EXCEPT !.pc = x] \in CallRecord
         /\ [r EXCEPT !.pc = x].kind = r.kind
         /\ [r EXCEPT !.pc = x].hook = r.hook
         /\ [r EXCEPT !.pc = x].pc = x
         /\ [r EXCEPT !.pc = x].alone = r.alone
BY DEF CallRecord

LEMMA CallMeets ==
  ASSUME NEW r \in CallRecord, NEW d, NEW busy
  PROVE  /\ [r EXCEPT !.alone = r.alone /\ d \notin busy] \in CallRecord
         /\ [r EXCEPT !.alone = r.alone /\ d \notin busy].kind = r.kind
         /\ [r EXCEPT !.alone = r.alone /\ d \notin busy].hook = r.hook
         /\ [r EXCEPT !.alone = r.alone /\ d \notin busy].pc = r.pc
         /\ [r EXCEPT !.alone = r.alone /\ d \notin busy].alone <=> (r.alone /\ d \notin busy)
BY DEF CallRecord

LEMMA FiringUpdates ==
  ASSUME NEW f \in FiringRecord
  PROVE  /\ \A x \in {"idle", "asked", "checked", "admitted", "callback"} :
              /\ [f EXCEPT !.pc = x] \in FiringRecord
              /\ [f EXCEPT !.pc = x].pc = x /\ [f EXCEPT !.pc = x].live = f.live
         /\ [f EXCEPT !.live = FALSE] \in FiringRecord
         /\ [f EXCEPT !.live = FALSE].pc = f.pc /\ [f EXCEPT !.live = FALSE].live = FALSE
BY DEF FiringRecord

LogRecord == [there : BOOLEAN, enabled : BOOLEAN, linked : BOOLEAN]

LEMMA LogUpdates ==
  ASSUME NEW r \in LogRecord, NEW kind
  PROVE  /\ [r EXCEPT !.enabled = (kind = "enable") /\ r.there] \in LogRecord
         /\ [r EXCEPT !.enabled = (kind = "enable") /\ r.there].there = r.there
         /\ [r EXCEPT !.enabled = (kind = "enable") /\ r.there].enabled <=> kind = "enable" /\ r.there
BY DEF LogRecord

LEMMA ErasedLog ==
  ASSUME HooksInv, NEW h \in Hooks, Erased(h)
  PROVE  /\ log' \in [Hooks -> LogRecord]
         /\ LogAgrees'
<1>1. log \in [Hooks -> LogRecord] /\ hooks \in [Hooks -> {"unbound", "off", "on", "gone"}]
  BY DEF HooksInv, HooksTypeOK, LogRecord
<1>2. [there |-> log[h].there, enabled |-> FALSE, linked |-> FALSE] \in LogRecord
  BY <1>1 DEF LogRecord
<1>3. /\ log' = [log EXCEPT ![h] = [there |-> log[h].there, enabled |-> FALSE, linked |-> FALSE]]
      /\ hooks' = [hooks EXCEPT ![h] = "gone"]
  BY DEF Erased
<1>4. log' \in [Hooks -> LogRecord]
  BY <1>1, <1>2, <1>3
<1>5. ASSUME NEW g \in Hooks, log'[g].there
      PROVE  log'[g].enabled <=> hooks'[g] = "on"
  <2>1. CASE g = h
    <3>1. ~log'[g].enabled
      BY <1>1, <1>3, <2>1
    <3> QED BY <1>1, <1>3, <2>1, <3>1
  <2>2. CASE g # h
    BY <1>1, <1>3, <1>5, <2>2 DEF HooksInv, LogAgrees
  <2> QED BY <2>1, <2>2
<1> QED BY <1>4, <1>5 DEF LogAgrees

LEMMA RestingIs ==
  ASSUME NEW r \in CallRecord
  PROVE  r = Resting <=> r.kind = "none" /\ r.hook = Nothing /\ r.pc = "idle" /\ ~r.alone
BY DEF CallRecord, Resting

LEMMA RestingFields ==
  /\ Resting \in CallRecord
  /\ Resting.kind = "none" /\ Resting.hook = Nothing /\ Resting.pc = "idle"
  /\ ~Resting.alone
BY DEF Resting, CallRecord

LEMMA TypeOfRecords ==
  HooksTypeOK => calls \in [Calls -> CallRecord] /\ firing \in [Hooks -> FiringRecord]
BY DEF HooksTypeOK, CallRecord, FiringRecord

-----------------------------------------------------------------------------
LEMMA InitHooksInv == HooksInit => HooksInv
<1> SUFFICES ASSUME HooksInit PROVE HooksInv
  OBVIOUS
<1>1. HooksTypeOK
  BY DEF HooksInit, HooksTypeOK, Resting, NoRemoval, NoFiring, NoLog
<1>2. /\ CallsHaveHooks /\ AloneIsAlone /\ OthersTangle /\ LandedHolds
  BY DEF HooksInit, CallsHaveHooks, AloneIsAlone, OthersTangle, LandedHolds, Resting
<1>3. \A h \in Hooks : Busy(h) = {}
  BY NamesAssumption DEF HooksInit, Busy, Resting, NamesAssumption, HooksInv
<1>4. UnboundIsUntouched /\ SettledHooksAgree /\ LogAgrees /\ QuietIsOff
  BY <1>3 DEF HooksInit, UnboundIsUntouched, SettledHooksAgree, LogAgrees, QuietIsOff, NoLog
<1> QED BY <1>1, <1>2, <1>3, <1>4 DEF HooksInv

\* The end of a hook is told only if QuietIsOff holds of it.
LEMMA EndToldIsQuiet ==
  ASSUME NEW h \in Hooks, quiet \subseteq Hooks
  PROVE  /\ EndTold(h) \subseteq quiet \cup {h}
         /\ quiet \subseteq EndTold(h)
         /\ h \in EndTold(h) \ quiet =>
              /\ Enabling(h) = {}
              /\ ~(firing[h].live /\ firing[h].pc \in {"checked", "admitted"})
BY DEF EndTold

-----------------------------------------------------------------------------
(* Steps of the gatekeeper's deliveries change firing only.                  *)

LEMMA FiringSteps ==
  ASSUME HooksInv, NEW h \in Hooks,
         \/ FiringStarts(h) \/ StartHook(h) \/ HookAdmitted(h)
         \/ HookRefused(h) \/ Deliver(h) \/ CallbackEnds(h)
  PROVE  HooksInv'
<1> USE DEF HooksInv
<1>1. UNCHANGED <<hooks, log, gadgets, regs, calls, removal, quiet, tangled>>
  BY DEF FiringStarts, StartHook, HookAdmitted, HookRefused, Deliver, CallbackEnds
<1>2. firing' \in [Hooks -> FiringRecord]
  <2>1. firing \in [Hooks -> FiringRecord] /\ NoFiring \in FiringRecord
    BY TypeOfRecords DEF NoFiring, FiringRecord
  <2>2. PICK f \in FiringRecord : firing' = [firing EXCEPT ![h] = f]
    <3>1. CASE FiringStarts(h)
      BY <3>1 DEF FiringStarts, FiringRecord
    <3>2. CASE StartHook(h)
      <4>1. [pc |-> "checked", live |-> firing[h].live] \in FiringRecord
        BY <2>1 DEF FiringRecord
      <4> QED BY <2>1, <3>2, <4>1 DEF StartHook
    <3>3. CASE HookAdmitted(h)
      <4>1. [firing[h] EXCEPT !.pc = "admitted"] \in FiringRecord
        BY <2>1, FiringUpdates
      <4>2. firing' = [firing EXCEPT ![h] = [firing[h] EXCEPT !.pc = "admitted"]]
        BY <3>3 DEF HookAdmitted
      <4> QED BY <4>1, <4>2
    <3>4. CASE Deliver(h)
      <4>1. [pc |-> "callback", live |-> TRUE] \in FiringRecord
        BY DEF FiringRecord
      <4> QED BY <2>1, <3>4, <4>1 DEF Deliver
    <3>5. CASE HookRefused(h) \/ CallbackEnds(h)
      BY <2>1, <3>5 DEF HookRefused, CallbackEnds
    <3> QED BY <3>1, <3>2, <3>3, <3>4, <3>5
  <2> QED BY <2>1, <2>2
<1>3. HooksTypeOK'
  BY <1>1, <1>2 DEF HooksTypeOK, FiringRecord
<1>4. QuietIsOff'
  <2>1. /\ \A g \in Hooks \ {h} : firing'[g] = firing[g]
        /\ hooks[h] # "on" /\ firing'[h].live /\ firing'[h].pc \in {"checked", "admitted"}
             => firing[h].live /\ firing[h].pc \in {"checked", "admitted"}
    BY DEF HooksTypeOK, FiringStarts, StartHook, HookAdmitted, HookRefused, Deliver,
       CallbackEnds, NoFiring
  <2> QED BY <1>1, <2>1 DEF QuietIsOff, Enabling, Busy, HooksTypeOK
<1>5. /\ CallsHaveHooks' /\ UnboundIsUntouched' /\ AloneIsAlone' /\ OthersTangle'
      /\ LandedHolds' /\ SettledHooksAgree' /\ LogAgrees'
  BY <1>1 DEF CallsHaveHooks, UnboundIsUntouched, AloneIsAlone, OthersTangle, LandedHolds,
              SettledHooksAgree, LogAgrees, Busy
<1> QED BY <1>3, <1>4, <1>5

-----------------------------------------------------------------------------
(* A call begins.                                                            *)

LEMMA CallBegins ==
  ASSUME HooksInv, NEW c \in Calls, NEW kind \in {"enable", "disable", "delete"}, NEW h \in Hooks,
         calls[c] = Resting, hooks[h] # "unbound", Call(c, kind, h),
         quiet' = IF kind = "enable" THEN quiet \ {h} ELSE quiet,
         UNCHANGED <<hooks, log, regs, firing>>,
         gadgets' \subseteq Gadgets, removal' \in [of : Gadgets \cup {Workspace, Nothing}, todo : SUBSET Hooks]
  PROVE  HooksInv'
<1> USE DEF HooksInv
<1>0. calls \in [Calls -> CallRecord]
  BY TypeOfRecords
<1>1. /\ calls' \in [Calls -> CallRecord]
      /\ calls'[c] = [kind |-> kind, hook |-> h, pc |-> "calling", alone |-> Busy(h) = {}]
      /\ \A d \in Calls \ {c} :
           /\ calls'[d].kind = calls[d].kind /\ calls'[d].hook = calls[d].hook
           /\ calls'[d].pc = calls[d].pc
           /\ calls'[d].alone <=> calls[d].alone /\ calls[d].hook # h
  <2>1. calls' = [d \in Calls |->
          IF d = c THEN [kind |-> kind, hook |-> h, pc |-> "calling", alone |-> Busy(h) = {}]
          ELSE [calls[d] EXCEPT !.alone = calls[d].alone /\ d \notin Busy(h)]]
    BY DEF Call
  <2>2. [kind |-> kind, hook |-> h, pc |-> "calling", alone |-> Busy(h) = {}] \in CallRecord
    BY DEF CallRecord
  <2>3. ASSUME NEW d \in Calls
        PROVE  LET q == [calls[d] EXCEPT !.alone = calls[d].alone /\ d \notin Busy(h)] IN
               /\ q \in CallRecord /\ q.kind = calls[d].kind /\ q.hook = calls[d].hook
               /\ q.pc = calls[d].pc
               /\ q.alone <=> calls[d].alone /\ calls[d].hook # h
    <3>1. calls[d] \in CallRecord
      BY <1>0
    <3>2. d \in Busy(h) <=> calls[d].hook = h
      BY DEF Busy
    <3> QED BY <3>1, <3>2, CallMeets
  <2> QED BY <2>1, <2>2, <2>3
<1>b. calls'[c].alone <=> Busy(h) = {}
  <2>1. [kind |-> kind, hook |-> h, pc |-> "calling", alone |-> Busy(h) = {}].alone <=> Busy(h) = {}
    OBVIOUS
  <2> QED BY <1>1, <2>1, Zenon
<1>2. \A d \in Calls : calls'[d].pc = "idle" <=> calls'[d] = Resting
  BY <1>0, <1>1, RestingIs DEF HooksTypeOK, CallRecord
<1>3. HooksTypeOK'
  BY <1>1, <1>2 DEF HooksTypeOK, Call, CallRecord
<1>4. /\ Busy(h)' = Busy(h) \cup {c}
      /\ \A g \in Hooks \ {h} : Busy(g)' = Busy(g)
      /\ c \notin Busy(h)
  BY <1>1, NamesAssumption DEF Busy, Resting, NamesAssumption, HooksInv
<1>5. CallsHaveHooks'
  BY <1>1, <1>2 DEF CallsHaveHooks, HooksTypeOK
<1>6. UnboundIsUntouched' /\ LogAgrees' /\ SettledHooksAgree'
  BY <1>4 DEF UnboundIsUntouched, LogAgrees, SettledHooksAgree, Call
<1>7. AloneIsAlone'
  <2> SUFFICES ASSUME NEW d \in Calls, calls'[d].alone
               PROVE  /\ Busy(calls[d].hook)' = {d}
                      /\ calls'[d].pc \in {"calling", "landed", "orphan"}
    BY DEF AloneIsAlone
  <2>1. CASE d = c
    <3>1. calls'[c].alone => Busy(h) = {}
      BY <1>b
    <3>2. /\ calls'[c].hook = h /\ calls'[c].pc = "calling"
          /\ Busy(h)' = {e \in Calls : calls'[e].hook = h}
          /\ (Busy(calls[d].hook))' = {e \in Calls : calls'[e].hook = calls'[d].hook}
      BY <1>1 DEF Busy
    <3> QED BY <1>4, <2>1, <3>1, <3>2
  <2>2. CASE d # c
    <3>1. calls[d].alone /\ calls[d].hook # h /\ calls'[d].hook = calls[d].hook /\ calls'[d].pc = calls[d].pc
      BY <1>1, <2>2
    <3>2. PICK g \in Hooks : g = calls[d].hook
      BY <3>1 DEF Resting, CallsHaveHooks
    <3>3. Busy(g) = {d} /\ Busy(g)' = Busy(g)
      BY <1>4, <3>1, <3>2 DEF AloneIsAlone
    <3>4. (Busy(calls[d].hook))' = {e \in Calls : calls'[e].hook = g}
      BY <3>1, <3>2 DEF Busy
    <3>5. Busy(g)' = {e \in Calls : calls'[e].hook = g}
      BY DEF Busy
    <3> QED BY <3>1, <3>3, <3>4, <3>5 DEF AloneIsAlone
  <2> QED BY <2>1, <2>2
<1>8. OthersTangle'
  <2>1. tangled \subseteq tangled' /\ (Busy(h) # {} => h \in tangled')
    BY DEF Call
  <2> SUFFICES ASSUME NEW d \in Calls, calls'[d] # Resting,
                      ~calls'[d].alone \/ calls'[d].pc = "orphan"
               PROVE  calls'[d].hook \in tangled'
    BY DEF OthersTangle
  <2>2. CASE d = c
    <3>1. calls'[c].alone \/ Busy(h) # {}
      BY <1>b
    <3>2. calls'[c].hook = h /\ calls'[c].pc = "calling"
      BY <1>1
    <3> QED BY <2>1, <2>2, <3>1, <3>2
  <2>3. CASE d # c /\ calls[d].hook = h
    BY <2>1, <2>3, <1>1 DEF Busy
  <2>4. CASE d # c /\ calls[d].hook # h
    <3>1. calls[d] # Resting
      BY <1>2, <1>1, <2>4 DEF HooksTypeOK
    <3>2. ~calls[d].alone \/ calls[d].pc = "orphan"
      BY <1>1, <2>4
    <3> QED BY <1>1, <2>1, <2>4, <3>1, <3>2 DEF OthersTangle
  <2> QED BY <2>2, <2>3, <2>4
<1>9. LandedHolds'
  BY <1>1 DEF LandedHolds
<1>10. QuietIsOff'
  <2>1. \A g \in Hooks : g # h \/ kind # "enable" => Enabling(g)' \subseteq Enabling(g)
    BY <1>1, <1>4 DEF Enabling, Busy
  <2> QED BY <2>1 DEF QuietIsOff, HooksTypeOK
<1> QED BY <1>3, <1>5, <1>6, <1>7, <1>8, <1>9, <1>10

-----------------------------------------------------------------------------
(* A call lands.                                                             *)

LEMMA CallLandsKeeps ==
  ASSUME HooksInv, NEW c \in Calls, CallLands(c) \/ OrphanLands(c) \/ OrphanIsLost(c)
  PROVE  HooksInv'
<1> USE DEF HooksInv
<1>0. calls[c] # Resting /\ calls[c].hook \in Hooks /\ calls[c].kind # "none"
  BY DEF CallLands, OrphanLands, OrphanIsLost, CallsHaveHooks, HooksTypeOK
<1>a. PICK h \in Hooks : h = calls[c].hook
  BY <1>0
<1>1. calls[c] # Resting /\ calls[c].hook = h /\ calls[c].kind # "none" /\ c \in Busy(h)
  BY <1>0, <1>a DEF Busy
<1>2. /\ UNCHANGED <<hooks, log, gadgets, removal, quiet, tangled>>
      /\ regs' \subseteq Hooks
      /\ \A g \in Hooks \ {h} : g \in regs' <=> g \in regs
      /\ firing' \in [Hooks -> FiringRecord]
      /\ \A g \in Hooks : firing'[g].pc = firing[g].pc /\ (firing'[g].live => firing[g].live)
  <2>1. CASE OrphanIsLost(c)
    BY <2>1, TypeOfRecords DEF OrphanIsLost, HooksTypeOK
  <2>2. CASE CallLands(c) \/ OrphanLands(c)
    <3>1. /\ Controller(calls[c].kind, h)
          /\ UNCHANGED <<hooks, log, gadgets, removal, quiet, tangled>>
      BY <1>1, <2>2 DEF CallLands, OrphanLands
    <3>2. firing \in [Hooks -> FiringRecord] /\ regs \subseteq Hooks
      BY TypeOfRecords DEF HooksTypeOK
    <3> DEFINE f == [firing[h] EXCEPT !.live = FALSE]
    <3>3. f \in FiringRecord /\ f.pc = firing[h].pc /\ ~f.live
      <4>1. firing[h] \in FiringRecord
        BY <1>1, <3>2
      <4> QED BY <4>1, FiringUpdates
    <3>4. firing' = firing \/ firing' = [firing EXCEPT ![h] = f]
      BY <3>1 DEF Controller
    <3> HIDE DEF f
    <3>5. /\ firing' \in [Hooks -> FiringRecord]
          /\ \A g \in Hooks : firing'[g].pc = firing[g].pc /\ (firing'[g].live => firing[g].live)
      BY <1>1, <3>2, <3>3, <3>4
    <3> QED BY <1>1, <3>1, <3>2, <3>5 DEF Controller
  <2> QED BY <2>1, <2>2
<1>3. /\ calls' \in [Calls -> CallRecord]
      /\ \A d \in Calls \ {c} : calls'[d] = calls[d]
      /\ \/ calls'[c] = Resting /\ calls[c].pc = "orphan"
         \/ /\ calls[c].pc = "calling" /\ calls'[c].pc = "landed"
            /\ calls'[c].kind = calls[c].kind /\ calls'[c].hook = h
            /\ calls'[c].alone = calls[c].alone
            /\ h \in regs' <=> calls[c].kind = "enable"
  <2>1. calls \in [Calls -> CallRecord] /\ Resting \in CallRecord
    BY TypeOfRecords DEF Resting, CallRecord
  <2>2. CASE CallLands(c)
    <3>1. calls' = [calls EXCEPT ![c] = [calls[c] EXCEPT !.pc = "landed"]]
      BY <2>2 DEF CallLands
    <3>2. h \in regs' <=> calls[c].kind = "enable"
      BY <1>1, <2>2 DEF CallLands, Controller
    <3> DEFINE q == [calls[c] EXCEPT !.pc = "landed"]
    <3>3. q \in CallRecord /\ q.kind = calls[c].kind /\ q.hook = h /\ q.pc = "landed" /\ q.alone = calls[c].alone
      <4>1. calls[c] \in CallRecord
        BY <2>1
      <4> QED BY <1>1, <4>1, CallMoves
    <3>4. calls' = [calls EXCEPT ![c] = q]
      BY <3>1
    <3> HIDE DEF q
    <3> QED BY <2>1, <2>2, <3>2, <3>3, <3>4 DEF CallLands
  <2>3. CASE OrphanLands(c) \/ OrphanIsLost(c)
    BY <2>1, <2>3 DEF OrphanLands, OrphanIsLost
  <2> QED BY <2>2, <2>3
<1>4. HooksTypeOK'
  <2>1. \A d \in Calls : calls'[d].pc = "idle" <=> calls'[d] = Resting
    BY <1>3 DEF HooksTypeOK, Resting
  <2> QED BY <1>2, <1>3, <2>1 DEF HooksTypeOK, CallRecord, FiringRecord
<1>5. /\ \A g \in Hooks \ {h} : Busy(g)' = Busy(g)
      /\ Busy(h)' = IF calls'[c] = Resting THEN Busy(h) \ {c} ELSE Busy(h)
      /\ \A g \in Hooks : Enabling(g)' \subseteq Enabling(g)
  <2>1. \A d \in Calls \ {c} : calls'[d] = calls[d]
    BY <1>3
  <2>2. \/ calls'[c] = Resting
        \/ calls'[c].hook = h /\ calls'[c].kind = calls[c].kind /\ calls'[c] # Resting
    BY <1>3 DEF Resting
  <2>3. Resting.hook \notin Hooks
    BY NamesAssumption DEF Resting, NamesAssumption, HooksInv
  <2> QED BY <1>1, <2>1, <2>2, <2>3 DEF Busy, Enabling
<1>6. CallsHaveHooks'
  BY <1>1, <1>3 DEF CallsHaveHooks, HooksTypeOK
<1>7. UnboundIsUntouched'
  BY <1>1, <1>2, <1>5 DEF UnboundIsUntouched
<1>8. AloneIsAlone' /\ OthersTangle'
  <2>1. \A d \in Calls \ {c} : calls[d].alone => calls[d].hook \in Hooks /\ calls[d].hook # h
    BY <1>1 DEF AloneIsAlone, CallsHaveHooks, Resting
  <2>2. AloneIsAlone'
    <3> SUFFICES ASSUME NEW d \in Calls, calls'[d].alone
                 PROVE  /\ (Busy(calls[d].hook))' = {d}
                        /\ calls'[d].pc \in {"calling", "landed", "orphan"}
      BY DEF AloneIsAlone
    <3>0. ~Resting.alone
      BY DEF Resting
    <3>1. /\ calls[d].alone /\ calls'[d].hook = calls[d].hook
          /\ calls'[d].pc \in {"calling", "landed", "orphan"}
      <4>1. CASE d = c
        BY <1>1, <1>3, <3>0, <4>1
      <4>2. CASE d # c
        BY <1>3, <4>2 DEF AloneIsAlone
      <4> QED BY <4>1, <4>2
    <3>2. PICK g \in Hooks : g = calls[d].hook
      BY <3>1 DEF Resting, CallsHaveHooks
    <3>3. Busy(g) = {d} /\ Busy(g)' = Busy(g)
      BY <1>1, <1>3, <1>5, <3>1, <3>2 DEF AloneIsAlone, Resting
    <3>4. (Busy(calls[d].hook))' = {e \in Calls : calls'[e].hook = g}
      BY <3>1, <3>2 DEF Busy
    <3>5. Busy(g)' = {e \in Calls : calls'[e].hook = g}
      BY DEF Busy
    <3> QED BY <3>1, <3>3, <3>4, <3>5
  <2>3. OthersTangle'
    BY <1>1, <1>2, <1>3 DEF OthersTangle, HooksTypeOK
  <2> QED BY <2>2, <2>3
<1>9. LandedHolds'
  <2>1. \A d \in Calls \ {c} : calls[d].alone => calls[d].hook \in Hooks /\ calls[d].hook # h
    BY <1>1 DEF AloneIsAlone, CallsHaveHooks, Resting
  <2>2. /\ calls'[c].alone => calls[c].alone
        /\ calls'[c].alone => calls'[c].hook = h /\ (h \in regs' <=> calls'[c].kind = "enable")
    BY <1>3 DEF Resting, HooksTypeOK
  <2> QED BY <1>2, <1>3, <2>1, <2>2 DEF LandedHolds
<1>10. SettledHooksAgree'
  <2>1. calls'[c] = Resting => h \in tangled
    BY <1>1, <1>3 DEF OthersTangle, HooksTypeOK, Resting
  <2>2. calls'[c] # Resting => Busy(h)' # {}
    BY <1>1, <1>5
  <2> SUFFICES ASSUME NEW g \in Hooks, Busy(g)' = {}, ~(g \in tangled')
               PROVE  hooks'[g] = "on" <=> g \in regs'
    BY DEF SettledHooksAgree
  <2>3. g # h
    BY <1>2, <2>1, <2>2
  <2>4. Busy(g) = {}
    BY <1>5, <2>3
  <2> QED BY <1>2, <2>3, <2>4 DEF SettledHooksAgree
<1>11. LogAgrees' /\ QuietIsOff'
  BY <1>2, <1>5 DEF LogAgrees, QuietIsOff, HooksTypeOK
<1> QED BY <1>4, <1>6, <1>7, <1>8, <1>9, <1>10, <1>11

-----------------------------------------------------------------------------
(* Calls are given up, by their caller or by the overseer's death.           *)

LEMMA GivenUpIs ==
  ASSUME NEW r \in CallRecord
  PROVE  \/ GivenUp(r) = Resting /\ r.pc \notin {"calling", "orphan"}
         \/ /\ GivenUp(r) # Resting /\ GivenUp(r) \in CallRecord /\ GivenUp(r).pc = "orphan"
            /\ r.pc \in {"calling", "orphan"}
            /\ GivenUp(r).kind = r.kind /\ GivenUp(r).hook = r.hook /\ GivenUp(r).alone = r.alone
<1>1. CASE r.pc \in {"calling", "orphan"}
  <2> DEFINE q == [r EXCEPT !.pc = "orphan"]
  <2>1. GivenUp(r) = q
    BY <1>1 DEF GivenUp
  <2>2. q \in CallRecord /\ q.kind = r.kind /\ q.hook = r.hook /\ q.pc = "orphan" /\ q.alone = r.alone
    BY CallMoves
  <2> HIDE DEF q
  <2> QED BY <1>1, <2>1, <2>2, RestingFields
<1>2. CASE r.pc \notin {"calling", "orphan"}
  BY <1>2 DEF GivenUp
<1> QED BY <1>1, <1>2

LEMMA GivingUpKeeps ==
  ASSUME HooksInv, NEW D \in SUBSET Calls,
         calls' = [c \in Calls |-> IF c \in D THEN GivenUp(calls[c]) ELSE calls[c]],
         tangled \subseteq tangled', tangled' \subseteq Hooks,
         \A c \in D : calls[c] # Resting => calls[c].hook \in tangled',
         UNCHANGED <<hooks, log, gadgets, regs, quiet>>,
         removal' \in [of : Gadgets \cup {Workspace, Nothing}, todo : SUBSET Hooks],
         firing' \in [Hooks -> FiringRecord],
         \A h \in Hooks : firing'[h] = firing[h] \/ firing'[h] = NoFiring
  PROVE  HooksInv'
<1> USE DEF HooksInv
<1>0. calls \in [Calls -> CallRecord] /\ Resting \in CallRecord
  BY TypeOfRecords DEF Resting, CallRecord
<1>1. \A c \in Calls :
        /\ calls'[c] \in CallRecord
        /\ \/ calls'[c] = Resting
           \/ calls'[c] = calls[c] /\ c \notin D
           \/ /\ c \in D /\ calls'[c].pc = "orphan" /\ calls[c].pc \in {"calling", "orphan"}
              /\ calls'[c].kind = calls[c].kind /\ calls'[c].hook = calls[c].hook
              /\ calls'[c].alone = calls[c].alone
  <2> SUFFICES ASSUME NEW c \in Calls
               PROVE  /\ calls'[c] \in CallRecord
                      /\ \/ calls'[c] = Resting
                         \/ calls'[c] = calls[c] /\ c \notin D
                         \/ /\ c \in D /\ calls'[c].pc = "orphan" /\ calls[c].pc \in {"calling", "orphan"}
                            /\ calls'[c].kind = calls[c].kind /\ calls'[c].hook = calls[c].hook
                            /\ calls'[c].alone = calls[c].alone
    OBVIOUS
  <2>1. CASE c \notin D
    BY <1>0, <2>1
  <2>2. CASE c \in D
    <3>1. calls'[c] = GivenUp(calls[c]) /\ calls[c] \in CallRecord
      BY <1>0, <2>2
    <3> QED BY <1>0, <2>2, <3>1, GivenUpIs
  <2> QED BY <2>1, <2>2
<1>2. \A c \in Calls : calls'[c] # Resting =>
        calls[c] # Resting /\ calls'[c].hook = calls[c].hook /\ calls'[c].kind = calls[c].kind
  BY <1>1, RestingFields
<1>3. \A c \in Calls : calls'[c].alone =>
        /\ calls'[c] # Resting /\ calls[c].alone
        /\ calls'[c].pc = "landed" => calls'[c] = calls[c]
  <2> SUFFICES ASSUME NEW c \in Calls, calls'[c].alone
               PROVE  /\ calls'[c] # Resting /\ calls[c].alone
                      /\ calls'[c].pc = "landed" => calls'[c] = calls[c]
    OBVIOUS
  <2>1. ~Resting.alone
    BY DEF Resting
  <2>2. calls'[c] # Resting
    BY <2>1
  <2> QED BY <1>1, <2>2
<1>4. HooksTypeOK'
  <2>1. calls' \in [Calls -> CallRecord]
    BY <1>1
  <2>2. \A c \in Calls : calls'[c].pc = "idle" <=> calls'[c] = Resting
    <3>1. Resting.pc = "idle"
      BY DEF Resting
    <3> QED BY <1>1, <3>1 DEF HooksTypeOK
  <2> QED BY <2>1, <2>2 DEF HooksTypeOK, CallRecord, FiringRecord
<1>5. \A h \in Hooks : Busy(h)' \subseteq Busy(h) /\ Enabling(h)' \subseteq Enabling(h)
  <2>1. Resting.hook \notin Hooks
    BY NamesAssumption DEF Resting, NamesAssumption, HooksInv
  <2> QED BY <1>2, <2>1 DEF Busy, Enabling
<1>6. CallsHaveHooks'
  BY <1>2 DEF CallsHaveHooks
<1>7. UnboundIsUntouched'
  BY <1>5 DEF UnboundIsUntouched
<1>8. AloneIsAlone'
  <2> SUFFICES ASSUME NEW d \in Calls, calls'[d].alone
               PROVE  /\ (Busy(calls[d].hook))' = {d}
                      /\ calls'[d].pc \in {"calling", "landed", "orphan"}
    BY DEF AloneIsAlone
  <2>1. calls'[d] # Resting /\ calls[d].alone /\ calls'[d].hook = calls[d].hook
    BY <1>2, <1>3
  <2>2. PICK g \in Hooks : g = calls[d].hook
    BY <1>2, <2>1 DEF CallsHaveHooks
  <2>3. Busy(g) = {d} /\ Busy(g)' \subseteq Busy(g)
    BY <1>5, <2>1, <2>2 DEF AloneIsAlone
  <2>4. d \in Busy(g)'
    BY <2>1, <2>2 DEF Busy
  <2>5. (Busy(calls[d].hook))' = Busy(g)'
    BY <2>1, <2>2 DEF Busy
  <2>6. calls'[d].pc \in {"calling", "landed", "orphan"}
    BY <1>1, <2>1 DEF AloneIsAlone
  <2> QED BY <2>3, <2>4, <2>5, <2>6
<1>9. OthersTangle'
  <2> SUFFICES ASSUME NEW d \in Calls, calls'[d] # Resting,
                      ~calls'[d].alone \/ calls'[d].pc = "orphan"
               PROVE  calls'[d].hook \in tangled'
    BY DEF OthersTangle
  <2> QED BY <1>1, <1>2 DEF OthersTangle
<1>10. LandedHolds'
  BY <1>3 DEF LandedHolds
<1>11. SettledHooksAgree'
  <2> SUFFICES ASSUME NEW g \in Hooks, Busy(g)' = {}, ~(g \in tangled')
               PROVE  hooks'[g] = "on" <=> g \in regs'
    BY DEF SettledHooksAgree
  <2>1. Busy(g) = {}
    <3> SUFFICES ASSUME NEW c \in Calls, calls[c].hook = g PROVE FALSE
      BY DEF Busy
    <3>1. calls'[c].hook # g
      BY DEF Busy
    <3>2. c \in D /\ calls[c] # Resting
      BY <1>1, <3>1, NamesAssumption DEF Resting, NamesAssumption, HooksInv
    <3> QED BY <3>2
  <2> QED BY <2>1 DEF SettledHooksAgree
<1>12. LogAgrees' /\ QuietIsOff'
  BY <1>5 DEF LogAgrees, QuietIsOff, NoFiring, HooksTypeOK
<1> QED BY <1>4, <1>6, <1>7, <1>8, <1>9, <1>10, <1>11, <1>12

LEMMA CallThrowsKeeps ==
  ASSUME HooksInv, NEW c \in Calls, CallThrows(c)
  PROVE  HooksInv'
<1> USE DEF HooksInv
<1>1. calls[c] # Resting /\ calls[c].hook \in Hooks
  BY DEF CallThrows, CallsHaveHooks, HooksTypeOK
<1>2. calls' = [d \in Calls |-> IF d \in {c} THEN GivenUp(calls[d]) ELSE calls[d]]
  BY DEF CallThrows, HooksTypeOK
<1>3. removal' \in [of : Gadgets \cup {Workspace, Nothing}, todo : SUBSET Hooks]
  BY DEF CallThrows, HooksTypeOK, NoRemoval
<1>4. /\ tangled' = tangled \cup {calls[c].hook} /\ tangled \subseteq Hooks
      /\ UNCHANGED <<hooks, log, gadgets, regs, firing, quiet>>
  BY DEF CallThrows, HooksTypeOK
<1>5. /\ firing' \in [Hooks -> FiringRecord]
      /\ \A h \in Hooks : firing'[h] = firing[h]
      /\ {c} \in SUBSET Calls
      /\ \A d \in {c} : calls[d] # Resting => calls[d].hook \in tangled'
      /\ tangled \subseteq tangled' /\ tangled' \subseteq Hooks
  BY <1>1, <1>4, TypeOfRecords
<1> HIDE DEF HooksInv
<1> QED BY <1>2, <1>3, <1>4, <1>5, GivingUpKeeps

LEMMA HooksRestartKeeps ==
  ASSUME HooksInv, HooksRestart
  PROVE  HooksInv'
<1> USE DEF HooksInv
<1>1. calls' = [d \in Calls |-> IF d \in Calls THEN GivenUp(calls[d]) ELSE calls[d]]
  BY DEF HooksRestart
<1>2. removal' \in [of : Gadgets \cup {Workspace, Nothing}, todo : SUBSET Hooks]
  BY DEF HooksRestart, NoRemoval
<1>3. /\ tangled' = tangled \cup {h \in Hooks : \E c \in Calls : calls[c].hook = h}
      /\ UNCHANGED <<hooks, log, gadgets, regs, quiet>>
      /\ \A c \in Calls : calls[c] # Resting => calls[c].hook \in tangled'
      /\ tangled' \subseteq Hooks
  BY DEF HooksRestart, CallsHaveHooks, HooksTypeOK
<1>4. /\ firing' \in [Hooks -> FiringRecord]
      /\ \A h \in Hooks : firing'[h] = firing[h] \/ firing'[h] = NoFiring
  BY TypeOfRecords DEF HooksRestart, NoFiring, FiringRecord
<1>5. tangled \subseteq tangled' /\ Calls \in SUBSET Calls
  BY <1>3 DEF HooksTypeOK
<1> HIDE DEF HooksInv
<1> QED BY <1>1, <1>2, <1>3, <1>4, <1>5, GivingUpKeeps

-----------------------------------------------------------------------------
(* Steps that leave the calls alone.                                         *)

Removals == [of : Gadgets \cup {Workspace, Nothing}, todo : SUBSET Hooks]

LEMMA CallsStay ==
  ASSUME HooksInv, UNCHANGED <<calls, regs, tangled>>,
         \A h \in Hooks : hooks'[h] = "unbound" => hooks[h] = "unbound"
  PROVE  /\ CallsHaveHooks' /\ UnboundIsUntouched' /\ AloneIsAlone' /\ OthersTangle' /\ LandedHolds'
         /\ \A h \in Hooks : Busy(h)' = Busy(h) /\ Enabling(h)' = Enabling(h)
BY DEF HooksInv, CallsHaveHooks, UnboundIsUntouched, AloneIsAlone, OthersTangle, LandedHolds,
   Busy, Enabling

LEMMA BindHookKeeps ==
  ASSUME HooksInv, NEW h \in Hooks, BindHook(h)
  PROVE  HooksInv'
<1> USE DEF HooksInv
<1>1. /\ UNCHANGED <<gadgets, regs, calls, removal, firing, quiet, tangled>>
      /\ hooks \in [Hooks -> {"unbound", "off", "on", "gone"}]
      /\ hooks[h] = "unbound" /\ hooks' = [hooks EXCEPT ![h] = "off"]
  BY DEF BindHook, HooksTypeOK
<1>2. HooksTypeOK'
  BY DEF BindHook, HooksTypeOK
<1>3. /\ CallsHaveHooks' /\ UnboundIsUntouched' /\ AloneIsAlone' /\ OthersTangle' /\ LandedHolds'
      /\ \A g \in Hooks : Busy(g)' = Busy(g) /\ Enabling(g)' = Enabling(g)
  BY <1>1, CallsStay
<1>4. SettledHooksAgree'
  BY <1>1, <1>3 DEF SettledHooksAgree, UnboundIsUntouched
<1>5. LogAgrees'
  BY <1>1 DEF BindHook, LogAgrees, HooksTypeOK
<1>6. QuietIsOff'
  BY <1>1, <1>3 DEF QuietIsOff, HooksTypeOK
<1> QED BY <1>2, <1>3, <1>4, <1>5, <1>6

\* A hook that is off is deleted at once, or said to be disabled.
LEMMA EndsAtOnce ==
  ASSUME HooksInv, NEW h \in Hooks, hooks[h] = "off",
         Erased(h) \/ UNCHANGED <<hooks, log>>,
         quiet' = EndTold(h), UNCHANGED <<gadgets, regs, calls, firing, tangled>>,
         removal' \in Removals
  PROVE  HooksInv'
<1> USE DEF HooksInv
<1>1. /\ hooks \in [Hooks -> {"unbound", "off", "on", "gone"}]
      /\ hooks' = hooks \/ hooks' = [hooks EXCEPT ![h] = "gone"]
  BY DEF Erased, HooksTypeOK
<1>2. /\ quiet' \subseteq quiet \cup {h} /\ quiet \subseteq Hooks
      /\ h \in quiet' \ quiet => /\ Enabling(h) = {}
                                 /\ ~(firing[h].live /\ firing[h].pc \in {"checked", "admitted"})
  BY EndToldIsQuiet DEF HooksTypeOK
<1>3. HooksTypeOK'
  <2>1. log' \in [Hooks -> LogRecord]
    BY ErasedLog DEF HooksTypeOK, LogRecord
  <2> QED BY <1>1, <1>2, <2>1 DEF HooksTypeOK, Removals, LogRecord
<1>4. /\ CallsHaveHooks' /\ UnboundIsUntouched' /\ AloneIsAlone' /\ OthersTangle' /\ LandedHolds'
      /\ \A g \in Hooks : Busy(g)' = Busy(g) /\ Enabling(g)' = Enabling(g)
  BY <1>1, CallsStay
<1>5. SettledHooksAgree'
  BY <1>1, <1>4 DEF SettledHooksAgree
<1>6. LogAgrees'
  BY ErasedLog DEF LogAgrees
<1>7. QuietIsOff'
  BY <1>1, <1>2, <1>4 DEF QuietIsOff
<1> QED BY <1>3, <1>4, <1>5, <1>6, <1>7

\* A removal moves on and touches no hook.
LEMMA RemovalMoves ==
  ASSUME HooksInv, UNCHANGED <<hooks, log, regs, calls, firing, quiet, tangled>>,
         gadgets' \subseteq Gadgets, removal' \in Removals
  PROVE  HooksInv'
<1> USE DEF HooksInv
<1>1. HooksTypeOK'
  BY DEF HooksTypeOK, Removals
<1>2. /\ CallsHaveHooks' /\ UnboundIsUntouched' /\ AloneIsAlone' /\ OthersTangle' /\ LandedHolds'
      /\ \A g \in Hooks : Busy(g)' = Busy(g) /\ Enabling(g)' = Enabling(g)
  BY CallsStay
<1>3. SettledHooksAgree' /\ LogAgrees' /\ QuietIsOff'
  BY <1>2 DEF SettledHooksAgree, LogAgrees, QuietIsOff, HooksTypeOK
<1> QED BY <1>1, <1>2, <1>3

\* The workspace goes, with all its hooks.
LEMMA WorkspaceGoes ==
  ASSUME HooksInv, RemovalEnds, removal.of = Workspace
  PROVE  HooksInv'
<1> USE DEF HooksInv
<1>1. /\ UNCHANGED <<regs, calls, firing>> /\ gadgets' = {} /\ removal' = NoRemoval
      /\ quiet' = UNION {EndTold(h) : h \in Hooks}
      /\ tangled' = tangled \cup {h \in Hooks : hooks[h] = "on"}
      /\ hooks' = [h \in Hooks |-> "gone"]
      /\ log' = [h \in Hooks |-> NoLog]
  BY DEF RemovalEnds
<1>2. \A h \in quiet' \ quiet :
        /\ h \in Hooks /\ Enabling(h) = {}
        /\ ~(firing[h].live /\ firing[h].pc \in {"checked", "admitted"})
  <2> SUFFICES ASSUME NEW h \in quiet', h \notin quiet
               PROVE  /\ h \in Hooks /\ Enabling(h) = {}
                      /\ ~(firing[h].live /\ firing[h].pc \in {"checked", "admitted"})
    OBVIOUS
  <2>1. PICK g \in Hooks : h \in EndTold(g)
    BY <1>1
  <2>2. h = g
    BY <2>1 DEF EndTold
  <2> QED BY <2>1, <2>2 DEF EndTold
<1>3. HooksTypeOK'
  BY <1>1, <1>2 DEF HooksTypeOK, NoRemoval, NoLog
<1>4. \A h \in Hooks : Busy(h)' = Busy(h) /\ Enabling(h)' = Enabling(h)
  BY <1>1 DEF Busy, Enabling
<1>5. CallsHaveHooks' /\ UnboundIsUntouched' /\ AloneIsAlone' /\ OthersTangle' /\ LandedHolds'
  BY <1>1 DEF CallsHaveHooks, UnboundIsUntouched, AloneIsAlone, OthersTangle, LandedHolds, Busy
<1>6. SettledHooksAgree'
  BY <1>1, <1>4 DEF SettledHooksAgree
<1>7. LogAgrees' /\ QuietIsOff'
  BY <1>1, <1>2, <1>4 DEF LogAgrees, QuietIsOff, NoLog, HooksTypeOK
<1> QED BY <1>3, <1>5, <1>6, <1>7

LEMMA RemovalKeeps ==
  ASSUME HooksInv,
         \/ \E of \in Gadgets \cup {Workspace} : RemovalStarts(of)
         \/ \E h \in Hooks : RemovalDeletes(h) \/ RemovalDisables(h)
         \/ RemovalEnds
  PROVE  HooksInv'
<1>1. HooksTypeOK /\ gadgets \subseteq Gadgets /\ removal \in Removals /\ NoRemoval \in Removals
  BY DEF HooksInv, HooksTypeOK, Removals, NoRemoval
<1>2. CASE \E of \in Gadgets \cup {Workspace} : RemovalStarts(of)
  <2>1. UNCHANGED <<hooks, log, gadgets, regs, calls, firing, quiet, tangled>> /\ removal' \in Removals
    BY <1>1, <1>2 DEF RemovalStarts, Removals
  <2> QED BY <1>1, <2>1, RemovalMoves
<1>3. ASSUME NEW h \in Hooks, RemovalDeletes(h)
      PROVE  HooksInv'
  <2>1. UNCHANGED <<gadgets, regs, firing>> /\ removal' \in Removals /\ calls[Loop] = Resting
    BY <1>1, <1>3 DEF RemovalDeletes, RemovalNext, Removals
  <2>2. CASE DeleteCalls(Loop, h) /\ UNCHANGED <<hooks, log, quiet>>
    <3>1. hooks[h] # "unbound" /\ Call(Loop, "delete", h) /\ Loop \in Calls
      BY <2>2 DEF DeleteCalls, Calls
    <3> QED BY <1>1, <2>1, <2>2, <3>1, CallBegins DEF Removals
  <2>3. CASE /\ hooks[h] = "off" /\ Erased(h)
             /\ quiet' = EndTold(h)
             /\ UNCHANGED <<calls, tangled>>
    BY <2>1, <2>3, EndsAtOnce
  <2>4. CASE hooks[h] = "gone" /\ UNCHANGED <<hooks, log, calls, quiet, tangled>>
    BY <1>1, <2>1, <2>4, RemovalMoves
  <2> QED BY <1>3, <2>2, <2>3, <2>4 DEF RemovalDeletes
<1>4. ASSUME NEW h \in Hooks, RemovalDisables(h)
      PROVE  HooksInv'
  <2>1. UNCHANGED <<hooks, log, gadgets, regs, firing, quiet>> /\ removal' \in Removals /\ calls[Loop] = Resting
    BY <1>1, <1>4 DEF RemovalDisables, RemovalNext, Removals
  <2>2. CASE DisableCalls(Loop, h)
    <3>1. hooks[h] # "unbound" /\ Call(Loop, "disable", h) /\ Loop \in Calls
      BY <2>2 DEF DisableCalls, Calls
    <3> QED BY <1>1, <2>1, <2>2, <3>1, CallBegins DEF Removals
  <2>3. CASE UNCHANGED <<calls, tangled>>
    BY <1>1, <2>1, <2>3, RemovalMoves
  <2> QED BY <1>4, <2>2, <2>3 DEF RemovalDisables
<1>5. CASE RemovalEnds
  <2>1. CASE removal.of = Workspace
    BY <1>5, <2>1, WorkspaceGoes
  <2>2. CASE removal.of # Workspace
    <3>1. /\ UNCHANGED <<hooks, log, regs, calls, firing, quiet, tangled>>
          /\ gadgets' \subseteq Gadgets /\ removal' \in Removals
      BY <1>1, <1>5, <2>2 DEF RemovalEnds
    <3> QED BY <3>1, RemovalMoves
  <2> QED BY <2>1, <2>2
<1> QED BY <1>2, <1>3, <1>4, <1>5

-----------------------------------------------------------------------------
(* A call's answer arrives.                                                  *)

LEMMA HooksAnsweredKeeps ==
  ASSUME HooksInv, NEW c \in Calls, CallAnswered(c)
  PROVE  HooksInv'
<1> USE DEF HooksInv
<1>0. calls[c] # Resting /\ calls[c].hook \in Hooks /\ calls[c].pc = "landed"
  BY RestingFields DEF CallAnswered, CallsHaveHooks
<1>1. PICK h \in Hooks : h = calls[c].hook
  BY <1>0
<1>2. /\ UNCHANGED <<gadgets, regs, removal, firing>>
      /\ calls' = [calls EXCEPT ![c] = Resting]
      /\ IF calls[c].kind = "delete" THEN Erased(h) ELSE Switched(h, calls[c].kind = "enable")
      /\ quiet' = IF calls[c].kind = "enable" THEN quiet ELSE EndTold(h)
      /\ tangled' = IF calls[c].alone THEN tangled \ {h} ELSE tangled
  BY <1>1 DEF CallAnswered
<1>3. /\ calls \in [Calls -> CallRecord]
      /\ calls'[c] = Resting
      /\ \A d \in Calls \ {c} : calls'[d] = calls[d]
  BY <1>2, TypeOfRecords
<1>4. /\ hooks' \in [Hooks -> {"unbound", "off", "on", "gone"}]
      /\ \A g \in Hooks \ {h} : hooks'[g] = hooks[g]
      /\ hooks'[h] = "on" <=> calls[c].kind = "enable"
      /\ hooks'[h] # "unbound"
  <2>1. hooks' = [hooks EXCEPT ![h] = IF calls[c].kind = "delete" THEN "gone"
                                     ELSE IF calls[c].kind = "enable" THEN "on" ELSE "off"]
    BY <1>2 DEF Erased, Switched
  <2>2. hooks \in [Hooks -> {"unbound", "off", "on", "gone"}]
    BY DEF HooksTypeOK
  <2>3. /\ hooks' \in [Hooks -> {"unbound", "off", "on", "gone"}]
        /\ \A g \in Hooks \ {h} : hooks'[g] = hooks[g]
    BY <2>1, <2>2
  <2>4. hooks'[h] = "on" <=> calls[c].kind = "enable"
    BY <1>2, <2>1, <2>2
  <2>5. hooks'[h] # "unbound"
    BY <2>1, <2>2
  <2> QED BY <2>3, <2>4, <2>5
<1>5. /\ quiet' \subseteq quiet \cup {h} /\ quiet \subseteq Hooks
      /\ h \in quiet' => calls[c].kind # "enable" \/ h \in quiet
      /\ h \in quiet' \ quiet => /\ Enabling(h) = {}
                                 /\ ~(firing[h].live /\ firing[h].pc \in {"checked", "admitted"})
  BY <1>2, EndToldIsQuiet DEF HooksTypeOK
<1>6. log' \in [Hooks -> LogRecord] /\ LogAgrees'
  <2>1. CASE calls[c].kind = "delete"
    BY <1>2, <2>1, ErasedLog
  <2>2. CASE calls[c].kind # "delete"
    <3> DEFINE r == [log[h] EXCEPT !.enabled = (calls[c].kind = "enable") /\ log[h].there]
    <3>1. log \in [Hooks -> LogRecord]
      BY DEF HooksTypeOK, LogRecord
    <3>2. log' = [log EXCEPT ![h] = r]
      BY <1>2, <2>2 DEF Switched
    <3>3. r \in LogRecord /\ r.there = log[h].there /\ (r.enabled <=> calls[c].kind = "enable" /\ log[h].there)
      <4>1. log[h] \in LogRecord
        BY <3>1
      <4> QED BY <4>1, LogUpdates
    <3> HIDE DEF r
    <3>4. log' \in [Hooks -> LogRecord]
      BY <3>1, <3>2, <3>3
    <3>5. ASSUME NEW g \in Hooks, log'[g].there
          PROVE  log'[g].enabled <=> hooks'[g] = "on"
      <4>1. CASE g = h
        BY <1>4, <3>1, <3>2, <3>3, <3>5, <4>1
      <4>2. CASE g # h
        BY <1>4, <3>1, <3>2, <3>5, <4>2 DEF LogAgrees
      <4> QED BY <4>1, <4>2
    <3> QED BY <3>4, <3>5 DEF LogAgrees
  <2> QED BY <2>1, <2>2
<1>7. HooksTypeOK'
  <2>1. calls' \in [Calls -> CallRecord] /\ \A d \in Calls : calls'[d].pc = "idle" <=> calls'[d] = Resting
    BY <1>2, <1>3, RestingFields DEF HooksTypeOK
  <2>2. tangled' \subseteq Hooks
    BY <1>2 DEF HooksTypeOK
  <2> QED BY <1>2, <1>4, <1>5, <1>6, <2>1, <2>2 DEF HooksTypeOK, CallRecord, LogRecord
<1>8. /\ \A g \in Hooks \ {h} : Busy(g)' = Busy(g)
      /\ Busy(h)' = Busy(h) \ {c} /\ c \in Busy(h)
      /\ \A g \in Hooks : Enabling(g)' \subseteq Enabling(g)
  BY <1>1, <1>3, RestingFields, NamesAssumption DEF Busy, Enabling, NamesAssumption, HooksInv
<1>9. CallsHaveHooks'
  BY <1>3 DEF CallsHaveHooks
<1>10. UnboundIsUntouched'
  BY <1>2, <1>4, <1>8 DEF UnboundIsUntouched
<1>11. \A d \in Calls : calls'[d].alone =>
         d # c /\ calls'[d] = calls[d] /\ calls[d].hook \in Hooks /\ calls[d].hook # h
  <2> SUFFICES ASSUME NEW d \in Calls, calls'[d].alone
               PROVE  d # c /\ calls'[d] = calls[d] /\ calls[d].hook \in Hooks /\ calls[d].hook # h
    OBVIOUS
  <2>1. d # c /\ calls'[d] = calls[d] /\ calls[d].alone
    BY <1>3, RestingFields
  <2>2. calls[d] # Resting /\ Busy(calls[d].hook) = {d}
    BY <2>1, RestingFields DEF AloneIsAlone
  <2> QED BY <1>8, <2>1, <2>2 DEF CallsHaveHooks
<1>12. AloneIsAlone'
  <2> SUFFICES ASSUME NEW d \in Calls, calls'[d].alone
               PROVE  /\ (Busy(calls[d].hook))' = {d}
                      /\ calls'[d].pc \in {"calling", "landed", "orphan"}
    BY DEF AloneIsAlone
  <2>1. PICK g \in Hooks \ {h} : g = calls[d].hook
    BY <1>11
  <2>2. calls'[d] = calls[d] /\ Busy(g) = {d} /\ Busy(g)' = Busy(g) /\ calls[d].alone
    BY <1>8, <1>11, <2>1 DEF AloneIsAlone
  <2>3. (Busy(calls[d].hook))' = Busy(g)'
    BY <2>1, <2>2 DEF Busy
  <2> QED BY <2>2, <2>3 DEF AloneIsAlone
<1>13. OthersTangle'
  <2> SUFFICES ASSUME NEW d \in Calls, calls'[d] # Resting,
                      ~calls'[d].alone \/ calls'[d].pc = "orphan"
               PROVE  calls'[d].hook \in tangled'
    BY DEF OthersTangle
  <2>1. d # c /\ calls'[d] = calls[d]
    BY <1>3
  <2>2. calls[d].hook \in tangled
    BY <2>1 DEF OthersTangle
  <2>3. calls[c].alone => calls[d].hook # h
    BY <1>1, <2>1 DEF AloneIsAlone, Busy
  <2> QED BY <1>2, <2>1, <2>2, <2>3
<1>14. LandedHolds'
  BY <1>2, <1>11 DEF LandedHolds
<1>15. SettledHooksAgree'
  <2> SUFFICES ASSUME NEW g \in Hooks, Busy(g)' = {}, ~(g \in tangled')
               PROVE  hooks'[g] = "on" <=> g \in regs'
    BY DEF SettledHooksAgree
  <2>1. CASE g # h
    BY <1>2, <1>4, <1>8, <2>1 DEF SettledHooksAgree
  <2>2. CASE g = h
    <3>1. calls[c].alone
      BY <1>0, <1>1, <1>2, <2>2 DEF OthersTangle
    <3>2. h \in regs <=> calls[c].kind = "enable"
      BY <1>0, <1>1, <3>1 DEF LandedHolds
    <3> QED BY <1>2, <1>4, <2>2, <3>2
  <2> QED BY <2>1, <2>2
<1>16. QuietIsOff'
  <2> SUFFICES ASSUME NEW g \in quiet'
               PROVE  /\ hooks'[g] # "on" /\ Enabling(g)' = {}
                      /\ ~(firing'[g].live /\ firing'[g].pc \in {"checked", "admitted"})
    BY DEF QuietIsOff
  <2>1. g \in Hooks /\ Enabling(g) = {} /\ ~(firing[g].live /\ firing[g].pc \in {"checked", "admitted"})
    BY <1>5 DEF QuietIsOff
  <2>2. g = h => calls[c].kind # "enable"
    BY <1>8, <2>1 DEF Enabling
  <2>3. g # h => hooks[g] # "on"
    BY <1>5 DEF QuietIsOff
  <2> QED BY <1>2, <1>4, <1>8, <2>1, <2>2, <2>3
<1> QED BY <1>6, <1>7, <1>9, <1>10, <1>12, <1>13, <1>14, <1>15, <1>16

-----------------------------------------------------------------------------
LEMMA UserCallsKeep ==
  ASSUME HooksInv, NEW c \in Users, NEW h \in Hooks,
         EnableHook(c, h) \/ DisableHook(c, h) \/ DeleteHook(c, h)
  PROVE  HooksInv'
<1>1. /\ c \in Calls /\ calls[c] = Resting /\ hooks[h] # "unbound"
      /\ UNCHANGED <<hooks, log, gadgets, regs, removal, firing>>
  BY DEF EnableHook, DisableHook, DeleteHook, DisableCalls, DeleteCalls, Calls
<1>2. PICK kind \in {"enable", "disable", "delete"} :
        Call(c, kind, h) /\ quiet' = IF kind = "enable" THEN quiet \ {h} ELSE quiet
  BY DEF EnableHook, DisableHook, DeleteHook, DisableCalls, DeleteCalls
<1>3. gadgets' \subseteq Gadgets /\ removal' \in [of : Gadgets \cup {Workspace, Nothing}, todo : SUBSET Hooks]
  BY <1>1 DEF HooksInv, HooksTypeOK
<1> QED BY <1>1, <1>2, <1>3, CallBegins

LEMMA NextHooksInv == HooksInv /\ [HooksNext]_hooksVars => HooksInv'
<1> SUFFICES ASSUME HooksInv, [HooksNext]_hooksVars PROVE HooksInv'
  OBVIOUS
<1>0. removal \in Removals
  BY DEF HooksInv, HooksTypeOK, Removals
<1>1. ASSUME NEW h \in Hooks, BindHook(h) PROVE HooksInv'
  BY <1>1, BindHookKeeps
<1>2. ASSUME NEW c \in Users, NEW h \in Hooks,
             EnableHook(c, h) \/ DisableHook(c, h) \/ DeleteHook(c, h)
      PROVE  HooksInv'
  BY <1>2, UserCallsKeep
<1>3. ASSUME NEW h \in Hooks, DisableNothing(h) \/ DeleteAtOnce(h) PROVE HooksInv'
  <2>1. /\ hooks[h] = "off"
        /\ \/ Erased(h)
           \/ UNCHANGED <<hooks, log>>
        /\ quiet' = EndTold(h) /\ UNCHANGED <<gadgets, regs, calls, removal, firing, tangled>>
    BY <1>3 DEF DisableNothing, DeleteAtOnce
  <2> QED BY <1>0, <2>1, EndsAtOnce
<1>4. ASSUME NEW c \in Calls, CallLands(c) \/ OrphanLands(c) \/ OrphanIsLost(c) PROVE HooksInv'
  BY <1>4, CallLandsKeeps
<1>5. ASSUME NEW c \in Calls, CallAnswered(c) PROVE HooksInv'
  BY <1>5, HooksAnsweredKeeps
<1>6. ASSUME NEW c \in Calls, CallThrows(c) PROVE HooksInv'
  BY <1>6, CallThrowsKeeps
<1>7. CASE \/ \E of \in Gadgets \cup {Workspace} : RemovalStarts(of)
           \/ \E h \in Hooks : RemovalDeletes(h) \/ RemovalDisables(h)
           \/ RemovalEnds
  BY <1>7, RemovalKeeps
<1>8. ASSUME NEW h \in Hooks,
             \/ FiringStarts(h) \/ StartHook(h) \/ HookAdmitted(h)
             \/ HookRefused(h) \/ Deliver(h) \/ CallbackEnds(h)
      PROVE  HooksInv'
  BY <1>8, FiringSteps
<1>9. CASE HooksRestart
  BY <1>9, HooksRestartKeeps
<1>10. CASE UNCHANGED hooksVars
  <2>1. UNCHANGED <<hooks, log, gadgets, regs, calls, removal, firing, quiet, tangled>> /\ gadgets \subseteq Gadgets
    BY <1>10 DEF hooksVars, HooksInv, HooksTypeOK
  <2> QED BY <1>0, <2>1, RemovalMoves
<1> QED BY <1>1, <1>2, <1>3, <1>4, <1>5, <1>6, <1>7, <1>8, <1>9, <1>10 DEF HooksNext

-----------------------------------------------------------------------------
LEMMA HooksInvariance == HooksSpec => []HooksInv
<1> QED BY InitHooksInv, NextHooksInv, PTL DEF HooksSpec

\* Every variable keeps its type.
THEOREM HooksTypeCorrect == HooksSpec => []HooksTypeOK
<1>1. HooksInv => HooksTypeOK
  BY DEF HooksInv
<1> QED BY <1>1, HooksInvariance, PTL

\* Whatever races, failures and crashes have left behind, a call that goes through
\* alone leaves the overseer's record and the gatekeeper's registration in
\* agreement (enableHook(), disableHook(), deleteHook()).
THEOREM UndisturbedCallsRepair == HooksSpec => []SettledHooksAgree
<1>1. HooksInv => SettledHooksAgree
  BY DEF HooksInv
<1> QED BY <1>1, HooksInvariance, PTL

\* The activity log and boundHooks say the same of every hook.
THEOREM HooksLogIsTrue == HooksSpec => []LogAgrees
<1>1. HooksInv => LogAgrees
  BY DEF HooksInv
<1> QED BY <1>1, HooksInvariance, PTL

\* After the end of a hook was reported, undisturbed, no event of it reaches the
\* gadget: startHook() stops those that come later, the gatekeeper's fence those
\* that were admitted before.
THEOREM EndedHooksAreSilent == HooksSpec => QuietHooksStayQuiet
<1>1. ASSUME HooksInv, [HooksNext]_hooksVars, NEW h \in Hooks,
             firing'[h].pc = "callback", firing[h].pc # "callback"
      PROVE  h \notin quiet
  <2>0. firing \in [Hooks -> FiringRecord] /\ NoFiring.pc = "idle"
    BY <1>1, TypeOfRecords DEF HooksInv, NoFiring
  <2>1. firing[h].live /\ firing[h].pc = "admitted"
    <3>1. ASSUME NEW g \in Hooks, Deliver(g) PROVE firing[h].live /\ firing[h].pc = "admitted"
      BY <1>1, <2>0, <3>1 DEF Deliver
    <3>2. ASSUME NEW g \in Hooks,
                 FiringStarts(g) \/ StartHook(g) \/ HookRefused(g) \/ CallbackEnds(g) \/ HookAdmitted(g)
          PROVE  FALSE
      <4>1. PICK f : firing' = [firing EXCEPT ![g] = f] /\ f.pc # "callback"
        <5>1. CASE HookAdmitted(g)
          <6>1. firing' = [firing EXCEPT ![g] = [firing[g] EXCEPT !.pc = "admitted"]]
            BY <5>1 DEF HookAdmitted
          <6>2. [firing[g] EXCEPT !.pc = "admitted"].pc = "admitted"
            <7>1. firing[g] \in FiringRecord
              BY <2>0
            <7> QED BY <7>1, FiringUpdates
          <6> DEFINE f == [firing[g] EXCEPT !.pc = "admitted"]
          <6>3. firing' = [firing EXCEPT ![g] = f] /\ f.pc # "callback"
            BY <6>1, <6>2
          <6> HIDE DEF f
          <6> QED BY <6>3
        <5>2. CASE FiringStarts(g)
          <6> DEFINE f == [pc |-> "asked", live |-> TRUE]
          <6>1. firing' = [firing EXCEPT ![g] = f] /\ f.pc # "callback"
            BY <5>2 DEF FiringStarts
          <6> HIDE DEF f
          <6> QED BY <6>1
        <5>3. CASE StartHook(g)
          <6>1. \/ firing' = [firing EXCEPT ![g] = [pc |-> "checked", live |-> firing[g].live]]
                \/ firing' = [firing EXCEPT ![g] = NoFiring]
            BY <5>3 DEF StartHook
          <6> QED BY <2>0, <6>1
        <5>4. CASE HookRefused(g) \/ CallbackEnds(g)
          BY <2>0, <5>4 DEF HookRefused, CallbackEnds
        <5> QED BY <3>2, <5>1, <5>2, <5>3, <5>4
      <4> QED BY <1>1, <2>0, <4>1
    <3>3. ASSUME NEW c \in Calls, CallLands(c) \/ OrphanLands(c)
          PROVE  FALSE
      <4>1. firing' = firing \/ firing' = [firing EXCEPT ![calls[c].hook].live = FALSE]
        BY <3>3 DEF CallLands, OrphanLands, Controller
      <4> DEFINE f == [firing[calls[c].hook] EXCEPT !.live = FALSE]
      <4>2. firing' = firing \/ firing' = [firing EXCEPT ![calls[c].hook] = f]
        BY <4>1
      <4>3. ASSUME calls[c].hook = h PROVE f.pc = firing[h].pc
        <5>1. firing[h] \in FiringRecord
          BY <2>0
        <5> QED BY <4>3, <5>1, FiringUpdates
      <4> HIDE DEF f
      <4>4. calls[c].hook # h => firing'[h] = firing[h]
        BY <2>0, <4>2
      <4>5. calls[c].hook = h => firing'[h] = firing[h] \/ firing'[h] = f
        BY <2>0, <4>2
      <4> QED BY <1>1, <4>3, <4>4, <4>5
    <3>4. CASE HooksRestart
      BY <1>1, <2>0, <3>4 DEF HooksRestart
    <3>5. CASE UNCHANGED firing
      BY <1>1, <3>5
    <3> QED
      BY <1>1, <3>1, <3>2, <3>3, <3>4, <3>5
      DEF HooksNext, hooksVars, BindHook, EnableHook, DisableHook, DeleteHook, DisableNothing, DeleteAtOnce,
          CallAnswered, CallThrows, OrphanIsLost, RemovalStarts, RemovalDeletes, RemovalDisables, RemovalEnds
  <2> QED BY <1>1, <2>1 DEF HooksInv, QuietIsOff
<1>2. HooksInv /\ [HooksNext]_hooksVars =>
         [\A h \in Hooks : firing'[h].pc = "callback" /\ firing[h].pc # "callback"
                            => h \notin quiet]_hooksVars
  BY <1>1
<1> QED BY <1>2, HooksInvariance, PTL DEF HooksSpec, QuietHooksStayQuiet
=============================================================================
