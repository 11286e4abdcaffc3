------------------------------ MODULE ChatTurns ------------------------------
(***************************************************************************)
(* The turns of the agent of one chat: who starts a turn, what ends it,    *)
(* and who waits for it.  A turn is started by a user's message, by a      *)
(* retry or the resumption of a suspended turn, by a callback that a       *)
(* gadget makes on the agent, or by a restart of the overseer.  A callback *)
(* is queued in the chat's LiveChatContext and handed to the agent by      *)
(* #startAgentForCallbacks(), which awaits the user's object between       *)
(* reading the queue and taking it; several of these calls, here starters, *)
(* may be under way at once.  The response to a message that came from     *)
(* outside waits for the end of the turn.                                  *)
(*                                                                         *)
(* A starter keeps a reference to the array it found as the queue: what is *)
(* pushed later is in it too, until some starter puts a new array in its   *)
(* place.  A starter is "attached" as long as its array is still the       *)
(* queue; then it is left with the callbacks that the array held (batch).  *)
(* A starter "knows" the live context until that leaves the map; a later   *)
(* one is another object.                                                  *)
(***************************************************************************)
EXTENDS Naturals, FiniteSets, Bags

CONSTANTS
    Callbacks,     \* calls of gadgets on the agent's `self`
    Turns,         \* calls of #runAgentTurn() that may be under way
    MaxTurns,      \* bound on the turns users start
    MaxRestarts    \* bound on the restarts of the overseer

ASSUME TurnsAssumption == /\ Turns # {}
                          /\ MaxTurns \in Nat
                          /\ MaxRestarts \in Nat

VARIABLES
    chat,          \* the row in chatMeta, and whether it has an activeAgent
    row,           \* is there a row in activeAgents?
    running,       \* is the chat in #runningAgents?
    live,          \* is there a LiveChatContext in the map?
    stopped,       \* its cancelController was aborted
    queue,         \* its pendingAgentCallbacks
    answering,     \* its activeAgentCallbacks
    turns,         \* the calls of #runAgentTurn() or #resumeAgent()
    starters,      \* the bag of calls of #startAgentForCallbacks() under way
    preparing,     \* the message being prepared: none, a user's, from outside
    deleting,      \* deleteChat() is between its first step and the last
    response,      \* the undelivered response to a message from outside
    callback,      \* where the promise of each callback stands
    forgotten,     \* history: callbacks nobody was left to look after
    abandoned,     \* history: nobody was left to deliver the response
    userTurns, restarts

context == <<live, stopped, queue, answering>>
history == <<forgotten, abandoned>>
turnsVars == <<chat, row, running, context, turns, starters, preparing,
               deleting, response, callback, history, userTurns, restarts>>

NoTurn == [at |-> "none", stopAsked |-> FALSE]

\* What there is to know of a starter.
Starter == [at : {"asking", "answered"}, knows : BOOLEAN, attached : BOOLEAN,
            batch : SUBSET Callbacks]

TurnsTypeOK ==
    /\ chat \in {"idle", "active", "deleted"}
    /\ {row, running, live, stopped, deleting, abandoned} \subseteq BOOLEAN
    /\ queue \subseteq Callbacks /\ answering \subseteq Callbacks
    /\ turns \in [Turns ->
          [at : {"none", "resuming", "starting", "prompting", "ending"},
           stopAsked : BOOLEAN]]
    /\ IsABag(starters) /\ BagToSet(starters) \subseteq Starter
    /\ preparing \in {"none", "user", "outside"}
    /\ response \in {"none", "waiting", "ready"}
    /\ callback \in [Callbacks -> {"unsent", "unsettled", "settled"}]
    /\ forgotten \subseteq Callbacks
    /\ userTurns \in 0..MaxTurns /\ restarts \in 0..MaxRestarts

TurnsInit ==
    /\ chat = "idle" /\ row = FALSE /\ running = FALSE
    /\ live = FALSE /\ stopped = FALSE /\ queue = {} /\ answering = {}
    /\ turns = [t \in Turns |-> NoTurn]
    /\ starters = EmptyBag
    /\ preparing = "none" /\ deleting = FALSE /\ response = "none"
    /\ callback = [c \in Callbacks |-> "unsent"]
    /\ forgotten = {} /\ abandoned = FALSE
    /\ userTurns = 0 /\ restarts = 0

-----------------------------------------------------------------------------
(* What the steps are made of *)

Settled(cs) ==
    [c \in Callbacks |-> IF c \in cs THEN "settled" ELSE callback[c]]

\* The array a starter holds.
Batch(s) == IF s.attached THEN queue ELSE s.batch

\* pendingAgentCallbacks = []: who shared the old array keeps it.
Detach(s) ==
    IF s.attached THEN [s EXCEPT !.attached = FALSE, !.batch = queue] ELSE s

\* The context leaves the map: it is no longer the live one.
Forget(s) == [s EXCEPT !.knows = FALSE]

\* Nobody is left to look after what the queue holds beyond a batch.
Dropped(s) == queue \ Batch(s)

\* startAgent(): all three records of the turn, and its context, at once.
StartAgent ==
    /\ turns' = [turns EXCEPT
          ![CHOOSE t \in Turns : turns[t].at = "none"].at = "starting"]
    /\ chat' = "active" /\ row' = TRUE /\ running' = TRUE /\ live' = TRUE

\* A call of #startAgentForCallbacks(), up to its first await.
LaunchStarter ==
    starters' = starters (+) SetToBag({[at |-> "asking", knows |-> TRUE,
                                        attached |-> TRUE, batch |-> {}]})

\* The starters but for one.
Without(s) == starters (-) SetToBag({s})

\* What a starter finds of the chat after its awaits.
StillIdleMut == chat # "deleted"
StillIdle == chat = "idle"

\* What the end of a turn finds of the queue.
NothingQueuedMut == TRUE
NothingQueued == queue = {}

\* #deliverWaitingExternalMessageResponse().
DeliverWaitingMut == UNCHANGED response
DeliverWaiting ==
    response' = IF response = "waiting" THEN "ready" ELSE response

-----------------------------------------------------------------------------
(* Users: messages, retries, stops, deletion *)

\* sendChatMessage() reserves the chat and awaits the preparation.
Prepare(kind) ==
    /\ chat = "idle" /\ preparing = "none"
    /\ userTurns < MaxTurns
    /\ userTurns' = userTurns + 1
    /\ preparing' = kind
    /\ UNCHANGED <<chat, row, running, context, turns, starters, deleting,
                   response, callback, history, restarts>>

\* The message is committed and its turn started.  A chat has one
\* undelivered response at most; a second one refuses the message.
Commit ==
    /\ preparing # "none" /\ chat = "idle"
    /\ preparing = "outside" => response = "none"
    /\ StartAgent
    /\ response' = IF preparing = "outside" THEN "waiting" ELSE response
    /\ preparing' = "none"
    /\ UNCHANGED <<stopped, queue, answering, starters, deleting, callback,
                   history, userTurns, restarts>>

\* The preparation failed, the chat was deleted meanwhile, the message was
\* refused, or its author has no model: no turn.  Disposing of the
\* reservation starts the agent for the callbacks that waited for it.
CommitsNoTurn ==
    /\ preparing # "none"
    /\ preparing' = "none"
    /\ IF live /\ queue # {} /\ chat # "active"
       THEN LaunchStarter
       ELSE UNCHANGED starters
    /\ UNCHANGED <<chat, row, running, context, turns, deleting, response,
                   callback, history, userTurns, restarts>>

\* retryAgent(), and #resumeSuspendedAgent() after its awaits.
Retry ==
    /\ chat = "idle" /\ preparing = "none"
    /\ userTurns < MaxTurns
    /\ userTurns' = userTurns + 1
    /\ StartAgent
    /\ UNCHANGED <<stopped, queue, answering, starters, preparing, deleting,
                   response, callback, history, restarts>>

\* stopAgent() aborts the controller of the live context, if there is one.
StopAgent ==
    /\ live /\ ~stopped
    /\ stopped' = TRUE
    /\ turns' = [t \in Turns |->
          [turns[t] EXCEPT !.stopAsked = turns[t].at # "none"]]
    /\ UNCHANGED <<chat, row, running, live, queue, answering, starters,
                   preparing, deleting, response, callback, history,
                   userTurns, restarts>>

\* deleteChat() answers for the response, then awaits the removal of the
\* chat's provisional gadgets.
DeleteBegins ==
    /\ chat # "deleted" /\ ~deleting
    /\ deleting' = TRUE
    /\ DeliverWaiting
    /\ UNCHANGED <<chat, row, running, context, turns, starters, preparing,
                   callback, history, userTurns, restarts>>

\* Then it drops the chat's rows and destroys its live context: the arrays
\* keep what they held, and the turn keeps the context.
DeleteEnds ==
    /\ deleting
    /\ deleting' = FALSE
    /\ chat' = "deleted" /\ row' = FALSE
    /\ live' = FALSE
    /\ stopped' = (live \/ stopped)
    /\ callback' = IF live THEN Settled(queue \cup answering) ELSE callback
    /\ UNCHANGED <<running, queue, answering, turns, starters, preparing,
                   response, history, userTurns, restarts>>

-----------------------------------------------------------------------------
(* Callbacks and their starters *)

\* deliverAgentCallback(): the call is queued; an idle agent is started.
DeliverCallback(c) ==
    /\ callback[c] = "unsent" /\ chat # "deleted"
    /\ callback' = [callback EXCEPT ![c] = "unsettled"]
    /\ live' = TRUE
    /\ queue' = queue \cup {c}
    /\ IF chat = "idle" /\ preparing = "none"
       THEN LaunchStarter
       ELSE UNCHANGED starters
    /\ UNCHANGED <<chat, row, running, stopped, answering, turns, preparing,
                   deleting, response, history, userTurns, restarts>>

\* The model is known, but a message is being prepared.
StarterWaits(s) ==
    /\ s.at = "asking" /\ preparing # "none"
    /\ starters' = Without(s) (+) SetToBag({[s EXCEPT !.at = "answered"]})
    /\ UNCHANGED <<chat, row, running, context, turns, preparing, deleting,
                   response, callback, history, userTurns, restarts>>

\* Both are done, and by now an agent runs: its end will see the queue.
StarterYields(s) ==
    /\ preparing = "none" /\ chat = "active"
    /\ starters' = Without(s)
    /\ UNCHANGED <<chat, row, running, context, turns, preparing, deleting,
                   response, callback, history, userTurns, restarts>>

\* Both are done and the chat is idle: the queue gets a new array, the
\* callbacks of the one held go to the log and are registered in the context
\* the starter knows, and the agent starts, with the live context.
StarterStarts(s) ==
    /\ preparing = "none" /\ StillIdle
    /\ StartAgent
    /\ IF s.knows
       THEN /\ starters' = BagOfAll(Detach, Without(s))
            /\ queue' = {}
            /\ answering' = answering \cup Batch(s)
            /\ forgotten' = forgotten \cup Dropped(s)
       ELSE /\ starters' = Without(s)
            /\ forgotten' = forgotten \cup Batch(s)
            /\ UNCHANGED <<queue, answering>>
    /\ UNCHANGED <<stopped, preparing, deleting, response, callback,
                   abandoned, userTurns, restarts>>

\* The user's object failed or knows no model, or the chat was deleted: the
\* callbacks of the array held are rejected, and the queue gets a new one.
StarterFails(s) ==
    /\ s.at = "asking" \/ (preparing = "none" /\ chat = "deleted")
    /\ callback' = Settled(Batch(s))
    /\ IF s.knows
       THEN /\ starters' = BagOfAll(Detach, Without(s))
            /\ queue' = {}
            /\ forgotten' = forgotten \cup Dropped(s)
       ELSE /\ starters' = Without(s)
            /\ UNCHANGED <<queue, forgotten>>
    /\ abandoned' = (abandoned \/ (response = "waiting" /\ chat # "active"))
    /\ UNCHANGED <<chat, row, running, live, stopped, answering, turns,
                   preparing, deleting, response, userTurns, restarts>>

-----------------------------------------------------------------------------
(* The turn itself *)

Moves(t, from, to) ==
    /\ turns[t].at = from
    /\ turns' = [turns EXCEPT ![t].at = to]

\* After its first awaits the turn looks at the controller, then prompts.
Prompts(t) ==
    /\ ~stopped
    /\ Moves(t, "starting", "prompting")
    /\ UNCHANGED <<chat, row, running, context, starters, preparing, deleting,
                   response, callback, history, userTurns, restarts>>

\* The agent resolves or rejects a callback; only the map knows its context.
Answers(c) ==
    /\ live /\ c \in answering
    /\ \E t \in Turns : turns[t].at = "prompting"
    /\ answering' = answering \ {c}
    /\ callback' = Settled({c})
    /\ UNCHANGED <<chat, row, running, live, stopped, queue, turns, starters,
                   preparing, deleting, response, history, userTurns, restarts>>

\* runAgent() returned or threw, the usage limit was reached, or the
\* controller was aborted: an error rejects the callbacks left, the end of
\* the turn resolves them otherwise; then provisional gadgets are reaped.
Finishes(t) ==
    /\ \/ Moves(t, "starting", "ending") /\ UNCHANGED <<answering, callback>>
       \/ /\ Moves(t, "prompting", "ending") \/ Moves(t, "starting", "ending")
          /\ answering' = {}
          /\ callback' = Settled(answering)
    /\ UNCHANGED <<chat, row, running, live, stopped, queue, starters,
                   preparing, deleting, response, history, userTurns, restarts>>

\* The rest of the finally block.  The turn's records go together; queued
\* callbacks start the next turn, and only without any the response is
\* delivered and the context leaves the map.
Ends(t) ==
    /\ turns[t].at = "ending" /\ turns' = [turns EXCEPT ![t] = NoTurn]
    /\ chat' = IF chat = "active" THEN "idle" ELSE chat
    /\ row' = FALSE /\ running' = FALSE
    /\ answering' = {}
    /\ IF NothingQueued
       THEN /\ DeliverWaiting
            /\ live' = FALSE /\ stopped' = FALSE
            /\ starters' = BagOfAll(Forget, starters)
            /\ callback' = Settled(answering)
            /\ UNCHANGED <<queue, abandoned>>
       ELSE IF chat # "deleted"
       THEN /\ LaunchStarter
            /\ callback' = Settled(answering)
            /\ UNCHANGED <<queue, live, stopped, response, abandoned>>
       ELSE /\ queue' = {}
            /\ starters' = BagOfAll(Detach, starters)
            /\ callback' = Settled(answering \cup queue)
            /\ abandoned' = (abandoned \/ response = "waiting")
            /\ UNCHANGED <<live, stopped, response>>
    /\ UNCHANGED <<preparing, deleting, forgotten, userTurns, restarts>>

-----------------------------------------------------------------------------
(* Restarts *)

\* The memory is gone, and with it the promises; the constructor resumes the
\* turn that storage knows of.
TurnsRestart ==
    /\ restarts < MaxRestarts
    /\ restarts' = restarts + 1
    /\ running' = row /\ live' = row
    /\ stopped' = FALSE /\ queue' = {} /\ answering' = {}
    /\ \E t \in Turns :
          turns' = [u \in Turns |->
              IF row /\ u = t THEN [NoTurn EXCEPT !.at = "resuming"] ELSE NoTurn]
    /\ starters' = EmptyBag
    /\ preparing' = "none" /\ deleting' = FALSE
    /\ callback' = Settled({c \in Callbacks : callback[c] = "unsettled"})
    /\ abandoned' = (abandoned \/ (response = "waiting" /\ ~row))
    /\ UNCHANGED <<chat, row, response, forgotten, userTurns>>

\* #resumeAgent() found the model again.
Resumes(t) ==
    /\ Moves(t, "resuming", "starting")
    /\ UNCHANGED <<chat, row, running, context, starters, preparing, deleting,
                   response, callback, history, userTurns, restarts>>

\* It did not: the turn is over, with no look at the queue.
ResumeFails(t) ==
    /\ turns[t].at = "resuming" /\ turns' = [turns EXCEPT ![t] = NoTurn]
    /\ chat' = IF chat = "active" THEN "idle" ELSE chat
    /\ row' = FALSE /\ running' = FALSE
    /\ DeliverWaiting
    /\ forgotten' = forgotten \cup queue
    /\ UNCHANGED <<context, starters, preparing, deleting, callback, abandoned,
                   userTurns, restarts>>

-----------------------------------------------------------------------------
\* The gateway has acknowledged the response.
Delivered ==
    /\ response = "ready"
    /\ response' = "none"
    /\ UNCHANGED <<chat, row, running, context, turns, starters, preparing,
                   deleting, callback, history, userTurns, restarts>>

StarterStep(s) ==
    /\ BagIn(s, starters)
    /\ \/ StarterWaits(s) \/ StarterYields(s)
       \/ StarterFails(s) \/ StarterStarts(s)

TurnStep(t) ==
    Prompts(t) \/ Finishes(t) \/ Ends(t) \/ Resumes(t) \/ ResumeFails(t)

MessageStep == Commit \/ CommitsNoTurn

TurnsNext ==
    \/ \E kind \in {"user", "outside"} : Prepare(kind)
    \/ MessageStep
    \/ Retry \/ StopAgent
    \/ DeleteBegins \/ DeleteEnds
    \/ \E c \in Callbacks : DeliverCallback(c) \/ Answers(c)
    \/ \E s \in BagToSet(starters) : StarterStep(s)
    \/ \E t \in Turns : TurnStep(t)
    \/ TurnsRestart
    \/ Delivered

\* What the runtime and the services behind it owe: an await returns, with
\* an answer or an error, a model call ends.  Nothing of users and gadgets.
Fairness ==
    /\ \A s \in Starter : WF_turnsVars(StarterStep(s))
    /\ \A t \in Turns : WF_turnsVars(TurnStep(t))
    /\ WF_turnsVars(MessageStep)

TurnsSpec == TurnsInit /\ [][TurnsNext]_turnsVars /\ Fairness

-----------------------------------------------------------------------------
(* Properties *)

Underway == {t \in Turns : turns[t].at # "none"}

\* "The three representations of 'an agent is running for this chat' stay
\* consistent" (#registerRunningAgent): never two turns of a chat at once,
\* and the chat's metadata, the stored row and the registry agree with it; a
\* deleted chat keeps neither metadata nor row.
OneAgentPerChat ==
    /\ Cardinality(Underway) <= 1
    /\ running <=> Underway # {}
    /\ chat # "deleted" => (chat = "active" <=> running) /\ (row <=> running)
    /\ chat = "deleted" => ~row

\* A gadget's call on the agent comes to an end: some turn answers it or it
\* is rejected, whatever users do meanwhile.  The exceptions are counted
\* where they arise: a starter that gives the queue a new array drops what
\* was pushed to the present one, and a failed resumption leaves it.
CallbacksAreSettled ==
    \A c \in Callbacks :
        callback[c] = "unsettled" ~> (callback[c] = "settled" \/ c \in forgotten)

\* What came from outside is answered, if only with an error, though the
\* turn was followed by callbacks' turns, stopped, interrupted or its chat
\* deleted.  The exception: a starter in which the delivery was waiting
\* fails, or dies with the overseer.
OutsideIsAnswered ==
    response = "waiting" ~> (response # "waiting" \/ abandoned)

\* The part of CallbacksAreSettled that needs no fairness: a callback that is
\* not settled is in the context of the turn that runs, or in the queue, and
\* then a turn runs whose end will see it, a message is prepared whose
\* reservation will, or a starter is on its way that holds this very queue and
\* knows its context.
CallbacksAreHeld ==
    \A c \in Callbacks :
        callback[c] = "unsettled" =>
            \/ c \in forgotten
            \/ c \in answering /\ running
            \/ /\ c \in queue
               /\ \/ running
                  \/ preparing # "none"
                  \/ \E s \in BagToSet(starters) : s.attached /\ s.knows

\* And of OutsideIsAnswered: while a response is waiting there is somebody who
\* will deliver it or hand it on.
ResponseIsHeld ==
    response = "waiting" =>
        abandoned \/ running \/ BagToSet(starters) # {}

\* "If no LLM is running, stop() does nothing" (stopAgent in api.ts): a turn
\* begins with an aborted controller only if it was asked to stop itself.
StopsWhatRuns ==
    \A t \in Turns :
        turns[t].at = "starting" /\ stopped /\ chat # "deleted" =>
            turns[t].stopAsked

\* "Once the agent finishes it will see the pending callbacks and start
\* another turn" (deliverAgentCallback).
NoneIsForgotten == forgotten \cap {c \in Callbacks : callback[c] = "unsettled"} = {}
=============================================================================
