--------------------------- MODULE McpActionStore ---------------------------
(***************************************************************************)
(* The durable lifecycle of an approval-gated MCP tool call                *)
(* (packages/mcp-shared/src/action-store.ts), with the path of the call    *)
(* through withClient (connection.ts) and McpClient (client.ts) to the MCP *)
(* server.                                                                 *)
(*                                                                         *)
(* A call is staged as a `pending` row, claimed as `applying` before any   *)
(* I/O, and settled by what is known of the call afterwards.  MCP offers   *)
(* no way to undo or to deduplicate a call, so the store promises that a   *)
(* staged call is carried out AT MOST ONCE, whatever the interleaving of   *)
(* approvals, rejections, replies and restarts of the facet.               *)
(*                                                                         *)
(* The SQLite statements between two awaits of the code are one action:    *)
(* the facet is a Durable Object, whose JavaScript is single-threaded and  *)
(* whose writes of one turn are committed together.                        *)
(***************************************************************************)
EXTENDS Integers, FiniteSets

CONSTANTS
  Callers,      \* concurrent applyAction() calls made by the overseer
  MaxActions,   \* bound: ids the AUTOINCREMENT column hands out in a run
  MaxPending,   \* MAX_PENDING_ACTIONS (50)
  MaxRetained   \* MAX_RETAINED_ACTIONS (100)

ASSUME StoreAssumption ==
  /\ MaxActions \in Nat
  /\ MaxPending \in Nat
  /\ MaxRetained \in Nat

VARIABLES
  rows,         \* the table mcp_actions: id |-> row ("absent": no such row)
  nextRow,      \* the AUTOINCREMENT sequence; an id is never reused
  submitting,   \* staged ids whose submitAction() call is unanswered
  call,         \* the applyAction() calls in flight
  orphans,      \* requests on the wire whose reply nobody awaits any more
  effects,      \* how often the MCP server carried each action out
  refused       \* actions whose last attempt the server answered with 401/403

vars == <<rows, nextRow, submitting, call, orphans, effects, refused>>

Ids == 1..MaxActions

-----------------------------------------------------------------------------
(* Operators named ...Mut are deliberately wrong variants of the definition *)
(* that follows them: each stands for a plausible bug and shows that a      *)
(* property can fail.  No specification uses them.                          *)
(*                                                                          *)
(* Rows.  `retryable` is only ever tested as `=== false`, so SQL's NULL and *)
(* `undefined` are TRUE here.                                               *)

RowStates == {"absent", "pending", "applying", "applied", "rejected", "failed"}
Row == [state : RowStates, retryable : BOOLEAN]

RowOf(state)   == [state |-> state, retryable |-> TRUE]
Absent         == RowOf("absent")
FailedRow(err) == [state |-> "failed", retryable |-> err]

\* `state NOT IN ('pending', 'applying')`, of the rows there are.
Terminal(r) == r.state \in {"applied", "rejected", "failed"}

\* `state IN ('pending', 'applying')`
Awaiting(r) == r.state \in {"pending", "applying"}

\* #prune(): keeps the MaxRetained terminal rows with the greatest ids.
Pruned(table) ==
  [id \in Ids |->
     IF /\ Terminal(table[id])
        /\ Cardinality({j \in Ids : j > id /\ Terminal(table[j])}) >= MaxRetained
     THEN Absent ELSE table[id]]

\* A settling path that forgets to prune (as the failure path once did).
SettledMut(id, row) == [rows EXCEPT ![id] = row]

\* #save() then #prune(), as every settling path does.
Settled(id, row) == Pruned([rows EXCEPT ![id] = row])

\* apply() without its guard on claims, and without the one on closed failures.
ClaimableMut1(r) == r.state \in {"pending", "applying"} \/ (r.state = "failed" /\ r.retryable)
ClaimableMut2(r) == r.state \in {"pending", "failed"}

\* The guards of apply(): what it refuses, silently or with an error.
Claimable(r) ==
  \/ r.state = "pending"
  \/ r.state = "failed" /\ r.retryable

-----------------------------------------------------------------------------
(* How a call fails.  authRequired: a 401 (McpAuthRequiredError); declined: *)
(* a 403, or a JSON-RPC error to `initialize`; sessionExpired: a 404 to a   *)
(* request bearing a session id; unknown: everything else, from a dropped   *)
(* connection to a body that does not parse, an error of tools/call and a   *)
(* failed RPC to the account.                                               *)

Errors == {"authRequired", "declined", "sessionExpired", "unknown"}

\* What withClient rethrows: it reports a 401 to the account and wraps it in
\* a plain Error that tells the user to reconnect.
WithClientError(err) == IF err = "authRequired" THEN "unknown" ELSE err

\* A lapsed session taken as proof that the call was never dispatched.
CallMayHaveTakenEffectMut(err) == err \notin {"authRequired", "declined", "sessionExpired"}

\* callMayHaveTakenEffect(): only a 401 and a declined call are known not to
\* have; a lapsed session and whatever it does not recognize are not.
CallMayHaveTakenEffect(err) == err \notin {"authRequired", "declined"}

\* The failures a call can meet at each point of withClient: before
\* tools/call is sent (getConnection, initialize), while the server has not
\* acted on it, and after it has.  A 401 and a 403 say the server did not act;
\* a 404 may be synthesized by a proxy after the upstream accepted the call.
ErrorsAt(pc) ==
  CASE pc = "connecting" -> {"authRequired", "declined", "unknown"}
    [] pc = "sent"       -> Errors
    [] pc = "executed"   -> {"sessionExpired", "unknown"}

RetryOnExpiryMut == TRUE

\* applyAction() passes retryOnExpiry: false, so that a write is not resent.
RetryOnExpiry == FALSE

-----------------------------------------------------------------------------
Idle == [pc |-> "idle", id |-> 0]
InFlight == {"connecting", "sent", "executed"}
Call == [pc : {"idle"} \cup InFlight, id : {0} \cup Ids]

Init ==
  /\ rows = [id \in Ids |-> Absent]
  /\ nextRow = 1
  /\ submitting = {}
  /\ call = [k \in Callers |-> Idle]
  /\ orphans = [id \in Ids |-> 0]
  /\ effects = [id \in Ids |-> 0]
  /\ refused = {}

\* stage(), called by McpSession.callTool, which then awaits submitAction().
Stage ==
  /\ nextRow \in Ids
  /\ Cardinality({id \in Ids : Awaiting(rows[id])}) < MaxPending
  /\ rows' = [rows EXCEPT ![nextRow] = RowOf("pending")]
  /\ nextRow' = nextRow + 1
  /\ submitting' = submitting \cup {nextRow}
  /\ UNCHANGED <<call, orphans, effects, refused>>

\* submitAction() returned: the overseer holds a record for the row.
Submitted(id) ==
  /\ id \in submitting
  /\ submitting' = submitting \ {id}
  /\ UNCHANGED <<rows, nextRow, call, orphans, effects, refused>>

\* submitAction() threw: discard() deletes the row, if it is still pending.
Discard(id) ==
  /\ id \in submitting
  /\ submitting' = submitting \ {id}
  /\ rows' = IF rows[id].state = "pending" THEN [rows EXCEPT ![id] = Absent]
                                           ELSE rows
  /\ UNCHANGED <<nextRow, call, orphans, effects, refused>>

\* apply() up to its await: the claim is durable before any I/O.  (Its other
\* early returns and throws change nothing.)
Claim(k, id) ==
  /\ call[k].pc = "idle"
  /\ Claimable(rows[id])
  /\ rows' = [rows EXCEPT ![id].state = "applying"]
  /\ call' = [call EXCEPT ![k] = [pc |-> "connecting", id |-> id]]
  /\ refused' = refused \ {id}
  /\ UNCHANGED <<nextRow, submitting, orphans, effects>>

\* withClient has a connection (and, if it needs one, a fresh session) and
\* the request goes out.
Send(k) ==
  /\ call[k].pc = "connecting"
  /\ call' = [call EXCEPT ![k].pc = "sent"]
  /\ UNCHANGED <<rows, nextRow, submitting, orphans, effects, refused>>

\* The MCP server carries the call out.
ServerExecutes(k) ==
  /\ call[k].pc = "sent"
  /\ call' = [call EXCEPT ![k].pc = "executed"]
  /\ effects' = [effects EXCEPT ![call[k].id] = @ + 1]
  /\ UNCHANGED <<rows, nextRow, submitting, orphans, refused>>

\* A request nobody waits for any more reaches the server after all.
OrphanExecutes(id) ==
  /\ orphans[id] > 0
  /\ orphans' = [orphans EXCEPT ![id] = @ - 1]
  /\ effects' = [effects EXCEPT ![id] = @ + 1]
  /\ UNCHANGED <<rows, nextRow, submitting, call, refused>>

\* ... or never does.
OrphanLost(id) ==
  /\ orphans[id] > 0
  /\ orphans' = [orphans EXCEPT ![id] = @ - 1]
  /\ UNCHANGED <<rows, nextRow, submitting, call, effects, refused>>

\* The result arrived.  Flattening, capping or losing its text does not change
\* the state of the row.
SettleApplied(k) ==
  LET id == call[k].id IN
  /\ call[k].pc = "executed"
  /\ rows' = Settled(id, RowOf("applied"))
  /\ call' = [call EXCEPT ![k] = Idle]
  /\ UNCHANGED <<nextRow, submitting, orphans, effects, refused>>

\* The request of call k may still be under way when its failure is reported.
StillOnTheWire(k, err) ==
  call[k].pc = "sent" /\ err \in {"sessionExpired", "unknown"}

\* The call failed.  withClient may run it again on a fresh session; if not,
\* apply()'s catch block settles the row.
Failed(k, err) ==
  LET id    == call[k].id
      again == RetryOnExpiry /\ err = "sessionExpired"
  IN
  /\ call[k].pc \in InFlight
  /\ err \in ErrorsAt(call[k].pc)
  /\ orphans' = IF StillOnTheWire(k, err) THEN [orphans EXCEPT ![id] = @ + 1]
                                          ELSE orphans
  /\ call' = [call EXCEPT ![k] = IF again THEN [@ EXCEPT !.pc = "connecting"] ELSE Idle]
  /\ rows' = IF again THEN rows
             ELSE Settled(id, FailedRow(~CallMayHaveTakenEffect(WithClientError(err))))
  /\ refused' = IF err \in {"authRequired", "declined"} THEN refused \cup {id}
                                                        ELSE refused
  /\ UNCHANGED <<nextRow, submitting, effects>>

\* reject(): a no-op on rows that are gone or rejected, an error on rows that
\* are applying, applied or failed.
Reject(id) ==
  /\ rows[id].state = "pending"
  /\ rows' = Settled(id, RowOf("rejected"))
  /\ UNCHANGED <<nextRow, submitting, call, orphans, effects, refused>>

\* A new activation of the facet: the calls in flight lose their awaiter, the
\* constructor closes the claims they left and prunes.
Restart ==
  /\ rows' = Pruned([id \in Ids |-> IF rows[id].state = "applying"
                                    THEN FailedRow(FALSE) ELSE rows[id]])
  /\ orphans' = [id \in Ids |->
       orphans[id] + Cardinality({k \in Callers : call[k] = [pc |-> "sent", id |-> id]})]
  /\ call' = [k \in Callers |-> Idle]
  /\ submitting' = {}
  /\ UNCHANGED <<nextRow, effects, refused>>

Next ==
  \/ Stage
  \/ \E id \in Ids : Submitted(id)
  \/ \E id \in Ids : Discard(id)
  \/ \E k \in Callers, id \in Ids : Claim(k, id)
  \/ \E k \in Callers : Send(k)
  \/ \E k \in Callers : ServerExecutes(k)
  \/ \E id \in Ids : OrphanExecutes(id)
  \/ \E id \in Ids : OrphanLost(id)
  \/ \E k \in Callers : SettleApplied(k)
  \/ \E k \in Callers, err \in Errors : Failed(k, err)
  \/ \E id \in Ids : Reject(id)
  \/ Restart

Spec == Init /\ [][Next]_vars

-----------------------------------------------------------------------------
(* What the store promises.                                                 *)

TypeOK ==
  /\ rows \in [Ids -> Row]
  /\ nextRow \in 1..(MaxActions + 1)
  /\ submitting \subseteq Ids
  /\ call \in [Callers -> Call]
  /\ orphans \in [Ids -> Nat]
  /\ effects \in [Ids -> Nat]
  /\ refused \subseteq Ids

\* A staged call is carried out at most once by the MCP server, over every
\* interleaving of approvals, late deliveries of abandoned requests, retries
\* after a failure, and restarts (action-store.ts:1-2, client.ts:133-134:
\* "Retrying the second kind is how one approval becomes two writes").
AtMostOnce == \A id \in Ids : effects[id] <= 1

\* The row tells the truth about the world: an applied call was carried out;
\* one that is offered for retry, waits for approval or was rejected was not,
\* and no abandoned request can still bring it about.
Untouched(id) == effects[id] = 0 /\ orphans[id] = 0
RowTellsTheTruth ==
  \A id \in Ids :
    /\ rows[id].state = "applied" => effects[id] = 1
    /\ rows[id].state \in {"pending", "rejected"} => Untouched(id)
    /\ rows[id].state = "failed" /\ rows[id].retryable => Untouched(id)

\* A claim has exactly one owner: every row that is `applying` is being
\* applied by exactly one call in flight, so no claim is left behind by a
\* failure or a restart (it would count against the pending limit for ever).
ClaimHasOneOwner ==
  \A id \in Ids :
    Cardinality({k \in Callers : call[k].pc # "idle" /\ call[k].id = id})
      = IF rows[id].state = "applying" THEN 1 ELSE 0

\* The table stays bounded: at most MaxPending calls wait for a decision and
\* at most MaxRetained settled ones are kept, whatever fails and restarts
\* (action-store.test.ts:143 "does not accumulate records for an endpoint
\* where every call fails").
TableIsBounded ==
  /\ Cardinality({id \in Ids : rows[id].state = "pending"}) <= MaxPending
  /\ Cardinality({id \in Ids : Terminal(rows[id])}) <= MaxRetained

\* What a step may never do to a closed row: an applied, rejected or
\* outcome-unknown action keeps its verdict until it is pruned.
Closed(r) ==
  \/ r.state \in {"applied", "rejected"}
  \/ r.state = "failed" /\ ~r.retryable
ClosedRowsStayClosed ==
  [][\A id \in Ids : Closed(rows[id]) => rows'[id] \in {rows[id], Absent}]_vars

-----------------------------------------------------------------------------
(* What the documentation says of the store and the code does not do.       *)

\* client.ts:157 and client.ts:130-131: "The server demanded authorization, so it
\* never reached the tool" -- a call that the server answered with a 401 or a
\* 403 can be retried.
RefusedIsRetryable ==
  \A id \in refused : rows[id].state = "failed" => rows[id].retryable

=============================================================================
