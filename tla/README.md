# FieldOS: a TLA+ model of what agents may do, and when

FieldOS lets agents and gadgets act on the outside world through *gatekeepers* (MCP
servers, GitHub, Home Assistant, a scheduler), in workspaces that several people share.
What cannot be undone is submitted for approval first; what is to happen later is bound
to a hook or scheduled; what an agent writes is a proposal until somebody accepts it.
This directory models the code that decides **whether, how often, when and for whom
such a thing is carried out**. All of it runs in Durable Objects: one JavaScript thread,
atomic between awaits, open to everything at an await, and mortal at any time.

Paths are relative to `packages/`; files without a directory are in
`workshop-backend/src/`.

## 1. Inventory

| Part | State it keeps | Operations | What makes it correct |
|---|---|---|---|
| **Approval queue** (`overseer.ts`: `submitAction`, `approveAction`, `rejectAction`, the rules) | `actions`, `nextActionId`, `autoApproveTags` | submit, approve, reject, enable or disable a rule | a decision is final and matches the world; no action waits that a rule admits |
| **Drain** (`auto-approval.ts`) | which gatekeepers are draining, with a rerun flag | drain | single flight, no lost request, nothing applied past a human gate |
| **MCP action store** (`mcp-shared/src/action-store.ts`, `session.ts`, `facet.ts`, `connection.ts`, `client.ts`) | table `mcp_actions` | stage, discard, apply, reject, prune, recovery | at most one execution per approval; rows tell the truth; bounded table |
| **MCP account** (`mcp-shared/src/account.ts`) | endpoint, generation, nonce, tokens, session id, expiry notice | connect, reconnect, exchange, refresh, probe, revoke, alarm | what is stored is for the present endpoint; one redemption at a time; a link that failed can be tried again |
| **GitHub gatekeeper** (`gatekeeper-github/src/github.ts`) | action records, provisional resources | stage, apply, reject with its cascade | dependants follow what they are about |
| **Home Assistant gatekeeper** (`gatekeeper-homeassistant/src/`) | pending and applied rows | stage, apply, reject | the log tells what was carried out |
| **Turn suspension** (`overseer.ts`, `agent.ts`) | chat log, `activeAgent`, captured actions | step, turn end, approval note, resume, restart | the turn stops for decisions and is resumed after them |
| **Agent turns of a chat** (`overseer.ts`: `startAgent`, callbacks, `stopAgent`, `deleteChat`) | `chatMeta.activeAgent`, `activeAgents`, `#runningAgents`, live context | message, retry, callback, stop, delete, restart | one turn at a time; every callback settled; what came from outside answered |
| **Changes of a chat** (`overseer.ts`, `agent.ts`, `agent-compaction.ts`) | log, checkpoints, gadget registry, mainline | edit, create, accept, reject, compact, replay | mainline, offer, registry and replay agree with the log |
| **Hooks** (`overseer.ts`: `bindHook`, `enableHook`, `disableHook`, `deleteHook`, `startHook`) | `boundHooks`, their action records | enable, disable, delete, fire | overseer and gatekeeper agree; ended hooks are silent |
| **Schedule driver** (`gatekeeper-scheduler/src/schedule-driver.ts`, `driver-state.ts`) | schedule rows, capability rows, one alarm, `revoked` | enable, disable, revoke, alarm, delivery, cleanup | nothing forgotten, no stale or unbounded delivery, capabilities follow rows |
| **Sharing** (`sharing.ts`, `overseer.ts`: `open`) | collaborators with their edges, share links; sessions in memory | add, remove, create link, redeem, revoke, preview, open | roles are what the graph gives; who is kept keeps; no session outlives its role |
| **Recurrences** (`gatekeeper-scheduler/src/scheduler-core.ts`) | none | `nextFireAfter`, validation | the next instant is the first matching one |
| **Context library** (`gatekeeper-context`) | collections, artifacts | sync, refresh | shared refresh, no lost artifact |
| **User object, billing limits** (`user.ts`, `ai-gateway-billing/`) | accounts, counters | provision, count | dedup of provisioning, limits hold |
| **Typed storage** (`typed-storage`) | collections and indices over a KV store | put, delete, list | indices agree with rows |
| Router, runtime, utilities, admin, exports, OIDC, MCP catalog, frontend | little or none of their own | I/O, conversion, UI | not candidates for a model |

How they interact. A user's message, a gadget's callback or an approval starts a turn
of the agent. A step of it calls a gatekeeper, which *stages* the call and *submits* it
to the overseer by RPC. The overseer files a record, may *drain* the gatekeeper's queue
if a rule admits it, and otherwise waits for users. An approval is an RPC back to the
gatekeeper, which carries the call out and settles its own row; when it returns, the
overseer writes its record, looks in the chat's log whether a turn can go on, and
drains. The two tables are written in different steps. MCP gatekeepers get their
credentials from an account object that refreshes them for all. The scheduler is a
gatekeeper too: its hooks are enabled through the overseer, its firings come from the
driver's alarm, which asks the workspace for admission (`startHook`), then for the
observation, and then calls back. What the agent writes becomes messages of the chat's
log; acceptance applies it to the mainline, rejection to nobody, compaction folds it
into a checkpoint. Who may do any of this is the session that `open()` handed out.

What is hard. Every `await` on another object is a window: a record checked before it
is written after it; a snapshot is iterated across it; a gate is read before it. Calls
to servers can fail after they took effect, be delivered late, and never be undone. Any
object can die between any two storage operations. One fact is kept in several places
(log, checkpoint, registry, metadata; overseer and gatekeeper), and every operation has
to move them all. `PROJECT.json` lists the hazards, each at the line where it bites,
with the property that watches it or the reason why none does.

## 2. Modules

| Module | Models | Follows |
|---|---|---|
| `McpActionStore` | the store of staged calls, the path of a call, the server | `action-store.ts`, `client.ts`, `connection.ts`, parts of `session.ts`, `facet.ts` |
| `ActionQueue` | the overseer's queue, rules, drains, users | `overseer.ts` 2931-2975, 7797-8010; `auto-approval.ts` |
| `QueueService` | what the queue owes those who wait: `ActionQueue` with a history, fairness, service | as above |
| `ApprovedCall` | *abstract*: what approval promises of one call | `gatekeeper.ts` 737-762, `api.ts` 1696-1702 |
| `McpApproval` | `ActionQueue` and `McpActionStore` composed by RPC | the two together |
| `ApprovalPromise` | how `McpApproval` implements `ApprovedCall`, with a history of claims | as above |
| `GitHubStore`, `HomeAssistantStore` | two gatekeepers that claim nothing before they act | `github.ts`, `homeassistant.ts` |
| `GatekeeperApprovals` | `ActionQueue` composed with both | the three together |
| `McpAccount` | the account object, its attempts, calls and refreshes | `account.ts`, `connection.ts` |
| `TurnSuspension` | a turn and `ActionQueue` meeting in the chat log | `overseer.ts` 7797-7945, 8071-8104; `agent.ts` around 3014 and 3083 |
| `ChatTurns` | who starts and ends the turns of a chat | `overseer.ts` 1309-1384, 3655-3900, 4130-4330 and their callers |
| `ChatChanges` | the changes of a chat, their acceptance, rejection and compaction | `overseer.ts` 3300-3520, 8440-8660; `agent.ts` 1355-2070; `agent-compaction.ts` |
| `BoundHooks` | the overseer's hooks and the gatekeeper's registrations | `overseer.ts` 6900-7000, 7570-7600, 7840-7905 |
| `ScheduleState` | pure transitions of one schedule row | `driver-state.ts` |
| `ScheduleDriver` | the driver object around it | `schedule-driver.ts` |
| `Sharing` | the graph of grants, and the sessions | `sharing.ts`, `overseer.ts` 6625-6714, 8875-8960 |
| `McpActionStoreProofs`, `ActionQueueProofs`, `McpApprovalProofs`, `McpAccountProofs`, `ScheduleDriverProofs` | theorems about the module of that name | |
| `OverseerProofs`, `TurnProofs`, `WorkspaceProofs` | theorems about `GatekeeperApprovals` and `BoundHooks`, about `TurnSuspension` and `ChatTurns`, about `Sharing` and `ChatChanges` | |
| `MC_*` | constants for TLC | |

`PROJECT.json` maps every definition to its lines.

### How state and actions correspond to the code

*McpActionStore.* `rows` is the table; `retryable` is a Boolean because the code only
ever tests `=== false`. `call[k]` is one `apply()` in flight with the point it has
reached: `connecting` (claimed, nothing sent), `sent`, `executed` (the server acted, the
reply is under way). `Claim` is `apply()` up to its await, `SettleApplied` and `Failed`
are what follows it, always ending in `#prune` (`Settled`). `ErrorsAt` says which
failures can be met at each point. `orphans` are requests whose awaiter gave up or died:
they reach the server later or never. `effects` counts what the server did. `Restart` is
a new activation: the constructor closes the claims it finds.

*ActionQueue.* `drain[g]` is the local state of `#drainOnce`: the snapshot that is left,
the action being applied, the rerun flag. `Pass` runs the loop to its next await.
`ops[c]` is a user's `approveAction()` or `rejectAction()`: `Decide` is the part before
the awaits (the check), `Approved` and `Rejected` the part after (the unconditional
write). `QueueService` adds `excused`, which records that a gatekeeper's last event was
one that the code follows with no drain; the compositions leave it out.

*McpApproval.* `rowOf` ties a record to its row, `answer[k]` is the facet's reply on its
way back, so that either side can die or move on before it arrives. In `ApprovalPromise`,
`fate`, `done`, `verdict` and `forgotten` of `ApprovedCall` are computed from the two tables,
the server and `claimed`, a history of the rows that were ever claimed: the store prunes
settled rows, and then the tables alone no longer say what became of a call.

*GatekeeperApprovals.* `session[w]` is the submission of a write by its session:
`Stage`, `File` and the return of the submission are three steps, since the record can be
decided before the session hears of it (`early`). In `GitHubStore`, `live` and `retired`
are the two kinds of action records, `provisional` the ids of what is to be created,
`handed` those that sessions have got, and `ghCall` an `applyAction()` at its await; in
`HomeAssistantStore`, `pendingRows` and `appliedRows` are the two prefixes and `haCall`
an `applyAction()`. `posted` and `executed` count what the services did. `contested`
marks the records with two calls at once, or whose call was cut short.

*McpAccount.* `attempt[a]` is `beginConnect()` or `acceptAuthCode()` at its awaits, `gen`
the generation it started with; `call[c]` an operation that asked for a connection and
then uses it; `flight[c]` the refresh that it started, which others join through
`refreshing`. Tokens are numbered as the authorization server issues them, `accepted` are
those it still takes: a redemption rotates. A call remembers the token whose bearer it was
given, and an MCP server refuses a bearer, or none, whose grant is not in force or whose time
may be up. The history `blame` says that, since the stored token was stored, something
happened that may kill it: a revoked grant, an answer that got lost, a second redemption; or
that it was dead, or had a refresh of the same generation under way, when it was stored.
`misled` says that a call which did not hold the stored bearer had the account reported
expired, `overwritten` that a superseded probe wrote the server record, `crashed` which
attempt died with the link claimed.

*TurnSuspension.* `captured` are the actions of the step that is running, `logged` the
awaited actions that the log shows since the last message that starts a turn, `noted` the
approvals between their note and the start of the agent. `turn` is `activeAgent` and how
far the loop is. `owed` (what the turn has submitted to await, or found in the log when it was
started again) and `why` are history. The gatekeeper behind the queue keeps its
decisions (`Accepted`), which is what `McpApproval` shows of the MCP ones.

*ChatTurns.* `chat`, `row` and `running` are the three records that an agent is running;
`live`, `stopped`, `queue` and `answering` are the live context, whose two arrays are
`pendingAgentCallbacks` and `activeAgentCallbacks`. A `starter` is one call of
`#startAgentForCallbacks()` across its awaits. It holds a reference to the array it read:
`attached` while that array is still the queue, `batch` what it holds afterwards, `knows`
while its context is the one in the map. Starters in the same situation are not told
apart, so that they are a bag. A user's message reserves the chat (`preparing`), and
`deleteChat()` awaits in its middle (`deleting`).

*ChatChanges.* `log` is the chat's messages as far as they tell of changes, `meta` its
row (active, compacted to, has proposals), `checkpoints` the compactions, `gadget` the
registry with the sequence that a provisional gadget is stamped with, `code` the updates
in the mainline: a Yjs update is the sequence of the message that carries it. `turn` goes
through replay, summary, steps and the reconciliation at its end; `op` is a merge or
revert at its await. `overlapped` records that an operation went on after the chat had
moved on under it; the properties speak of the other histories, and the agent rests from
then on. `InFull` is the reference: what the whole log, never compacted, says.

*BoundHooks.* `hooks` and `log` are the overseer's two records of a hook, `regs` the
gatekeeper's registrations, `calls` the `enableHook()`, `disableHook()` and `deleteHook()`
in flight: read, await, and write what was read. A call whose caller is dead may still
land (`orphan`). `removal` is the loop of `removeGadget()` or `deleteSelf()`. `firing` is
a delivery between `startHook()`'s check and the callback. `quiet` and `tangled` are
history: hooks whose end was reported, and hooks whose last call was not alone or failed.

*ScheduleDriver.* The input gate of a Durable Object is closed while storage is awaited,
so each method is one action; a crash or a storage error that stops it half-way is one of
its outcomes (`EnableFails`, `alarm'` of `Revoke` and `Cleanup`, `armed` in `Replan`).
`task[s]` is a delivery waiting for the workspace. Three histories are kept apart from what
the code stores: `fired` counts callbacks, `begun` the occurrences that were begun, at the
moment an active row is taken up, and `outdated` has the deliveries that were under way when
their schedule was disabled or their account revoked. Instants are stored as *distances from
the present*: `Tick` moves every deadline one closer, a deadline that has come is 0. Time
is unbounded, the state finite. The next occurrence of a recurrence is any distance up to
`MaxGap`; which overdue rows a batch takes is any choice, as distances forget how long a
row is overdue.

*Sharing.* `addedBy` is the edges of the collaborators' records, `links` and `revoked` the
share links; a link's creator and role never change, so that an edge made by redeeming it
carries both. `Role` is what the comments of `sharing.ts` define, the best role that is
reachable from the owner, stated without a path: a user has a role unless he is outside of
a set that gives it to nobody else. `computeEffectiveRoles` is the loop. `session` and
`opening` are the overseer's memory, the latter `open()` at its awaits. A removal, its
restoration of users to keep and the verdict whether to restart are one action, as the
code has no await between them; the restart comes later (`restarting`).

## 3. Runs

| Run | Instance | States | Shows |
|---|---|---|---|
| `action_store` | 2 concurrent approvals, 3 calls, 2 pending, 1 retained | 9,416 | at most once; truth, ownership, bounds of the table; verdicts are final |
| `queue` | 2 gatekeepers, 3 kinds, 1 user, 3 actions | 241,582 | gates, no lost drain, service under fairness |
| `mcp_approval` | 2 users, a drain, 2 calls, 1 retained, restarts | 952,727 | refinement of `ApprovedCall`; the tables agree; gates end to end |
| `gatekeepers` | an issue, a comment on it, a service call; 2 users, restarts | 1,067,440 | the log tells the truth; dependants follow; what is pending can be decided |
| `account` | 2 endpoints, 3 attempts, 2 calls, 2 refresh tokens | 2,020,637 | storage fits the endpoint; healthy is not expired, unless misled; links are released |
| `turn` | 2 users, 2 awaited actions, a rule | 208,823 | the turn stops for decisions and is resumed |
| `chat` | 2 callbacks, 2 turns of users, a deletion, a restart | 107,501 | one turn at a time; callbacks settled, outside answered |
| `chat_changes` | 2 gadgets, 3 changes, one acceptance and rejection, two ways to compact, a restart | 739,295 | mainline, offer, registry and replay agree with the log |
| `hooks` | 1 hook, 2 users, the loop of a removal, restarts | 75,740 | undisturbed calls repair; ended hooks are silent |
| `driver` | 2 bounded recurrences, 2 deliveries at once, batch 1, 2 attempts | 426,183 | coverage by the alarm, capabilities, attempts, counts, fencing |
| `driver_live` | a one-shot and an endless recurrence, batch 2, `FairSpec` | 47,321 | what is due begins, runs end, revoked accounts are emptied |
| `sharing` | 3 users, 1 link, 3 edges, one connected at a time | 103,836 | the loop finds the roles; who is kept keeps; sessions are current |

**Exceptions.** Where the code is known not to keep a promise, the property that comes
next to it names the exception, as a history variable or a condition, and everything
outside of it is checked: `excused` (`QueueService`), `why` (`TurnSuspension`), `dead` in
`CapabilitiesFollowRows`, `contested` and `early` (`GatekeeperApprovals`), `blame`, `misled`,
`crashed` and `overwritten` (`McpAccount`), `forgotten` and `abandoned` (`ChatTurns`), `overlapped`
(`ChatChanges`), `overwritten` (`Sharing`). The section on disagreements has what they
stand for.

**Bounds.** `MaxActions` bounds the ids handed out: three calls let one be settled, one
pruned and one in flight at once; two in the compositions let one be a gate for the other.
Two users suffice for every race of two decisions; with the drain there are three callers
of the store. In `mcp_approval`, `MaxRetained` 1 has the first of two calls pruned, before or
after its answer was received, and under a second decision. In `gatekeepers` two of the
three writes can be proposed in one behaviour, which gives every pair of them. In `account`, two attempts are a connect and
the reconnect that supersedes it, to the same endpoint or another; the third lets a
superseded probe overwrite the record of a connected server (`overwritten`).
`MaxGeneration` 4 is what two of them and the reconnects' own advances take; two tokens
have one rotation; the theorems lift these bounds.
In `chat`, two calls of `#runAgentTurn()` are what a violation of one turn at a time
needs; two callbacks have one in an array that a starter holds and one in the next; the
turns that callbacks start are not bounded. `chat_changes` bounds the messages of each
type (one request, one step, three changes, one `/compact`, one acceptance, one rejection,
one user's change), so that a log has seven at most and a decision can fall before,
between and after two compactions. In `hooks`, hooks share nothing but the loop of a
removal, which takes them one by one. `MaxAttempts` = 2 has a first attempt, a
retry and a last one; a count of 2 has an occurrence in the middle and an end. `Runs` has
an id for the row, one for a stale delivery and a fresh one; `Recovery` is shorter than,
equal to and longer than the other distances of the instances. `BatchSize` 1 leaves a
backlog, `BatchSize` 2 takes all; `CleanupBatch` 1 needs several alarms. In `sharing`,
three edges make a chain, a diamond's half, or two users who hold each other up and a third
who hangs on them; one link of the better role is enough to be redeemed, revoked and
bounded by its creator's role; the theorems lift these bounds.

**Deadlock.** The runs of `McpActionStore`, `ActionQueue`, `McpApproval`,
`GatekeeperApprovals`, `McpAccount`, `ChatTurns` and `ChatChanges` end when their budgets
(ids, tokens, turns, messages) are used up: they set `CHECK_DEADLOCK FALSE`. In the driver
time goes on, a hook can fire again, a turn be restarted and a workspace be opened: there
deadlock is checked (and says little).

**Types.** Each module has one type invariant. They are proved, as
theorems or, as far as the arguments need them, as conjuncts of the inductive invariants;
they were checked by TLC on the instances of the runs, where they are not repeated.

**Mutants.** Operators named `...Mut` are wrong variants of the definition after them (a
dropped guard, a forgotten prune, an uncounted attempt). No specification uses them; put
in place of the original, each makes a property fail.

### Where the code and its comments disagree

The definition named in an entry, at the end of its module, states the quoted sentence, and
TLC finds a counterexample of it on a small instance (added to
the module's configuration as an invariant, or, for `ResumedWhenApproved`, a property).
`RetryOrDiscard` and `DeletedStaysDeleted`, and the entries
without a name, are told by the lines cited only. No run checks them, as the runs are kept for
what holds.

*Approval.*
* `RefusedIsRetryable` (`mcp-shared/src/client.ts:157`, of a 401: "The server demanded
  authorization, so it never reached the tool."): `withClient()` wraps it in a plain error
  (`connection.ts:93-98`), so that the call is closed as outcome-unknown.
* `RetryOrDiscard` (`workshop-shared/src/gatekeeper.ts:747-748`: "given the opportunity to
  retry or discard"): a call of unknown outcome can be neither retried nor discarded
  (`action-store.ts:139-141`, `204-208`) and stays a human gate for ever.
* `PendingIsDecidable` (same sentence): GitHub rejects what depends on a rejected creation
  in its own table only (`github.ts:1964`); the overseer's records of it stay pending.
* `RejectionUnblocks` (`api.ts:1720-1722`, `overseer.ts:7824-7825`: "Clearing this manual
  gate may unblock later auto-eligible pending actions"): `rejectAction()` requests no drain.

*Turns.*
* `NeverForgotten` (`gatekeeper.ts:1057-1058`: "resume it after the user decides"): an
  approval that is quicker than the end of the step finds nothing to resume
  (`overseer.ts:7930`), and the step then suspends the turn for good.
* `ResumedWhenApproved` (`overseer.ts:7906`: "once all awaited actions from that turn are
  approved"): the gate is read before two awaits; it can start a later turn that is
  suspended on an action still pending.
* `StopsWhatRuns` (`api.ts:1867`: "If no LLM is running, `stop()` does nothing and returns
  immediately"): while
  callbacks wait, it aborts the controller that the next turn will look at.
* `NoneIsForgotten` (`overseer.ts:4247-4248`: "Once the agent finishes it will see the
  pending callbacks and start another turn"): of two starters, one puts a new array in
  place of the one into which the other's callbacks were pushed; nobody settles them.

*Hooks and schedules.*
* `DeletedStaysDeleted` (`api.ts:1716`): `enableHook()` and `disableHook()` write back the
  record they read before an await (`overseer.ts:7851`, `7865`, `7873-7874`), also when it
  was deleted meanwhile.
* `DeadKeepsNothing` (`schedule-driver.ts:653` and its test at 1132): a schedule that dies
  of an attempt abandoned by a crash keeps its capability (485-488).

*MCP accounts.*
* `RedeemedOnceAtATime` (`account.ts:708-709`: "at most once at a time"): a refresh
  that was superseded may still be on its way when the next one redeems the same token.
* `SupersededIsInert` (`account.ts:281-282`): the probe that answers 401 writes the server
  record without asking whether its attempt is still the present one (357-359).
* `RejectionsDoNotPoison` (`account.ts:791-792`: "A rejection can arrive after reconnecting,
  where it belongs to the old generation and must not poison the new"): the generation is of
  `beginConnect()`, not of the grant. A call that starts between the two is of the new
  generation and holds no bearer, or the old grant's; its 401 after the exchange passes the
  comparison (797-798) and reports the new grant expired (`connection.ts:93-94`). So does the
  401 of a call whose bearer a refresh has replaced meanwhile. `misled` is this case.
* `account.ts:703-706` ("The old promise may still settle, but its generation checks prevent
  every state write"): a reconnect takes its generation when it begins, not when its grant is
  saved. A call that meets the stale token between the two starts a refresh of the old grant
  in the new generation; when it settles after `saveTokens()` has stored the new grant's
  tokens, the check (742) admits it, it puts the old grant's tokens back and leaves
  `expiredNotified` as it was. This is one of the causes of `blame`; with it left out of the
  history, `HealthyIsNotExpired` fails with three tokens.

*Sharing.*
* `GrantsAreKept` (`docs/sharing.md:65`: "A collaborator can accumulate multiple edges"):
  `redeemShareKey()` of a new user writes his record after awaiting his profile
  (`sharing.ts:227-228`); edges that were added meanwhile are lost.
* `docs/sharing.md:52`: "we don't proactively reach into their account to remove it"; the
  overseer does, in `refreshAffectedCollaboratorListings()`.

*Changes of a chat.*
* `ProposedIsOpen` (`overseer.ts:3300-3302`: "neither merged nor reverted"): a compacted
  prefix counts as one batch at `compactedTo - 1` (3320), and a merge takes the batches at
  or below the change it names. A change, a question and its answer, the acceptance of the
  change, then `/compact` with the cut before the acceptance: the accepted change is
  proposed again, and there is nothing that a rejection could take.
* `agent-compaction.ts:84` ("A merge accepts through `mergeThrough` inclusively") and
  `agent.ts:1374` (`sequence < through`): replay does not mark the change at `mergeThrough`
  itself as accepted; if the rest is then discarded from 0 on, it drops that change.
* `overseer.ts:8485-8486` ("any merge that promotes also has updates to merge below"): a
  merge whose `mergeThrough` lies inside a compacted prefix promotes the gadgets and writes
  no merge; one of a prefix that holds creations only promotes them before
  `getProposedChanges()` looks for them, and `hasProposedChanges` stays.
* A cut between a step and the changes message that records its creation makes replay adopt
  the creation once more. Two compactions with a partial acceptance between them fold a
  change that is still proposed as accepted.
* `overseer.ts:3859-3862`: a merge or revert looks that no agent is active, awaits, and
  writes back the metadata it had read (8552, 8641-8643): a turn that started meanwhile is
  declared over. A merge during the removals of another user's revert loses an accepted
  gadget. These are what `overlapped` excludes.

## 4. Fairness

Only what the platform drives is fair; users and gadgets are not.

* `QueueService!FairSpec`: a gatekeeper's RPC returns or throws (`WF`), and one that is
  asked for the same action again and again does not throw for ever (`SF` of
  `DrainApplied`): a drain that is asked to rerun without end would otherwise meet the same
  failing action each time. A resumption returns or throws.
* `ScheduleDriver!FairSpec`: time passes; the platform runs an alarm that is due and lets a
  handler that is done return (`WF`): Cloudflare documents at-least-once alarms. A callback
  that hangs is ended by the platform as a crash, so an answer *or* a crash is fair, not the
  answer. `SF` of `Deliver`, of the answer to `startHook` and of `Cleanup`: the driver is not
  killed at the same point every time. Without that no program is live, and the driver counts
  attempts only once admission was granted.
* `ChatTurns!Fairness`: what has been awaited comes back, with a value or an error (`WF` of
  the steps of starters, turns and prepared messages); the model's call ends. That the agent
  answers a callback, or that a restart comes, is not assumed.

Liveness that is checked: `ServableIsServed`, `DueIsBegun`, `RunIsSettled`,
`RevokedIsCleaned`, `CallbacksAreSettled`, `OutsideIsAnswered`.

## 5. Proofs

`tlapm` checks every leaf. The theorems hold for every number of callers, ids, users,
links, hooks, schedules and runs, and for every value of the limits that the named
assumptions admit: limits are naturals, positive where the code divides work by them
(`StoreAssumption`, `TurnsAssumption`, `StateAssumption`, and `DriverAssumption`, which has a
retry delay for each attempt and a finite set of schedules), names are not each other's
(`AccountAssumption`, `NamesAssumption`; `SharingAssumption`: the owner is no collaborator,
and there are finitely many users, without which no loop over them would end),
kinds are kinds of the queue (`QueueAssumption`, `ApprovalAssumption`, `SuspensionAssumption`),
and a provisional id is made up by the one write that creates it, which has no target itself
(`WritesAssumption`; `CreateIssueAction` and `CreatePullRequestAction` have none).

**McpActionStoreProofs.** `AtMostOnce` is not inductive: it must also be known that a row
which may still be claimed has no request on the wire. `IInv` joins `TypeOK`,
`RowTellsTheTruth`, the ownership of claims without cardinalities (`OwnersHoldClaims`: a
call in flight holds a claimed row, and no two hold the same; `ClaimsHaveOwners`: the
converse), what a call knows at each point (`ProgressIsKnown`), the budget
`OneDeliveryAtMost` (effects and requests on the wire are at most one together) and
`FutureIsBlank` (of an id that was not handed out nothing is known). From it:
`TypeCorrect`, `CallsHappenAtMostOnce`, `RowsAreTrue`, `ClaimsAreOwned`, and the action
property `VerdictsAreFinal`. `TableStaysBounded` counts the rows over a step: only `Stage`
makes one pending, and looks at the limit first; whatever settles a row prunes.

**ActionQueueProofs.** That no drain passes a gate needs to be known of what a drain holds:
`DrainsInOrder` says that the snapshot is in the order of the ids (`InOrder`) and that
every pending action of the gatekeeper is in it, is the one being applied, or was submitted
later (`Covers`). With `OpsAreFiled` (a user decides about records that exist) and
`FutureIsBlank` it is inductive. From it: `TypeCorrect`, `GatesHold`.
Of `QueueService`: `RequestsKept` (`RequestsAreKept`), the part of `ServableIsServed` that needs
no fairness. A drain serves its gatekeeper if it will start over, or has all that the rules
admit ahead of it (`Serves`); `ServiceInv` says that, unless an event excused it, some drain
serves, or somebody who is resuming will ask for one, or there is nothing to serve (`KeptFor`).

**McpApprovalProofs.** The proof modules of queue and store are instantiated with the
composition's variables (`QP`, `SP`). Every step is a step or a stutter of each part
(`Restart` may be both), so that their invariants hold without being proved again, and `Links`
is what is left: the records handed out stand for one row each (`RowsAreFiledOnce`), of a row
that has no record nobody can have asked (`UnfiledIsFresh`), an RPC in flight is about the row
of the record its caller waits for, and an answer on its way back is true (`CallerOK`), what
is approved was done and what is rejected is gone (`ApprovedIsDone`, `RejectedIsGone`), and
what started without a user had open gates (`GatesWereOpen`). From it: `TablesAgree`,
`NothingHappensUnasked`, `GatesHoldAtTheServer`, and the refinement, `ApprovalIsImplemented`.
It has no hypothesis about pruning: `RowsLive` says through which states a step takes the rows
(an open row is decided only by the step that acts on it, and whatever is pruned was settled),
and `ClaimsTell` that a row which was claimed is told from one that was rejected after both
are gone. What `ApprovedCall` grants is that the verdict of a forgotten call may contradict
the world: `reject()` of a pruned row answers "ok" (`action-store.ts:203`), also when it had
been applied.

**McpAccountProofs.** Each await of the account is fenced by a comparison of what was captured
with what is there now; `IInv` says what such a comparison is worth. What awaits has captured
a generation that is not of the future (`CapturesInv`), and what has captured the present one
has captured the present endpoint, unless a superseded probe wrote it (`EndpointsInv`); with
the life of the record (`AbsentInv`, `UnconnectedInv`, `ServerInv`) this gives
`StoredForServer`. The exchange of a code has spent the link, whatever else is under way holds
it (`ClaimInv`). `HealthInv` is about the grant: unless something is to blame, the stored token
is accepted or is being traded by the one refresh of this generation (`TokensSound`,
`RefreshSound`, `FlightsInv`), and each token has one holder that may store it, the record, a
refresh or an exchange (`UniqueInv`, `Holds`); tokens are numbered in the order of issue
(`NumbersInv`), which keeps a new one apart from all others (`NewNumber`). That an
account was reported only on the word of a call with another bearer is part of `TokensSound`;
what the histories record stays until new tokens are stored (`Recorded`). From it: `CredentialsStayHome`,
`HealthyAccountsStay`, `LinksAreReleased`.

**ScheduleDriverProofs.** `IInv` = `TypeOK` ∧ `Sound(s)` for each schedule ∧
`AlarmCoversAll`. `Sound` has four parts: `SoundRow` (a run has an id, a waiting run has an
attempt left, a lease is no longer than `Recovery`), `SoundCaps`
(`CapabilitiesFollowRows`), `SoundTask` (a delivery that still holds its row's run has not
used its attempt), `SoundCount` (an active schedule has room in its count). The lease bound
is what makes `AlarmCoversAll` inductive: a delivery that goes on renews its lease or ends
its run without touching the alarm, which is early enough only because the lease it
replaces was no longer than `Recovery`. From it: `TypeCorrect`, `SchedulesAreNotForgotten`,
`CapabilitiesAreKept`, `AttemptsBoundCallbacks`, `CountsAreKept` (the stored counter against the
history of beginnings), and the action properties `EndsAreFinal` (a schedule that has finished
stays so until it is disabled) and `CallbacksAreNotStale`. The last rests on `OutdatedIsLost`: a
delivery that was under way at a disable or a revocation holds a run that the row does not have
any more, and cannot have again, as ids of runs are fresh (`Lost`, `LostStays`).

**OverseerProofs**, about records of the overseer that stand for something a gatekeeper has.
First the writes (`GatekeeperApprovals`). `IInv` has, next to types and calls (`PartsTyped`,
`WritesAreFiledOnce`, `CallsInv`, `DecidedOnce`), what a record knows of the service
(`EffectsInv`: what is carried out is counted against the calls that have seen it), of
resources (`ResourcesInv`, `DependantsInv`: what is posted about a resource finds its number,
which exists only once its creation was posted), of numbers (`NumbersInv`: an approval that
came after its submission had returned leaves one) and of rows that the gatekeeper has
settled already (`OpenInv`). From it: `WritesAreTracked`, `LogSaysWhatWasDone`,
`DependantsComeAfter`, `PendingStaysOpen`.
Then the hooks (`BoundHooks`). `HooksInv` follows a call that is `alone`
on its hook: no other can be (`AloneIsAlone`), whoever joins tangles it (`OthersTangle`), and
what it has landed at the gatekeeper still holds when it writes the overseer's record
(`LandedHolds`). Every call is for a hook that exists (`CallsHaveHooks`), and nothing is known
of one not bound (`UnboundIsUntouched`). With `QuietIsOff` (a hook that is quiet is off, and no
admitted event of it is on its way) this is inductive. From it: `HooksTypeCorrect`,
`UndisturbedCallsRepair` (`SettledHooksAgree`), `HooksLogIsTrue`, and the action property
`EndedHooksAreSilent` (`QuietHooksStayQuiet`).

**TurnProofs.** A turn and an approval meet in the log only, and the approval looks there for
what else the turn waits for. So `IInv` says what the log is worth: it shows what the turn
awaits, but for a note that has just ended it (`LogShows`); a turn is suspended for an action
that nobody has approved, and while it is, somebody resumes it or there still is one
(`WaitInv`); a turn goes on only from a settled log (`SettledInv`). From it:
`InductiveInvariant`, `NobodyIsForgotten`, `TurnsStop`. A turn that is started again owes what
its log shows then; a run's bound of two actions hides what a third shows, that a history
which starts empty forgets an action found in the log.
Of `ChatTurns`: `TurnsTyped`, `TurnsAreOne` and `RecordsAgree` (metadata, row
and registry against the turn that is under way) give `NeverTwoAgents` (`OneAgentPerChat`):
every way to start an agent looks at the chat's record in the step that starts it.
`CallbacksHeld` (`CallbacksAreHeld`) and `ResponseHeld` (`ResponseIsHeld`) are the parts of
`CallbacksAreSettled` and `OutsideIsAnswered` that need no fairness: an unsettled callback is in
the context of the turn under way, or in a queue at which somebody is bound to look, and a
waiting response has somebody who will deliver it. `HeldInv` adds to the invariant that only a
turn that has begun has callbacks to answer (`AnsweringInv`), and counts the starters that
hold the queue (`StartersInv`): they are a bag, and one that leaves takes only itself away.

**WorkspaceProofs**, about what those who share a workspace rely on.
*Sharing.* A role is a statement about all closed sets of users, so that no
induction over paths is needed. Two lemmas carry the rest: who cuts an edge of his own
keeps his role (a path to him need not go through what he gives), and whatever is lost by
the cut had come through him, so that he can grant it again. `IInv` = `TypeOK` ∧ `ViaLinks`
(an edge of a link has the link's creator and role) ∧ `SessionsAreCurrent`; the step of a
removal is the one where the restart that the code schedules is what is needed.
From it: `TypeCorrect`, `NobodyStaysOn`, `KeepersKeep`, and, about the operators,
`RemovalsCanBeUndone` and `PreviewsAreTrue`. `LoopFinds` (`LoopFindsRoles`) is about the loop
of `computeEffectiveRoles()`, a function of the number of passes: a set that a pass does not
add to is closed, and holds all who have the role (`ClosedHoldsAll`); a pass adds only users
who have it (`PassesAreTyped`); and as long as the set is not closed each pass adds one
(`PassesCloseOrGrow`), so that as many passes as there are users close it.

*ChatChanges.* The fold that replay makes of a log is not reasoned about as a fold. The fate
of a change is a statement about the log alone (`Fate`: the first message after it that
settles it), and one more message decides only what was open. What the four stores know is
stated in these terms, and `ChatInv`, which holds until an operation is `overlapped`, joins:
for the log, that each checkpoint is what the messages before it come to
(`ExactCheckpoints`, with `OpenIn` and `AcceptedIn`), that a rejection is behind the
checkpoints before it (`RevertsStayBehind`), and that a merge took all that was open
(`MergesTakeAll`) — this is why a compacted prefix, which counts as one batch, is accepted or
open as a whole; `GadgetInv` and `FlagInv` for the registry and for `hasProposedChanges`; that
a turn which has read the log works on the current tail (`TurnInv`); that an operation between
its awaits knows the chat as it is, if the log has not grown since (`OpInv`).
`protectRetainedReverts()`, a loop that moves the cut back, is its closed form here. From it:
`ChatInvariance`, `MainlineAccepted`, `ProposalsOffered`, `PendingBacked`, `RevertsRetained`,
`ReplayFollows`.

**Only model-checked**: liveness, as fairness and `ENABLED` are beyond the prover: the six
properties at the end of section 4. Every safety invariant and every action property of
the runs is a theorem. Where a liveness property has a part that is a safety invariant, that no
work is left without somebody who will turn to it, that part is proved: `RequestsAreKept`,
`CallbacksAreHeld`, `ResponseIsHeld`, and `AlarmCoversAll` for the schedule driver. The first
three are no properties of a run, as the liveness that they serve is checked there; TLC found
them to hold on the configurations of `queue` and `chat` before they were proved.
The modules that are proved about have no `RECURSIVE` operators.

## 6. Not modelled

Of the modelled parts:

* *Gatekeepers*: `revertAction`, which the overseer never calls; catalog reads and read-only
  calls; texts, truncation and logging; chains of replies to review comments, whose
  provisional ids a session refuses. GitHub and Home Assistant name no action that a rule
  may approve (`getAutoApprovableActions()` is empty), so that no drain meets them.
* *Queue*: who approved an action (an approval that races a drain overwrites it,
  `overseer.ts:2559`); a restart of the gadget that a rejection asks for, which the overseer
  ignores (7967). A crash between `stage()` and `submitAction()` (`session.ts:139`) leaves a
  pending row that no record refers to; the store has it, the composition starts after it.
  A drain that applies the last awaited action of a suspended turn does not look at the turn
  (`overseer.ts:2571`); no doc promises that it would. A row that was applied and pruned is
  taken for one that never existed (`action-store.ts:203`).
* *McpAccount*: configured static tokens; the OAuth client's own records; a refresh of which
  a `prepareReconnect()` discards the answer is one of the ways to lose a token (`blame`), and
  so is the SDK's own redemption during a reconnect. A link that cannot be used changes
  nothing and is left out.
* *ChatTurns*: the usage limit and the nudges are among the ways a turn ends; a repeated
  message under the same key, and the retries of a delivery by alarm (a late delivery for a
  deleted chat can overwrite the record of a resubmitted key, `overseer.ts:3655-3740`); a
  starter that outlives a turn, which logs its callbacks again; `newChat` and `spawnAgent`,
  which start like a message.
* *ChatChanges*: provisional bindings, which go along with gadgets in the same loops; deletion
  of the chat and of gadgets; acceptance of part of what is offered, which the interface does
  not send; the token budget (a boundary is any cut); error messages and answers that tell of
  no change. Edits that a turn has captured and not yet flushed are adopted only after a
  restart.
* *Scheduler*: the workspace's quota of schedules (a failing enable is `EnableFails`);
  `#markAdmitted`'s renewal of a run already in delivery, which no caller reaches; the calendar.
* *Sharing*: the ban on sharing after a sensitive observation, observers, the organization's
  boundary, cached listings, copies of a link's key (they resolve to the link), notes and
  profiles. Calls that change nothing are left out. A link whose key is minted late is like one
  written earlier; several sessions of one user are like one with the role of any.

The other parts of the inventory are listed with their reason in `PROJECT.json`. The model
covers a small share of the repository's lines: most of them are user interface, conversions
of formats and clients of services, which keep no state that several steps share.

## 7. Plan

In order of what an error would cost. Done: the approval of calls (`McpActionStore`,
`ActionQueue`, `QueueService`, `McpApproval` against `ApprovedCall`, `GatekeeperApprovals`),
schedules, hooks, turns and their suspension, changes of a chat, accounts, sharing. Next:

1. The delivery of responses by alarm, with repeated keys; observers and the ban on sharing,
   composed with `Sharing`.
2. The user object: deduplicated provisioning, daily counters and the usage limit.
3. Pure algorithms against reference definitions: `scheduler-core` (next instant),
   `typed-storage` (indices), the streaming JSON parser (chunking does not matter).

Each run asks a question of its own. A new module takes the place of a run that it subsumes,
or joins the run of the module that it composes with.
