--------------------------- MODULE ScheduleDriver ---------------------------
(***************************************************************************)
(* The Durable Object that runs the schedules of one account               *)
(* (packages/gatekeeper-scheduler/src/schedule-driver.ts): hooks enable    *)
(* and disable schedules, one storage alarm wakes the driver up, and each  *)
(* due schedule is delivered in three calls to the workspace: startHook    *)
(* (admission), authorizeObservation, onSchedule (the callback).           *)
(*                                                                         *)
(* The input gate is closed while storage is awaited, so a method that     *)
(* awaits nothing else is one action; the crash or the storage error that  *)
(* may stop it half-way is an outcome of it.  The awaits on the workspace  *)
(* are open: anything may happen there, and what is read before them is    *)
(* fenced after them by the run's id.                                      *)
(*                                                                         *)
(* Time is unbounded and the model finite because every instant is stored  *)
(* as a distance from the present: see ScheduleState and Tick.             *)
(***************************************************************************)
EXTENDS ScheduleState, FiniteSets

CONSTANTS
  Schedules,     \* scheduleKey()s of the account
  Reg,           \* the registration behind each
  MaxGap,        \* bound: distance of a recurrence's next occurrence
  MaxLeft,       \* bound: distance of a one-shot's instant and of `until`
  Runs,          \* ids that crypto.randomUUID() may give a run
  BatchSize,     \* ALARM_BATCH_SIZE (20)
  Concurrency,   \* DELIVERY_CONCURRENCY (4)
  CleanupBatch,  \* REVOCATION_CLEANUP_BATCH_SIZE (100)
  Quota,         \* MAX_ENABLED_SCHEDULES_PER_ACCOUNT (500); the workspace's is not modelled
  Recovery       \* RECOVERY_DELAY_MS

ASSUME DriverAssumption ==
  /\ IsFiniteSet(Schedules)
  /\ Reg \in [Schedules -> Registration]
  /\ MaxGap \in Nat \ {0} /\ MaxLeft \in Nat
  /\ Runs \subseteq Nat \ {0}
  /\ BatchSize \in Nat \ {0} /\ Concurrency \in Nat \ {0}
  /\ CleanupBatch \in Nat \ {0} /\ Quota \in Nat
  /\ Recovery \in Nat \ {0}

VARIABLES
  rows,      \* schedule:* rows
  caps,      \* caps:* rows: the schedules whose initiator is stored
  left,      \* what is left until the registration's own instant
  alarm,     \* the storage alarm
  revoked,   \* metadata.revoked
  handler,   \* alarm(): does it run, and the batch it has yet to start
  task,      \* #deliverPrepared(): the deliveries in flight
  fired,     \* history: callbacks begun for the run that the row is in
  begun,     \* history: occurrences begun since the row was created, if it has a count
  outdated   \* history: deliveries in flight that began before a disable or a revocation

vars == <<rows, caps, left, alarm, revoked, handler, task, fired, begun, outdated>>

NoAlarm == -1
Resting == [on |-> FALSE, todo |-> {}]
NoTask == [pc |-> "idle", run |-> 0]

-----------------------------------------------------------------------------
\* nextFireAfter() of the present: a one-shot's instant, or an instant of the
\* recurrence, which may be any distance ahead.
NextFires(s) == IF Reg[s].kind = "once" THEN {left[s]} ELSE 1..MaxGap

\* The occurrences that may follow the one that row has begun
Followers(s, row) == {RecurringNextFire(Reg[s], row, n, left[s]) : n \in NextFires(s)}

\* Where #planAlarm() sets the alarm: at the first of the targets.
First(targets, gone) ==
  IF gone THEN {0}
  ELSE IF targets = {} THEN {NoAlarm}
  ELSE {t \in targets : \A u \in targets : t <= u}

\* Planners that look at schedules waiting for an occurrence only, at runs only.
PlannedMut1(table, gone) ==
  First({table[s].at : s \in {t \in Schedules : table[t].status = "active"}}, gone)
PlannedMut2(table, gone) ==
  First({table[s].at : s \in {t \in Schedules : table[t].status \in {"pending", "retrying"}}}, gone)

Planned(table, gone) ==
  First({table[s].at : s \in {t \in Schedules : Live(table[t])}}, gone)

\* #planAlarmAfterMutation(): planning may fail, which is only reported.
Replan(table, armed) == alarm' \in Planned(table, revoked) \cup {armed}

\* The row of s is written.  (A run that it leaves is not counted any more.)
Put(s, row) ==
  /\ rows' = [rows EXCEPT ![s] = row]
  /\ fired' = [fired EXCEPT ![s] = IF row.status \in {"pending", "retrying"} THEN @ ELSE 0]

\* #armRecoveryAlarm()
Armed == IF alarm = NoAlarm \/ Recovery < alarm THEN Recovery ELSE alarm

-----------------------------------------------------------------------------
Init ==
  /\ rows = [s \in Schedules |-> NoRow]
  /\ caps = {}
  /\ left \in [Schedules -> 0..MaxLeft]
  /\ alarm = NoAlarm
  /\ revoked = FALSE
  /\ handler = Resting
  /\ task = [s \in Schedules |-> NoTask]
  /\ fired = [s \in Schedules |-> 0]
  /\ begun = [s \in Schedules |-> 0]
  /\ outdated = {}

\* Time passes.
Tick ==
  LET closer(n) == IF n > 0 THEN n - 1 ELSE n IN
  /\ rows' = [s \in Schedules |-> [rows[s] EXCEPT !.at = closer(@)]]
  /\ left' = [s \in Schedules |-> closer(left[s])]
  /\ alarm' = closer(alarm)
  /\ UNCHANGED <<caps, revoked, handler, task, fired, begun, outdated>>

\* #enable() of a schedule that has no row: the alarm is armed, the row is
\* created, the alarm is planned.
EnableNew(s) ==
  /\ ~revoked /\ rows[s] = NoRow
  /\ Cardinality({t \in Schedules : rows[t] # NoRow}) < Quota
  /\ \E next \in NextFires(s) :
       LET row == CreateSchedule(Reg[s], next, left[s]) IN
       /\ Put(s, row)
       /\ caps' = IF Terminal(row) THEN caps \ {s} ELSE caps \cup {s}
       /\ Replan(rows', Armed)
  /\ UNCHANGED <<left, revoked, handler, task, begun, outdated>>

\* #enable() of one that has: its state stays, its capability is replaced.
EnableAgain(s) ==
  /\ ~revoked /\ rows[s] # NoRow
  /\ caps' = IF Terminal(rows[s]) THEN caps \ {s} ELSE caps \cup {s}
  /\ Replan(rows, Armed)
  /\ UNCHANGED <<rows, left, revoked, handler, task, fired, begun, outdated>>

\* #enable() that gets no further than its first await: a crash or a quota.
EnableFails ==
  /\ ~revoked
  /\ alarm' = Armed
  /\ UNCHANGED <<rows, caps, left, revoked, handler, task, fired, begun, outdated>>

InFlight == {s \in Schedules : task[s].pc # "idle"}

\* #disable().  (Of a revoked account it does nothing.)
Disable(s) ==
  /\ ~revoked
  /\ Put(s, NoRow)
  /\ begun' = [begun EXCEPT ![s] = 0]
  /\ outdated' = outdated \cup (InFlight \cap {s})
  /\ caps' = caps \ {s}
  /\ Replan(rows', alarm)
  /\ UNCHANGED <<left, revoked, handler, task>>

\* revoke(): the alarm first, then the flag, unless it dies in between.
Revoke ==
  /\ alarm' = 0
  /\ revoked' \in {revoked, TRUE}
  /\ outdated' = IF revoked' THEN outdated \cup InFlight ELSE outdated
  /\ UNCHANGED <<rows, caps, left, handler, task, fired, begun>>

-----------------------------------------------------------------------------
(* alarm().  The platform runs it when the alarm is due, never twice at once. *)

\* slice(0, ALARM_BATCH_SIZE) of the due rows, the longest overdue first.
\* (Distances do not tell how long a row is overdue: any choice may be it.)
Batches ==
  LET due == {s \in Schedules : Due(rows[s])} IN
  {b \in SUBSET due :
     Cardinality(b) = IF Cardinality(due) < BatchSize THEN Cardinality(due) ELSE BatchSize}

AlarmStarts ==
  /\ alarm = 0 /\ ~handler.on /\ ~revoked
  /\ alarm' = Recovery
  /\ \E b \in Batches : handler' = [on |-> TRUE, todo |-> b]
  /\ UNCHANGED <<rows, caps, left, revoked, task, fired, begun, outdated>>

\* A settlement that leaves the capability to disable().
SettleMut(s, row) ==
  IF ~revoked /\ rows[s].status = "pending" /\ rows[s].run = task[s].run
  THEN Put(s, row) /\ UNCHANGED caps
  ELSE UNCHANGED <<rows, fired, caps>>

\* #settle(): of a run that the row is still in, unless the account is revoked.
\* A row that can never fire again gives up its capability.
Settle(s, row) ==
  IF ~revoked /\ rows[s].status = "pending" /\ rows[s].run = task[s].run
  THEN /\ Put(s, row)
       /\ caps' = IF Terminal(row) THEN caps \ {s} ELSE caps
  ELSE UNCHANGED <<rows, fired, caps>>

\* crypto.randomUUID(): an id that neither the row nor a delivery has.
FreshRuns(s) == Runs \ {rows[s].run, task[s].run}

Skip(s) == UNCHANGED <<rows, caps, task, fired, begun, outdated>>

\* A delivery abandoned by a crash: its attempt has failed.
Abandon(s) ==
  /\ Put(s, FailRun(rows[s]))
  /\ UNCHANGED <<caps, task, begun, outdated>>

\* A run begins, is retried, or is taken up again after a crash, under a lease.
Prepare(s, run) ==
  LET row == BeginDueRun(Reg[s], rows[s], run, Recovery) IN
  /\ begun' = [begun EXCEPT ![s] =
                 IF rows[s].status = "active" /\ Reg[s].limit = "count" THEN @ + 1 ELSE @]
  /\ IF s \in caps
     THEN /\ Put(s, row)
          /\ task' = [task EXCEPT ![s] = [pc |-> "admission", run |-> row.run]]
          /\ outdated' = outdated \ {s}
     ELSE /\ \E next \in Followers(s, row) : Put(s, RejectRun(Reg[s], row, next))
          /\ UNCHANGED <<task, outdated>>
  /\ UNCHANGED caps

\* #deliver() up to its first await.
Deliver(s) ==
  /\ s \in handler.todo /\ Cardinality(InFlight) < Concurrency
  /\ handler' = [handler EXCEPT !.todo = @ \ {s}]
  /\ IF revoked \/ ~Due(rows[s]) THEN Skip(s)
     ELSE IF InStage(rows[s], "delivery") THEN Abandon(s)
     ELSE \E run \in FreshRuns(s) : Prepare(s, run)
  /\ UNCHANGED <<left, alarm, revoked>>

EndTask(s) ==
  /\ task' = [task EXCEPT ![s] = NoTask]
  /\ outdated' = outdated \ {s}

Awaits(s, pc) == task[s].pc = pc
Rest == <<left, alarm, revoked, handler>>

\* startHook() resolved: #markAdmitted().
HookStarts(s) ==
  LET fenced == revoked \/ rows[s].status # "pending" \/ rows[s].run # task[s].run IN
  /\ Awaits(s, "admission")
  /\ IF fenced THEN EndTask(s) /\ UNCHANGED rows
     ELSE /\ rows' = [rows EXCEPT ![s] = AdmitRun(rows[s], Recovery)]
          /\ task' = [task EXCEPT ![s].pc = "authorize"]
          /\ UNCHANGED outdated
  /\ UNCHANGED <<Rest, caps, fired, begun>>

\* startHook() rejected: the occurrence is skipped.
HookRejects(s) ==
  /\ Awaits(s, "admission")
  /\ \E next \in Followers(s, rows[s]) : Settle(s, RejectRun(Reg[s], rows[s], next))
  /\ EndTask(s)
  /\ UNCHANGED <<Rest, begun>>

\* A driver that does not look again after the authorization.
AuthorizedMut(s) ==
  /\ Awaits(s, "authorize")
  /\ task' = [task EXCEPT ![s].pc = "callback"]
  /\ fired' = [fired EXCEPT ![s] = @ + 1]
  /\ UNCHANGED <<Rest, rows, caps, begun, outdated>>

\* authorizeObservation() resolved, and onSchedule() is called if the run is
\* still on.
Authorized(s) ==
  LET fenced == \/ revoked
                \/ ~InStage(rows[s], "delivery") \/ rows[s].run # task[s].run IN
  /\ Awaits(s, "authorize")
  /\ IF fenced THEN EndTask(s) /\ UNCHANGED fired
     ELSE /\ task' = [task EXCEPT ![s].pc = "callback"]
          /\ fired' = [fired EXCEPT ![s] = @ + 1]
          /\ UNCHANGED outdated
  /\ UNCHANGED <<Rest, rows, caps, begun>>

\* Either call threw.
AttemptFails(s) ==
  /\ task[s].pc \in {"authorize", "callback"}
  /\ Settle(s, FailRun(rows[s]))
  /\ EndTask(s)
  /\ UNCHANGED <<Rest, begun>>

CallbackReturns(s) ==
  /\ Awaits(s, "callback")
  /\ \E next \in Followers(s, rows[s]) : Settle(s, CompleteRun(rows[s], next))
  /\ EndTask(s)
  /\ UNCHANGED <<Rest, begun>>

\* The batch is done and the alarm is planned; if that throws, the platform
\* may run alarm() again.
AlarmEnds ==
  /\ handler.on /\ handler.todo = {} /\ InFlight = {}
  /\ handler' = Resting
  /\ alarm' \in Planned(rows, revoked) \cup {alarm, 0}
  /\ UNCHANGED <<rows, caps, left, revoked, task, fired, begun, outdated>>

\* All that the driver has in its storage, but for the metadata
Stored == {<<"row", s>> : s \in {t \in Schedules : rows[t] # NoRow}} \cup {<<"caps", s>> : s \in caps}

\* A cleanup that deletes one batch and rests.
CleanupMut ==
  /\ alarm = 0 /\ ~handler.on /\ revoked
  /\ \E s \in Schedules :
       /\ rows' = [rows EXCEPT ![s] = NoRow]
       /\ caps' = caps \ {s}
  /\ alarm' = NoAlarm
  /\ UNCHANGED <<left, revoked, handler, task, fired, begun, outdated>>

\* alarm() of a revoked account: the alarm is set for recovery, then
\* #cleanupRevokedAccount() deletes a batch of what is stored and sets the alarm
\* again if that was not all.  It may die before the one or the other.
Cleanup ==
  /\ alarm = 0 /\ ~handler.on /\ revoked
  /\ \E gone \in SUBSET Stored :
       /\ Cardinality(gone) = IF Cardinality(Stored) < CleanupBatch
                              THEN Cardinality(Stored) ELSE CleanupBatch
       /\ rows' = [s \in Schedules |-> IF <<"row", s>> \in gone THEN NoRow ELSE rows[s]]
       /\ caps' = {s \in caps : <<"caps", s>> \notin gone}
       /\ alarm' \in {0, Recovery} \cup (IF gone = Stored THEN {NoAlarm} ELSE {})
  /\ UNCHANGED <<left, revoked, handler, task, fired, begun, outdated>>

CleanupFails ==
  /\ alarm = 0 /\ ~handler.on /\ revoked
  /\ alarm' = Recovery
  /\ UNCHANGED <<rows, caps, left, revoked, handler, task, fired, begun, outdated>>

\* The driver dies, or the platform gives up on a handler that hangs; it may
\* run alarm() again at once.
Crash ==
  /\ handler.on
  /\ handler' = Resting
  /\ task' = [s \in Schedules |-> NoTask]
  /\ outdated' = {}
  /\ alarm' \in {alarm, 0}
  /\ UNCHANGED <<rows, caps, left, revoked, fired, begun>>

Next ==
  \/ Tick
  \/ \E s \in Schedules : EnableNew(s)
  \/ \E s \in Schedules : EnableAgain(s)
  \/ EnableFails
  \/ \E s \in Schedules : Disable(s)
  \/ Revoke
  \/ AlarmStarts
  \/ \E s \in Schedules : Deliver(s)
  \/ \E s \in Schedules : HookStarts(s)
  \/ \E s \in Schedules : HookRejects(s)
  \/ \E s \in Schedules : Authorized(s)
  \/ \E s \in Schedules : AttemptFails(s)
  \/ \E s \in Schedules : CallbackReturns(s)
  \/ AlarmEnds
  \/ Cleanup
  \/ CleanupFails
  \/ Crash

Spec == Init /\ [][Next]_vars

\* Time passes; the platform runs a due alarm and ends one that hangs; and it
\* does not kill the driver every single time before a schedule is taken up,
\* before the workspace has answered whether it may run, or before what a
\* revoked account stored is gone.
FairSpec ==
  /\ Spec
  /\ WF_vars(Tick) /\ WF_vars(AlarmStarts) /\ WF_vars(AlarmEnds) /\ SF_vars(Cleanup)
  /\ \A s \in Schedules :
       /\ SF_vars(Deliver(s))
       /\ SF_vars(HookStarts(s) \/ HookRejects(s))
       /\ WF_vars(Authorized(s) \/ AttemptFails(s) \/ Crash)
       /\ WF_vars(CallbackReturns(s) \/ AttemptFails(s) \/ Crash)

-----------------------------------------------------------------------------
(* What the driver promises.                                                *)

TypeOK ==
  /\ rows \in [Schedules -> [status : Statuses, stage : Stages, run : {0} \cup Runs,
                             attempts : 0..MaxAttempts, count : Nat, at : Nat]]
  /\ caps \subseteq Schedules
  /\ left \in [Schedules -> 0..MaxLeft]
  /\ alarm \in {NoAlarm} \cup Nat
  /\ revoked \in BOOLEAN
  /\ handler \in [on : BOOLEAN, todo : SUBSET Schedules]
  /\ task \in [Schedules -> [pc : {"idle", "admission", "authorize", "callback"},
                             run : {0} \cup Runs]]
  /\ fired \in [Schedules -> Nat]
  /\ begun \in [Schedules -> Nat]
  /\ outdated \subseteq Schedules

\* No schedule is forgotten: at every instant, also between any two storage
\* operations and right after a crash, an alarm is set that comes no later
\* than the first deadline, or within the recovery delay; and so for what a
\* revoked account has yet to delete.
Alarmed(deadline) == alarm # NoAlarm /\ (alarm <= deadline \/ alarm <= Recovery)
AlarmCoversAll ==
  IF revoked THEN Stored # {} => Alarmed(0)
  ELSE \A s \in Schedules : Live(rows[s]) => Alarmed(rows[s].at)

\* A schedule that can still fire has the capability to do so, and a finished
\* or disabled one keeps none -- except a dead one: see DeadKeepsNothing.
CapabilitiesFollowRows ==
  ~revoked => \A s \in Schedules :
    /\ Live(rows[s]) => s \in caps
    /\ s \in caps => Live(rows[s]) \/ rows[s].status = "dead"

\* The callback of a run is called at most MAX_ATTEMPTS times, whatever is
\* abandoned and recovered: each call has an attempt of its own that was
\* counted before it, and a run that waits has one left.
AttemptsAreTrue ==
  \A s \in Schedules :
    rows[s].status \in {"pending", "retrying"} =>
      /\ fired[s] <= rows[s].attempts
      /\ rows[s].stage # "delivery" => rows[s].attempts < MaxAttempts

\* A count bounds the occurrences begun in one enablement, and the stored
\* counter tells how many those were, however often a run is retried, abandoned
\* or taken up again (README.md, "The count bounds due slots").
OccurrencesAreBounded ==
  \A s \in Schedules :
    (Reg[s].limit = "count" /\ rows[s] # NoRow) =>
      /\ rows[s].count = begun[s]
      /\ begun[s] <= Reg[s].count

\* No callback is called by a delivery that began before the schedule was
\* disabled, be it enabled again since, or before the account was revoked.
NoStaleDelivery ==
  [][\A s \in Schedules : fired'[s] > fired[s] => s \notin outdated]_vars

\* A finished schedule stays finished until it is disabled: no delivery that
\* comes back late and no repeated enable revives it.
FinishedIsFinal ==
  [][\A s \in Schedules : Terminal(rows[s]) => rows'[s] \in {rows[s], NoRow}]_vars

\* A due occurrence is taken up.
DueIsBegun ==
  \A s \in Schedules :
    (rows[s].status = "active" /\ rows[s].at = 0)
      ~> ~(rows[s].status = "active" /\ rows[s].at = 0)

\* A run comes to an end: it is delivered, rejected, dead or disabled.
RunIsSettled ==
  \A s \in Schedules :
    rows[s].status \in {"pending", "retrying"}
      ~> rows[s].status \notin {"pending", "retrying"}

\* A revoked account loses all it has stored.
RevokedIsCleaned == revoked ~> Stored = {}

-----------------------------------------------------------------------------
(* What the documentation says of the driver and the code does not do.      *)

\* schedule-driver.ts:653, "True once a schedule can never fire again, so its
\* stored capability is dead weight", and schedule-driver.test.ts:1152: the
\* capability "must not outlive" such a schedule.
DeadKeepsNothing == \A s \in Schedules : Terminal(rows[s]) /\ ~revoked => s \notin caps

=============================================================================
