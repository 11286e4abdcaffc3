--------------------------- MODULE ScheduleState ---------------------------
(***************************************************************************)
(* The persisted state of one enabled schedule and its transitions         *)
(* (packages/gatekeeper-scheduler/src/driver-state.ts): pure functions of  *)
(* a row, which ScheduleDriver applies inside its transactions.            *)
(*                                                                         *)
(* Instants are distances from the present: a deadline that has come is 0, *)
(* and ScheduleDriver!Tick moves all of them one unit closer.  `at` is the *)
(* one instant that a row waits for: nextFire when active, nextAttempt     *)
(* when retrying, leaseExpiresAt when pending.  (The nextFire that pending *)
(* and retrying rows carry along is only ever displayed.)                  *)
(***************************************************************************)
EXTENDS Integers

CONSTANTS
  MaxAttempts,  \* MAX_ATTEMPTS (8)
  RetryDelay    \* retryDelay(): min(RETRY_BASE_MS * 2 ** (attempts - 1), RETRY_MAX_MS)

ASSUME StateAssumption ==
  /\ MaxAttempts \in Nat \ {0}
  /\ RetryDelay \in [1..MaxAttempts -> Nat]

\* What registration fixes: a one-shot, or a recurrence that `occurrences` may
\* bound by a count or by an instant.
Registration == [kind : {"once", "recurring"}, limit : {"none", "count", "until"},
                 count : Nat]

Statuses == {"absent", "active", "pending", "retrying", "dead", "completed", "expired"}
Stages == {"none", "admission", "delivery"}

\* A row that is in no run.
RowOf(status, count, at) ==
  [status |-> status, stage |-> "none", run |-> 0, attempts |-> 0, count |-> count, at |-> at]

NoRow == RowOf("absent", 0, 0)
Active(count, at) == RowOf("active", count, at)
Ended(row, status) == RowOf(status, row.count, 0)

Terminal(row) == row.status \in {"completed", "expired", "dead"}
Live(row) == row.status \in {"active", "pending", "retrying"}

\* isDue(): what alarmTarget() names has come.
Due(row) == Live(row) /\ row.at = 0

-----------------------------------------------------------------------------
\* An occurrence is a distance, 0 if there is none.  `left` is the distance of
\* the instant that bounds the schedule, 0 once it is past.

WithinLimit(reg, count, next, left) ==
  /\ reg.limit = "count" => count < reg.count
  /\ reg.limit = "until" => next <= left

\* recurringNextFire(), of the next occurrence that the spec has
RecurringNextFire(reg, row, next, left) ==
  IF reg.kind = "once" \/ ~WithinLimit(reg, row.count, next, left) THEN 0 ELSE next

CreateSchedule(reg, next, left) ==
  IF next = 0 \/ ~WithinLimit(reg, 0, next, left)
  THEN Ended(NoRow, "expired") ELSE Active(0, next)

\* A beginning that is not counted.
BeginDueRunMut(reg, row, newRun, lease) ==
  LET pending == [row EXCEPT !.status = "pending", !.stage = "admission", !.at = lease]
  IN  IF row.status = "active" THEN [pending EXCEPT !.run = newRun] ELSE pending

\* beginDueRun(), of a row that is due.  A retry keeps its run and attempts.
BeginDueRun(reg, row, newRun, lease) ==
  LET pending == [row EXCEPT !.status = "pending", !.stage = "admission", !.at = lease]
  IN  IF row.status = "active"
      THEN [pending EXCEPT !.run = newRun,
                           !.count = IF reg.limit = "count" THEN @ + 1 ELSE @]
      ELSE pending

InStage(row, stage) == row.status = "pending" /\ row.stage = stage

\* An admission that forgets to count the attempt.
AdmitRunMut(row, lease) == [row EXCEPT !.stage = "delivery", !.at = lease]

AdmitRun(row, lease) ==
  IF ~InStage(row, "admission") THEN row
  ELSE [row EXCEPT !.stage = "delivery", !.attempts = @ + 1, !.at = lease]

\* What rejectRun() and completeRun() leave of a recurrence.
Advance(row, next) == IF next = 0 THEN Ended(row, "completed") ELSE Active(row.count, next)

RejectRun(reg, row, next) ==
  IF ~InStage(row, "admission") THEN row
  ELSE IF reg.kind = "once" THEN Ended(row, "expired") ELSE Advance(row, next)

CompleteRun(row, next) ==
  IF ~InStage(row, "delivery") THEN row ELSE Advance(row, next)

FailRun(row) ==
  IF ~InStage(row, "delivery") THEN row
  ELSE IF row.attempts >= MaxAttempts THEN Ended(row, "dead")
  ELSE [row EXCEPT !.status = "retrying", !.stage = "none", !.at = RetryDelay[row.attempts]]

=============================================================================
