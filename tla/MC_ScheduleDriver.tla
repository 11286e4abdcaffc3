------------------------- MODULE MC_ScheduleDriver -------------------------
(* An account with a recurrence bounded by a count and one bounded by an     *)
(* instant; and an account with a one-shot and an endless recurrence.       *)
EXTENDS ScheduleDriver, TLC

CONSTANTS once, counted, until, daily,
  RetryMax   \* RETRY_MAX_MS

MCReg == [s \in Schedules |-> IF s = once
           THEN [kind |-> "once", limit |-> "none", count |-> 0]
           ELSE [kind |-> "recurring", count |-> 2,
                 limit |-> CASE s = counted -> "count"
                             [] s = until   -> "until"
                             [] s = daily   -> "none"]]

\* retryDelay() with RETRY_BASE_MS = 1.
MCRetryDelay == [a \in 1..MaxAttempts |-> IF 2^(a - 1) < RetryMax THEN 2^(a - 1) ELSE RetryMax]
=============================================================================
