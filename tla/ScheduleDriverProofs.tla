----------------------- MODULE ScheduleDriverProofs -----------------------
(***************************************************************************)
(* The promises of ScheduleDriver, for every number of schedules, every    *)
(* registration, every limit and every delay: TLC checks the same formulas *)
(* on two schedules.                                                       *)
(***************************************************************************)
EXTENDS ScheduleDriver, TLAPS

-----------------------------------------------------------------------------
(* The inductive invariant.                                                 *)

Row == [status : Statuses, stage : Stages, run : {0} \cup Runs,
        attempts : 0..MaxAttempts, count : Nat, at : Nat]

Counted(s) == Reg[s].limit = "count"
InRun(row) == row.status \in {"pending", "retrying"}

\* What the transitions keep of a row by itself: a lease is no longer than the
\* recovery delay, a run that waits has an attempt left, and a schedule that
\* waits for an occurrence has one left.
SoundRow(s, row) ==
  /\ row.status = "absent" => row = NoRow
  /\ Terminal(row) => row.at = 0
  /\ row.status = "active" => row.attempts = 0 /\ (Counted(s) => row.count < Reg[s].count)
  /\ row.status = "pending" => row.stage \in {"admission", "delivery"} /\ row.at <= Recovery
  /\ row.status # "pending" => row.stage = "none"
  /\ InRun(row) /\ row.stage # "delivery" => row.attempts < MaxAttempts
  /\ row.stage = "delivery" => row.attempts > 0

\* The capability of a schedule follows its row.
SoundCaps(s) ==
  ~revoked => /\ Live(rows[s]) => s \in caps
              /\ s \in caps => Live(rows[s]) \/ rows[s].status = "dead"

\* A delivery that still has the run: its attempt is not counted before the
\* hook is started, and not used before the callback is called.
SoundTask(s) ==
  /\ InRun(rows[s]) => fired[s] <= rows[s].attempts
  /\ ~revoked /\ ~InRun(rows[s]) => fired[s] = 0
  /\ rows[s].status = "pending" /\ rows[s].run = task[s].run =>
       /\ task[s].pc = "admission" => rows[s].stage = "admission"
       /\ task[s].pc = "authorize" /\ rows[s].stage = "delivery" => fired[s] < rows[s].attempts

SoundCount(s) ==
  /\ Counted(s) /\ rows[s] # NoRow => rows[s].count = begun[s] /\ begun[s] <= Reg[s].count
  /\ ~revoked /\ rows[s] = NoRow => begun[s] = 0

Sound(s) == SoundRow(s, rows[s]) /\ SoundCaps(s) /\ SoundTask(s) /\ SoundCount(s)

IInv ==
  /\ TypeOK
  /\ \A s \in Schedules : Sound(s)
  /\ AlarmCoversAll

-----------------------------------------------------------------------------
(* The transitions of a row (ScheduleState).                                *)

LEMMA Constants ==
  /\ MaxAttempts \in Nat /\ MaxAttempts > 0
  /\ \A a \in 1..MaxAttempts : RetryDelay[a] \in Nat
  /\ Recovery \in Nat /\ Recovery > 0 /\ MaxLeft \in Nat /\ MaxGap \in Nat
  /\ Runs \subseteq Nat \ {0}
  /\ \A s \in Schedules : Reg[s].count \in Nat
BY StateAssumption, DriverAssumption DEF Registration

LEMMA RowTypes ==
  /\ NoRow \in Row
  /\ \A n, at \in Nat : Active(n, at) \in Row
  /\ \A row \in Row : /\ Ended(row, "completed") \in Row
                      /\ Ended(row, "expired") \in Row
                      /\ Ended(row, "dead") \in Row
BY Constants DEF Row, RowOf, NoRow, Active, Ended, Statuses, Stages

LEMMA RowFields ==
  /\ NoRow.status = "absent" /\ NoRow.stage = "none" /\ NoRow.attempts = 0 /\ NoRow.at = 0
  /\ NoRow.count = 0 /\ NoRow.run = 0
  /\ \A n, at \in Nat :
       /\ Active(n, at).status = "active" /\ Active(n, at).stage = "none"
       /\ Active(n, at).attempts = 0 /\ Active(n, at).count = n
       /\ Active(n, at).at = at
  /\ \A row \in Row, st \in Statuses :
       /\ Ended(row, st).status = st /\ Ended(row, st).stage = "none"
       /\ Ended(row, st).count = row.count /\ Ended(row, st).at = 0
BY DEF RowOf, NoRow, Active, Ended

\* A schedule that has ended is sound, and so is one that waits for an
\* occurrence within its limit.
LEMMA EndedIsSound ==
  ASSUME NEW s \in Schedules, NEW row \in Row, NEW st \in {"completed", "expired", "dead"}
  PROVE  /\ Ended(row, st) \in Row /\ SoundRow(s, Ended(row, st))
         /\ Terminal(Ended(row, st)) /\ ~Live(Ended(row, st)) /\ ~InRun(Ended(row, st))
         /\ Ended(row, st).count = row.count /\ Ended(row, st) # NoRow
         /\ Ended(row, st).status = st
<1> DEFINE ended == Ended(row, st)
<1>1. ended \in Row
  BY RowTypes
<1>2. ended.status = st /\ ended.stage = "none" /\ ended.count = row.count /\ ended.at = 0
  BY RowFields DEF Statuses
<1>3. st # "absent" /\ NoRow.status = "absent"
  BY RowFields
<1> HIDE DEF ended
<1>4. SoundRow(s, ended)
  BY <1>2, <1>3 DEF SoundRow, InRun, Terminal
<1>5. Terminal(ended) /\ ~Live(ended) /\ ~InRun(ended) /\ ended # NoRow
  BY <1>2, <1>3 DEF Terminal, Live, InRun
<1> QED BY <1>1, <1>2, <1>4, <1>5 DEF ended

LEMMA ActiveIsSound ==
  ASSUME NEW s \in Schedules, NEW n \in Nat, NEW at \in Nat,
         Counted(s) => n < Reg[s].count
  PROVE  /\ Active(n, at) \in Row /\ SoundRow(s, Active(n, at))
         /\ ~Terminal(Active(n, at)) /\ Live(Active(n, at)) /\ ~InRun(Active(n, at))
         /\ Active(n, at).count = n /\ Active(n, at) # NoRow
         /\ Active(n, at).status = "active"
BY RowTypes, RowFields DEF SoundRow, Terminal, Live, InRun

-----------------------------------------------------------------------------
(* What each transition makes of a sound row.                               *)

\* A run that begins takes an occurrence of the count, a retry takes none.
LEMMA BeginDueRunIsSound ==
  ASSUME NEW s \in Schedules, NEW row \in Row, SoundRow(s, row), Live(row),
         ~InStage(row, "delivery"), NEW newRun \in Runs, NEW begin,
         begin = BeginDueRun(Reg[s], row, newRun, Recovery)
  PROVE  /\ begin \in Row /\ SoundRow(s, begin)
         /\ begin.status = "pending" /\ begin.stage = "admission" /\ begin # NoRow
         /\ begin.attempts = row.attempts /\ row # NoRow
         /\ begin.run = IF row.status = "active" THEN newRun ELSE row.run
         /\ begin.count \in Nat
         /\ Counted(s) => begin.count = IF row.status = "active" THEN row.count + 1 ELSE row.count
         /\ Counted(s) /\ row.status = "active" => begin.count <= Reg[s].count
<1> DEFINE pending == [row EXCEPT !.status = "pending", !.stage = "admission", !.at = Recovery]
<1>1. /\ pending \in Row
      /\ pending.status = "pending" /\ pending.stage = "admission" /\ pending.at = Recovery
      /\ pending.run = row.run /\ pending.attempts = row.attempts /\ pending.count = row.count
  BY Constants DEF Row, Statuses, Stages
<1>2. row.attempts < MaxAttempts
  BY Constants DEF SoundRow, Live, InStage, InRun, Row
<1>3. row # NoRow
  BY RowFields DEF Live
<1>4. CASE row.status # "active"
  <2>1. begin = pending
    BY <1>4 DEF BeginDueRun
  <2> HIDE DEF pending
  <2> QED BY <1>1, <1>2, <1>3, <1>4, <2>1, Constants, RowFields
          DEF SoundRow, Terminal, InRun, Row
<1>5. CASE row.status = "active"
  <2> DEFINE more == IF Reg[s].limit = "count" THEN row.count + 1 ELSE row.count
  <2> DEFINE run == [pending EXCEPT !.run = newRun, !.count = more]
  <2>0. more \in Nat /\ (Counted(s) => more = row.count + 1 /\ more <= Reg[s].count)
    BY <1>5, Constants DEF Row, SoundRow, Counted
  <2>1. begin = run
    BY <1>1, <1>5 DEF BeginDueRun
  <2> HIDE DEF pending, more
  <2>2. /\ run \in Row
        /\ run.status = "pending" /\ run.stage = "admission" /\ run.at = Recovery
        /\ run.run = newRun /\ run.attempts = row.attempts /\ run.count = more
    BY <1>1, <2>0 DEF Row
  <2> HIDE DEF run
  <2> QED BY <1>2, <1>3, <1>5, <2>0, <2>1, <2>2, Constants, RowFields
          DEF SoundRow, Terminal, InRun, Row
<1> QED BY <1>4, <1>5

\* An occurrence that follows is within the limit.
LEMMA FollowersAreWithinLimit ==
  ASSUME TypeOK, NEW s \in Schedules, NEW row \in Row, NEW next \in Followers(s, row)
  PROVE  next \in Nat /\ (next # 0 /\ Counted(s) => row.count < Reg[s].count)
<1>1. NextFires(s) \subseteq Nat
  BY Constants DEF NextFires, TypeOK
<1>2. PICK n \in NextFires(s) : next = RecurringNextFire(Reg[s], row, n, left[s])
  BY DEF Followers
<1> QED BY <1>1, <1>2 DEF RecurringNextFire, WithinLimit, Counted

LEMMA CreateIsSound ==
  ASSUME TypeOK, NEW s \in Schedules, NEW next \in NextFires(s), NEW row,
         row = CreateSchedule(Reg[s], next, left[s])
  PROVE  /\ row \in Row /\ SoundRow(s, row) /\ row # NoRow /\ row.count = 0
         /\ ~InRun(row) /\ (Live(row) <=> ~Terminal(row))
<1>1. next \in Nat
  BY Constants DEF NextFires, TypeOK
<1>2. CASE next = 0 \/ ~WithinLimit(Reg[s], 0, next, left[s])
  BY <1>2, RowTypes, RowFields, EndedIsSound DEF CreateSchedule
<1>3. CASE next # 0 /\ WithinLimit(Reg[s], 0, next, left[s])
  BY <1>1, <1>3, ActiveIsSound DEF CreateSchedule, WithinLimit, Counted
<1> QED BY <1>2, <1>3

\* What becomes of a run: it goes on, or it ends and the row with it or not.
Outcome(s, row, new) ==
  /\ new \in Row /\ SoundRow(s, new) /\ new.count = row.count /\ new # NoRow
  /\ Live(new) <=> ~Terminal(new)

LEMMA AdvanceIsSound ==
  ASSUME NEW s \in Schedules, NEW row \in Row, NEW next \in Nat,
         next # 0 /\ Counted(s) => row.count < Reg[s].count
  PROVE  Outcome(s, row, Advance(row, next)) /\ ~InRun(Advance(row, next))
<1>1. row.count \in Nat
  BY DEF Row
<1> QED BY <1>1, EndedIsSound, ActiveIsSound DEF Advance, Outcome

LEMMA RejectRunIsSound ==
  ASSUME NEW s \in Schedules, NEW row \in Row, SoundRow(s, row), InStage(row, "admission"),
         NEW next \in Nat, next # 0 /\ Counted(s) => row.count < Reg[s].count
  PROVE  LET new == RejectRun(Reg[s], row, next) IN Outcome(s, row, new) /\ ~InRun(new)
BY AdvanceIsSound, EndedIsSound DEF RejectRun, Outcome

LEMMA CompleteRunIsSound ==
  ASSUME NEW s \in Schedules, NEW row \in Row, SoundRow(s, row), InStage(row, "delivery"),
         NEW next \in Nat, next # 0 /\ Counted(s) => row.count < Reg[s].count
  PROVE  LET new == CompleteRun(row, next) IN Outcome(s, row, new) /\ ~InRun(new)
BY AdvanceIsSound DEF CompleteRun

LEMMA FailRunIsSound ==
  ASSUME NEW s \in Schedules, NEW row \in Row, SoundRow(s, row), InStage(row, "delivery")
  PROVE  /\ Outcome(s, row, FailRun(row)) /\ FailRun(row).status # "pending"
         /\ InRun(FailRun(row)) => FailRun(row).attempts = row.attempts
<1>1. row.attempts \in Nat /\ row.attempts > 0 /\ row.attempts <= MaxAttempts
  BY Constants DEF Row, SoundRow, InStage
<1>2. CASE row.attempts >= MaxAttempts
  BY <1>2, EndedIsSound DEF FailRun, Outcome, InRun
<1>3. CASE row.attempts < MaxAttempts
  <2> DEFINE new == [row EXCEPT !.status = "retrying", !.stage = "none",
                                !.at = RetryDelay[row.attempts]]
  <2>1. FailRun(row) = new
    BY <1>1, <1>3, Constants DEF FailRun
  <2>2. RetryDelay[row.attempts] \in Nat
    BY <1>1, Constants
  <2>3. /\ new \in Row
        /\ new.status = "retrying" /\ new.stage = "none"
        /\ new.attempts = row.attempts /\ new.count = row.count
    BY <2>2 DEF Row, Statuses, Stages
  <2> HIDE DEF new
  <2> QED BY <1>3, <2>1, <2>3, RowFields DEF Outcome, SoundRow, Live, Terminal, InRun
<1> QED BY <1>1, <1>2, <1>3, Constants

LEMMA AdmitRunIsSound ==
  ASSUME NEW s \in Schedules, NEW row \in Row, SoundRow(s, row), InStage(row, "admission")
  PROVE  /\ Outcome(s, row, AdmitRun(row, Recovery))
         /\ InStage(AdmitRun(row, Recovery), "delivery")
         /\ AdmitRun(row, Recovery).attempts = row.attempts + 1
<1> DEFINE more == row.attempts + 1
<1> DEFINE new == [row EXCEPT !.stage = "delivery", !.attempts = more, !.at = Recovery]
<1>1. AdmitRun(row, Recovery) = new
  BY DEF AdmitRun
<1>2. row.attempts \in Nat /\ row.status = "pending" /\ more \in 0..MaxAttempts /\ more > 0
  BY Constants DEF Row, SoundRow, InStage, InRun
<1> HIDE DEF more
<1>3. /\ new \in Row
      /\ new.status = "pending" /\ new.stage = "delivery" /\ new.at = Recovery
      /\ new.attempts = more /\ new.count = row.count
  BY <1>2, Constants DEF Row, Stages
<1> HIDE DEF new
<1>4. more = row.attempts + 1
  BY DEF more
<1> QED BY <1>1, <1>2, <1>3, <1>4, Constants, RowFields
        DEF Outcome, SoundRow, Live, Terminal, InRun, InStage

-----------------------------------------------------------------------------
(* The alarm.                                                               *)

\* #planAlarm() sets an alarm that comes no later than any deadline.
LEMMA PlannedIsFirst ==
  ASSUME NEW table \in [Schedules -> Row], NEW t \in Planned(table, FALSE)
  PROVE  /\ t \in {NoAlarm} \cup Nat
         /\ \A s \in Schedules : Live(table[s]) => t \in Nat /\ t <= table[s].at
<1> DEFINE targets == {table[s].at : s \in {u \in Schedules : Live(table[u])}}
<1>1. targets \subseteq Nat
  BY DEF Row
<1>2. \A s \in Schedules : Live(table[s]) => table[s].at \in targets
  OBVIOUS
<1>3. t \in First(targets, FALSE)
  BY DEF Planned
<1> HIDE DEF targets
<1>4. CASE targets = {}
  BY <1>2, <1>3, <1>4 DEF First
<1>5. CASE targets # {}
  BY <1>1, <1>2, <1>3, <1>5 DEF First
<1> QED BY <1>4, <1>5

LEMMA ArmedIsEarly ==
  ASSUME TypeOK
  PROVE  Armed \in Nat /\ Armed <= Recovery
BY Constants DEF TypeOK, Armed, NoAlarm

\* Wherever Replan() leaves the alarm, it covers the schedules in table.
LEMMA ReplanCovers ==
  ASSUME TypeOK, ~revoked, NEW table \in [Schedules -> Row], NEW armed \in {NoAlarm} \cup Nat,
         Replan(table, armed),
         \A s \in Schedules : Live(table[s])
           => armed \in Nat /\ (armed <= table[s].at \/ armed <= Recovery)
  PROVE  /\ alarm' \in {NoAlarm} \cup Nat
         /\ \A s \in Schedules : Live(table[s])
              => alarm' # NoAlarm /\ (alarm' <= table[s].at \/ alarm' <= Recovery)
<1>1. alarm' \in Planned(table, FALSE) \cup {armed}
  <2>1. revoked = FALSE
    BY DEF TypeOK
  <2> QED BY <2>1 DEF Replan
<1>2. CASE alarm' = armed
  BY <1>2 DEF NoAlarm
<1>3. CASE alarm' \in Planned(table, FALSE)
  <2>1. /\ alarm' \in {NoAlarm} \cup Nat
        /\ \A s \in Schedules : Live(table[s]) => alarm' \in Nat /\ alarm' <= table[s].at
    BY <1>3, PlannedIsFirst
  <2> QED BY <2>1 DEF NoAlarm
<1> QED BY <1>1, <1>2, <1>3

-----------------------------------------------------------------------------
(* What a step does not touch stays sound.                                  *)

LEMMA Frame ==
  ASSUME NEW s \in Schedules, Sound(s),
         rows'[s] = rows[s], s \in caps' <=> s \in caps, task'[s] = task[s],
         fired'[s] = fired[s], begun'[s] = begun[s], revoked => revoked'
  PROVE  Sound(s)'
BY DEF Sound, SoundRow, SoundCaps, SoundTask, SoundCount

LEMMA RowsAreRows == TypeOK => rows \in [Schedules -> Row]
BY DEF TypeOK, Row

\* A step that leaves the rows and the alarm alone.
LEMMA AlarmSame ==
  ASSUME AlarmCoversAll, rows' = rows, caps' = caps, alarm' = alarm, revoked' = revoked
  PROVE  AlarmCoversAll'
BY DEF AlarmCoversAll, Alarmed, Stored

\* A deadline that was due, or a lease, is covered by an alarm early enough for
\* whatever the row waits for next.
LEMMA AlarmKept ==
  ASSUME IInv, ~revoked, NEW s \in Schedules, NEW row \in Row,
         rows' = [rows EXCEPT ![s] = row], alarm' = alarm, revoked' = revoked,
         Live(row) => Live(rows[s]) /\ rows[s].at <= Recovery
  PROVE  AlarmCoversAll'
<1>1. \A t \in Schedules : Live(rows[t]) => Alarmed(rows[t].at)
  BY DEF IInv, AlarmCoversAll
<1>2. Live(row) => alarm # NoAlarm /\ alarm <= Recovery
  BY <1>1, Constants, RowsAreRows DEF Alarmed, IInv, TypeOK, NoAlarm, Row
<1>3. \A t \in Schedules : rows'[t] = IF t = s THEN row ELSE rows[t]
  BY RowsAreRows DEF IInv
<1>4. \A t \in Schedules : Live(rows'[t]) => alarm # NoAlarm /\ (alarm <= rows'[t].at \/ alarm <= Recovery)
  BY <1>1, <1>2, <1>3 DEF Alarmed
<1> QED BY <1>4 DEF AlarmCoversAll, Alarmed, Live

-----------------------------------------------------------------------------
LEMMA InitIInv == Init => IInv
<1> SUFFICES ASSUME Init PROVE IInv
  OBVIOUS
<1>1. TypeOK
  BY RowTypes DEF Init, TypeOK, Row, NoAlarm, Resting, NoTask
<1>2. ASSUME NEW s \in Schedules PROVE Sound(s)
  BY RowFields
     DEF Init, Sound, SoundRow, SoundCaps, SoundTask, SoundCount, NoTask, Terminal, Live, InRun
<1>3. AlarmCoversAll
  BY RowFields DEF Init, AlarmCoversAll, Live
<1> QED BY <1>1, <1>2, <1>3 DEF IInv

\* Every deadline comes closer, and the alarm with them.
LEMMA TickIInv == IInv /\ Tick => IInv'
<1> SUFFICES ASSUME IInv, Tick PROVE IInv'
  OBVIOUS
<1> DEFINE closer(n) == IF n > 0 THEN n - 1 ELSE n
<1>1. /\ rows' = [s \in Schedules |-> [rows[s] EXCEPT !.at = closer(rows[s].at)]]
      /\ left' = [s \in Schedules |-> closer(left[s])]
      /\ alarm' = closer(alarm)
      /\ UNCHANGED <<caps, revoked, handler, task, fired, begun, outdated>>
  BY DEF Tick
<1>2. /\ \A n \in Nat : closer(n) \in Nat /\ closer(n) <= n
      /\ closer(0) = 0 /\ closer(NoAlarm) = NoAlarm
      /\ \A m, n \in Nat : m <= n => closer(m) <= closer(n)
      /\ \A n \in Nat : n # NoAlarm
      /\ \A n \in 0..MaxLeft : closer(n) \in 0..MaxLeft
  BY Constants DEF NoAlarm
<1> HIDE DEF closer
<1>3. ASSUME NEW s \in Schedules
      PROVE  /\ rows'[s] \in Row
             /\ rows'[s].at = closer(rows[s].at)
             /\ rows'[s].status = rows[s].status /\ rows'[s].stage = rows[s].stage
             /\ rows'[s].run = rows[s].run /\ rows'[s].attempts = rows[s].attempts
             /\ rows'[s].count = rows[s].count
             /\ rows[s].at = 0 => rows'[s] = rows[s]
  <2>1. rows[s] \in Row
    BY RowsAreRows DEF IInv
  <2>2. rows'[s] = [rows[s] EXCEPT !.at = closer(rows[s].at)]
    BY <1>1
  <2> QED BY <1>2, <2>1, <2>2 DEF Row
<1>4. TypeOK'
  <2>1. rows' \in [Schedules -> Row]
    BY <1>1, <1>3
  <2> QED BY <1>1, <1>2, <2>1 DEF IInv, TypeOK, Row
<1>5. ASSUME NEW s \in Schedules PROVE Sound(s)'
  <2>1. Sound(s) /\ rows[s] \in Row
    BY RowsAreRows DEF IInv
  <2>2. SoundRow(s, rows'[s]) /\ (rows'[s] = NoRow <=> rows[s] = NoRow)
    <3>1. rows[s].at \in Nat /\ rows'[s].at \in Nat /\ rows'[s].at <= rows[s].at
      BY <1>2, <1>3, <2>1 DEF Row
    <3> QED BY <1>3, <2>1, <3>1, Constants, RowFields DEF Sound, SoundRow, Terminal, InRun
  <2> QED BY <1>1, <1>3, <2>1, <2>2 DEF Sound, SoundRow, SoundCaps, SoundTask, SoundCount, Live, InRun, Terminal
<1>6. AlarmCoversAll'
  <2>1. CASE revoked
    <3>1. Stored' # {} => Stored # {}
      BY <1>1, <1>3, RowFields DEF Stored, IInv, Sound, SoundRow
    <3>2. Alarmed(0) => Alarmed(0)'
      BY <1>1, <1>2, Constants DEF Alarmed, IInv, TypeOK
    <3> QED BY <1>1, <2>1, <3>1, <3>2 DEF IInv, AlarmCoversAll
  <2>2. CASE ~revoked
    <3>1. ASSUME NEW s \in Schedules, Live(rows'[s])
          PROVE  alarm' # NoAlarm /\ (alarm' <= rows'[s].at \/ alarm' <= Recovery)
      <4>1. alarm # NoAlarm /\ (alarm <= rows[s].at \/ alarm <= Recovery)
        BY <1>3, <2>2, <3>1 DEF IInv, AlarmCoversAll, Alarmed, Live
      <4>2. alarm \in Nat /\ rows[s].at \in Nat
        BY <4>1, RowsAreRows DEF IInv, TypeOK, Row
      <4>3. closer(alarm) \in Nat /\ closer(alarm) <= alarm
        BY <1>2, <4>2
      <4>4. alarm <= rows[s].at => closer(alarm) <= closer(rows[s].at)
        BY <1>2, <4>2
      <4>5. closer(alarm) # NoAlarm
        BY <1>2, <4>3
      <4> QED BY <1>1, <1>3, <4>1, <4>2, <4>3, <4>4, <4>5, Constants
    <3> QED BY <1>1, <2>2, <3>1 DEF AlarmCoversAll, Alarmed, Live
  <2> QED BY <2>1, <2>2
<1> QED BY <1>4, <1>5, <1>6 DEF IInv

-----------------------------------------------------------------------------
(* Registration.                                                            *)

\* Put() writes one row, and forgets the callbacks of a run that it leaves.
LEMMA PutWrites ==
  ASSUME TypeOK, NEW s \in Schedules, NEW row \in Row, Put(s, row)
  PROVE  /\ rows' \in [Schedules -> Row] /\ fired' \in [Schedules -> Nat]
         /\ rows' = [rows EXCEPT ![s] = row]
         /\ rows'[s] = row /\ fired'[s] = IF InRun(row) THEN fired[s] ELSE 0
         /\ \A t \in Schedules \ {s} : rows'[t] = rows[t] /\ fired'[t] = fired[t]
BY RowsAreRows DEF Put, TypeOK, InRun

LEMMA EnableNewIInv ==
  ASSUME IInv, NEW s \in Schedules, EnableNew(s)
  PROVE  IInv'
<1>1. PICK next \in NextFires(s) :
        LET row == CreateSchedule(Reg[s], next, left[s]) IN
        /\ Put(s, row)
        /\ caps' = IF Terminal(row) THEN caps \ {s} ELSE caps \cup {s}
        /\ Replan(rows', Armed)
  BY DEF EnableNew
<1>2. ~revoked /\ rows[s] = NoRow /\ UNCHANGED <<left, revoked, handler, task, begun, outdated>>
  BY DEF EnableNew
<1> DEFINE row == CreateSchedule(Reg[s], next, left[s])
<1>3. /\ row \in Row /\ SoundRow(s, row) /\ row # NoRow /\ row.count = 0
      /\ ~InRun(row) /\ (Live(row) <=> ~Terminal(row))
  BY CreateIsSound DEF IInv
<1> HIDE DEF row
<1>4. Put(s, row) /\ caps' = (IF Terminal(row) THEN caps \ {s} ELSE caps \cup {s}) /\ Replan(rows', Armed)
  BY <1>1 DEF row
<1>5. /\ rows' \in [Schedules -> Row] /\ fired' \in [Schedules -> Nat]
      /\ rows'[s] = row /\ fired'[s] = 0
      /\ \A t \in Schedules \ {s} : rows'[t] = rows[t] /\ fired'[t] = fired[t]
  BY <1>3, <1>4, PutWrites DEF IInv
<1>6. /\ alarm' \in {NoAlarm} \cup Nat
      /\ \A t \in Schedules : Live(rows'[t])
           => alarm' # NoAlarm /\ (alarm' <= rows'[t].at \/ alarm' <= Recovery)
  <2>1. Armed \in Nat /\ Armed <= Recovery
    BY ArmedIsEarly DEF IInv
  <2> QED BY <1>2, <1>4, <1>5, <2>1, ReplanCovers DEF IInv
<1>7. TypeOK'
  BY <1>2, <1>4, <1>5, <1>6 DEF IInv, TypeOK, Row
<1>8. ASSUME NEW t \in Schedules PROVE Sound(t)'
  <2>1. CASE t # s
    BY <1>2, <1>4, <1>5, <2>1, Frame DEF IInv
  <2>2. CASE t = s
    <3>1. begun[s] = 0 /\ Reg[s].count \in Nat
      BY <1>2, Constants DEF IInv, Sound, SoundCount
    <3> QED BY <1>2, <1>3, <1>4, <1>5, <2>2, <3>1
            DEF Sound, SoundCaps, SoundTask, SoundCount, InRun
  <2> QED BY <2>1, <2>2
<1>9. AlarmCoversAll'
  BY <1>2, <1>6 DEF AlarmCoversAll, Alarmed, Live
<1> QED BY <1>7, <1>8, <1>9 DEF IInv

LEMMA EnableAgainIInv ==
  ASSUME IInv, NEW s \in Schedules, EnableAgain(s)
  PROVE  IInv'
<1>1. /\ ~revoked /\ rows[s] # NoRow
      /\ caps' = IF Terminal(rows[s]) THEN caps \ {s} ELSE caps \cup {s}
      /\ Replan(rows, Armed)
      /\ UNCHANGED <<rows, left, revoked, handler, task, fired, begun, outdated>>
  BY DEF EnableAgain
<1>2. rows \in [Schedules -> Row]
  BY RowsAreRows DEF IInv
<1>3. /\ alarm' \in {NoAlarm} \cup Nat
      /\ \A t \in Schedules : Live(rows[t])
           => alarm' # NoAlarm /\ (alarm' <= rows[t].at \/ alarm' <= Recovery)
  <2>1. Armed \in Nat /\ Armed <= Recovery
    BY ArmedIsEarly DEF IInv
  <2> QED BY <1>1, <1>2, <2>1, ReplanCovers DEF IInv
<1>4. TypeOK'
  BY <1>1, <1>3 DEF IInv, TypeOK
<1>5. ASSUME NEW t \in Schedules PROVE Sound(t)'
  <2>1. CASE t # s
    BY <1>1, <2>1, Frame DEF IInv
  <2>2. CASE t = s
    <3>1. Sound(s) /\ rows[s] \in Row
      BY <1>2 DEF IInv
    <3>2. Live(rows[s]) \/ Terminal(rows[s])
      BY <1>1, <3>1 DEF Sound, SoundRow, Live, Terminal, Row, Statuses
    <3>3. ~(Live(rows[s]) /\ Terminal(rows[s]))
      BY DEF Live, Terminal
    <3>4. SoundCaps(s)'
      BY <1>1, <3>2, <3>3 DEF SoundCaps, Live, Terminal
    <3> QED BY <1>1, <2>2, <3>1, <3>4
            DEF Sound, SoundRow, SoundTask, SoundCount, Live, Terminal, InRun
  <2> QED BY <2>1, <2>2
<1>6. AlarmCoversAll'
  BY <1>1, <1>3 DEF AlarmCoversAll, Alarmed, Live
<1> QED BY <1>4, <1>5, <1>6 DEF IInv

LEMMA DisableIInv ==
  ASSUME IInv, NEW s \in Schedules, Disable(s)
  PROVE  IInv'
<1>1. /\ ~revoked /\ Put(s, NoRow) /\ begun' = [begun EXCEPT ![s] = 0]
      /\ caps' = caps \ {s} /\ Replan(rows', alarm)
      /\ UNCHANGED <<left, revoked, handler, task>> /\ outdated' \subseteq Schedules
  BY DEF Disable, InFlight, IInv, TypeOK
<1>2. /\ rows' \in [Schedules -> Row] /\ fired' \in [Schedules -> Nat]
      /\ rows'[s] = NoRow /\ fired'[s] = 0
      /\ \A t \in Schedules \ {s} : rows'[t] = rows[t] /\ fired'[t] = fired[t]
  BY <1>1, RowTypes, RowFields, PutWrites DEF IInv, InRun
<1>3. /\ begun' \in [Schedules -> Nat] /\ begun'[s] = 0
      /\ \A t \in Schedules \ {s} : begun'[t] = begun[t]
  BY <1>1 DEF IInv, TypeOK
<1>4. /\ alarm' \in {NoAlarm} \cup Nat
      /\ \A t \in Schedules : Live(rows'[t])
           => alarm' # NoAlarm /\ (alarm' <= rows'[t].at \/ alarm' <= Recovery)
  <2>1. \A t \in Schedules : Live(rows'[t])
          => alarm # NoAlarm /\ (alarm <= rows'[t].at \/ alarm <= Recovery)
    BY <1>1, <1>2, RowFields DEF IInv, AlarmCoversAll, Alarmed, Live
  <2>2. alarm \in {NoAlarm} \cup Nat
    BY DEF IInv, TypeOK
  <2> QED BY <1>1, <1>2, <2>1, <2>2, ReplanCovers DEF IInv
<1>5. TypeOK'
  BY <1>1, <1>2, <1>3, <1>4 DEF IInv, TypeOK, Row
<1>6. ASSUME NEW t \in Schedules PROVE Sound(t)'
  <2>1. CASE t # s
    BY <1>1, <1>2, <1>3, <2>1, Frame DEF IInv
  <2>2. CASE t = s
    BY <1>1, <1>2, <1>3, <2>2, RowFields
       DEF Sound, SoundRow, SoundCaps, SoundTask, SoundCount, Live, Terminal, InRun
  <2> QED BY <2>1, <2>2
<1>7. AlarmCoversAll'
  BY <1>1, <1>4 DEF AlarmCoversAll, Alarmed, Live
<1> QED BY <1>5, <1>6, <1>7 DEF IInv

\* Steps that move the alarm, the flag or the handler and leave the rows alone.
LEMMA AloneIInv ==
  ASSUME IInv, EnableFails \/ Revoke \/ AlarmStarts \/ AlarmEnds \/ CleanupFails \/ Crash
  PROVE  IInv'
<1>1. /\ UNCHANGED <<rows, caps, left, fired, begun>>
      /\ revoked' \in BOOLEAN /\ (revoked => revoked') /\ outdated' \subseteq Schedules
      /\ \A s \in Schedules : task'[s] = task[s] \/ task'[s] = NoTask
  BY DEF EnableFails, Revoke, AlarmStarts, AlarmEnds, CleanupFails, Crash, InFlight, IInv, TypeOK
<1>2. task' \in [Schedules -> [pc : {"idle", "admission", "authorize", "callback"}, run : {0} \cup Runs]]
  <2>1. CASE Crash
    BY <2>1 DEF Crash, NoTask
  <2>2. CASE ~Crash
    BY <2>2 DEF EnableFails, Revoke, AlarmStarts, AlarmEnds, CleanupFails, IInv, TypeOK
  <2> QED BY <2>1, <2>2
<1>3. handler' \in [on : BOOLEAN, todo : SUBSET Schedules]
  <2>1. CASE AlarmStarts
    <3>1. PICK b \in Batches : handler' = [on |-> TRUE, todo |-> b]
      BY <2>1 DEF AlarmStarts
    <3>2. b \in SUBSET Schedules
      BY DEF Batches
    <3> QED BY <3>1, <3>2, Zenon
  <2>2. CASE Crash \/ AlarmEnds
    <3>1. handler' = Resting
      BY <2>2 DEF Crash, AlarmEnds
    <3>2. Resting \in [on : BOOLEAN, todo : SUBSET Schedules]
      BY Zenon DEF Resting
    <3> QED BY <3>1, <3>2
  <2>3. CASE EnableFails \/ Revoke \/ CleanupFails
    BY <2>3 DEF EnableFails, Revoke, CleanupFails, IInv, TypeOK
  <2> QED BY <2>1, <2>2, <2>3
<1>4. /\ alarm' \in {NoAlarm} \cup Nat
      /\ AlarmCoversAll'
  <2> USE DEF IInv
  <2>1. CASE EnableFails
    BY <2>1, ArmedIsEarly DEF EnableFails, AlarmCoversAll, Alarmed, NoAlarm
  <2>2. CASE Revoke
    BY <2>2, RowsAreRows, Constants DEF Revoke, AlarmCoversAll, Alarmed, NoAlarm, TypeOK, Row
  <2>3. CASE AlarmStarts
    BY <2>3, Constants DEF AlarmStarts, AlarmCoversAll, Alarmed, NoAlarm
  <2>4. CASE AlarmEnds
    <3>1. CASE alarm' = 0
      BY <1>1, <3>1, RowsAreRows, Constants DEF AlarmCoversAll, Alarmed, NoAlarm, Row
    <3>2. CASE alarm' = alarm
      BY <2>4, <3>2, AlarmSame DEF AlarmEnds, TypeOK
    <3>3. CASE alarm' \in Planned(rows, revoked) /\ alarm' # 0
      <4>1. revoked = FALSE
        BY <3>3 DEF Planned, First, TypeOK
      <4>2. /\ alarm' \in {NoAlarm} \cup Nat
            /\ \A s \in Schedules : Live(rows[s]) => alarm' \in Nat /\ alarm' <= rows[s].at
        BY <3>3, <4>1, PlannedIsFirst, RowsAreRows
      <4> QED BY <2>4, <4>1, <4>2 DEF AlarmEnds, AlarmCoversAll, Alarmed, NoAlarm, Live
    <3> QED BY <2>4, <3>1, <3>2, <3>3 DEF AlarmEnds
  <2>5. CASE CleanupFails
    BY <2>5, Constants DEF CleanupFails, AlarmCoversAll, Alarmed, NoAlarm
  <2>6. CASE Crash
    <3>1. CASE alarm' = alarm
      BY <2>6, <3>1, AlarmSame DEF Crash, TypeOK
    <3>2. CASE alarm' = 0
      BY <1>1, <3>2, RowsAreRows, Constants DEF AlarmCoversAll, Alarmed, NoAlarm, Row
    <3> QED BY <2>6, <3>1, <3>2 DEF Crash
  <2> QED BY <2>1, <2>2, <2>3, <2>4, <2>5, <2>6
<1>5. TypeOK'
  BY <1>1, <1>2, <1>3, <1>4 DEF IInv, TypeOK
<1>6. ASSUME NEW s \in Schedules PROVE Sound(s)'
  <2>1. CASE task'[s] = task[s]
    BY <1>1, <2>1, Frame DEF IInv
  <2>2. CASE task'[s] = NoTask
    <3>1. task'[s].pc = "idle"
      BY <2>2 DEF NoTask
    <3>2. Sound(s)
      BY DEF IInv
    <3>3. SoundRow(s, rows[s])' /\ SoundCaps(s)' /\ SoundCount(s)'
      BY <1>1, <3>2 DEF Sound, SoundRow, SoundCaps, SoundCount
    <3>4. SoundTask(s)'
      BY <1>1, <3>1, <3>2 DEF Sound, SoundTask
    <3> QED BY <3>3, <3>4 DEF Sound
  <2> QED BY <1>1, <2>1, <2>2
<1> QED BY <1>4, <1>5, <1>6 DEF IInv

-----------------------------------------------------------------------------
(* Deliveries.                                                              *)

\* What a settlement may make of a row that is in a run.
MayBecome(s, row) ==
  \/ row = rows[s]
  \/ /\ Outcome(s, rows[s], row) /\ row.status # "pending"
     /\ InRun(row) => row.attempts = rows[s].attempts

\* A row that is in a run, or due, is written: its invariant.
LEMMA SettledIsSound ==
  ASSUME IInv, ~revoked, NEW s \in Schedules, NEW row \in Row,
         rows[s].status = "pending", MayBecome(s, row), row # rows[s],
         rows'[s] = row, fired'[s] = (IF InRun(row) THEN fired[s] ELSE 0),
         s \in caps' <=> s \in caps /\ ~Terminal(row),
         begun'[s] = begun[s], revoked' = revoked
  PROVE  Sound(s)'
<1>1. /\ Sound(s) /\ rows[s] # NoRow /\ Live(rows[s]) /\ InRun(rows[s])
  BY RowFields DEF IInv, Live, InRun
<1>2. /\ SoundRow(s, row) /\ row.count = rows[s].count /\ row # NoRow
      /\ row.status # "pending" /\ (Live(row) <=> ~Terminal(row))
      /\ InRun(row) => row.attempts = rows[s].attempts
  BY DEF MayBecome, Outcome
<1>3. SoundRow(s, rows[s])'
  BY <1>2 DEF SoundRow, Terminal, InRun
<1>4. SoundCaps(s)'
  BY <1>1, <1>2 DEF Sound, SoundCaps, Live, Terminal
<1>5. SoundTask(s)'
  BY <1>1, <1>2 DEF Sound, SoundTask, InRun
<1>6. SoundCount(s)'
  BY <1>1, <1>2 DEF Sound, SoundCount
<1> QED BY <1>3, <1>4, <1>5, <1>6 DEF Sound

\* A delivery that ends with a settlement.
LEMMA SettleIInv ==
  ASSUME IInv, NEW s \in Schedules, NEW row \in Row, Settle(s, row),
         ~revoked /\ rows[s].status = "pending" /\ rows[s].run = task[s].run => MayBecome(s, row),
         EndTask(s), UNCHANGED <<Rest, begun>>
  PROVE  IInv'
<1>1. /\ task' = [task EXCEPT ![s] = NoTask] /\ UNCHANGED <<left, alarm, revoked, handler, begun>>
      /\ outdated' \subseteq Schedules
  BY DEF EndTask, Rest, IInv, TypeOK
<1>2. /\ task' \in [Schedules -> [pc : {"idle", "admission", "authorize", "callback"}, run : {0} \cup Runs]]
      /\ task'[s].pc = "idle" /\ \A t \in Schedules \ {s} : task'[t] = task[t]
  BY <1>1 DEF IInv, TypeOK, NoTask
<1>3. CASE \/ ~(~revoked /\ rows[s].status = "pending" /\ rows[s].run = task[s].run)
           \/ row = rows[s]
  <2>1. UNCHANGED <<rows, fired, caps>>
    <3>1. CASE ~(~revoked /\ rows[s].status = "pending" /\ rows[s].run = task[s].run)
      BY <3>1 DEF Settle
    <3>2. CASE row = rows[s] /\ rows[s].status = "pending" /\ ~revoked /\ rows[s].run = task[s].run
      <4>1. Put(s, rows[s]) /\ caps' = IF Terminal(rows[s]) THEN caps \ {s} ELSE caps
        BY <3>2 DEF Settle
      <4>2. ~Terminal(rows[s]) /\ InRun(rows[s])
        BY <3>2 DEF Terminal, InRun
      <4> QED BY <4>1, <4>2, RowsAreRows DEF Put, IInv, TypeOK, InRun
    <3> QED BY <1>3, <3>1, <3>2
  <2>2. TypeOK'
    BY <1>1, <1>2, <2>1 DEF IInv, TypeOK
  <2>3. ASSUME NEW t \in Schedules PROVE Sound(t)'
    <3>1. Sound(t)
      BY DEF IInv
    <3> QED BY <1>1, <1>2, <2>1, <3>1
            DEF Sound, SoundRow, SoundCaps, SoundTask, SoundCount
  <2>4. AlarmCoversAll'
    BY <1>1, <2>1, AlarmSame DEF IInv
  <2> QED BY <2>2, <2>3, <2>4 DEF IInv
<1>4. CASE /\ ~revoked /\ rows[s].status = "pending" /\ rows[s].run = task[s].run
           /\ row # rows[s]
  <2>1. Put(s, row) /\ caps' = IF Terminal(row) THEN caps \ {s} ELSE caps
    BY <1>4 DEF Settle
  <2>2. /\ rows' \in [Schedules -> Row] /\ fired' \in [Schedules -> Nat]
        /\ rows' = [rows EXCEPT ![s] = row]
        /\ rows'[s] = row /\ fired'[s] = IF InRun(row) THEN fired[s] ELSE 0
        /\ \A t \in Schedules \ {s} : rows'[t] = rows[t] /\ fired'[t] = fired[t]
    BY <2>1, PutWrites DEF IInv
  <2>3. TypeOK'
    BY <1>1, <1>2, <2>1, <2>2 DEF IInv, TypeOK, Row
  <2>4. ASSUME NEW t \in Schedules PROVE Sound(t)'
    <3>1. CASE t # s
      BY <1>1, <1>2, <2>1, <2>2, <3>1, Frame DEF IInv
    <3>2. CASE t = s
      BY <1>1, <1>4, <2>1, <2>2, <3>2, SettledIsSound
    <3> QED BY <3>1, <3>2
  <2>5. AlarmCoversAll'
    <3>1. Live(rows[s]) /\ rows[s].at <= Recovery
      BY <1>4 DEF IInv, Sound, SoundRow, Live
    <3> QED BY <1>1, <1>4, <2>2, <3>1, AlarmKept
  <2> QED BY <2>3, <2>4, <2>5 DEF IInv
<1> QED BY <1>3, <1>4

LEMMA HookRejectsIInv ==
  ASSUME IInv, NEW s \in Schedules, HookRejects(s)
  PROVE  IInv'
<1>1. PICK next \in Followers(s, rows[s]) : Settle(s, RejectRun(Reg[s], rows[s], next))
  BY DEF HookRejects
<1>2. task[s].pc = "admission" /\ EndTask(s) /\ UNCHANGED <<Rest, begun>>
  BY DEF HookRejects, Awaits
<1>3. rows[s] \in Row /\ SoundRow(s, rows[s])
  BY RowsAreRows DEF IInv, Sound
<1>4. next \in Nat /\ (next # 0 /\ Counted(s) => rows[s].count < Reg[s].count)
  BY <1>3, FollowersAreWithinLimit DEF IInv
<1> DEFINE new == RejectRun(Reg[s], rows[s], next)
<1>5. InStage(rows[s], "admission") => Outcome(s, rows[s], new) /\ ~InRun(new)
  BY <1>3, <1>4, RejectRunIsSound
<1>6. ~InStage(rows[s], "admission") => new = rows[s]
  BY DEF RejectRun
<1> HIDE DEF new
<1>7. new \in Row /\ MayBecome(s, new)
  BY <1>3, <1>5, <1>6 DEF MayBecome, Outcome, InRun
<1> QED BY <1>1, <1>2, <1>7, SettleIInv DEF new

LEMMA CallbackReturnsIInv ==
  ASSUME IInv, NEW s \in Schedules, CallbackReturns(s)
  PROVE  IInv'
<1>1. PICK next \in Followers(s, rows[s]) : Settle(s, CompleteRun(rows[s], next))
  BY DEF CallbackReturns
<1>2. EndTask(s) /\ UNCHANGED <<Rest, begun>>
  BY DEF CallbackReturns
<1>3. rows[s] \in Row /\ SoundRow(s, rows[s])
  BY RowsAreRows DEF IInv, Sound
<1>4. next \in Nat /\ (next # 0 /\ Counted(s) => rows[s].count < Reg[s].count)
  BY <1>3, FollowersAreWithinLimit DEF IInv
<1> DEFINE new == CompleteRun(rows[s], next)
<1>5. InStage(rows[s], "delivery") => Outcome(s, rows[s], new) /\ ~InRun(new)
  BY <1>3, <1>4, CompleteRunIsSound
<1>6. ~InStage(rows[s], "delivery") => new = rows[s]
  BY DEF CompleteRun
<1> HIDE DEF new
<1>7. new \in Row /\ MayBecome(s, new)
  BY <1>3, <1>5, <1>6 DEF MayBecome, Outcome, InRun
<1> QED BY <1>1, <1>2, <1>7, SettleIInv DEF new

LEMMA AttemptFailsIInv ==
  ASSUME IInv, NEW s \in Schedules, AttemptFails(s)
  PROVE  IInv'
<1>1. Settle(s, FailRun(rows[s])) /\ EndTask(s) /\ UNCHANGED <<Rest, begun>>
  BY DEF AttemptFails
<1>2. rows[s] \in Row /\ SoundRow(s, rows[s])
  BY RowsAreRows DEF IInv, Sound
<1>3. FailRun(rows[s]) \in Row /\ MayBecome(s, FailRun(rows[s]))
  <2>1. CASE InStage(rows[s], "delivery")
    BY <1>2, <2>1, FailRunIsSound DEF MayBecome, Outcome
  <2>2. CASE ~InStage(rows[s], "delivery")
    BY <1>2, <2>2 DEF FailRun, MayBecome
  <2> QED BY <2>1, <2>2
<1> QED BY <1>1, <1>3, SettleIInv

\* The types of what one delivery's step writes.
LEMMA TaskTypes ==
  ASSUME TypeOK, NEW s \in Schedules,
         NEW t \in [pc : {"idle", "admission", "authorize", "callback"}, run : {0} \cup Runs],
         task' = [task EXCEPT ![s] = t]
  PROVE  /\ task' \in [Schedules -> [pc : {"idle", "admission", "authorize", "callback"},
                                     run : {0} \cup Runs]]
         /\ task'[s] = t /\ \A u \in Schedules \ {s} : task'[u] = task[u]
BY DEF TypeOK

\* A step that only ends or advances the delivery of one schedule.
LEMMA TaskStepIInv ==
  ASSUME IInv, NEW s \in Schedules,
         NEW t \in [pc : {"idle", "admission", "authorize", "callback"}, run : {0} \cup Runs],
         task' = [task EXCEPT ![s] = t], t.pc \in {"idle", "callback"},
         UNCHANGED <<Rest, rows, caps, begun>>, outdated' \subseteq Schedules,
         /\ fired' \in [Schedules -> Nat]
         /\ \A u \in Schedules \ {s} : fired'[u] = fired[u]
         /\ fired'[s] # fired[s] => /\ InRun(rows[s])
                                   /\ fired'[s] <= rows[s].attempts
  PROVE  IInv'
<1>1. /\ task' \in [Schedules -> [pc : {"idle", "admission", "authorize", "callback"}, run : {0} \cup Runs]]
      /\ task'[s] = t /\ \A u \in Schedules \ {s} : task'[u] = task[u]
  BY TaskTypes DEF IInv
<1>2. UNCHANGED <<left, alarm, revoked, handler, rows, caps, begun>>
  BY DEF Rest
<1>3. TypeOK'
  BY <1>1, <1>2 DEF IInv, TypeOK
<1>4. ASSUME NEW u \in Schedules PROVE Sound(u)'
  <2>1. CASE u # s
    BY <1>1, <1>2, <2>1, Frame DEF IInv
  <2>2. CASE u = s
    <3>1. Sound(s)
      BY DEF IInv
    <3>2. SoundRow(s, rows[s])' /\ SoundCaps(s)' /\ SoundCount(s)'
      BY <1>2, <3>1 DEF Sound, SoundRow, SoundCaps, SoundCount
    <3>3. SoundTask(s)'
      BY <1>1, <1>2, <3>1 DEF Sound, SoundTask, InRun
    <3> QED BY <2>2, <3>2, <3>3 DEF Sound
  <2> QED BY <2>1, <2>2
<1>5. AlarmCoversAll'
  BY <1>2, AlarmSame DEF IInv
<1> QED BY <1>3, <1>4, <1>5 DEF IInv

LEMMA AuthorizedIInv ==
  ASSUME IInv, NEW s \in Schedules, Authorized(s)
  PROVE  IInv'
<1> DEFINE fenced == \/ revoked
                     \/ ~InStage(rows[s], "delivery") \/ rows[s].run # task[s].run
<1>1. /\ task[s].pc = "authorize" /\ UNCHANGED <<Rest, rows, caps, begun>>
      /\ IF fenced THEN EndTask(s) /\ UNCHANGED fired
         ELSE /\ task' = [task EXCEPT ![s].pc = "callback"]
              /\ fired' = [fired EXCEPT ![s] = @ + 1]
              /\ UNCHANGED outdated
  BY DEF Authorized, Awaits
<1>2. CASE fenced
  <2>1. NoTask \in [pc : {"idle", "admission", "authorize", "callback"}, run : {0} \cup Runs]
        /\ NoTask.pc = "idle"
    BY DEF NoTask
  <2>2. task' = [task EXCEPT ![s] = NoTask] /\ fired' = fired /\ outdated' \subseteq Schedules
    BY <1>1, <1>2 DEF EndTask, IInv, TypeOK
  <2> QED BY <1>1, <2>1, <2>2, TaskStepIInv DEF IInv, TypeOK
<1>3. CASE ~fenced
  <2> DEFINE t == [task[s] EXCEPT !.pc = "callback"]
  <2>1. /\ t \in [pc : {"idle", "admission", "authorize", "callback"}, run : {0} \cup Runs]
        /\ t.pc = "callback" /\ outdated' \subseteq Schedules
        /\ task' = [task EXCEPT ![s] = t]
    BY <1>1, <1>3 DEF IInv, TypeOK
  <2>2. /\ fired' \in [Schedules -> Nat] /\ fired'[s] = fired[s] + 1
        /\ \A u \in Schedules \ {s} : fired'[u] = fired[u]
    BY <1>1, <1>3 DEF IInv, TypeOK
  <2>3. fired[s] \in Nat /\ fired[s] < rows[s].attempts /\ rows[s].attempts \in Nat /\ InRun(rows[s])
    BY <1>1, <1>3, RowsAreRows, Constants
       DEF IInv, TypeOK, Sound, SoundTask, InStage, InRun, Row
  <2> HIDE DEF t
  <2>4. fired'[s] <= rows[s].attempts
    BY <2>2, <2>3
  <2> QED BY <1>1, <2>1, <2>2, <2>3, <2>4, TaskStepIInv
<1> QED BY <1>2, <1>3

LEMMA HookStartsIInv ==
  ASSUME IInv, NEW s \in Schedules, HookStarts(s)
  PROVE  IInv'
<1> DEFINE fenced == revoked \/ rows[s].status # "pending" \/ rows[s].run # task[s].run
<1>1. /\ task[s].pc = "admission" /\ UNCHANGED <<Rest, caps, fired, begun>>
      /\ IF fenced THEN EndTask(s) /\ UNCHANGED rows
         ELSE /\ rows' = [rows EXCEPT ![s] = AdmitRun(rows[s], Recovery)]
              /\ task' = [task EXCEPT ![s].pc = "authorize"]
              /\ UNCHANGED outdated
  BY DEF HookStarts, Awaits
<1>2. CASE fenced
  <2>1. NoTask \in [pc : {"idle", "admission", "authorize", "callback"}, run : {0} \cup Runs]
        /\ NoTask.pc = "idle"
    BY DEF NoTask
  <2>2. task' = [task EXCEPT ![s] = NoTask] /\ rows' = rows /\ outdated' \subseteq Schedules
    BY <1>1, <1>2 DEF EndTask, IInv, TypeOK
  <2> QED BY <1>1, <2>1, <2>2, TaskStepIInv DEF IInv, TypeOK
<1>3. CASE ~fenced
  <2> DEFINE t == [task[s] EXCEPT !.pc = "authorize"]
  <2> DEFINE new == AdmitRun(rows[s], Recovery)
  <2>1. /\ t \in [pc : {"idle", "admission", "authorize", "callback"}, run : {0} \cup Runs]
        /\ t.pc = "authorize" /\ t.run = task[s].run
        /\ task' = [task EXCEPT ![s] = t]
    BY <1>1, <1>3 DEF IInv, TypeOK
  <2>2. /\ task' \in [Schedules -> [pc : {"idle", "admission", "authorize", "callback"}, run : {0} \cup Runs]]
        /\ task'[s] = t /\ \A u \in Schedules \ {s} : task'[u] = task[u]
    BY <2>1, TaskTypes DEF IInv
  <2>3. rows[s] \in Row /\ Sound(s) /\ InStage(rows[s], "admission")
    BY <1>1, <1>3, RowsAreRows DEF IInv, Sound, SoundTask, InStage
  <2>4. /\ Outcome(s, rows[s], new) /\ InStage(new, "delivery")
        /\ new.attempts = rows[s].attempts + 1
    BY <2>3, AdmitRunIsSound DEF Sound
  <2>5. /\ rows' \in [Schedules -> Row] /\ rows' = [rows EXCEPT ![s] = new] /\ rows'[s] = new
        /\ \A u \in Schedules \ {s} : rows'[u] = rows[u]
    BY <1>1, <1>3, <2>4, RowsAreRows DEF Outcome, IInv
  <2> HIDE DEF t, new
  <2>6. UNCHANGED <<left, alarm, revoked, handler, caps, fired, begun, outdated>> /\ ~revoked
    BY <1>1, <1>3 DEF Rest
  <2>7. TypeOK'
    BY <2>2, <2>5, <2>6 DEF IInv, TypeOK, Row
  <2>8. ASSUME NEW u \in Schedules PROVE Sound(u)'
    <3>1. CASE u # s
      BY <2>2, <2>5, <2>6, <3>1, Frame DEF IInv
    <3>2. CASE u = s
      <4>1. fired[s] \in Nat /\ fired[s] <= rows[s].attempts /\ rows[s].attempts \in Nat
        BY <2>3, Constants DEF IInv, TypeOK, Sound, SoundTask, InStage, InRun, Row
      <4>2. SoundRow(s, rows[s])' /\ SoundCaps(s)'
        BY <2>3, <2>4, <2>5, <2>6
           DEF Sound, SoundRow, SoundCaps, Outcome, InStage, Live, Terminal, InRun
      <4>3. SoundTask(s)'
        BY <2>1, <2>2, <2>4, <2>5, <2>6, <4>1 DEF SoundTask, InStage, InRun
      <4>4. SoundCount(s)'
        BY <2>3, <2>4, <2>5, <2>6, RowFields DEF Sound, SoundCount, Outcome, InStage
      <4> QED BY <3>2, <4>2, <4>3, <4>4 DEF Sound
    <3> QED BY <3>1, <3>2
  <2>9. AlarmCoversAll'
    <3>1. Live(rows[s]) /\ rows[s].at <= Recovery /\ new \in Row
      BY <2>3, <2>4 DEF Sound, SoundRow, InStage, Live, Outcome
    <3> QED BY <2>5, <2>6, <3>1, AlarmKept
  <2> QED BY <2>7, <2>8, <2>9 DEF IInv
<1> QED BY <1>2, <1>3

\* A delivery abandoned by a crash is taken up and has failed.
LEMMA AbandonIInv ==
  ASSUME IInv, ~revoked, NEW s \in Schedules, Due(rows[s]), InStage(rows[s], "delivery"),
         Abandon(s), UNCHANGED <<left, alarm, revoked>>,
         handler' \in [on : BOOLEAN, todo : SUBSET Schedules]
  PROVE  IInv'
<1> DEFINE new == FailRun(rows[s])
<1>1. Put(s, new) /\ UNCHANGED <<caps, task, begun, outdated>>
  BY DEF Abandon
<1>2. rows[s] \in Row /\ Sound(s)
  BY RowsAreRows DEF IInv
<1>3. /\ Outcome(s, rows[s], new) /\ new.status # "pending" /\ rows[s].status = "pending"
      /\ InRun(new) => new.attempts = rows[s].attempts
  BY <1>2, FailRunIsSound DEF Sound, InStage
<1> HIDE DEF new
<1>4. /\ rows' \in [Schedules -> Row] /\ fired' \in [Schedules -> Nat]
      /\ rows' = [rows EXCEPT ![s] = new]
      /\ rows'[s] = new /\ fired'[s] = IF InRun(new) THEN fired[s] ELSE 0
      /\ \A t \in Schedules \ {s} : rows'[t] = rows[t] /\ fired'[t] = fired[t]
  BY <1>1, <1>3, PutWrites DEF IInv, Outcome
<1>5. TypeOK'
  BY <1>1, <1>4 DEF IInv, TypeOK, Row
<1>6. ASSUME NEW t \in Schedules PROVE Sound(t)'
  <2>1. CASE t # s
    BY <1>1, <1>4, <2>1, Frame DEF IInv
  <2>2. CASE t = s
    <3>1. SoundRow(s, rows[s])'
      BY <1>3, <1>4 DEF SoundRow, Terminal, InRun, Outcome
    <3>2. SoundCaps(s)'
      BY <1>1, <1>2, <1>3, <1>4 DEF Sound, SoundCaps, Outcome, Live, Terminal, FailRun, Ended, RowOf, new
    <3>3. SoundTask(s)'
      BY <1>1, <1>2, <1>3, <1>4 DEF Sound, SoundTask, InRun
    <3>4. SoundCount(s)'
      BY <1>1, <1>2, <1>3, <1>4, RowFields DEF Sound, SoundCount, Outcome
    <3> QED BY <2>2, <3>1, <3>2, <3>3, <3>4 DEF Sound
  <2> QED BY <2>1, <2>2
<1>7. AlarmCoversAll'
  <2>1. Live(rows[s]) /\ rows[s].at <= Recovery /\ new \in Row
    BY <1>3, Constants DEF Due, Outcome
  <2> QED BY <1>1, <1>4, <2>1, AlarmKept
<1> QED BY <1>5, <1>6, <1>7 DEF IInv

LEMMA PrepareIInv ==
  ASSUME IInv, ~revoked, NEW s \in Schedules, Due(rows[s]), ~InStage(rows[s], "delivery"),
         NEW run \in FreshRuns(s), Prepare(s, run), UNCHANGED <<left, alarm, revoked>>,
         handler' \in [on : BOOLEAN, todo : SUBSET Schedules]
  PROVE  IInv'
<1> DEFINE row == BeginDueRun(Reg[s], rows[s], run, Recovery)
<1> DEFINE t == [pc |-> "admission", run |-> row.run]
<1>1. rows[s] \in Row /\ Sound(s) /\ Live(rows[s]) /\ run \in Runs
  BY RowsAreRows DEF IInv, Due, FreshRuns
<1>2. /\ row \in Row /\ SoundRow(s, row)
      /\ row.status = "pending" /\ row.stage = "admission" /\ row # NoRow
      /\ row.attempts = rows[s].attempts /\ rows[s] # NoRow
      /\ row.run = IF rows[s].status = "active" THEN run ELSE rows[s].run
      /\ row.count \in Nat
      /\ Counted(s) => row.count = IF rows[s].status = "active" THEN rows[s].count + 1
                                   ELSE rows[s].count
      /\ Counted(s) /\ rows[s].status = "active" => row.count <= Reg[s].count
  BY <1>1, BeginDueRunIsSound DEF Sound
<1>3. s \in caps
  BY <1>1 DEF Sound, SoundCaps
<1> DEFINE more == IF rows[s].status = "active" /\ Counted(s) THEN begun[s] + 1 ELSE begun[s]
<1>4. /\ begun' = [begun EXCEPT ![s] = more]
      /\ Put(s, row) /\ caps' = caps /\ outdated' = outdated \ {s}
      /\ task' = [task EXCEPT ![s] = t]
  BY <1>3 DEF Prepare, Counted
<1>5. t \in [pc : {"idle", "admission", "authorize", "callback"}, run : {0} \cup Runs]
      /\ t.pc = "admission"
  BY <1>2 DEF Row
<1> HIDE DEF row, t
<1>6. /\ rows' \in [Schedules -> Row] /\ fired' \in [Schedules -> Nat]
      /\ rows' = [rows EXCEPT ![s] = row]
      /\ rows'[s] = row /\ fired'[s] = fired[s]
      /\ \A u \in Schedules \ {s} : rows'[u] = rows[u] /\ fired'[u] = fired[u]
  BY <1>2, <1>4, PutWrites DEF IInv, InRun
<1>7. /\ task' \in [Schedules -> [pc : {"idle", "admission", "authorize", "callback"}, run : {0} \cup Runs]]
      /\ task'[s] = t /\ \A u \in Schedules \ {s} : task'[u] = task[u]
  BY <1>4, <1>5, TaskTypes DEF IInv
<1>8. /\ begun' \in [Schedules -> Nat]
      /\ begun'[s] = more
      /\ \A u \in Schedules \ {s} : begun'[u] = begun[u]
  <2>1. more \in Nat
    BY DEF IInv, TypeOK
  <2> HIDE DEF more
  <2> QED BY <1>4, <2>1 DEF IInv, TypeOK
<1>9. TypeOK'
  BY <1>4, <1>6, <1>7, <1>8 DEF IInv, TypeOK, Row
<1>10. ASSUME NEW u \in Schedules PROVE Sound(u)'
  <2>1. CASE u # s
    BY <1>4, <1>6, <1>7, <1>8, <2>1, Frame DEF IInv
  <2>2. CASE u = s
    <3>1. SoundRow(s, rows[s])' /\ SoundCaps(s)'
      BY <1>2, <1>3, <1>4, <1>6 DEF SoundRow, SoundCaps, Terminal, Live, InRun
    <3>2. SoundTask(s)'
      <4>1. fired[s] <= rows[s].attempts
        BY <1>1, Constants DEF Sound, SoundTask, SoundRow, Live, InRun, IInv, TypeOK
      <4> QED BY <1>2, <1>5, <1>6, <1>7, <4>1 DEF SoundTask, InRun
    <3>3. SoundCount(s)'
      BY <1>1, <1>2, <1>6, <1>8, Constants DEF Sound, SoundCount, Row, IInv, TypeOK
    <3> QED BY <2>2, <3>1, <3>2, <3>3 DEF Sound
  <2> QED BY <2>1, <2>2
<1>11. AlarmCoversAll'
  <2>1. rows[s].at <= Recovery
    BY Constants DEF Due
  <2> QED BY <1>1, <1>2, <1>6, <2>1, AlarmKept
<1> QED BY <1>9, <1>10, <1>11 DEF IInv

LEMMA DeliverIInv ==
  ASSUME IInv, NEW s \in Schedules, Deliver(s)
  PROVE  IInv'
<1>1. /\ handler' = [handler EXCEPT !.todo = @ \ {s}]
      /\ UNCHANGED <<left, alarm, revoked>>
  BY DEF Deliver
<1>2. handler' \in [on : BOOLEAN, todo : SUBSET Schedules]
  BY <1>1 DEF IInv, TypeOK
<1>3. CASE revoked \/ ~Due(rows[s])
  <2>1. UNCHANGED <<rows, caps, task, fired, begun, outdated>>
    BY <1>3 DEF Deliver, Skip
  <2>2. TypeOK'
    BY <1>1, <1>2, <2>1 DEF IInv, TypeOK
  <2>3. ASSUME NEW u \in Schedules PROVE Sound(u)'
    BY <1>1, <2>1, Frame DEF IInv
  <2>4. AlarmCoversAll'
    BY <1>1, <2>1, AlarmSame DEF IInv
  <2> QED BY <2>2, <2>3, <2>4 DEF IInv
<1>4. CASE ~revoked /\ Due(rows[s]) /\ InStage(rows[s], "delivery")
  BY <1>1, <1>2, <1>4, AbandonIInv DEF Deliver
<1>5. CASE ~revoked /\ Due(rows[s]) /\ ~InStage(rows[s], "delivery")
  <2>1. PICK run \in FreshRuns(s) : Prepare(s, run)
    BY <1>5 DEF Deliver
  <2> QED BY <1>1, <1>2, <1>5, <2>1, PrepareIInv
<1> QED BY <1>3, <1>4, <1>5

-----------------------------------------------------------------------------
(* Revocation.                                                              *)

LEMMA CleanupIInv ==
  ASSUME IInv, Cleanup
  PROVE  IInv'
<1>1. PICK gone \in SUBSET Stored :
        /\ rows' = [s \in Schedules |-> IF <<"row", s>> \in gone THEN NoRow ELSE rows[s]]
        /\ caps' = {s \in caps : <<"caps", s>> \notin gone}
        /\ alarm' \in {0, Recovery} \cup (IF gone = Stored THEN {NoAlarm} ELSE {})
  BY DEF Cleanup
<1>2. revoked /\ UNCHANGED <<left, revoked, handler, task, fired, begun, outdated>>
  BY DEF Cleanup
<1>3. /\ rows' \in [Schedules -> Row]
      /\ \A s \in Schedules : rows'[s] = NoRow \/ rows'[s] = rows[s]
  BY <1>1, RowsAreRows, RowTypes DEF IInv
<1>4. /\ alarm' \in {NoAlarm} \cup Nat
      /\ alarm' = NoAlarm => gone = Stored
      /\ alarm' # NoAlarm => alarm' <= Recovery
  BY <1>1, Constants DEF NoAlarm
<1>5. TypeOK'
  BY <1>1, <1>2, <1>3, <1>4 DEF IInv, TypeOK, Row
<1>6. ASSUME NEW s \in Schedules PROVE Sound(s)'
  <2>1. Sound(s)
    BY DEF IInv
  <2>2. CASE rows'[s] = NoRow
    BY <1>2, <2>2, RowFields
       DEF Sound, SoundRow, SoundCaps, SoundTask, SoundCount, InRun, Terminal
  <2>3. CASE rows'[s] = rows[s]
    BY <1>2, <2>1, <2>3 DEF Sound, SoundRow, SoundCaps, SoundTask, SoundCount, InRun, Terminal
  <2> QED BY <1>3, <2>2, <2>3
<1>7. AlarmCoversAll'
  <2>1. gone = Stored => Stored' = {}
    <3> SUFFICES ASSUME gone = Stored PROVE Stored' = {}
      OBVIOUS
    <3>1. \A s \in Schedules : rows'[s] = NoRow
      BY <1>1 DEF Stored
    <3>2. caps' = {}
      BY <1>1 DEF Stored
    <3> QED BY <3>1, <3>2 DEF Stored
  <2> QED BY <1>2, <1>4, <2>1 DEF AlarmCoversAll, Alarmed
<1> QED BY <1>5, <1>6, <1>7 DEF IInv

-----------------------------------------------------------------------------
LEMMA NextIInv == IInv /\ [Next]_vars => IInv'
<1> SUFFICES ASSUME IInv, [Next]_vars PROVE IInv'
  OBVIOUS
<1>1. CASE Tick
  BY <1>1, TickIInv
<1>2. CASE EnableFails \/ Revoke \/ AlarmStarts \/ AlarmEnds \/ CleanupFails \/ Crash
  BY <1>2, AloneIInv
<1>3. CASE Cleanup
  BY <1>3, CleanupIInv
<1>4. ASSUME NEW s \in Schedules, EnableNew(s) \/ EnableAgain(s) \/ Disable(s)
      PROVE  IInv'
  BY <1>4, EnableNewIInv, EnableAgainIInv, DisableIInv
<1>5. ASSUME NEW s \in Schedules,
             \/ Deliver(s) \/ HookStarts(s) \/ HookRejects(s) \/ Authorized(s)
             \/ AttemptFails(s) \/ CallbackReturns(s)
      PROVE  IInv'
  BY <1>5, DeliverIInv, HookStartsIInv, HookRejectsIInv, AuthorizedIInv,
     AttemptFailsIInv, CallbackReturnsIInv
<1>6. CASE UNCHANGED vars
  <2>1. TypeOK'
    BY <1>6 DEF vars, IInv, TypeOK
  <2>2. ASSUME NEW s \in Schedules PROVE Sound(s)'
    BY <1>6, Frame DEF vars, IInv
  <2>3. AlarmCoversAll'
    BY <1>6, AlarmSame DEF vars, IInv
  <2> QED BY <2>1, <2>2, <2>3 DEF IInv
<1> QED BY <1>1, <1>2, <1>3, <1>4, <1>5, <1>6 DEF Next

\* The invariant holds in every state that the driver reaches.
THEOREM InductiveInvariant == Spec => []IInv
<1>1. Init => IInv
  BY InitIInv
<1>2. IInv /\ [Next]_vars => IInv'
  BY NextIInv
<1> QED BY <1>1, <1>2, PTL DEF Spec

-----------------------------------------------------------------------------
(* What it implies.                                                         *)

\* The rows, the capabilities, the alarm and the deliveries keep their types;
\* above all, no run has more attempts than MAX_ATTEMPTS.
THEOREM TypeCorrect == Spec => []TypeOK
<1>1. IInv => TypeOK
  BY DEF IInv
<1> QED BY <1>1, InductiveInvariant, PTL

\* No schedule is forgotten: #planAlarm(), #armRecoveryAlarm() and the leases
\* leave an alarm set for the first deadline, or soon, whatever crashes.
THEOREM SchedulesAreNotForgotten == Spec => []AlarmCoversAll
<1>1. IInv => AlarmCoversAll
  BY DEF IInv
<1> QED BY <1>1, InductiveInvariant, PTL

\* A schedule that can fire has its capability, and one that has completed or
\* expired does not keep it (#enable(), #settle(), #takeCapabilities()).
THEOREM CapabilitiesAreKept == Spec => []CapabilitiesFollowRows
<1>1. IInv => CapabilitiesFollowRows
  BY DEF IInv, Sound, SoundCaps, CapabilitiesFollowRows
<1> QED BY <1>1, InductiveInvariant, PTL

\* However often a run is abandoned and recovered, onSchedule() is called at
\* most as often as attempts were admitted (admitRun(), #isPendingDelivery()).
THEOREM AttemptsBoundCallbacks == Spec => []AttemptsAreTrue
<1>1. IInv => AttemptsAreTrue
  BY DEF IInv, Sound, SoundRow, SoundTask, AttemptsAreTrue, InRun
<1> QED BY <1>1, InductiveInvariant, PTL

\* A count is never exceeded, and counts what was begun (beginDueRun(),
\* withinLimit()).
THEOREM CountsAreKept == Spec => []OccurrencesAreBounded
<1>1. IInv => OccurrencesAreBounded
  BY DEF IInv, Sound, SoundCount, OccurrencesAreBounded, Counted
<1> QED BY <1>1, InductiveInvariant, PTL

\* No step but a disable or a cleanup changes a schedule that has ended.
LEMMA EndedStays ==
  ASSUME IInv, [Next]_vars, NEW s \in Schedules, Terminal(rows[s])
  PROVE  rows'[s] \in {rows[s], NoRow}
<1>1. rows[s] \in Row /\ rows[s].at = 0
  BY RowsAreRows DEF IInv, Sound, SoundRow
<1>2. /\ rows[s].status # "pending" /\ ~Live(rows[s]) /\ ~Due(rows[s])
      /\ rows[s] # NoRow
  BY RowFields DEF Terminal, Live, Due
<1>3. rows \in [Schedules -> Row]
  BY RowsAreRows DEF IInv
<1>4. CASE Tick
  <2>1. rows'[s] = [rows[s] EXCEPT !.at = 0]
    BY <1>1, <1>4 DEF Tick
  <2> QED BY <1>1, <2>1 DEF Row
<1>5. CASE EnableFails \/ Revoke \/ AlarmStarts \/ AlarmEnds \/ CleanupFails \/ Crash \/ UNCHANGED vars
  BY <1>5 DEF EnableFails, Revoke, AlarmStarts, AlarmEnds, CleanupFails, Crash, vars
<1>6. CASE Cleanup
  BY <1>6 DEF Cleanup
<1>7. ASSUME NEW t \in Schedules, EnableNew(t) \/ EnableAgain(t) \/ Disable(t)
      PROVE  rows'[s] \in {rows[s], NoRow}
  BY <1>2, <1>3, <1>7 DEF EnableNew, EnableAgain, Disable, Put
<1>8. ASSUME NEW t \in Schedules, Deliver(t)
      PROVE  rows'[s] \in {rows[s], NoRow}
  BY <1>2, <1>3, <1>8 DEF Deliver, Skip, Abandon, Prepare, Put
<1>9. ASSUME NEW t \in Schedules, HookStarts(t) \/ Authorized(t)
      PROVE  rows'[s] \in {rows[s], NoRow}
  BY <1>2, <1>3, <1>9 DEF HookStarts, Authorized
<1>10. ASSUME NEW t \in Schedules, HookRejects(t) \/ AttemptFails(t) \/ CallbackReturns(t)
       PROVE  rows'[s] \in {rows[s], NoRow}
  BY <1>2, <1>3, <1>10 DEF HookRejects, AttemptFails, CallbackReturns, Settle, Put
<1> QED BY <1>4, <1>5, <1>6, <1>7, <1>8, <1>9, <1>10 DEF Next

\* A finished schedule stays finished until it is disabled: no late delivery
\* and no repeated enable() revives it (#enable(), #settle()).
THEOREM EndsAreFinal == Spec => FinishedIsFinal
<1>1. IInv /\ [Next]_vars
        => [\A s \in Schedules : Terminal(rows[s]) => rows'[s] \in {rows[s], NoRow}]_vars
  BY EndedStays
<1> QED BY <1>1, InductiveInvariant, PTL DEF Spec, FinishedIsFinal

\* No step calls a callback for a run that has been disabled, replaced or
\* revoked since the delivery began (#isPendingDelivery()).
LEMMA CallbacksAreFenced ==
  ASSUME TypeOK, [Next]_vars, NEW s \in Schedules, fired'[s] > fired[s]
  PROVE  ~revoked /\ InStage(rows[s], "delivery") /\ rows[s].run = task[s].run
<1>1. fired \in [Schedules -> Nat]
  BY DEF TypeOK
<1>2. ASSUME NEW t \in Schedules, NEW row, Put(t, row) PROVE FALSE
  BY <1>1, <1>2 DEF Put
<1>3. fired' # fired
  BY <1>1
<1>4. PICK t \in Schedules : Authorized(t)
  <2>1. ~(\/ Tick \/ EnableFails \/ Revoke \/ AlarmStarts \/ AlarmEnds \/ Cleanup
          \/ CleanupFails \/ Crash \/ UNCHANGED vars)
    BY <1>3 DEF Tick, EnableFails, Revoke, AlarmStarts, AlarmEnds, Cleanup, CleanupFails,
                Crash, vars
  <2>2. \A t \in Schedules : ~EnableNew(t) /\ ~EnableAgain(t) /\ ~Disable(t)
    BY <1>2, <1>3 DEF EnableNew, EnableAgain, Disable
  <2>3. \A t \in Schedules : ~Deliver(t)
    BY <1>2, <1>3 DEF Deliver, Skip, Abandon, Prepare
  <2>4. \A t \in Schedules : ~HookStarts(t) /\ ~HookRejects(t) /\ ~AttemptFails(t) /\ ~CallbackReturns(t)
    BY <1>2, <1>3 DEF HookStarts, HookRejects, AttemptFails, CallbackReturns, Settle
  <2> QED BY <2>1, <2>2, <2>3, <2>4 DEF Next
<1>5. t = s
  BY <1>1, <1>4 DEF Authorized
<1> QED BY <1>1, <1>3, <1>4, <1>5 DEF Authorized

\* A delivery that is outdated has lost the run, and does not get it back: a
\* run that begins later has a delivery of its own.
Lost(s) == revoked \/ ~InRun(rows[s]) \/ rows[s].run # task[s].run
OutdatedIsLost == \A s \in outdated : Lost(s)

\* A step that leaves a delivery outdated does not bring its row into its run.
LEMMA LostStays ==
  ASSUME TypeOK, [Next]_vars, NEW s \in outdated, s \in outdated', Lost(s)
  PROVE  Lost(s)'
<1> DEFINE Kept == /\ revoked => revoked'
                   /\ task'[s].run = task[s].run
                   /\ InRun(rows'[s]) => InRun(rows[s]) /\ rows'[s].run = rows[s].run
<1>1. s \in Schedules /\ rows \in [Schedules -> Row] /\ rows[s] \in Row
  BY RowsAreRows DEF TypeOK
<1>2. SUFFICES Kept
  BY DEF Lost, InRun
<1>3. CASE Tick
  <2>1. rows'[s] = [rows[s] EXCEPT !.at = IF rows[s].at > 0 THEN rows[s].at - 1 ELSE rows[s].at]
    BY <1>1, <1>3 DEF Tick
  <2> QED BY <1>1, <1>3, <2>1 DEF Tick, Row, InRun
<1>4. CASE EnableFails \/ Revoke \/ AlarmStarts \/ AlarmEnds \/ CleanupFails \/ UNCHANGED vars
  BY <1>4 DEF EnableFails, Revoke, AlarmStarts, AlarmEnds, CleanupFails, vars, TypeOK
<1>5. CASE Crash
  BY <1>5 DEF Crash
<1>6. CASE Cleanup
  BY <1>1, <1>6, RowFields DEF Cleanup, InRun
<1>7. ASSUME NEW t \in Schedules, EnableNew(t)
      PROVE  Kept
  <2>1. PICK next \in NextFires(t) : Put(t, CreateSchedule(Reg[t], next, left[t]))
    BY <1>7 DEF EnableNew
  <2>2. ~InRun(CreateSchedule(Reg[t], next, left[t]))
    BY CreateIsSound
  <2> QED BY <1>1, <1>7, <2>1, <2>2 DEF EnableNew, Put
<1>8. ASSUME NEW t \in Schedules, EnableAgain(t)
      PROVE  Kept
  BY <1>8 DEF EnableAgain
<1>9. ASSUME NEW t \in Schedules, Disable(t)
      PROVE  Kept
  BY <1>1, <1>9, RowFields DEF Disable, Put, InRun
<1>10. ASSUME NEW t \in Schedules, Deliver(t)
       PROVE  Kept
  <2>1. UNCHANGED revoked
    BY <1>10 DEF Deliver
  <2>2. CASE Skip(t)
    BY <2>1, <2>2 DEF Skip
  <2>3. CASE Abandon(t)
    <3>1. Put(t, FailRun(rows[t])) /\ UNCHANGED task /\ rows[t] \in Row
      BY <1>1, <2>3 DEF Abandon
    <3>2. InRun(FailRun(rows[t])) => InRun(rows[t]) /\ FailRun(rows[t]).run = rows[t].run
      BY <3>1, RowFields DEF FailRun, Ended, RowOf, InStage, InRun, Row
    <3> QED BY <1>1, <2>1, <3>1, <3>2 DEF Put
  <2>4. ASSUME NEW run \in FreshRuns(t), Prepare(t, run)
        PROVE  Kept
    <3> DEFINE row == BeginDueRun(Reg[t], rows[t], run, Recovery)
    <3>1. CASE t \in caps
      <4>1. t # s /\ Put(t, row) /\ task'[s] = task[s]
        BY <1>1, <2>4, <3>1 DEF Prepare, TypeOK
      <4> QED BY <1>1, <2>1, <4>1 DEF Put
    <3>2. CASE t \notin caps
      <4>1. PICK next \in Followers(t, row) : Put(t, RejectRun(Reg[t], row, next))
        BY <2>4, <3>2 DEF Prepare
      <4>2. row.status = "pending" /\ row.stage = "admission"
        BY <1>1 DEF BeginDueRun, Row
      <4> HIDE DEF row
      <4>3. ~InRun(RejectRun(Reg[t], row, next))
        BY <4>2 DEF RejectRun, Advance, Active, Ended, RowOf, InStage, InRun
      <4>4. task'[s] = task[s]
        BY <2>4, <3>2 DEF Prepare
      <4> QED BY <1>1, <2>1, <4>1, <4>3, <4>4 DEF Put
    <3> QED BY <3>1, <3>2
  <2> QED BY <1>10, <2>2, <2>3, <2>4 DEF Deliver
<1>11. ASSUME NEW t \in Schedules, HookStarts(t)
       PROVE  Kept
  <2>1. UNCHANGED revoked
    BY <1>11 DEF HookStarts, Rest
  <2>2. CASE EndTask(t) /\ UNCHANGED rows
    BY <1>1, <2>1, <2>2 DEF EndTask, TypeOK
  <2>3. CASE /\ rows' = [rows EXCEPT ![t] = AdmitRun(rows[t], Recovery)]
             /\ task' = [task EXCEPT ![t].pc = "authorize"]
    <3>1. task'[s].run = task[s].run
      BY <1>1, <2>3 DEF TypeOK
    <3>2. InRun(rows'[s]) => InRun(rows[s]) /\ rows'[s].run = rows[s].run
      BY <1>1, <2>3 DEF AdmitRun, InStage, InRun, Row
    <3> QED BY <2>1, <3>1, <3>2
  <2> QED BY <1>11, <2>2, <2>3 DEF HookStarts
<1>12. ASSUME NEW t \in Schedules, Authorized(t)
       PROVE  Kept
  <2>1. UNCHANGED <<revoked, rows>>
    BY <1>12 DEF Authorized, Rest
  <2>2. CASE EndTask(t)
    BY <1>1, <2>1, <2>2 DEF EndTask, TypeOK
  <2>3. CASE task' = [task EXCEPT ![t].pc = "callback"]
    BY <1>1, <2>1, <2>3 DEF TypeOK
  <2> QED BY <1>12, <2>2, <2>3 DEF Authorized
<1>13. ASSUME NEW t \in Schedules, HookRejects(t) \/ AttemptFails(t) \/ CallbackReturns(t)
       PROVE  Kept
  <2>1. UNCHANGED revoked /\ EndTask(t)
    BY <1>13 DEF HookRejects, AttemptFails, CallbackReturns, Rest
  <2>2. t # s
    BY <2>1 DEF EndTask
  <2>3. task'[s] = task[s]
    BY <1>1, <2>1, <2>2 DEF EndTask, TypeOK
  <2>4. ASSUME NEW row, Settle(t, row) PROVE rows'[s] = rows[s]
    BY <1>1, <2>2, <2>4 DEF Settle, Put
  <2> QED BY <1>13, <2>1, <2>3, <2>4 DEF HookRejects, AttemptFails, CallbackReturns
<1> QED BY <1>3, <1>4, <1>5, <1>6, <1>7, <1>8, <1>9, <1>10, <1>11, <1>12, <1>13 DEF Next

\* A delivery becomes outdated when it loses its run.
LEMMA OutdatedStep ==
  ASSUME TypeOK, [Next]_vars, OutdatedIsLost
  PROVE  OutdatedIsLost'
<1> SUFFICES ASSUME NEW s \in outdated' PROVE Lost(s)'
  BY DEF OutdatedIsLost
<1>1. CASE s \in outdated
  BY <1>1, LostStays DEF OutdatedIsLost
<1>2. CASE s \notin outdated
  <2>1. \/ \E t \in Schedules : Disable(t)
        \/ Revoke
    BY <1>2 DEF Next, vars, Tick, EnableNew, EnableAgain, EnableFails, AlarmStarts, Deliver, Skip,
       Abandon, Prepare, HookStarts, HookRejects, Authorized, AttemptFails, CallbackReturns,
       EndTask, AlarmEnds, Cleanup, CleanupFails, Crash
  <2>2. CASE Revoke
    BY <1>2, <2>2 DEF Revoke, Lost
  <2>3. ASSUME NEW t \in Schedules, Disable(t) PROVE Lost(s)'
    <3>1. s = t
      BY <1>2, <2>3 DEF Disable, InFlight
    <3>2. rows'[s] = NoRow
      BY <2>3, <3>1, RowsAreRows DEF Disable, Put
    <3> QED BY <3>2, RowFields DEF Lost, InRun
  <2> QED BY <2>1, <2>2, <2>3
<1> QED BY <1>1, <1>2

\* A delivery that was in flight when its schedule was disabled, or its account
\* revoked, never calls onSchedule(), whatever is enabled or begun in between
\* (#isPendingDelivery(), the ids of the runs).
THEOREM CallbacksAreNotStale == Spec => NoStaleDelivery
<1>1. Init => OutdatedIsLost
  BY DEF Init, OutdatedIsLost
<1>2. IInv /\ OutdatedIsLost /\ [Next]_vars => OutdatedIsLost'
  BY OutdatedStep DEF IInv
<1>3. IInv /\ OutdatedIsLost /\ [Next]_vars
        => [\A s \in Schedules : fired'[s] > fired[s] => s \notin outdated]_vars
  BY CallbacksAreFenced DEF IInv, OutdatedIsLost, Lost, InStage, InRun
<1> QED BY <1>1, <1>2, <1>3, InductiveInvariant, PTL DEF Spec, NoStaleDelivery

=============================================================================
