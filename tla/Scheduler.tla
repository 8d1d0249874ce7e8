----------------------------- MODULE Scheduler -----------------------------
(***************************************************************************)
(* One task of packages/scheduler: its row in _scheduler_tasks, the alarm  *)
(* of its SchedulerDO, the runs of runTask (the alarm handler's, one at a  *)
(* time, and those of runNow, which start beside it), the API calls that   *)
(* change the task, and the cron watchdog.  Every await of a D1 statement, *)
(* of the handler or of the stub lets the others in.                       *)
(*                                                                         *)
(* Time is relative: due is what remains before run_at, alarm before the   *)
(* alarm fires, next before the time a process is about to arm.            *)
(***************************************************************************)
EXTENDS Naturals

CONSTANTS
    Alarm,      \* the alarm handler of the task's object
    Manual,     \* calls of runNow
    Calls,      \* calls of schedule, cancel and retry
    Watchdog,   \* the cron trigger's reconcile
    Budget,     \* max_attempts
    Base, Cap,  \* of the backoff, in ticks
    Delays,     \* what remains before the first run of a scheduled task
    Periods,    \* repeat_ms, in ticks; 0 is a one-shot task
    Horizon     \* bound: no delay is longer

Runs == {Alarm} \cup Manual
Procs == Runs \cup Calls \cup {Watchdog}

ASSUME SchedulerAssumption ==
    /\ Alarm \notin Manual \cup Calls /\ Watchdog \notin Runs \cup Calls
    /\ Manual \cap Calls = {}
    /\ Budget \in Nat \ {0}
    /\ Base \in Nat \ {0}
    /\ Horizon \in Nat
    /\ Cap \in 1..Horizon
    /\ Delays \subseteq 0..Horizon
    /\ Periods \subseteq 0..Horizon

VARIABLES
    row,      \* the task: status, time to run_at, attempts, period
    alarm,    \* time to the alarm, Off when none is set
    pc,       \* where each process is
    run,      \* what a run knows: attempts and period of the task it has read,
              \* the time since it took nowMs, whether its handler succeeded
    next,     \* the alarm a process is about to set, Off to delete it
    calm,     \* nothing overlapped, crashed or was lost so far
    single,   \* no two runs overlapped, none crashed or failed to record
    owed      \* no success has answered the latest activation yet

vars == <<row, alarm, pc, run, next, calm, single, owed>>

Off == Horizon + 1

Task == [st : {"absent", "pending", "failed", "done", "cancelled"},
         due : 0..Horizon, att : Nat, period : 0..Horizon]

NoTask == [st |-> "absent", due |-> 0, att |-> 0, period |-> 0]

NoRun == [att |-> 0, period |-> 0, age |-> 0, good |-> FALSE]

States == {"idle", "read", "handler", "write", "cancel", "retry", "arm", "done"}

TypeOK ==
    /\ row \in Task
    /\ alarm \in 0..Off
    /\ pc \in [Procs -> States]
    /\ run \in [Runs -> [att : Nat, period : 0..Horizon, age : 0..Horizon, good : BOOLEAN]]
    /\ next \in [Procs -> 0..Off]
    /\ calm \in BOOLEAN /\ single \in BOOLEAN /\ owed \in BOOLEAN

\* a task that was scheduled and armed, or none
Init ==
    /\ \/ /\ row \in [st : {"pending"}, due : Delays, att : {0}, period : Periods]
          /\ alarm = row.due
       \/ /\ row = NoTask
          /\ alarm = Off
    /\ pc = [p \in Procs |-> "idle"]
    /\ run = [r \in Runs |-> NoRun]
    /\ next = [p \in Procs |-> Off]
    /\ calm = TRUE /\ single = TRUE
    /\ owed = (row # NoTask)

UnderWay == {p \in Procs : pc[p] \notin {"idle", "done"}}
Running == {r \in Runs : pc[r] \in {"read", "handler", "write"}}

Goto(p, from, to) ==
    /\ pc[p] = from
    /\ pc' = [pc EXCEPT ![p] = to]

\* where a process is when it is through: the handler and the watchdog start again
Rest(p) == IF p \in {Alarm, Watchdog} THEN "idle" ELSE "done"

\* a process that starts finds the others at rest, or nothing is calm any more
Starts == calm' = (calm /\ UnderWay = {})

\* p is going to set the alarm to t from here
ThenArm(p, from, t) ==
    /\ Goto(p, from, "arm")
    /\ next' = [next EXCEPT ![p] = t]

\* an UPDATE ... WHERE id = ?
Set(task) == row' = IF row.st = "absent" THEN row ELSE task

Active == row.st \in {"pending", "failed"}

-----------------------------------------------------------------------------
(* runTask.                                                                *)

Begin(r) ==
    /\ Goto(r, "idle", "read")
    /\ single' = (single /\ Running = {})
    /\ Starts
    /\ UNCHANGED <<row, run, next, owed>>

\* the runtime clears an alarm as it fires, and fires none while one is handled
Fire ==
    /\ alarm = 0
    /\ alarm' = Off
    /\ Begin(Alarm)

RunNow(r) ==
    /\ r \in Manual
    /\ UNCHANGED alarm
    /\ Begin(r)

\* mutant: a task that is over is run again
ReadAnyStatus(r) ==
    /\ Goto(r, "read", "handler")
    /\ run' = [run EXCEPT ![r].att = row.att, ![r].period = row.period]
    /\ UNCHANGED <<row, alarm, next, calm, single, owed>>

\* SELECT the task: run it, or only put the alarm right.  No tick passes
\* between nowMs and this row.
Read(r) ==
    /\ \/ /\ row.st = "absent"
          /\ Goto(r, "read", Rest(r))
          /\ UNCHANGED <<run, next>>
       \/ /\ row.st \in {"done", "cancelled"}
          /\ ThenArm(r, "read", Off)
          /\ UNCHANGED run
       \/ /\ Active /\ r = Alarm /\ row.due > 0
          /\ ThenArm(r, "read", row.due)
          /\ UNCHANGED run
       \/ /\ Active /\ (r = Alarm => row.due = 0)
          /\ Goto(r, "read", "handler")
          /\ run' = [run EXCEPT ![r].att = row.att, ![r].period = row.period]
          /\ UNCHANGED next
    /\ UNCHANGED <<row, alarm, calm, single, owed>>

OneShot(r) == run[r].period = 0

\* the handler settles
Handle(r) ==
    /\ Goto(r, "handler", "write")
    /\ \E ok \in BOOLEAN :
         /\ run' = [run EXCEPT ![r].good = ok]
         /\ owed' = (owed /\ ~(ok /\ OneShot(r)))
    /\ UNCHANGED <<row, alarm, next, calm, single>>

\* schedulerBackoffMs
Backoff(attempts) ==
    IF Base * 2 ^ (attempts - 1) \in 0..Cap THEN Base * 2 ^ (attempts - 1) ELSE Cap

\* what remains of a delay counted from the run's nowMs
Left(r, delay) == IF delay > run[r].age THEN delay - run[r].age ELSE 0

WriteDone(r) ==
    /\ run[r].good /\ OneShot(r)
    /\ Set([row EXCEPT !.st = "done"])
    /\ ThenArm(r, "write", Off)

\* computeNextRun and the UPDATE that starts the next occurrence
WriteNext(r) ==
    LET due == Left(r, run[r].period) IN
      /\ run[r].good /\ ~OneShot(r)
      /\ Set([row EXCEPT !.st = "pending", !.due = due, !.att = 0])
      /\ ThenArm(r, "write", due)

\* mutant: the alarm is left to the watchdog
WriteFailedUnarmed(r) ==
    LET attempts == run[r].att + 1
        due == Left(r, Backoff(attempts)) IN
      /\ ~run[r].good
      /\ Set(IF attempts >= Budget THEN [row EXCEPT !.st = "failed", !.att = attempts]
             ELSE [row EXCEPT !.st = "failed", !.att = attempts, !.due = due])
      /\ ThenArm(r, "write", Off)

\* out of attempts, or back off and try again
WriteFailed(r) ==
    LET attempts == run[r].att + 1
        due == Left(r, Backoff(attempts)) IN
      /\ ~run[r].good
      /\ \/ /\ attempts >= Budget
            /\ Set([row EXCEPT !.st = "failed", !.att = attempts])
            /\ ThenArm(r, "write", Off)
         \/ /\ attempts < Budget
            /\ Set([row EXCEPT !.st = "failed", !.att = attempts, !.due = due])
            /\ ThenArm(r, "write", due)

Write(r) ==
    /\ WriteDone(r) \/ WriteNext(r) \/ WriteFailed(r)
    /\ run' = [run EXCEPT ![r] = NoRun]
    /\ UNCHANGED <<alarm, calm, single, owed>>

\* The UPDATE of a success throws inside the try: the run goes on as failed.
RecordErrs(r) ==
    /\ pc[r] = "write" /\ run[r].good
    /\ run' = [run EXCEPT ![r].good = FALSE]
    /\ single' = FALSE
    /\ UNCHANGED <<row, alarm, pc, next, calm, owed>>

\* The object is evicted, or a statement outside the try throws.  The runtime
\* may fire the alarm of an evicted handler again.  Bound: not once the attempts
\* are past the budget, so that they do not grow for ever.
Crash(r) ==
    /\ pc[r] \in {"read", "handler", "write", "arm"}
    /\ pc' = [pc EXCEPT ![r] = Rest(r)]
    /\ alarm' \in IF r = Alarm /\ row.att <= Budget THEN {alarm, 0} ELSE {alarm}
    /\ run' = [run EXCEPT ![r] = NoRun]
    /\ next' = [next EXCEPT ![r] = Off]
    /\ calm' = FALSE /\ single' = FALSE
    /\ UNCHANGED <<row, owed>>

-----------------------------------------------------------------------------
(* SchedulerService.                                                       *)

\* INSERT ... ON CONFLICT(id) DO UPDATE
Schedule(c) ==
    /\ \E d \in Delays, t \in Periods :
         /\ row' = [st |-> "pending", due |-> d, att |-> 0, period |-> t]
         /\ ThenArm(c, "idle", d)
    /\ owed' = TRUE
    /\ Starts
    /\ UNCHANGED <<alarm, run, single>>

Cancel(c) ==
    /\ Goto(c, "idle", IF row.st = "absent" THEN "done" ELSE "cancel")
    /\ Starts
    /\ UNCHANGED <<row, alarm, run, next, single, owed>>

SetCancelled(c) ==
    /\ Set([row EXCEPT !.st = "cancelled"])
    /\ ThenArm(c, "cancel", Off)
    /\ UNCHANGED <<alarm, run, calm, single, owed>>

Retry(c) ==
    /\ Goto(c, "idle", IF row.st = "failed" THEN "retry" ELSE "done")
    /\ Starts
    /\ UNCHANGED <<row, alarm, run, next, single, owed>>

SetRetried(c) ==
    /\ Set([row EXCEPT !.st = "pending", !.att = 0, !.due = 0])
    /\ owed' = TRUE
    /\ ThenArm(c, "retry", 0)
    /\ UNCHANGED <<alarm, run, calm, single>>

\* mutant: only pending tasks are looked for
ReconcilePending ==
    /\ row.st = "pending" /\ row.att < Budget /\ row.due = 0
    /\ ThenArm(Watchdog, "idle", 0)
    /\ Starts
    /\ UNCHANGED <<row, alarm, run, single, owed>>

\* the task is due: its alarm may have been lost
Reconcile ==
    /\ Active /\ row.att < Budget /\ row.due = 0
    /\ ThenArm(Watchdog, "idle", 0)
    /\ Starts
    /\ UNCHANGED <<row, alarm, run, single, owed>>

\* the object sets or deletes its alarm
Arm(p) ==
    /\ Goto(p, "arm", Rest(p))
    /\ alarm' = next[p]
    /\ next' = [next EXCEPT ![p] = Off]
    /\ UNCHANGED <<row, run, calm, single, owed>>

\* the request to the object fails; its caller only logs it
LoseArm(p) ==
    /\ p \notin Runs
    /\ Goto(p, "arm", Rest(p))
    /\ next' = [next EXCEPT ![p] = Off]
    /\ calm' = FALSE
    /\ UNCHANGED <<row, alarm, run, single, owed>>

\* housekeeping deletes what has been over for days
Prune ==
    /\ row.st \in {"done", "cancelled"}
    /\ UnderWay = {}
    /\ row' = NoTask
    /\ UNCHANGED <<alarm, pc, run, next, calm, single, owed>>

Less(n) == IF n = 0 THEN 0 ELSE n - 1

Tick ==
    /\ \A r \in Runs : pc[r] # "read"
    /\ row' = [row EXCEPT !.due = Less(@)]
    /\ alarm' = IF alarm = Off THEN Off ELSE Less(alarm)
    /\ next' = [p \in Procs |-> IF next[p] = Off THEN Off ELSE Less(next[p])]
    /\ run' = [r \in Runs |->
                 IF pc[r] \in {"handler", "write"} /\ run[r].age < Horizon
                 THEN [run[r] EXCEPT !.age = @ + 1] ELSE run[r]]
    /\ UNCHANGED <<pc, calm, single, owed>>

-----------------------------------------------------------------------------

RunStep(r) == RunNow(r) \/ Read(r) \/ Handle(r) \/ Write(r) \/ RecordErrs(r) \/ Crash(r)
CallStep(c) == Schedule(c) \/ Cancel(c) \/ SetCancelled(c) \/ Retry(c) \/ SetRetried(c)

Next ==
    \/ Fire \/ Reconcile \/ Prune \/ Tick
    \/ \E r \in Runs : RunStep(r)
    \/ \E c \in Calls : CallStep(c)
    \/ \E p \in Procs : Arm(p) \/ LoseArm(p)

Spec == Init /\ [][Next]_vars

\* Time passes, handlers settle, the cron trigger comes round and not each of
\* its requests is lost nor each firing of the alarm evicted before it reads.
AlarmStep == Fire \/ Handle(Alarm) \/ Write(Alarm) \/ Arm(Alarm)

Fairness ==
    /\ WF_vars(Tick) /\ WF_vars(AlarmStep) /\ SF_vars(Read(Alarm))
    /\ WF_vars(Reconcile) /\ SF_vars(Arm(Watchdog))
    /\ WF_vars(\E r \in Manual : Read(r))

FairSpec == Spec /\ Fairness

-----------------------------------------------------------------------------
(* Properties.                                                             *)

\* The task's alarm is its next run (service.ts:4-5): when no process is under
\* way, a task that may run has its alarm exactly at run_at, and one that is over
\* or out of attempts has none, as long as nothing overlapped or was lost.
AlarmIsNextRun ==
    calm /\ UnderWay = {} =>
      alarm = IF Active /\ row.att < Budget THEN row.due ELSE Off

\* The handler of a one-shot task succeeds at most once for each schedule or
\* retry (service.ts:358-362), however late or stale the alarms that fire, as
\* long as runs do not overlap, crash or fail to record their success.
OneShotRunsOnce ==
    [][ \A r \in Runs :
          single /\ pc[r] = "handler" /\ pc'[r] = "write" /\ run'[r].good /\ OneShot(r) => owed ]_vars

\* Whatever is lost or crashes, a task that is due and has attempts left is
\* attempted, or stops being due (service.ts:268-273, "re-arms every due task
\* whose alarm was lost").
DueTaskRuns ==
    (Active /\ row.att < Budget /\ row.due = 0)
       ~> \/ ~(Active /\ row.att < Budget /\ row.due = 0)
          \/ \E r \in Runs : pc[r] = "handler"

\* A task that is done or cancelled stays so until somebody schedules it anew or cancels
\* it ("Terminal states never run again (re-schedule/retry reactivate the row)",
\* service.ts:351), whatever alarms, manual runs and retries come late, as long as nothing
\* overlapped, crashed or was lost; a retry finds nothing to reactivate.
OverIsOver ==
    [][ calm' /\ row.st \in {"done", "cancelled"} /\ row'.st \notin {row.st, "absent"}
          => \E c \in Calls : pc[c] \in {"idle", "cancel"} /\ pc'[c] = "arm" ]_vars

\* A cancelled task is only taken up by schedule or retry ("Terminal states never
\* run again (re-schedule/retry reactivate the row)", service.ts:351).
CancelIsKept ==
    [][ row.st = "cancelled" /\ row'.st \notin {"cancelled", "absent"}
          => \E c \in Calls : pc[c] \in {"idle", "retry"} /\ pc'[c] = "arm" ]_vars

=============================================================================
