-------------------------- MODULE Scheduler_proofs --------------------------
(***************************************************************************)
(* For any calls, manual runs, budget and delays: the types; that a        *)
(* one-shot task succeeds at most once for each schedule or retry, as long *)
(* as runs do not overlap, crash or fail to record; that the alarm is the  *)
(* next run whenever the task is at rest; and that nothing but a call      *)
(* revives a task that is over.                                            *)
(***************************************************************************)
EXTENDS Scheduler, TLAPS

RunState == [att : Nat, period : 0..Horizon, age : 0..Horizon, good : BOOLEAN]

LEMMA NoTaskType == NoTask \in Task /\ NoRun \in RunState /\ Off \in 0..Off
  BY SchedulerAssumption DEF NoTask, NoRun, Task, RunState, Off

\* The delays the code computes stay within the horizon.
LEMMA DelayType ==
    ASSUME TypeOK, NEW r \in Runs
    PROVE  /\ \A n \in Nat : Backoff(n) \in 0..Horizon
           /\ \A d \in 0..Horizon : Left(r, d) \in 0..Horizon
<1>1. \A n \in Nat : Backoff(n) \in 0..Horizon
  BY SchedulerAssumption DEF Backoff
<1>2. run[r].age \in 0..Horizon
  BY DEF TypeOK
<1>. QED  BY <1>1, <1>2, SchedulerAssumption DEF Left

LEMMA InitType == Init => TypeOK
<1>. SUFFICES ASSUME Init PROVE TypeOK
  OBVIOUS
<1>1. row \in Task /\ alarm \in 0..Off
  <2>1. CASE row = NoTask /\ alarm = Off
    BY <2>1, NoTaskType
  <2>2. CASE /\ row \in [st : {"pending"}, due : Delays, att : {0}, period : Periods]
             /\ alarm = row.due
    <3>1. row \in [st : {"pending"}, due : 0..Horizon, att : {0}, period : 0..Horizon]
      BY <2>2, SchedulerAssumption
    <3>2. row.due \in 0..Horizon /\ 0..Horizon \subseteq 0..Off
      BY <3>1, SchedulerAssumption DEF Off
    <3>. QED  BY <2>2, <3>1, <3>2 DEF Task
  <2>. QED  BY <2>1, <2>2 DEF Init
<1>. QED  BY <1>1, NoTaskType DEF Init, TypeOK, States, RunState

\* A process moves to one of its states.
LEMMA GotoType ==
    ASSUME TypeOK, NEW p \in Procs, NEW from, NEW to \in States, Goto(p, from, to)
    PROVE  pc' \in [Procs -> States]
  BY DEF TypeOK, Goto

LEMMA ArmType ==
    ASSUME TypeOK, NEW p \in Procs, NEW from, NEW t \in 0..Off, ThenArm(p, from, t)
    PROVE  pc' \in [Procs -> States] /\ next' \in [Procs -> 0..Off]
  BY GotoType DEF TypeOK, ThenArm, Goto, States

LEMMA RestType == \A p \in Procs : Rest(p) \in States
  BY DEF Rest, States

\* A run that starts changes only what it knows of others.
LEMMA BeginType ==
    ASSUME TypeOK, NEW r \in Runs, Begin(r), alarm' \in 0..Off
    PROVE  TypeOK'
<1>1. pc' \in [Procs -> States]
  BY GotoType DEF Begin, Procs, States
<1>. QED  BY <1>1 DEF Begin, Starts, TypeOK

LEMMA WriteType ==
    ASSUME TypeOK, NEW r \in Runs, Write(r)
    PROVE  TypeOK'
<1>1. r \in Procs
  BY DEF Procs
<1>2. ASSUME NEW task \in Task, Set(task) PROVE row' \in Task
  BY <1>2 DEF Set, TypeOK
<1>3. run' \in [Runs -> RunState]
  BY NoTaskType DEF Write, TypeOK, RunState
<1>4. run[r].att \in Nat /\ run[r].att + 1 \in Nat /\ run[r].period \in 0..Horizon
  BY DEF TypeOK
<1>5. /\ row' \in Task
      /\ pc' \in [Procs -> States] /\ next' \in [Procs -> 0..Off]
  <2>1. CASE WriteDone(r)
    <3>1. [row EXCEPT !.st = "done"] \in Task
      BY DEF TypeOK, Task
    <3>. QED  BY <1>1, <1>2, <2>1, <3>1, ArmType, NoTaskType DEF WriteDone
  <2>2. CASE WriteNext(r)
    <3>. DEFINE due == Left(r, run[r].period)
    <3>1. due \in 0..Horizon /\ due \in 0..Off
      BY <1>4, DelayType, SchedulerAssumption DEF Off
    <3>2. Set([row EXCEPT !.st = "pending", !.due = due, !.att = 0]) /\ ThenArm(r, "write", due)
      BY <2>2 DEF WriteNext
    <3>. HIDE DEF due
    <3>3. [row EXCEPT !.st = "pending", !.due = due, !.att = 0] \in Task
      BY <3>1 DEF TypeOK, Task
    <3>. QED  BY <1>1, <1>2, <3>1, <3>2, <3>3, ArmType
  <2>3. CASE WriteFailed(r)
    <3>. DEFINE attempts == run[r].att + 1
                due == Left(r, Backoff(attempts))
    <3>1. due \in 0..Horizon /\ due \in 0..Off /\ attempts \in Nat
      BY <1>4, DelayType, SchedulerAssumption DEF Off
    <3>2. \/ /\ Set([row EXCEPT !.st = "failed", !.att = attempts])
             /\ ThenArm(r, "write", Off)
          \/ /\ Set([row EXCEPT !.st = "failed", !.att = attempts, !.due = due])
             /\ ThenArm(r, "write", due)
      BY <2>3 DEF WriteFailed
    <3>. HIDE DEF due, attempts
    <3>3. /\ [row EXCEPT !.st = "failed", !.att = attempts] \in Task
          /\ [row EXCEPT !.st = "failed", !.att = attempts, !.due = due] \in Task
      BY <3>1 DEF TypeOK, Task
    <3>. QED  BY <1>1, <1>2, <3>1, <3>2, <3>3, ArmType, NoTaskType
  <2>. QED  BY <2>1, <2>2, <2>3 DEF Write
<1>. QED  BY <1>3, <1>5 DEF Write, TypeOK, RunState

LEMMA RunType ==
    ASSUME TypeOK, NEW r \in Runs, RunStep(r)
    PROVE  TypeOK'
<1>1. r \in Procs /\ Rest(r) \in States
  BY RestType DEF Procs
<1>2. CASE RunNow(r)
  BY <1>2, BeginType DEF RunNow, TypeOK
<1>3. CASE Read(r)
  <2>1. run' \in [Runs -> RunState]
    BY <1>3 DEF Read, TypeOK, RunState, Task
  <2>2. pc' \in [Procs -> States] /\ next' \in [Procs -> 0..Off]
    <3>1. CASE Goto(r, "read", Rest(r)) /\ UNCHANGED next
      BY <1>1, <3>1, GotoType DEF TypeOK
    <3>2. CASE ThenArm(r, "read", Off)
      BY <1>1, <3>2, ArmType, NoTaskType
    <3>3. CASE ThenArm(r, "read", row.due)
      <4>1. row.due \in 0..Off
        BY SchedulerAssumption DEF TypeOK, Task, Off
      <4>. QED  BY <1>1, <3>3, <4>1, ArmType
    <3>4. CASE Goto(r, "read", "handler") /\ UNCHANGED next
      BY <1>1, <3>4, GotoType DEF TypeOK, States
    <3>. QED  BY <1>3, <3>1, <3>2, <3>3, <3>4 DEF Read
  <2>. QED  BY <1>3, <2>1, <2>2 DEF Read, TypeOK, RunState
<1>4. CASE Handle(r)
  <2>1. pc' \in [Procs -> States]
    BY <1>1, <1>4, GotoType DEF Handle, States
  <2>2. PICK ok \in BOOLEAN : /\ run' = [run EXCEPT ![r].good = ok]
                              /\ owed' = (owed /\ ~(ok /\ OneShot(r)))
    BY <1>4 DEF Handle
  <2>. QED  BY <1>4, <2>1, <2>2 DEF Handle, TypeOK
<1>5. CASE Write(r)
  BY <1>5, WriteType
<1>6. CASE RecordErrs(r)
  BY <1>6 DEF RecordErrs, TypeOK
<1>7. CASE Crash(r)
  <2>1. pc' \in [Procs -> States]
    BY <1>1, <1>7 DEF Crash, TypeOK
  <2>2. run' \in [Runs -> RunState] /\ next' \in [Procs -> 0..Off] /\ alarm' \in 0..Off
    BY <1>1, <1>7, NoTaskType, SchedulerAssumption DEF Crash, TypeOK, RunState, Off
  <2>. QED  BY <1>7, <2>1, <2>2 DEF Crash, TypeOK, RunState
<1>. QED  BY <1>2, <1>3, <1>4, <1>5, <1>6, <1>7 DEF RunStep

LEMMA CallType ==
    ASSUME TypeOK, NEW c \in Calls, CallStep(c)
    PROVE  TypeOK'
<1>1. c \in Procs
  BY DEF Procs
<1>2. 0 \in 0..Off /\ Off \in 0..Off /\ 0 \in 0..Horizon
  BY SchedulerAssumption DEF Off
<1>3. CASE Schedule(c)
  <2>1. PICK d \in Delays, t \in Periods :
          /\ row' = [st |-> "pending", due |-> d, att |-> 0, period |-> t]
          /\ ThenArm(c, "idle", d)
    BY <1>3 DEF Schedule
  <2>2. d \in 0..Horizon /\ d \in 0..Off /\ t \in 0..Horizon
    BY SchedulerAssumption DEF Off
  <2>3. row' \in Task
    BY <2>1, <2>2 DEF Task
  <2>4. pc' \in [Procs -> States] /\ next' \in [Procs -> 0..Off]
    BY <1>1, <2>1, <2>2, ArmType
  <2>. QED  BY <1>3, <2>3, <2>4 DEF Schedule, Starts, TypeOK
<1>4. CASE Cancel(c)
  <2>1. pc' \in [Procs -> States]
    BY <1>1, <1>4, GotoType DEF Cancel, States
  <2>. QED  BY <1>4, <2>1 DEF Cancel, Starts, TypeOK
<1>5. CASE SetCancelled(c)
  <2>1. [row EXCEPT !.st = "cancelled"] \in Task
    BY DEF TypeOK, Task
  <2>2. row' \in Task
    BY <1>5, <2>1 DEF SetCancelled, Set, TypeOK
  <2>3. pc' \in [Procs -> States] /\ next' \in [Procs -> 0..Off]
    BY <1>1, <1>2, <1>5, ArmType DEF SetCancelled
  <2>. QED  BY <1>5, <2>2, <2>3 DEF SetCancelled, TypeOK
<1>6. CASE Retry(c)
  <2>1. pc' \in [Procs -> States]
    BY <1>1, <1>6, GotoType DEF Retry, States
  <2>. QED  BY <1>6, <2>1 DEF Retry, Starts, TypeOK
<1>7. CASE SetRetried(c)
  <2>1. [row EXCEPT !.st = "pending", !.att = 0, !.due = 0] \in Task
    BY <1>2 DEF TypeOK, Task
  <2>2. row' \in Task
    BY <1>7, <2>1 DEF SetRetried, Set, TypeOK
  <2>3. pc' \in [Procs -> States] /\ next' \in [Procs -> 0..Off]
    BY <1>1, <1>2, <1>7, ArmType DEF SetRetried
  <2>. QED  BY <1>7, <2>2, <2>3 DEF SetRetried, TypeOK
<1>. QED  BY <1>3, <1>4, <1>5, <1>6, <1>7 DEF CallStep

LEMMA NextType == TypeOK /\ [Next]_vars => TypeOK'
<1>. SUFFICES ASSUME TypeOK, [Next]_vars PROVE TypeOK'
  OBVIOUS
<1>1. CASE Fire
  BY <1>1, BeginType, NoTaskType DEF Fire, Runs
<1>2. CASE Reconcile
  <2>1. Watchdog \in Procs /\ 0 \in 0..Off
    BY SchedulerAssumption DEF Procs, Off
  <2>2. pc' \in [Procs -> States] /\ next' \in [Procs -> 0..Off]
    BY <1>2, <2>1, ArmType DEF Reconcile
  <2>. QED  BY <1>2, <2>2 DEF Reconcile, Starts, TypeOK
<1>3. CASE Prune
  BY <1>3, NoTaskType DEF Prune, TypeOK
<1>4. CASE Tick
  <2>1. row' \in Task
    <3>1. Less(row.due) \in 0..Horizon
      BY SchedulerAssumption DEF Less, TypeOK, Task
    <3>2. row' = [row EXCEPT !.due = Less(row.due)]
      BY <1>4 DEF Tick
    <3>. QED  BY <3>1, <3>2 DEF TypeOK, Task
  <2>2. alarm' \in 0..Off /\ next' \in [Procs -> 0..Off]
    <3>1. Off \in Nat /\ \A n \in 0..Off : Less(n) \in 0..Off
      BY SchedulerAssumption DEF Less, Off
    <3>2. alarm' \in 0..Off
      BY <1>4, <3>1, NoTaskType DEF Tick, TypeOK
    <3>3. \A p \in Procs : (IF next[p] = Off THEN Off ELSE Less(next[p])) \in 0..Off
      BY <3>1, NoTaskType DEF TypeOK
    <3>. QED  BY <1>4, <3>2, <3>3 DEF Tick
  <2>3. \A r \in Runs : run[r].age < Horizon => run[r].age + 1 \in 0..Horizon
    BY SchedulerAssumption DEF TypeOK
  <2>4. run' \in [Runs -> RunState]
    BY <1>4, <2>3 DEF Tick, TypeOK, RunState
  <2>. QED  BY <1>4, <2>1, <2>2, <2>4 DEF Tick, TypeOK, RunState
<1>5. ASSUME NEW p \in Procs, Arm(p) \/ LoseArm(p) PROVE TypeOK'
  <2>1. pc' \in [Procs -> States]
    BY <1>5, GotoType, RestType DEF Arm, LoseArm
  <2>. QED  BY <1>5, <2>1, NoTaskType DEF Arm, LoseArm, TypeOK
<1>6. CASE UNCHANGED vars
  BY <1>6 DEF vars, TypeOK
<1>. QED  BY <1>1, <1>2, <1>3, <1>4, <1>5, <1>6, RunType, CallType DEF Next

\* The task, its alarm and the processes keep their types, whatever overlaps,
\* is lost or crashes.
THEOREM TypeCorrect == Spec => []TypeOK
  BY InitType, NextType, PTL DEF Spec

-----------------------------------------------------------------------------
(* A success is owed from an activation on until a one-shot handler gives  *)
(* it; from then on the task is over, or the run that gave it is about to  *)
(* say so.                                                                 *)

OneRun == \A r, s \in Running : r = s

Answered(r) == pc[r] = "write" /\ run[r].good /\ OneShot(r)

\* a run that has not answered is owed its answer
RunIsOwed ==
    \A r \in Runs :
      pc[r] = "handler" \/ (pc[r] = "write" /\ ~Answered(r)) => owed

OverWhenAnswered == ~owed => ~Active \/ \E r \in Runs : Answered(r)

Single == single => OneRun /\ RunIsOwed /\ OverWhenAnswered

\* A step that starts no run, activates nothing and answers nothing.
LEMMA QuietStep ==
    ASSUME Single, owed' = owed, single' => single,
           \A r \in Runs : pc'[r] \in {"read", "handler", "write"} => pc'[r] = pc[r],
           \A r \in Runs : pc[r] = "write" => pc'[r] = "write" \/ single' = FALSE,
           \A r \in Runs : run'[r].good = run[r].good /\ run'[r].period = run[r].period,
           Active' => Active
    PROVE  Single'
  BY DEF Single, OneRun, Running, RunIsOwed, OverWhenAnswered, Answered, OneShot

\* An activation owes a success to whatever runs.
LEMMA ActivationStep ==
    ASSUME Single, owed' = TRUE, single' = single,
           \A r \in Runs : pc'[r] = pc[r]
    PROVE  Single'
  BY DEF Single, OneRun, Running, RunIsOwed, OverWhenAnswered

LEMMA CallsAreNoRuns == ASSUME NEW c \in Calls PROVE c \in Procs /\ c \notin Runs
  BY SchedulerAssumption DEF Runs, Procs

LEMMA BeginSingle ==
    ASSUME TypeOK, Single, NEW r \in Runs, Begin(r)
    PROVE  Single'
<1>. SUFFICES ASSUME single' PROVE (OneRun /\ RunIsOwed /\ OverWhenAnswered)'
  BY DEF Single
<1>1. r \in Procs
  BY DEF Procs
<1>2. /\ single /\ Running = {}
      /\ pc' = [pc EXCEPT ![r] = "read"] /\ UNCHANGED <<row, run, owed>>
  BY DEF Begin, Goto
<1>3. \A s \in Runs : pc[s] \notin {"read", "handler", "write"}
  BY <1>2 DEF Running
<1>4. \A s \in Runs : pc'[s] \in {"read", "handler", "write"} => s = r /\ pc'[s] = "read"
  BY <1>1, <1>2, <1>3 DEF TypeOK
<1>5. OneRun' /\ RunIsOwed'
  BY <1>4 DEF OneRun, Running, RunIsOwed
<1>6. OverWhenAnswered'
  BY <1>2, <1>3 DEF Single, OverWhenAnswered, Answered, Active
<1>. QED  BY <1>5, <1>6

LEMMA RunSingle ==
    ASSUME TypeOK, Single, NEW r \in Runs, RunStep(r)
    PROVE  Single'
<1>. DEFINE Goal == (OneRun /\ RunIsOwed /\ OverWhenAnswered)'
<1>. SUFFICES ASSUME single' PROVE Goal
  BY DEF Single
<1>1. r \in Procs /\ \A s \in Runs : s \in Procs
  BY DEF Procs
<1>2. ASSUME RunNow(r) PROVE Goal
  BY <1>2, BeginSingle DEF RunNow, Single
<1>3. ASSUME Read(r) PROVE Goal
  <2>1. single /\ UNCHANGED <<row, owed>> /\ pc[r] = "read"
    BY <1>3 DEF Read, Goto, ThenArm
  <2>2. \A s \in Running : s = r
    BY <2>1 DEF Single, OneRun, Running
  <2>3. PICK to \in States : pc' = [pc EXCEPT ![r] = to] /\ to \notin {"read", "write"}
    BY <1>3 DEF Read, Goto, ThenArm, States, Rest
  <2>4. \A s \in Runs : pc'[s] \in {"read", "handler", "write"} => s = r /\ pc'[s] = "handler"
    BY <1>1, <2>2, <2>3 DEF TypeOK, Running
  <2>5. pc'[r] = "handler" => Active
    BY <1>1, <1>3 DEF Read, Goto, ThenArm, TypeOK, Rest
  <2>6. \A s \in Runs : ~Answered(s)
    BY <2>1, <2>2 DEF Answered, Running
  <2>7. ~owed => ~Active
    BY <2>1, <2>6 DEF Single, OverWhenAnswered
  <2>8. OneRun' /\ RunIsOwed'
    BY <2>1, <2>4, <2>5, <2>7 DEF OneRun, Running, RunIsOwed
  <2>9. OverWhenAnswered'
    BY <2>1, <2>7 DEF OverWhenAnswered, Active
  <2>. QED  BY <2>8, <2>9
<1>4. ASSUME Handle(r) PROVE Goal
  <2>1. PICK ok \in BOOLEAN : /\ run' = [run EXCEPT ![r].good = ok]
                              /\ owed' = (owed /\ ~(ok /\ OneShot(r)))
    BY <1>4 DEF Handle
  <2>2. single /\ pc[r] = "handler" /\ pc' = [pc EXCEPT ![r] = "write"] /\ row' = row
    BY <1>4 DEF Handle, Goto
  <2>3. owed /\ \A s \in Running : s = r
    BY <2>2 DEF Single, OneRun, RunIsOwed, Running
  <2>4. \A s \in Runs : pc'[s] \in {"read", "handler", "write"} => s = r /\ pc'[s] = "write"
    BY <1>1, <2>2, <2>3 DEF TypeOK, Running
  <2>5. pc'[r] = "write" /\ run'[r].good = ok /\ OneShot(r)' = OneShot(r)
    BY <1>1, <2>1, <2>2 DEF TypeOK, OneShot
  <2>6. OneRun'
    BY <2>4 DEF OneRun, Running
  <2>7. RunIsOwed' /\ OverWhenAnswered'
    BY <2>1, <2>3, <2>4, <2>5 DEF RunIsOwed, OverWhenAnswered, Answered
  <2>. QED  BY <2>6, <2>7
<1>5. ASSUME Write(r) PROVE Goal
  <2>1. single /\ pc[r] = "write" /\ pc' = [pc EXCEPT ![r] = "arm"] /\ owed' = owed
    BY <1>5 DEF Write, WriteDone, WriteNext, WriteFailed, ThenArm, Goto
  <2>2. \A s \in Running : s = r
    BY <2>1 DEF Single, OneRun, Running
  <2>3. \A s \in Runs : pc'[s] \notin {"read", "handler", "write"}
    BY <1>1, <2>1, <2>2 DEF TypeOK, Running
  <2>4. CASE Answered(r)
    <3>1. WriteDone(r)
      BY <1>5, <2>4 DEF Write, WriteNext, WriteFailed, Answered
    <3>2. ~Active'
      BY <3>1 DEF WriteDone, Set, Active, TypeOK, Task
    <3>. QED  BY <2>3, <3>2 DEF OneRun, Running, RunIsOwed, OverWhenAnswered
  <2>5. CASE ~Answered(r)
    <3>1. owed
      BY <2>1, <2>5 DEF Single, RunIsOwed
    <3>. QED  BY <2>1, <2>3, <3>1 DEF OneRun, Running, RunIsOwed, OverWhenAnswered
  <2>. QED  BY <2>4, <2>5
<1>6. ASSUME RecordErrs(r) \/ Crash(r) PROVE Goal
  BY <1>6 DEF RecordErrs, Crash
<1>. QED  BY <1>2, <1>3, <1>4, <1>5, <1>6 DEF RunStep

LEMMA SingleStep == TypeOK /\ Single /\ [Next]_vars => Single'
<1>. SUFFICES ASSUME TypeOK, Single, [Next]_vars PROVE Single'
  OBVIOUS
<1>1. CASE Fire
  BY <1>1, BeginSingle DEF Fire, Runs
<1>2. CASE Reconcile
  <2>1. \A r \in Runs : pc'[r] = pc[r]
    BY <1>2, SchedulerAssumption DEF Reconcile, ThenArm, Goto, TypeOK, Runs, Procs
  <2>. QED  BY <1>2, <2>1, QuietStep DEF Reconcile, Active
<1>3. CASE Prune
  BY <1>3, QuietStep DEF Prune, Active, NoTask
<1>4. CASE Tick
  <2>1. \A r \in Runs : run'[r].good = run[r].good /\ run'[r].period = run[r].period
    BY <1>4 DEF Tick, TypeOK
  <2>2. row'.st = row.st
    BY <1>4 DEF Tick, TypeOK, Task
  <2>. QED  BY <1>4, <2>1, <2>2, QuietStep DEF Tick, Active
<1>5. ASSUME NEW r \in Runs, RunStep(r) PROVE Single'
  BY <1>5, RunSingle
<1>6. ASSUME NEW c \in Calls, CallStep(c) PROVE Single'
  <2>1. \A r \in Runs : pc'[r] = pc[r]
    BY <1>6, CallsAreNoRuns DEF CallStep, Schedule, Cancel, SetCancelled, Retry, SetRetried,
       ThenArm, Goto, TypeOK, Procs
  <2>2. CASE Schedule(c) \/ SetRetried(c)
    BY <2>1, <2>2, ActivationStep DEF Schedule, SetRetried
  <2>3. CASE Cancel(c) \/ Retry(c)
    <3>1. UNCHANGED <<row, run, single, owed>>
      BY <2>3 DEF Cancel, Retry
    <3>. QED  BY <2>1, <3>1, QuietStep DEF Active
  <2>4. CASE SetCancelled(c)
    <3>1. ~Active'
      BY <2>4 DEF SetCancelled, Set, Active, TypeOK, Task
    <3>. QED  BY <2>1, <2>4, <3>1, QuietStep DEF SetCancelled
  <2>. QED  BY <1>6, <2>2, <2>3, <2>4 DEF CallStep
<1>7. ASSUME NEW p \in Procs, Arm(p) \/ LoseArm(p) PROVE Single'
  <2>1. pc[p] = "arm" /\ pc' = [pc EXCEPT ![p] = Rest(p)] /\ UNCHANGED <<row, run, single, owed>>
    BY <1>7 DEF Arm, LoseArm, Goto
  <2>2. \A r \in Runs : pc'[r] = pc[r] \/ (r = p /\ pc'[r] \in {"idle", "done"})
    BY <2>1 DEF TypeOK, Rest, Procs
  <2>. QED  BY <2>1, <2>2, QuietStep DEF Active
<1>8. CASE UNCHANGED vars
  BY <1>8, QuietStep DEF vars, Active
<1>. QED  BY <1>1, <1>2, <1>3, <1>4, <1>5, <1>6, <1>7, <1>8 DEF Next

\* For each schedule or retry the handler of a one-shot task succeeds at most
\* once, however calls and stale alarms interleave (service.ts:351-362).
THEOREM OneShotSucceedsOnce == Spec => OneShotRunsOnce
<1>1. Init => Single
  <2>1. ASSUME Init PROVE /\ \A r \in Runs : pc[r] = "idle"
                          /\ ~owed => row = NoTask
    BY <2>1 DEF Init, Procs
  <2>. QED  BY <2>1 DEF Single, OneRun, Running, RunIsOwed, OverWhenAnswered, Active, NoTask
<1>2. Single => [\A r \in Runs :
          single /\ pc[r] = "handler" /\ pc'[r] = "write" /\ run'[r].good /\ OneShot(r) => owed]_vars
  BY DEF Single, RunIsOwed
<1>. QED  BY <1>1, <1>2, SingleStep, TypeCorrect, PTL DEF Spec, OneShotRunsOnce

-----------------------------------------------------------------------------
(* While nothing overlaps or is lost, the one process under way knows the  *)
(* alarm the task needs, or leaves it as it is.                            *)

\* The alarm the task needs.
Wanted == IF Active /\ row.att < Budget THEN row.due ELSE Off

Quiet == {"idle", "done"}

\* What process p holds when it is the only one under way.
Holds(p) ==
    /\ pc[p] \in Quiet => alarm = Wanted
    /\ pc[p] = "read" => IF p = Alarm THEN Active /\ row.att < Budget /\ row.due = 0
                         ELSE alarm = Wanted
    /\ pc[p] \in {"handler", "write"} => Active
    /\ pc[p] = "retry" => row.st = "failed"
    /\ pc[p] = "arm" => next[p] = Wanted

AlarmInv == calm => \E p \in Procs : Holds(p) /\ \A q \in Procs \ {p} : pc[q] \in Quiet

\* Of a process under way the others are at rest, and it holds what it needs.
LEMMA TheOneUnderWay ==
    ASSUME AlarmInv, calm, NEW p \in Procs, pc[p] \notin Quiet
    PROVE  Holds(p) /\ \A q \in Procs \ {p} : pc[q] \in Quiet
  BY DEF AlarmInv

\* With all at rest the alarm is right.
LEMMA AllAtRest ==
    ASSUME AlarmInv, calm, UnderWay = {}
    PROVE  alarm = Wanted /\ \A q \in Procs : pc[q] \in Quiet
  BY DEF AlarmInv, Holds, UnderWay, Quiet

\* A process that starts, if nothing is lost by that, starts alone.
LEMMA StartsAlone ==
    ASSUME TypeOK, AlarmInv, NEW p \in Procs, NEW to, Goto(p, "idle", to), Starts, calm',
           Holds(p)'
    PROVE  AlarmInv'
<1>1. UnderWay = {} /\ calm
  BY DEF Starts, TypeOK
<1>2. \A q \in Procs \ {p} : pc'[q] \in Quiet
  BY <1>1, AllAtRest DEF Goto, TypeOK
<1>. QED  BY <1>2 DEF AlarmInv

\* One that was under way goes on alone.
LEMMA GoesOnAlone ==
    ASSUME TypeOK, AlarmInv, NEW p \in Procs, pc[p] \notin Quiet, calm' => calm,
           \A q \in Procs \ {p} : pc'[q] = pc[q],
           calm => Holds(p)'
    PROVE  AlarmInv'
<1>1. calm' => \A q \in Procs \ {p} : pc'[q] \in Quiet
  BY TheOneUnderWay
<1>. QED  BY <1>1 DEF AlarmInv

\* It does so when a step moves only its own counter.
LEMMA OnlyItsOwn ==
    ASSUME TypeOK, NEW p \in Procs, NEW from, NEW to, Goto(p, from, to)
    PROVE  pc[p] = from /\ pc'[p] = to /\ \A q \in Procs \ {p} : pc'[q] = pc[q]
  BY DEF Goto, TypeOK

\* The steps of a run.
LEMMA RunAlarm ==
    ASSUME TypeOK, AlarmInv, NEW r \in Runs, RunStep(r)
    PROVE  AlarmInv'
<1>. USE SchedulerAssumption DEF Quiet
<1>0. r \in Procs /\ row \in Task /\ run[r] \in [att : Nat, period : 0..Horizon, age : 0..Horizon, good : BOOLEAN]
      /\ Horizon \in Nat /\ Budget \in Nat \ {0}
  BY DEF TypeOK, Procs
<1>1. CASE RunNow(r)
  <2>1. Goto(r, "idle", "read") /\ Starts /\ r # Alarm /\ UNCHANGED <<row, alarm>>
    BY <1>1 DEF RunNow, Begin
  <2>2. ASSUME calm' PROVE Holds(r)'
    <3>1. alarm = Wanted
      BY <2>1, <2>2, AllAtRest DEF Starts, TypeOK
    <3>2. pc'[r] = "read"
      BY <1>0, <2>1, OnlyItsOwn
    <3>. QED  BY <2>1, <3>1, <3>2 DEF Holds, Wanted, Active
  <2>. QED  BY <1>0, <2>1, <2>2, StartsAlone DEF AlarmInv
<1>2. CASE Read(r)
  <2>1. pc[r] = "read" /\ UNCHANGED <<row, alarm, calm>>
    BY <1>2 DEF Read, ThenArm, Goto
  <2>2. calm => Holds(r)
    BY <1>0, <2>1, TheOneUnderWay
  <2>3. Wanted' = Wanted
    BY <2>1 DEF Wanted, Active
  <2>4. CASE row.st = "absent" /\ Goto(r, "read", Rest(r))
    <3>1. pc'[r] \in Quiet /\ \A q \in Procs \ {r} : pc'[q] = pc[q]
      BY <1>0, <2>4, OnlyItsOwn DEF Rest
    <3>2. calm => alarm = Wanted
      BY <2>1, <2>2, <2>4 DEF Holds, Active
    <3>3. calm => Holds(r)'
      BY <2>1, <2>3, <3>1, <3>2 DEF Holds
    <3>. QED  BY <1>0, <2>1, <3>1, <3>3, GoesOnAlone
  <2>5. CASE row.st \in {"done", "cancelled"} /\ ThenArm(r, "read", Off)
    <3>1. pc'[r] = "arm" /\ \A q \in Procs \ {r} : pc'[q] = pc[q]
      BY <1>0, <2>5, OnlyItsOwn DEF ThenArm
    <3>2. next'[r] = Off /\ Wanted = Off
      BY <1>0, <2>5 DEF ThenArm, TypeOK, Wanted, Active
    <3>3. calm => Holds(r)'
      BY <2>3, <3>1, <3>2 DEF Holds
    <3>. QED  BY <1>0, <2>1, <3>1, <3>3, GoesOnAlone
  <2>6. CASE Active /\ r = Alarm /\ row.due > 0 /\ ThenArm(r, "read", row.due)
    <3>1. \A q \in Procs \ {r} : pc'[q] = pc[q]
      BY <1>0, <2>6, OnlyItsOwn DEF ThenArm
    <3>2. ~calm
      BY <2>1, <2>2, <2>6 DEF Holds
    <3>. QED  BY <2>1, <3>2 DEF AlarmInv
  <2>7. CASE Active /\ Goto(r, "read", "handler")
    <3>1. pc'[r] = "handler" /\ \A q \in Procs \ {r} : pc'[q] = pc[q]
      BY <1>0, <2>7, OnlyItsOwn
    <3>2. calm => Holds(r)'
      BY <2>1, <2>7, <3>1 DEF Holds, Active
    <3>. QED  BY <1>0, <2>1, <3>1, <3>2, GoesOnAlone
  <2>. QED  BY <1>2, <2>4, <2>5, <2>6, <2>7 DEF Read
<1>3. CASE Handle(r)
  <2>1. Goto(r, "handler", "write") /\ UNCHANGED <<row, calm>>
    BY <1>3 DEF Handle
  <2>2. pc[r] = "handler" /\ pc'[r] = "write" /\ \A q \in Procs \ {r} : pc'[q] = pc[q]
    BY <1>0, <2>1, OnlyItsOwn
  <2>3. calm => Holds(r)'
    BY <1>0, <2>1, <2>2, TheOneUnderWay DEF Holds, Active
  <2>. QED  BY <1>0, <2>1, <2>2, <2>3, GoesOnAlone
<1>4. CASE Write(r)
  <2>1. pc[r] = "write" /\ pc'[r] = "arm" /\ calm' = calm /\ \A q \in Procs \ {r} : pc'[q] = pc[q]
    BY <1>0, <1>4, OnlyItsOwn DEF Write, WriteDone, WriteNext, WriteFailed, ThenArm
  <2>2. calm => row.st # "absent"
    BY <1>0, <2>1, TheOneUnderWay DEF Holds, Active
  <2>3. ASSUME row.st # "absent" PROVE next'[r] = Wanted'
    <3>1. CASE WriteDone(r)
      <4>1. row' = [row EXCEPT !.st = "done"] /\ next'[r] = Off
        BY <1>0, <2>3, <3>1 DEF WriteDone, Set, ThenArm, TypeOK
      <4>. QED  BY <1>0, <4>1 DEF Wanted, Active, Task
    <3>2. CASE WriteNext(r)
      <4>1. Left(r, run[r].period) \in 0..Horizon
        BY <1>0, DelayType
      <4>2. /\ row' = [row EXCEPT !.st = "pending", !.due = Left(r, run[r].period), !.att = 0]
            /\ next'[r] = Left(r, run[r].period)
        BY <1>0, <2>3, <3>2 DEF WriteNext, Set, ThenArm, TypeOK
      <4>3. row'.st = "pending" /\ row'.due = Left(r, run[r].period) /\ row'.att = 0
        BY <1>0, <4>2 DEF Task
      <4>. QED  BY <1>0, <4>2, <4>3 DEF Wanted, Active
    <3>3. CASE WriteFailed(r)
      <4>. DEFINE n == run[r].att + 1
                  due == Left(r, Backoff(run[r].att + 1))
      <4>1. n \in Nat
        BY <1>0
      <4>2. CASE /\ n >= Budget
                 /\ Set([row EXCEPT !.st = "failed", !.att = n])
                 /\ ThenArm(r, "write", Off)
        <5>1. row' = [row EXCEPT !.st = "failed", !.att = n] /\ next'[r] = Off
          BY <1>0, <2>3, <4>2 DEF Set, ThenArm, TypeOK
        <5>2. row'.att = n
          BY <1>0, <5>1 DEF Task
        <5>. QED  BY <1>0, <4>1, <4>2, <5>1, <5>2 DEF Wanted
      <4>3. CASE /\ n < Budget
                 /\ Set([row EXCEPT !.st = "failed", !.att = n, !.due = due])
                 /\ ThenArm(r, "write", due)
        <5>1. row' = [row EXCEPT !.st = "failed", !.att = n, !.due = due] /\ next'[r] = due
          BY <1>0, <2>3, <4>3 DEF Set, ThenArm, TypeOK
        <5>2. row'.st = "failed" /\ row'.att = n /\ row'.due = due
          BY <1>0, <5>1 DEF Task
        <5>. QED  BY <4>3, <5>1, <5>2 DEF Wanted, Active
      <4>. QED  BY <3>3, <4>2, <4>3 DEF WriteFailed
    <3>. QED  BY <1>4, <3>1, <3>2, <3>3 DEF Write
  <2>4. calm => Holds(r)'
    BY <2>1, <2>2, <2>3 DEF Holds
  <2>. QED  BY <1>0, <2>1, <2>4, GoesOnAlone
<1>5. CASE RecordErrs(r)
  <2>1. pc[r] = "write" /\ UNCHANGED <<row, pc, calm>>
    BY <1>5 DEF RecordErrs
  <2>2. calm => Holds(r)'
    BY <1>0, <2>1, TheOneUnderWay DEF Holds, Active
  <2>. QED  BY <1>0, <2>1, <2>2, GoesOnAlone
<1>6. CASE Crash(r)
  BY <1>6 DEF Crash, AlarmInv
<1>. QED  BY <1>1, <1>2, <1>3, <1>4, <1>5, <1>6 DEF RunStep

\* Those of a call.
LEMMA CallAlarm ==
    ASSUME TypeOK, AlarmInv, NEW c \in Calls, CallStep(c)
    PROVE  AlarmInv'
<1>. USE SchedulerAssumption DEF Quiet
<1>0. c \in Procs /\ row \in Task /\ Horizon \in Nat /\ Budget \in Nat \ {0} /\ c # Alarm
  BY DEF TypeOK, Procs
<1>1. CASE Schedule(c)
  <2>1. PICK d \in Delays, t \in Periods :
          /\ row' = [st |-> "pending", due |-> d, att |-> 0, period |-> t]
          /\ ThenArm(c, "idle", d)
    BY <1>1 DEF Schedule
  <2>2. pc'[c] = "arm" /\ next'[c] = d
    BY <1>0, <2>1, OnlyItsOwn DEF ThenArm, TypeOK
  <2>3. Holds(c)'
    BY <1>0, <2>1, <2>2 DEF Holds, Wanted, Active
  <2>4. Goto(c, "idle", "arm") /\ Starts
    BY <1>1, <2>1 DEF Schedule, ThenArm
  <2>. QED  BY <1>0, <2>3, <2>4, StartsAlone DEF AlarmInv
<1>2. CASE Cancel(c) \/ Retry(c)
  <2>1. PICK to \in {"done", "cancel", "retry"} :
          Goto(c, "idle", to) /\ (to = "retry" => row.st = "failed")
    BY <1>2 DEF Cancel, Retry
  <2>2. Starts /\ UNCHANGED <<row, alarm>>
    BY <1>2 DEF Cancel, Retry
  <2>3. ASSUME calm' PROVE Holds(c)'
    <3>1. alarm = Wanted
      BY <2>2, <2>3, AllAtRest DEF Starts, TypeOK
    <3>2. pc'[c] = to
      BY <1>0, <2>1, OnlyItsOwn
    <3>. QED  BY <2>1, <2>2, <3>1, <3>2 DEF Holds, Wanted, Active
  <2>. QED  BY <1>0, <2>1, <2>2, <2>3, StartsAlone DEF AlarmInv
<1>3. CASE SetCancelled(c)
  <2>1. Set([row EXCEPT !.st = "cancelled"]) /\ ThenArm(c, "cancel", Off) /\ calm' = calm
    BY <1>3 DEF SetCancelled
  <2>2. pc[c] = "cancel" /\ pc'[c] = "arm" /\ \A q \in Procs \ {c} : pc'[q] = pc[q]
    BY <1>0, <2>1, OnlyItsOwn DEF ThenArm
  <2>3. row'.st \in {"absent", "cancelled"} /\ next'[c] = Off
    BY <1>0, <2>1 DEF Set, ThenArm, TypeOK, Task
  <2>4. Holds(c)'
    BY <2>2, <2>3 DEF Holds, Wanted, Active
  <2>. QED  BY <1>0, <2>1, <2>2, <2>4, GoesOnAlone
<1>4. CASE SetRetried(c)
  <2>1. /\ Set([row EXCEPT !.st = "pending", !.att = 0, !.due = 0])
        /\ ThenArm(c, "retry", 0) /\ calm' = calm
    BY <1>4 DEF SetRetried
  <2>2. pc[c] = "retry" /\ pc'[c] = "arm" /\ \A q \in Procs \ {c} : pc'[q] = pc[q]
    BY <1>0, <2>1, OnlyItsOwn DEF ThenArm
  <2>3. calm => row.st # "absent"
    BY <1>0, <2>2, TheOneUnderWay DEF Holds
  <2>4. ASSUME row.st # "absent" PROVE Holds(c)'
    <3>1. row'.st = "pending" /\ row'.att = 0 /\ row'.due = 0 /\ next'[c] = 0
      BY <1>0, <2>1, <2>4 DEF Set, ThenArm, TypeOK, Task
    <3>. QED  BY <1>0, <2>2, <3>1 DEF Holds, Wanted, Active
  <2>. QED  BY <1>0, <2>1, <2>2, <2>3, <2>4, GoesOnAlone
<1>. QED  BY <1>1, <1>2, <1>3, <1>4 DEF CallStep

\* Every step keeps it, whichever process takes it.
LEMMA AlarmStepInv == TypeOK /\ AlarmInv /\ [Next]_vars => AlarmInv'
<1>. SUFFICES ASSUME TypeOK, AlarmInv, [Next]_vars PROVE AlarmInv'
  OBVIOUS
<1>. USE SchedulerAssumption DEF Quiet
<1>0. row \in Task /\ Horizon \in Nat /\ Budget \in Nat \ {0} /\ alarm \in 0..Off
      /\ next \in [Procs -> 0..Off] /\ Alarm \in Procs /\ Watchdog \in Procs /\ Watchdog # Alarm
  BY DEF TypeOK, Procs, Runs
<1>1. CASE Fire
  <2>1. alarm = 0 /\ Goto(Alarm, "idle", "read") /\ Starts /\ row' = row
    BY <1>1 DEF Fire, Begin
  <2>2. ASSUME calm' PROVE Holds(Alarm)'
    <3>1. alarm = Wanted
      BY <2>1, <2>2, AllAtRest DEF Starts, TypeOK
    <3>2. pc'[Alarm] = "read"
      BY <1>0, <2>1, OnlyItsOwn
    <3>3. Active /\ row.att < Budget /\ row.due = 0
      BY <1>0, <2>1, <3>1 DEF Wanted, Off
    <3>. QED  BY <2>1, <3>2, <3>3 DEF Holds, Active
  <2>. QED  BY <1>0, <2>1, <2>2, StartsAlone DEF AlarmInv
<1>2. CASE Reconcile
  <2>1. /\ Active /\ row.att < Budget /\ row.due = 0 /\ row' = row
        /\ ThenArm(Watchdog, "idle", 0) /\ Starts
    BY <1>2 DEF Reconcile
  <2>2. Goto(Watchdog, "idle", "arm") /\ pc'[Watchdog] = "arm" /\ next'[Watchdog] = 0
    BY <1>0, <2>1, OnlyItsOwn DEF ThenArm
  <2>3. Holds(Watchdog)'
    BY <2>1, <2>2 DEF Holds, Wanted, Active
  <2>. QED  BY <1>0, <2>1, <2>2, <2>3, StartsAlone DEF AlarmInv
<1>3. CASE Prune
  <2>1. row.st \in {"done", "cancelled"} /\ UnderWay = {} /\ row' = NoTask
        /\ UNCHANGED <<alarm, pc, calm, next>>
    BY <1>3 DEF Prune
  <2>2. ASSUME calm PROVE AlarmInv'
    <3>1. alarm = Wanted /\ \A q \in Procs : pc[q] \in Quiet
      BY <2>1, <2>2, AllAtRest
    <3>2. Wanted = Off /\ Wanted' = Off
      BY <2>1 DEF Wanted, Active, NoTask
    <3>3. Holds(Alarm)'
      BY <1>0, <2>1, <3>1, <3>2 DEF Holds
    <3>. QED  BY <1>0, <2>1, <3>1, <3>3 DEF AlarmInv
  <2>. QED  BY <2>1, <2>2 DEF AlarmInv
<1>4. CASE Tick
  <2>1. /\ \A r \in Runs : pc[r] # "read"
        /\ row' = [row EXCEPT !.due = Less(row.due)]
        /\ alarm' = IF alarm = Off THEN Off ELSE Less(alarm)
        /\ next' = [p \in Procs |-> IF next[p] = Off THEN Off ELSE Less(next[p])]
        /\ UNCHANGED <<pc, calm>>
    BY <1>4 DEF Tick
  <2>2. row'.st = row.st /\ row'.att = row.att /\ row'.due = Less(row.due) /\ row.due \in 0..Horizon
    BY <1>0, <2>1 DEF Task
  <2>3. Wanted' = IF Wanted = Off THEN Off ELSE Less(Wanted)
    BY <1>0, <2>2 DEF Wanted, Active, Off
  <2>4. ASSUME NEW p \in Procs, Holds(p), pc[p] # "read" PROVE Holds(p)'
    BY <2>1, <2>2, <2>3, <2>4 DEF Holds, Active
  <2>5. ASSUME NEW p \in Procs \ Runs, Holds(p), pc[p] = "read" PROVE Holds(p)'
    BY <1>0, <2>1, <2>2, <2>3, <2>5 DEF Holds, Runs, Active
  <2>. QED  BY <2>1, <2>4, <2>5 DEF AlarmInv
<1>5. ASSUME NEW p \in Procs, Arm(p) PROVE AlarmInv'
  <2>1. Goto(p, "arm", Rest(p)) /\ alarm' = next[p] /\ UNCHANGED <<row, calm>>
    BY <1>5 DEF Arm
  <2>2. pc[p] = "arm" /\ pc'[p] \in Quiet /\ \A q \in Procs \ {p} : pc'[q] = pc[q]
    BY <2>1, OnlyItsOwn DEF Rest
  <2>3. calm => Holds(p)'
    BY <2>1, <2>2, TheOneUnderWay DEF Holds, Wanted, Active
  <2>. QED  BY <2>1, <2>2, <2>3, GoesOnAlone
<1>6. ASSUME NEW p \in Procs, LoseArm(p) PROVE AlarmInv'
  BY <1>6 DEF LoseArm, AlarmInv
<1>7. CASE UNCHANGED vars
  BY <1>7 DEF vars, AlarmInv, Holds, Wanted, Active
<1>. QED  BY <1>1, <1>2, <1>3, <1>4, <1>5, <1>6, <1>7, RunAlarm, CallAlarm DEF Next

\* It holds throughout.
LEMMA AlarmInvAlways == Spec => []AlarmInv
<1>1. Init => AlarmInv
  <2>1. ASSUME Init PROVE Alarm \in Procs /\ alarm = Wanted /\ \A p \in Procs : pc[p] = "idle"
    BY <2>1, SchedulerAssumption DEF Init, Wanted, Active, NoTask, Procs, Runs
  <2>. QED  BY <2>1 DEF AlarmInv, Holds, Quiet
<1>. QED  BY <1>1, AlarmStepInv, TypeCorrect, PTL DEF Spec

\* As long as nothing overlaps or is lost, the alarm of a task at rest is its next
\* run, whatever delays, periods and budget, and whether it is scheduled, cancelled,
\* retried, run by hand or by its alarm (service.ts:4-5).
THEOREM AlarmIsKept == Spec => []AlarmIsNextRun
<1>1. AlarmInv => AlarmIsNextRun
  BY AllAtRest DEF AlarmIsNextRun, Wanted
<1>. QED  BY <1>1, AlarmInvAlways, PTL

\* Under the same condition a task that is done or cancelled is only changed by a new
\* schedule or a cancel, whatever runs and retries are asked of it (service.ts:351).
THEOREM OverStaysOver == Spec => OverIsOver
<1>1. TypeOK /\ AlarmInv /\ [Next]_vars =>
        [calm' /\ row.st \in {"done", "cancelled"} /\ row'.st \notin {row.st, "absent"}
           => \E c \in Calls : pc[c] \in {"idle", "cancel"} /\ pc'[c] = "arm"]_vars
  <2>. SUFFICES ASSUME TypeOK, AlarmInv, Next, calm', row.st \in {"done", "cancelled"},
                       row'.st \notin {row.st, "absent"}
                PROVE  \E c \in Calls : pc[c] \in {"idle", "cancel"} /\ pc'[c] = "arm"
    OBVIOUS
  <2>0. row \in Task
    BY DEF TypeOK
  <2>1. ASSUME NEW c \in Calls, Schedule(c) \/ SetCancelled(c)
        PROVE  pc[c] \in {"idle", "cancel"} /\ pc'[c] = "arm"
    BY <2>1 DEF Schedule, SetCancelled, ThenArm, Goto, TypeOK, Procs
  <2>2. ASSUME NEW c \in Calls, SetRetried(c) PROVE FALSE
    <3>1. c \in Procs /\ pc[c] = "retry" /\ calm
      BY <2>2 DEF SetRetried, ThenArm, Goto, Procs
    <3>2. row.st = "failed"
      BY <3>1, TheOneUnderWay DEF Holds, Quiet
    <3>. QED  BY <3>2
  <2>3. ASSUME NEW r \in Runs, Write(r) PROVE FALSE
    <3>1. r \in Procs /\ pc[r] = "write" /\ calm
      BY <2>3 DEF Write, WriteDone, WriteNext, WriteFailed, ThenArm, Goto, Procs
    <3>2. Active
      BY <3>1, TheOneUnderWay DEF Holds, Quiet
    <3>. QED  BY <3>2 DEF Active
  <2>4. CASE Prune
    BY <2>4 DEF Prune, NoTask
  <2>5. CASE Tick
    BY <2>0, <2>5 DEF Tick, Task
  <2>6. CASE \/ Fire \/ Reconcile \/ \E p \in Procs : Arm(p) \/ LoseArm(p)
             \/ \E r \in Runs : RunNow(r) \/ Read(r) \/ Handle(r) \/ RecordErrs(r) \/ Crash(r)
             \/ \E c \in Calls : Cancel(c) \/ Retry(c)
    <3>1. row' = row
      BY <2>6 DEF Fire, Begin, Reconcile, Arm, LoseArm, RunNow, Read, Handle, RecordErrs, Crash, Cancel, Retry
    <3>. QED  BY <3>1
  <2>. QED  BY <2>1, <2>2, <2>3, <2>4, <2>5, <2>6 DEF Next, RunStep, CallStep
<1>. QED  BY <1>1, AlarmInvAlways, TypeCorrect, PTL DEF Spec, OverIsOver

=============================================================================
