------------------------- MODULE TaskScheduler_proofs -------------------------
(***************************************************************************)
(* Proofs about TaskScheduler for any number of tasks, any delays and any  *)
(* change of the clock: its types, the inductive invariant IInv, and from  *)
(* both the safety properties and the implementation of OneShotTasks.      *)
(***************************************************************************)
EXTENDS TaskScheduler, TLAPS

-----------------------------------------------------------------------------
(* The inductive invariant.                                                *)

\* current is a task exactly while start() has one popped; no task is queued
\* once its function was entered.
Popped ==
    /\ pc \in {"taken", "sleep", "call"} <=> current # None
    /\ current \notin tasks
    /\ begun \cap tasks = {}
    /\ Called \subseteq begun
    /\ pc \in {"taken", "sleep"} => current \notin begun
    /\ pc = "sleep" => current \notin Canceled
    /\ pc = "call" => current \in begun

\* The call time of a task is when it is due, or later by Shift: the clock was
\* ahead by as much when the task was made.
DueTimes == \A t \in alive : callTime[t] = due[t] \/ callTime[t] = due[t] + Shift

\* The task popped is one whose time comes first; the sleep for it does not end
\* more than Shift too early or too late.
Asleep ==
    /\ pc \in {"taken", "sleep"} => \A u \in tasks : callTime[current] <= callTime[u]
    /\ pc = "sleep" => due[current] <= wake + Shift /\ wake <= due[current] + Shift

\* Nothing is popped after SIGINT.
Held == sigint_raised /\ pc \in {"taken", "sleep", "call"} => held = current

IInv == Popped /\ DueTimes /\ Asleep /\ Held

-----------------------------------------------------------------------------
(* Types.                                                                  *)

LEMMA InitType == Init => TypeOK
<1> SUFFICES ASSUME Init PROVE TypeOK
  OBVIOUS
<1> USE SchedulerAssumption DEF SchedulerAssumption, Init, None
<1>1. callTime \in [Task -> Int] /\ due \in [Task -> Int]
  OBVIOUS
<1>2. elapsed \in 0..MaxTime /\ ahead \in {0, Shift} /\ wake \in Nat
  OBVIOUS
<1> QED
  BY <1>1, <1>2 DEF TypeOK

\* Popped is needed: without it the function entered could be that of None.
LEMMA TypeStep == TypeOK /\ Popped /\ [Next]_vars => TypeOK'
<1> USE SchedulerAssumption DEF SchedulerAssumption
<1> SUFFICES ASSUME TypeOK, Popped, [Next]_vars PROVE TypeOK'
  OBVIOUS
<1> USE DEF TypeOK, None
<1>1. ASSUME NEW t \in Task, NEW d \in Delay, CallLater(t, d) PROVE TypeOK'
  <2>1. Now + d \in Int /\ elapsed + d \in Int
    BY <1>1 DEF CallLater, Now
  <2>2. callTime' \in [Task -> Int] /\ due' \in [Task -> Int]
    BY <2>1, <1>1 DEF CallLater
  <2> QED
    BY <2>2, <1>1 DEF CallLater, clockVars
<1>2. ASSUME NEW t \in Task, Cancel(t) PROVE TypeOK'
  BY <1>2 DEF Cancel, clockVars
<1>3. ASSUME NEW t \in Task, Destroy(t) PROVE TypeOK'
  <2>1. callTime' \in [Task -> Int] /\ due' \in [Task -> Int]
    BY <1>3 DEF Destroy
  <2>2. current \in alive' \cup {None} /\ tasks \subseteq alive'
    BY <1>3 DEF Destroy
  <2> QED
    BY <2>1, <2>2, <1>3 DEF Destroy, clockVars
<1>4. CASE Stop
  BY <1>4 DEF Stop, taskVars, clockVars
<1>5. CASE Sigint
  BY <1>5 DEF Sigint, taskVars, clockVars
<1>6. CASE Tick
  BY <1>6 DEF Tick, taskVars
<1>7. CASE ChangeClock
  BY <1>7 DEF ChangeClock, taskVars
<1>8. CASE Start
  BY <1>8 DEF Start, taskVars, clockVars
<1>9. CASE Return
  BY <1>9 DEF Return, taskVars, clockVars
<1>10. ASSUME NEW t \in Task, Take(t) PROVE TypeOK'
  BY <1>10 DEF Take, Tops, taskVars, clockVars
<1>11. CASE Drop
  BY <1>11 DEF Drop, taskVars, clockVars
<1>12. CASE CallAtOnce
  BY <1>12 DEF CallAtOnce, Popped, taskVars, clockVars
<1>13. CASE Sleep
  <2>1. current \in Task /\ current \in alive /\ ~(callTime[current] < Now)
    BY <1>13 DEF Sleep, Popped, Late
  <2>2. callTime[current] \in Int
    BY <2>1
  <2>3. wake' \in Nat
    BY <1>13, <2>1, <2>2 DEF Sleep, Now, Pause
  <2> QED
    BY <1>13, <2>3 DEF Sleep, taskVars, clockVars
<1>14. CASE Wake
  BY <1>14 DEF Wake, Popped, taskVars, clockVars
<1>15. CASE Finish
  BY <1>15 DEF Finish, Popped, taskVars, clockVars
<1>16. CASE Throw
  BY <1>16 DEF Throw, taskVars, clockVars
<1>17. CASE UNCHANGED vars
  BY <1>17 DEF vars, taskVars, clockVars
<1> QED
  BY <1>1, <1>2, <1>3, <1>4, <1>5, <1>6, <1>7, <1>8, <1>9, <1>10, <1>11, <1>12,
     <1>13, <1>14, <1>15, <1>16, <1>17 DEF Next, Step, Others

-----------------------------------------------------------------------------
(* It is inductive.                                                        *)

LEMMA InitInv == Init => IInv
  BY DEF Init, IInv, Popped, DueTimes, Asleep, Held, None

LEMMA StepInv == TypeOK /\ IInv /\ [Next]_vars => IInv'
<1> USE SchedulerAssumption DEF SchedulerAssumption
<1> SUFFICES ASSUME TypeOK, IInv, [Next]_vars PROVE IInv'
  OBVIOUS
<1> USE DEF TypeOK, IInv, Popped, Held, None
<1>1. ASSUME NEW t \in Task, NEW d \in Delay, CallLater(t, d) PROVE IInv'
  <2>1. Popped' /\ Held' /\ Asleep'
    BY <1>1 DEF CallLater, Asleep, Task
  <2>2. DueTimes'
    <3> SUFFICES ASSUME NEW u \in alive'
                 PROVE  callTime'[u] = due'[u] \/ callTime'[u] = due'[u] + Shift
      BY DEF DueTimes
    <3>1. CASE u = t
      <4>1. callTime'[u] = elapsed + ahead + d /\ due'[u] = elapsed + d
        BY <3>1, <1>1 DEF CallLater, Now
      <4>2. d \in Nat
        OBVIOUS
      <4> QED
        BY <4>1, <4>2
    <3>2. CASE u # t
      BY <3>2, <1>1 DEF CallLater, DueTimes
    <3> QED
      BY <3>1, <3>2
  <2> QED
    BY <2>1, <2>2
<1>2. ASSUME NEW t \in Task, Cancel(t) PROVE IInv'
  BY <1>2 DEF Cancel, DueTimes, Asleep, clockVars
<1>3. ASSUME NEW t \in Task, Destroy(t) PROVE IInv'
  <2>1. Popped' /\ Held'
    BY <1>3 DEF Destroy
  <2>2. DueTimes'
    BY <1>3 DEF Destroy, DueTimes
  <2>3. Asleep'
    BY <1>3 DEF Destroy, Asleep
  <2> QED
    BY <2>1, <2>2, <2>3
<1>4. CASE Stop
  BY <1>4 DEF Stop, DueTimes, Asleep, taskVars, clockVars
<1>5. CASE Sigint
  BY <1>5 DEF Sigint, DueTimes, Asleep, taskVars, clockVars
<1>6. CASE Tick
  BY <1>6 DEF Tick, DueTimes, Asleep, taskVars
<1>7. CASE ChangeClock
  BY <1>7 DEF ChangeClock, DueTimes, Asleep, taskVars
<1>8. CASE Start
  BY <1>8 DEF Start, DueTimes, Asleep, taskVars, clockVars
<1>9. CASE Return
  BY <1>9 DEF Return, DueTimes, Asleep, taskVars, clockVars
<1>10. ASSUME NEW t \in Task, Take(t) PROVE IInv'
  <2>1. t \in tasks /\ t # 0
    BY <1>10 DEF Take, Tops, Task
  <2>2. Popped' /\ Held'
    BY <1>10, <2>1 DEF Take, taskVars
  <2>3. DueTimes'
    BY <1>10 DEF Take, DueTimes, taskVars
  <2>4. Asleep'
    BY <1>10 DEF Take, Tops, Asleep, taskVars
  <2> QED
    BY <2>2, <2>3, <2>4
<1>11. CASE Drop
  <2>1. Popped' /\ Held'
    BY <1>11 DEF Drop, Task, taskVars
  <2>2. DueTimes'
    BY <1>11 DEF Drop, DueTimes, taskVars
  <2>3. Asleep'
    BY <1>11 DEF Drop, Asleep
  <2> QED
    BY <2>1, <2>2, <2>3
<1>12. CASE CallAtOnce
  BY <1>12 DEF CallAtOnce, DueTimes, Asleep, taskVars, clockVars
<1>13. CASE Sleep
  <2>1. Popped' /\ Held'
    BY <1>13 DEF Sleep, Skipped, taskVars
  <2>2. DueTimes'
    BY <1>13 DEF Sleep, DueTimes, taskVars
  <2>3. current \in alive /\ current \in Task
    BY <1>13 DEF Sleep
  <2>4. callTime[current] \in Int /\ due[current] \in Int
    BY <2>3
  <2>5. wake' = callTime[current] - ahead
    BY <1>13, <2>4 DEF Sleep, Pause, Now
  <2>6. callTime[current] = due[current] \/ callTime[current] = due[current] + Shift
    BY <2>3 DEF DueTimes
  <2>7. due[current] <= wake' + Shift /\ wake' <= due[current] + Shift
    BY <2>4, <2>5, <2>6
  <2>8. Asleep'
    BY <1>13, <2>7 DEF Sleep, Asleep, taskVars
  <2> QED
    BY <2>1, <2>2, <2>8
<1>14. CASE Wake
  BY <1>14 DEF Wake, DueTimes, Asleep, taskVars, clockVars
<1>15. CASE Finish
  <2>1. Popped' /\ Held'
    BY <1>15 DEF Finish, Task, taskVars
  <2>2. DueTimes'
    BY <1>15 DEF Finish, DueTimes, taskVars
  <2>3. Asleep'
    BY <1>15 DEF Finish, Asleep
  <2> QED
    BY <2>1, <2>2, <2>3
<1>16. CASE Throw
  <2>1. Popped' /\ Held'
    BY <1>16 DEF Throw, Task, taskVars
  <2>2. DueTimes'
    BY <1>16 DEF Throw, DueTimes, taskVars
  <2>3. Asleep'
    BY <1>16 DEF Throw, Asleep
  <2> QED
    BY <2>1, <2>2, <2>3
<1>17. CASE UNCHANGED vars
  BY <1>17 DEF vars, DueTimes, Asleep, taskVars, clockVars
<1> QED
  BY <1>1, <1>2, <1>3, <1>4, <1>5, <1>6, <1>7, <1>8, <1>9, <1>10, <1>11, <1>12,
     <1>13, <1>14, <1>15, <1>16, <1>17 DEF Next, Step, Others

LEMMA AlwaysInv == Spec => [](TypeOK /\ IInv)
<1>1. IInv => Popped
  BY DEF IInv
<1> QED
  BY <1>1, InitType, TypeStep, InitInv, StepInv, PTL DEF Spec

\* All fields the scheduler keeps have the values of their types.
THEOREM TypeCorrect == Spec => []TypeOK
  BY AlwaysInv, PTL

-----------------------------------------------------------------------------
(* What follows from it.                                                   *)

\* The thread never sleeps past a task's time by more than the clock is set back.
THEOREM NeverOversleeps == Spec => []SleepBounded
<1>1. IInv => SleepBounded
  BY DEF IInv, Asleep, SleepBounded
<1> QED
  BY <1>1, AlwaysInv, PTL

\* Only two actions enter a function, of the task that was popped.
LEMMA WhoEnters ==
    ASSUME [Next]_vars, NEW t \in Task, Enters(t)
    PROVE  t = current /\ (Wake \/ CallAtOnce)
<1>1. CASE Step
  BY <1>1 DEF Step, Enters, Return, Take, Drop, Sleep, Finish, Wake, CallAtOnce
<1>2. CASE Others \/ Tick \/ UNCHANGED vars
  BY <1>2 DEF Others, vars, Enters, Start, Throw, Stop, Sigint, Tick,
              ChangeClock, Cancel, Destroy, CallLater
<1> QED
  BY <1>1, <1>2 DEF Next

\* Functions are entered in the order of their call times.
THEOREM AlwaysInOrder == Spec => InOrder
<1>1. TypeOK /\ IInv /\ [Next]_vars =>
        [\A t \in Task : Enters(t) =>
            \A u \in tasks : callTime[t] <= callTime[u]]_vars
  BY WhoEnters DEF Wake, CallAtOnce, IInv, Asleep
<1> QED
  BY <1>1, AlwaysInv, PTL DEF Spec, InOrder

\* No function is entered before its delay has passed, less what the clock may
\* have been set forward, however often it is changed.
THEOREM AlwaysNeverEarly == Spec => NeverEarly
<1> USE SchedulerAssumption DEF SchedulerAssumption
<1>1. TypeOK /\ IInv /\ [Next]_vars =>
        [\A t \in Task : Enters(t) => elapsed + Shift >= due[t]]_vars
  <2> SUFFICES ASSUME TypeOK, IInv, [Next]_vars, NEW t \in Task, Enters(t)
               PROVE  elapsed + Shift >= due[t]
    OBVIOUS
  <2>1. t = current /\ (Wake \/ CallAtOnce)
    BY WhoEnters
  <2>2. due[t] \in Int /\ callTime[t] \in Int
    BY DEF TypeOK
  <2>3. CASE Wake
    BY <2>1, <2>2, <2>3 DEF Wake, IInv, Asleep, TypeOK
  <2>4. CASE CallAtOnce
    <3>1. t \in alive /\ callTime[t] < elapsed + ahead
      BY <2>1, <2>4 DEF CallAtOnce, Late, Now, TypeOK, Task, None
    <3>2. callTime[t] = due[t] \/ callTime[t] = due[t] + Shift
      BY <3>1 DEF IInv, DueTimes
    <3> QED
      BY <2>2, <3>1, <3>2 DEF TypeOK
  <2> QED
    BY <2>1, <2>3, <2>4
<1> QED
  BY <1>1, AlwaysInv, PTL DEF Spec, NeverEarly

\* After SIGINT no function is entered but that of the task which was popped
\* before.
THEOREM SigintAlwaysStops == Spec => SigintStops
<1>1. TypeOK /\ IInv /\ [Next]_vars =>
        [\A t \in Task : Enters(t) /\ sigint_raised => t = held]_vars
  BY WhoEnters DEF Wake, CallAtOnce, IInv, Held
<1> QED
  BY <1>1, AlwaysInv, PTL DEF Spec, SigintStops

-----------------------------------------------------------------------------
(* The scheduler implements OneShotTasks.                                  *)

\* Every task runs at most once, alone, and never once it was cancelled.
THEOREM Refinement == Spec => ImplementsOneShot
<1> USE SchedulerAssumption DEF SchedulerAssumption
<1>1. Init => OneShot!Init
  BY DEF Init, OneShot!Init, Stage, Task
<1>2. TypeOK /\ IInv /\ [Next]_vars => [OneShot!Next]_<<Stage, Canceled>>
  <2> SUFFICES ASSUME TypeOK, IInv, [Next]_vars
               PROVE  OneShot!Next \/ UNCHANGED <<Stage, Canceled>>
    BY DEF OneShot!Next
  <2> USE DEF TypeOK, IInv, Popped, None
  <2>1. ASSUME NEW t \in Task, NEW d \in Delay, CallLater(t, d)
        PROVE  OneShot!Make(t)
    <3>1. Stage[t] = "unmade"
      BY <2>1 DEF CallLater, Stage
    <3>2. \A u \in Task : Stage'[u] = IF u = t THEN "waiting" ELSE Stage[u]
      BY <2>1 DEF CallLater, Stage
    <3>3. Stage' = [Stage EXCEPT ![t] = "waiting"]
      BY <3>2 DEF Stage
    <3> QED
      BY <2>1, <3>1, <3>3 DEF CallLater, OneShot!Make
  <2>2. ASSUME NEW t \in Task, Cancel(t) PROVE OneShot!Cancel(t)
    BY <2>2 DEF Cancel, OneShot!Cancel, Stage
  <2>3. ASSUME NEW t \in Task, Destroy(t) PROVE OneShot!Forget(t)
    <3>1. Stage[t] = "over"
      BY <2>3 DEF Destroy, Stage
    <3>2. \A u \in Task : Stage'[u] = IF u = t THEN "unmade" ELSE Stage[u]
      BY <2>3 DEF Destroy, Stage
    <3>3. Stage' = [Stage EXCEPT ![t] = "unmade"]
      BY <3>2 DEF Stage
    <3> QED
      BY <2>3, <3>1, <3>3 DEF Destroy, OneShot!Forget
  <2>4. CASE Stop \/ Sigint \/ Tick \/ ChangeClock \/ UNCHANGED vars
    BY <2>4, SMTT(30) DEF Stop, Sigint, Tick, ChangeClock, vars, Stage, taskVars
  <2>5. CASE Start \/ Return \/ Sleep
    BY <2>5, SMTT(30) DEF Start, Return, Sleep, Stage, taskVars
  <2>6. ASSUME NEW t \in Task, Take(t) PROVE UNCHANGED <<Stage, Canceled>>
    <3>1. t \in tasks /\ t \in alive
      BY <2>6 DEF Take, Tops
    <3>2. \A u \in Task : Stage'[u] = Stage[u]
      BY <2>6, <3>1 DEF Take, Stage, taskVars
    <3> QED
      BY <2>6, <3>2 DEF Take, Stage, taskVars
  <2>7. CASE Drop
    <3>1. /\ current \in Canceled /\ current \in Task
          /\ Stage[current] = "waiting"
      BY <2>7 DEF Drop, Skipped, Stage
    <3>2. \A u \in Task : Stage'[u] = IF u = current THEN "over" ELSE Stage[u]
      BY <2>7 DEF Drop, Stage, taskVars
    <3>3. Stage' = [Stage EXCEPT ![current] = "over"]
      BY <3>2 DEF Stage
    <3> QED
      BY <2>7, <3>1, <3>3 DEF Drop, taskVars, OneShot!Drop, OneShot!Next
  <2>8. CASE CallAtOnce \/ Wake
    <3>1. /\ Stage[current] = "waiting" /\ current \notin Canceled
          /\ current \in Task
          /\ \A u \in Task : Stage[u] # "running"
      BY <2>8 DEF CallAtOnce, Wake, Skipped, Stage
    <3>2. \A u \in Task : Stage'[u] = IF u = current THEN "running" ELSE Stage[u]
      BY <2>8 DEF CallAtOnce, Wake, Stage, taskVars
    <3>3. Stage' = [Stage EXCEPT ![current] = "running"]
      BY <3>2 DEF Stage
    <3> QED
      BY <2>8, <3>1, <3>3 DEF CallAtOnce, Wake, taskVars, OneShot!Run, OneShot!Next
  <2>9. CASE Finish \/ Throw
    <3>1. Stage[current] = "running" /\ current \in Task
      BY <2>9 DEF Finish, Throw, Stage
    <3>2. \A u \in Task : Stage'[u] = IF u = current THEN "over" ELSE Stage[u]
      BY <2>9 DEF Finish, Throw, Stage, taskVars
    <3>3. Stage' = [Stage EXCEPT ![current] = "over"]
      BY <3>2 DEF Stage
    <3> QED
      BY <2>9, <3>1, <3>3 DEF Finish, Throw, taskVars, OneShot!End, OneShot!Next
  <2> QED
    BY <2>1, <2>2, <2>3, <2>4, <2>5, <2>6, <2>7, <2>8, <2>9
       DEF Next, Step, Others, OneShot!Next
<1> QED
  BY <1>1, <1>2, AlwaysInv, PTL DEF Spec, ImplementsOneShot, OneShot!Spec
=============================================================================
