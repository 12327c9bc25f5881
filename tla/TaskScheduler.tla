---------------------------- MODULE TaskScheduler ----------------------------
(***************************************************************************)
(* TaskScheduler::start and the tasks it runs: a priority queue ordered by *)
(* the tasks' call times, from which the one server thread takes the top,  *)
(* sleeps until its time and calls it.  Tasks are added before start() or  *)
(* by the function of a running task, which may cancel any task, itself    *)
(* included.  SIGINT may come at any moment, also between two steps of     *)
(* start().                                                                *)
(*                                                                         *)
(* Times are read off the local wall clock, which is changed to summer     *)
(* time and back: a change makes a task that waits early or late by as     *)
(* much.                                                                   *)
(***************************************************************************)
EXTENDS Integers

CONSTANTS
    MaxTasks,  \* bound: how many task objects exist at a time
    Delay,     \* the delays callLater is called with, in clock ticks
    Shift,     \* how far summer time is ahead; 0 where there is none
    MaxTime    \* bound: time does not go on beyond this

ASSUME SchedulerAssumption ==
    /\ MaxTasks \in Nat /\ Delay \subseteq Nat
    /\ Shift \in Nat /\ MaxTime \in Nat

VARIABLES
    pc,            \* "before" start(), "loop": at the test of its while,
                   \* "taken": a task was popped, "sleep", "call": in its
                   \* function, "returned", "threw": an exception of a task
                   \* left start()
    tasks,         \* the priority queue
    current,       \* the task start() has popped, or None
    alive,         \* the task objects that exist
    callTime,      \* _Task::callTime
    Canceled,      \* tasks whose flag of that name is set
    Called,        \* tasks whose flag of that name is set
    run,           \* TaskScheduler::run
    sigint_raised, \* TaskScheduler::sigint_raised
    elapsed,       \* the time that has really passed
    ahead,         \* how far the local clock is ahead of it
    wake,          \* when the sleep of current ends
    due,           \* history: when the delay asked for ends
    begun,         \* history: tasks whose function has been entered
    held           \* history: what start() had popped when SIGINT came

clockVars == <<elapsed, ahead>>
taskVars == <<alive, callTime, Canceled, due>>
vars == <<pc, tasks, current, taskVars, Called, run, sigint_raised, clockVars,
          wake, begun, held>>

Task == 1..MaxTasks
None == 0

Init ==
    /\ pc = "before"
    /\ tasks = {} /\ alive = {} /\ Canceled = {} /\ Called = {} /\ begun = {}
    /\ current = None /\ held = None
    /\ callTime = [t \in Task |-> 0] /\ due = [t \in Task |-> 0]
    /\ run = FALSE /\ sigint_raised = FALSE
    /\ elapsed = 0 /\ ahead \in {0, Shift} /\ wake = 0

Running == pc \in {"loop", "taken", "sleep", "call"}

\* microsec_clock::local_time()
Now == elapsed + ahead

-----------------------------------------------------------------------------
(* What code outside the scheduler does with it.                           *)

\* Tasks->add (a delay of 0) and Tasks->callLater: a new task object.
CallLater(t, d) ==
    /\ pc \in {"before", "call"}
    /\ t \in Task \ alive
    /\ elapsed + d <= MaxTime
    /\ alive' = alive \cup {t}
    /\ callTime' = [callTime EXCEPT ![t] = Now + d]
    /\ due' = [due EXCEPT ![t] = elapsed + d]
    /\ tasks' = tasks \cup {t}
    /\ UNCHANGED <<pc, current, Canceled, Called, run, sigint_raised,
                   clockVars, wake, begun, held>>

\* Player::disconnect cancels the map task it kept the handle of.
Cancel(t) ==
    /\ pc = "call" /\ t \in alive
    /\ Canceled' = Canceled \cup {t}
    /\ UNCHANGED <<pc, tasks, current, alive, callTime, due, Called, run,
                   sigint_raised, clockVars, wake, begun, held>>

\* The last handle of a task is given up, by start() or by a player that kept
\* one: the object is destroyed, and the next task may get its place.
Destroy(t) ==
    /\ pc \in {"loop", "call"} /\ t \in alive \ (tasks \cup {current})
    /\ alive' = alive \ {t} /\ Canceled' = Canceled \ {t}
    /\ Called' = Called \ {t} /\ begun' = begun \ {t}
    /\ callTime' = [callTime EXCEPT ![t] = 0] /\ due' = [due EXCEPT ![t] = 0]
    /\ UNCHANGED <<pc, tasks, current, run, sigint_raised, clockVars, wake, held>>

Stop ==
    /\ pc = "call"
    /\ run' = FALSE
    /\ UNCHANGED <<pc, tasks, current, taskVars, Called, sigint_raised,
                   clockVars, wake, begun, held>>

\* handle_sigint, which start() has installed.
Sigint ==
    /\ Running
    /\ sigint_raised' = TRUE
    /\ held' = IF sigint_raised THEN held ELSE current
    /\ UNCHANGED <<pc, tasks, current, taskVars, Called, run, clockVars, wake,
                   begun>>

Tick ==
    /\ pc \notin {"returned", "threw"} /\ elapsed < MaxTime
    /\ elapsed' = elapsed + 1
    /\ UNCHANGED <<pc, tasks, current, taskVars, Called, run, sigint_raised,
                   ahead, wake, begun, held>>

\* Summer time begins or ends; a sleep that has begun does not notice.
ChangeClock ==
    /\ pc \notin {"returned", "threw"}
    /\ ahead' = Shift - ahead
    /\ UNCHANGED <<pc, tasks, current, taskVars, Called, run, sigint_raised,
                   elapsed, wake, begun, held>>

-----------------------------------------------------------------------------
(* TaskScheduler::start.                                                   *)

Start ==
    /\ pc = "before"
    /\ pc' = "loop"
    /\ run' = TRUE /\ sigint_raised' = FALSE
    /\ UNCHANGED <<tasks, current, taskVars, Called, clockVars, wake, begun, held>>

\* The loop's test fails, or the queue is empty.
Return ==
    /\ pc = "loop"
    /\ ~run \/ sigint_raised \/ tasks = {}
    /\ pc' = "returned"
    /\ UNCHANGED <<tasks, current, taskVars, Called, run, sigint_raised,
                   clockVars, wake, begun, held>>

\* Mutant of Tops: the comparison of TaskComp is the other way round.
TopsLatest == {t \in tasks : \A u \in tasks : callTime[t] >= callTime[u]}

\* What tasks.top() may be: ties are broken by the heap.
Tops == {t \in tasks : \A u \in tasks : callTime[t] <= callTime[u]}

\* Mutant of Take: the loop does not look at sigint_raised.
TakeAnyway(t) ==
    /\ pc = "loop" /\ run
    /\ t \in Tops
    /\ pc' = "taken" /\ current' = t /\ tasks' = tasks \ {t}
    /\ UNCHANGED <<taskVars, Called, run, sigint_raised, clockVars, wake, begun,
                   held>>

\* The loop's test holds, and the top of the queue is popped.
Take(t) ==
    /\ pc = "loop" /\ run /\ ~sigint_raised
    /\ t \in Tops
    /\ pc' = "taken" /\ current' = t /\ tasks' = tasks \ {t}
    /\ UNCHANGED <<taskVars, Called, run, sigint_raised, clockVars, wake, begun,
                   held>>

\* Mutant of Skipped: sleepThenCall does not look at Canceled.
SkippedIfCalled(t) == t \in Called

\* sleepThenCall returns at once for these.
Skipped(t) == t \in Canceled \/ t \in Called

Drop ==
    /\ pc = "taken" /\ Skipped(current)
    /\ pc' = "loop" /\ current' = None
    /\ UNCHANGED <<tasks, taskVars, Called, run, sigint_raised, clockVars, wake,
                   begun, held>>

\* Mutant of Late: a task not yet due counts as late.
LateByOne(t) == callTime[t] < Now + 2

\* sleepUntilCallTime returns at once.
Late(t) == callTime[t] < Now

CallAtOnce ==
    /\ pc = "taken" /\ ~Skipped(current) /\ Late(current)
    /\ pc' = "call" /\ begun' = begun \cup {current}
    /\ UNCHANGED <<tasks, current, taskVars, Called, run, sigint_raised, clockVars,
                   wake, held>>

\* Mutants of Pause: it is rounded up; the operands are swapped.
PauseRounded(t) == callTime[t] - Now + 1
PauseSwapped(t) == Now - callTime[t]

\* callTime - now, how long the thread sleeps.
Pause(t) == callTime[t] - Now

Sleep ==
    /\ pc = "taken" /\ ~Skipped(current) /\ ~Late(current)
    /\ pc' = "sleep" /\ wake' = elapsed + Pause(current)
    /\ UNCHANGED <<tasks, current, taskVars, Called, run, sigint_raised, clockVars,
                   begun, held>>

\* The sleep is over: the function is called, whatever happened meanwhile.
Wake ==
    /\ pc = "sleep" /\ elapsed >= wake
    /\ pc' = "call" /\ begun' = begun \cup {current} /\ wake' = 0
    /\ UNCHANGED <<tasks, current, taskVars, Called, run, sigint_raised,
                   clockVars, held>>

\* The function returns.
Finish ==
    /\ pc = "call"
    /\ pc' = "loop" /\ current' = None
    /\ Called' = Called \cup {current}
    /\ UNCHANGED <<tasks, taskVars, run, sigint_raised, clockVars, wake, begun, held>>

\* It throws: start() is unwound and the task destroyed, never Called.
Throw ==
    /\ pc = "call"
    /\ pc' = "threw" /\ current' = None
    /\ UNCHANGED <<tasks, taskVars, Called, run, sigint_raised, clockVars,
                   wake, begun, held>>

Step == \/ Return \/ Drop \/ CallAtOnce \/ Sleep \/ Wake \/ Finish
        \/ \E t \in Task : Take(t)

\* What else happens while start() runs, or before.
Others ==
    \/ Start \/ Throw \/ Stop \/ Sigint \/ ChangeClock
    \/ \E t \in Task : Cancel(t) \/ Destroy(t) \/ \E d \in Delay : CallLater(t, d)

Next == Step \/ Others \/ Tick

Spec == Init /\ [][Next]_vars

-----------------------------------------------------------------------------
(* Properties.                                                             *)

TypeOK ==
    /\ pc \in {"before", "loop", "taken", "sleep", "call", "returned", "threw"}
    /\ alive \subseteq Task
    /\ tasks \subseteq alive /\ Canceled \subseteq alive
    /\ Called \subseteq alive /\ begun \subseteq alive
    /\ current \in alive \cup {None} /\ held \in Task \cup {None}
    /\ callTime \in [Task -> Int] /\ due \in [Task -> Int]
    /\ run \in BOOLEAN /\ sigint_raised \in BOOLEAN
    /\ elapsed \in 0..MaxTime /\ ahead \in {0, Shift} /\ wake \in Nat

\* The function of t is entered by this step.
Enters(t) == pc # "call" /\ pc' = "call" /\ current' = t

\* Functions are entered in the order of their call times: none is entered
\* while a task with an earlier time is queued.
InOrder ==
    [][\A t \in Task : Enters(t) => \A u \in tasks : callTime[t] <= callTime[u]]_vars

\* No function is entered before the delay it was added with has passed, less
\* what the clock may have been set forward meanwhile; however often it is
\* changed, this does not add up.
NeverEarly == [][\A t \in Task : Enters(t) => elapsed + Shift >= due[t]]_vars

\* The thread never sleeps past the time a task is due by more than the clock
\* is set back; server steps, 50 ms apart, stall for that long but no longer.
SleepBounded == pc = "sleep" => wake <= due[current] + Shift

\* After SIGINT no further function is entered but the one whose task start()
\* had already popped, be it late or not.
SigintStops == [][\A t \in Task : Enters(t) /\ sigint_raised => t = held]_vars

Stage ==
    [t \in Task |->
        IF t \notin alive THEN "unmade"
        ELSE IF t \in tasks \/ (pc \in {"taken", "sleep"} /\ t = current) THEN "waiting"
        ELSE IF pc = "call" /\ t = current THEN "running"
        ELSE "over"]

OneShot == INSTANCE OneShotTasks WITH stage <- Stage, cancelled <- Canceled

\* Each task runs at most once, alone, and never once it was cancelled.
ImplementsOneShot == OneShot!Spec
=============================================================================
