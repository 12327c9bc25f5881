--------------------------- MODULE SchedulerForever ---------------------------
(***************************************************************************)
(* TaskScheduler without an end of time: time is counted from the present, *)
(* so that elapsed stays 0 and the times of waiting tasks get smaller as   *)
(* time passes.  Destroyed objects make room for new ones: tasks may be    *)
(* made without end, and time goes on without end.                         *)
(***************************************************************************)
EXTENDS TaskScheduler, FiniteSets

\* Tasks whose times are still asked for.
Waiting == tasks \cup (IF pc \in {"taken", "sleep"} THEN {current} ELSE {})

\* Call times that will have passed in a tick, whatever the clock shows.
PastTimes == {callTime[u] : u \in {v \in Waiting : callTime[v] <= 0}}

\* The call time of a task after one tick.  Of times that have passed only the
\* order is kept, which is all that is ever asked of them.
Later(t) ==
    IF callTime[t] > 0 THEN callTime[t] - 1
    ELSE -Cardinality({c \in PastTimes : callTime[t] <= c})

\* When it is due: that it has been for Shift or longer makes no difference.
LaterDue(t) == IF due[t] > -Shift THEN due[t] - 1 ELSE due[t]

\* Time passes.
Pass ==
    /\ pc \notin {"returned", "threw"}
    /\ callTime' = [t \in Task |-> IF t \in Waiting THEN Later(t) ELSE 0]
    /\ due' = [t \in Task |-> IF t \in Waiting THEN LaterDue(t) ELSE 0]
    /\ wake' = IF wake > 0 THEN wake - 1 ELSE 0
    /\ UNCHANGED <<pc, tasks, current, alive, Canceled, Called, run, sigint_raised,
                   clockVars, begun, held>>

ForeverNext == Step \/ Others \/ Pass

\* Time passes, the thread runs and the functions of tasks end.
ForeverSpec == Init /\ [][ForeverNext]_vars /\ WF_vars(Pass) /\ WF_vars(Step)

\* Every queued task is popped some day, or start() ends: none is overtaken for
\* ever, although functions go on making tasks, may take any time, and the
\* clock may be changed again and again.  Which object a new task gets is free,
\* so what holds of one holds of all.
EventuallyTaken == (Running /\ 1 \in tasks) ~> (~Running \/ 1 \notin tasks)
=============================================================================
