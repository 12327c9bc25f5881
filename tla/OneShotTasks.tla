---------------------------- MODULE OneShotTasks ----------------------------
(***************************************************************************)
(* What the scheduler promises of each task, whatever queue, clock and     *)
(* loop it uses: once made it waits, runs at most once, alone, and is over *)
(* until it is destroyed; it does not run any more once it was cancelled.  *)
(***************************************************************************)
CONSTANT Task

VARIABLES stage,      \* the stage of each task
          cancelled   \* the tasks somebody cancelled

Init == stage = [t \in Task |-> "unmade"] /\ cancelled = {}

Make(t) ==
    /\ stage[t] = "unmade"
    /\ stage' = [stage EXCEPT ![t] = "waiting"]
    /\ UNCHANGED cancelled

Cancel(t) ==
    /\ stage[t] # "unmade"
    /\ cancelled' = cancelled \cup {t}
    /\ UNCHANGED stage

Run(t) ==
    /\ stage[t] = "waiting" /\ t \notin cancelled
    /\ \A u \in Task : stage[u] # "running"
    /\ stage' = [stage EXCEPT ![t] = "running"]
    /\ UNCHANGED cancelled

Drop(t) ==
    /\ stage[t] = "waiting" /\ t \in cancelled
    /\ stage' = [stage EXCEPT ![t] = "over"]
    /\ UNCHANGED cancelled

End(t) ==
    /\ stage[t] = "running"
    /\ stage' = [stage EXCEPT ![t] = "over"]
    /\ UNCHANGED cancelled

\* The object is destroyed; a new task may be named like it.
Forget(t) ==
    /\ stage[t] = "over"
    /\ stage' = [stage EXCEPT ![t] = "unmade"]
    /\ cancelled' = cancelled \ {t}

Next == \E t \in Task :
    Make(t) \/ Cancel(t) \/ Run(t) \/ Drop(t) \/ End(t) \/ Forget(t)

Spec == Init /\ [][Next]_<<stage, cancelled>>
=============================================================================
