----------------------------- MODULE Engine_proofs -----------------------------
(***************************************************************************)
(* Proofs about Engine for any number of clients and of lives, with and    *)
(* without --autoRestart and refusals: its types, the inductive invariant  *)
(* IInv, and from both the safety properties the run engine checks.        *)
(***************************************************************************)
EXTENDS Engine, TLAPS

-----------------------------------------------------------------------------
(* The inductive invariant.                                                *)

\* What the constructors set up is there when start() begins: one step task, an
\* accept, and no socket of an earlier life.
Fresh ==
    /\ pc = "load" => steps = 1
    /\ pc = "load" => acceptor = "armed"
    /\ pc = "load" => connections = {} /\ pluginOps = {}
    /\ pc \in {"construct", "load", "tasks", "ask"} =>
           \A c \in Client : client[c] \in {"out", "gone"}

\* The accept handler has one client to hand over, and only then is there one.
Accepting ==
    Up => /\ acceptor = "ready" <=> \E c \in Client : client[c] = "accepted"
          /\ \A c, d \in Client :
                client[c] = "accepted" /\ client[d] = "accepted" => c = d

\* The sockets of serverClass and those of the plugin, client by client.
Owned ==
    Up => \A c \in Client :
             /\ c \in connections <=> client[c] \in {"silent", "spoke", "hungup"}
             /\ c \in pluginOps <=> client[c] = "player" /\ ~(pc = "data" /\ who = c)

\* Whose first byte or data is handled.
Handled ==
    /\ pc = "initial" => client[who] = "spoke"
    /\ pc = "data" => client[who] = "player"

\* A signal that came while start() ran is remembered: first by the scheduler,
\* then, since the scheduler is destroyed before the question of a restart, by
\* main().
Remembered ==
    /\ Up \/ pc = "unload" => (signalled => sigint)
    /\ pc \in {"server", "tasks", "ask"} => (signalled => interrupted)

IInv == /\ OneStep /\ AcceptsUntilRefused
        /\ Fresh /\ Accepting /\ Owned /\ Handled /\ Remembered

-----------------------------------------------------------------------------
(* Types and invariants, at first and after every step.                    *)

LEMMA InitInv == Init => TypeOK /\ IInv
<1> SUFFICES ASSUME Init PROVE TypeOK /\ IInv
  OBVIOUS
<1> USE EngineAssumption DEF EngineAssumption, Init
<1>1. /\ lives \in 0..MaxLives /\ steps \in 0..1
      /\ mapTasks \subseteq Client /\ client \in [Client -> Clients]
      /\ connections \subseteq Client /\ pluginOps \subseteq Client
  BY DEF Clients
<1>2. TypeOK
  BY <1>1, Zenon DEF TypeOK, Waits
<1>3. IInv
  BY DEF IInv, OneStep, AcceptsUntilRefused, Refused, Fresh, Accepting, Owned,
         Handled, Remembered, Up, InPoll, Waits
<1> QED
  BY <1>2, <1>3

\* OneStep is needed: a step that runs is not in the queue, so the step it queues
\* is the only one.
LEMMA TypeStep == TypeOK /\ IInv /\ [Next]_vars => TypeOK'
<1> SUFFICES ASSUME TypeOK, OneStep, Fresh, [Next]_vars PROVE TypeOK'
  BY DEF IInv
<1> USE EngineAssumption DEF EngineAssumption, TypeOK, Clients, Up, InPoll, Waits,
       None, OneStep, Fresh
<1>1. ASSUME NEW c \in Client, Connects(c) PROVE TypeOK'
  BY <1>1 DEF Connects, tasks, io, signals
<1>2. ASSUME NEW c \in Client, AcceptCompletes(c) PROVE TypeOK'
  BY <1>2 DEF AcceptCompletes, tasks, io, signals
<1>3. CASE AcceptFails
  BY <1>3 DEF AcceptFails, tasks, io, signals
<1>4. ASSUME NEW c \in Client, Speaks(c) PROVE TypeOK'
  BY <1>4 DEF Speaks, tasks, io, signals
<1>5. CASE HeartbeatEnds
  BY <1>5 DEF HeartbeatEnds, tasks, io, signals
<1>6. CASE Sigint
  BY <1>6 DEF Sigint, tasks, io, signals
<1>7. CASE Construct
  BY <1>7 DEF Construct, tasks, io, signals
<1>8. CASE ConstructFails
  BY <1>8 DEF ConstructFails, tasks, io, signals
<1>9. CASE Load
  BY <1>9 DEF Load, tasks, io, signals
<1>10. CASE StartReturns
  BY <1>10 DEF StartReturns, tasks, io, signals
<1>11. CASE Beat
  BY <1>11 DEF Beat, tasks, io, signals
<1>12. ASSUME NEW c \in Client, MapTask(c) PROVE TypeOK'
  BY <1>12 DEF MapTask, tasks, io, signals
<1>13. CASE BeginStep
  BY <1>13 DEF BeginStep, tasks, io, signals
<1>14. CASE NewConnection
  BY <1>14 DEF NewConnection, tasks, io, signals
<1>15. CASE Disallowed
  BY <1>15 DEF Disallowed, tasks, io, signals
<1>16. CASE NewConnectionThrows
  BY <1>16 DEF NewConnectionThrows, Throw, tasks, io, signals
<1>17. ASSUME NEW c \in Client, OnConnectionData(c) PROVE TypeOK'
  BY <1>17 DEF OnConnectionData, tasks, io, signals
<1>18. CASE Adopt
  BY <1>18 DEF Adopt, tasks, io, signals
<1>19. CASE AdoptThrows
  BY <1>19 DEF AdoptThrows, Throw, tasks, io, signals
<1>20. ASSUME NEW c \in Client, PlayerData(c) PROVE TypeOK'
  BY <1>20 DEF PlayerData, tasks, io, signals
<1>21. CASE PlayerStays
  BY <1>21 DEF PlayerStays, tasks, io, signals
<1>22. CASE PlayerLeaves
  BY <1>22 DEF PlayerLeaves, tasks, io, signals
<1>23. CASE ChunkEnds
  BY <1>23 DEF ChunkEnds, tasks, io, signals
<1>24. CASE EndStep
  BY <1>24 DEF EndStep, Polled, tasks, io, signals
<1>25. CASE Unload
  BY <1>25 DEF Unload, Interrupted, tasks, io, signals
<1>26. CASE DestroyServer
  BY <1>26 DEF DestroyServer, tasks, io, signals
<1>27. CASE DestroyTasks
  <2>1. pc' \in {"ask", "crash"} /\ steps' \in 0..1 /\ who' = None
    BY <1>27 DEF DestroyTasks
  <2>2. beats' \in BOOLEAN
    BY <1>27, Zenon DEF DestroyTasks
  <2>3. UNCHANGED <<lives, mapTasks, acceptor, client, connections, pluginOps,
                    heartbeat, sigint, interrupted, signalled>>
    BY <1>27 DEF DestroyTasks, io, signals
  <2> QED
    BY <2>1, <2>2, <2>3
<1>28. CASE Restart
  BY <1>28 DEF Restart, tasks, io, signals
<1>29. CASE Ask
  BY <1>29 DEF Ask, tasks, io, signals
<1>30. CASE UNCHANGED vars
  BY <1>30 DEF vars, tasks, io, signals
<1> QED
  BY <1>1, <1>2, <1>3, <1>4, <1>5, <1>6, <1>7, <1>8, <1>9, <1>10, <1>11, <1>12,
     <1>13, <1>14, <1>15, <1>16, <1>17, <1>18, <1>19, <1>20, <1>21, <1>22, <1>23,
     <1>24, <1>25, <1>26, <1>27, <1>28, <1>29, <1>30 DEF Next, Main, Handler, WaitEnds

LEMMA StepInv == TypeOK /\ IInv /\ [Next]_vars => IInv'
<1> SUFFICES ASSUME TypeOK, IInv, [Next]_vars PROVE IInv'
  OBVIOUS
<1> USE EngineAssumption DEF EngineAssumption, TypeOK, Clients, IInv, OneStep, AcceptsUntilRefused, Refused,
       Fresh, Accepting, Owned, Handled, Remembered, Up, InPoll, Waits, None
<1>1. ASSUME NEW c \in Client, Connects(c) PROVE IInv'
  BY <1>1 DEF Connects, tasks, io, signals
<1>2. ASSUME NEW c \in Client, AcceptCompletes(c) PROVE IInv'
  BY <1>2 DEF AcceptCompletes, tasks, io, signals
<1>3. CASE AcceptFails
  BY <1>3 DEF AcceptFails, tasks, io, signals
<1>4. ASSUME NEW c \in Client, Speaks(c) PROVE IInv'
  BY <1>4 DEF Speaks, tasks, io, signals
<1>5. CASE HeartbeatEnds
  BY <1>5 DEF HeartbeatEnds, tasks, io, signals
<1>6. CASE Sigint
  BY <1>6 DEF Sigint, tasks, io, signals
<1>7. CASE Construct
  BY <1>7 DEF Construct, tasks, io, signals
<1>8. CASE ConstructFails
  BY <1>8 DEF ConstructFails, tasks, io, signals
<1>9. CASE Load
  BY <1>9 DEF Load, tasks, io, signals
<1>10. CASE StartReturns
  BY <1>10 DEF StartReturns, tasks, io, signals
<1>11. CASE Beat
  BY <1>11 DEF Beat, tasks, io, signals
<1>12. ASSUME NEW c \in Client, MapTask(c) PROVE IInv'
  BY <1>12 DEF MapTask, tasks, io, signals
<1>13. CASE BeginStep
  BY <1>13 DEF BeginStep, tasks, io, signals
<1>14. CASE NewConnection
  BY <1>14 DEF NewConnection, tasks, io, signals
<1>15. CASE Disallowed
  BY <1>15 DEF Disallowed, tasks, io, signals
<1>16. CASE NewConnectionThrows
  BY <1>16 DEF NewConnectionThrows, Throw, tasks, io, signals
<1>17. ASSUME NEW c \in Client, OnConnectionData(c) PROVE IInv'
  BY <1>17 DEF OnConnectionData, tasks, io, signals
<1>18. CASE Adopt
  BY <1>18 DEF Adopt, tasks, io, signals
<1>19. CASE AdoptThrows
  BY <1>19 DEF AdoptThrows, Throw, tasks, io, signals
<1>20. ASSUME NEW c \in Client, PlayerData(c) PROVE IInv'
  BY <1>20 DEF PlayerData, tasks, io, signals
<1>21. CASE PlayerStays
  BY <1>21 DEF PlayerStays, tasks, io, signals
<1>22. CASE PlayerLeaves
  BY <1>22 DEF PlayerLeaves, tasks, io, signals
<1>23. CASE ChunkEnds
  BY <1>23 DEF ChunkEnds, tasks, io, signals
<1>24. CASE EndStep
  BY <1>24 DEF EndStep, Polled, tasks, io, signals
<1>25. CASE Unload
  BY <1>25 DEF Unload, Interrupted, tasks, io, signals
<1>26. CASE DestroyServer
  BY <1>26 DEF DestroyServer, tasks, io, signals
<1>27. CASE DestroyTasks
  BY <1>27 DEF DestroyTasks, tasks, io, signals
<1>28. CASE Restart
  BY <1>28 DEF Restart, tasks, io, signals
<1>29. CASE Ask
  BY <1>29 DEF Ask, tasks, io, signals
<1>30. CASE UNCHANGED vars
  BY <1>30 DEF vars, tasks, io, signals
<1> QED
  BY <1>1, <1>2, <1>3, <1>4, <1>5, <1>6, <1>7, <1>8, <1>9, <1>10, <1>11, <1>12,
     <1>13, <1>14, <1>15, <1>16, <1>17, <1>18, <1>19, <1>20, <1>21, <1>22, <1>23,
     <1>24, <1>25, <1>26, <1>27, <1>28, <1>29, <1>30 DEF Next, Main, Handler, WaitEnds

LEMMA AlwaysInv == Spec => [](TypeOK /\ IInv)
<1>1. TypeOK /\ IInv /\ [Next]_vars => TypeOK' /\ IInv'
  BY TypeStep, StepInv
<1> QED
  BY InitInv, <1>1, PTL DEF Spec

-----------------------------------------------------------------------------
(* The theorems.                                                           *)

\* Every reachable state is well typed: in particular the queue never holds two
\* server steps.
THEOREM TypeCorrect == Spec => []TypeOK
  BY AlwaysInv, PTL

\* While start() runs there is exactly one serverClass::step, queued or running,
\* in every life of the process and whatever the handlers do.
THEOREM AlwaysOneStep == Spec => []OneStep
<1>1. IInv => OneStep
  BY DEF IInv
<1> QED
  BY AlwaysInv, <1>1, PTL

\* Unless a hook refused a client the server never stops to accept: after every
\* handler of the io_service an accept is outstanding or completed.
THEOREM AlwaysAcceptsUntilRefused == Spec => []AcceptsUntilRefused
<1>1. IInv => AcceptsUntilRefused
  BY DEF IInv
<1> QED
  BY AlwaysInv, <1>1, PTL

\* Where no hook refuses anybody, the property the run engine_disallow refutes
\* holds: a client can always connect.
THEOREM AcceptsAll == ASSUME ~Disallow PROVE Spec => []AlwaysAccepting
<1> DEFINE NoneRefused == \A c \in Client : client[c] # "refused"
<1>1. Init => NoneRefused
  BY DEF Init
<1>2. TypeOK /\ NoneRefused /\ [Next]_vars => NoneRefused'
  <2> SUFFICES ASSUME TypeOK, NoneRefused, [Next]_vars PROVE NoneRefused'
    OBVIOUS
  <2>1. client' = client \/ \A c \in Client : client'[c] \in
           {client[c], "backlog", "accepted", "spoke", "hungup", "silent",
            "player", "gone", "out"}
    BY DEF TypeOK, Next, Main, Handler, vars, tasks, io, signals, Throw,
       Connects, AcceptCompletes, AcceptFails, Speaks, HeartbeatEnds, Sigint,
       Construct, ConstructFails, Load, StartReturns, Beat, MapTask, BeginStep,
       NewConnection, Disallowed, NewConnectionThrows, OnConnectionData,
       Adopt, AdoptThrows,
       PlayerData, PlayerStays, PlayerLeaves, ChunkEnds, WaitEnds, EndStep, Unload, DestroyServer,
       DestroyTasks, Restart, Ask
  <2> QED
    BY <2>1
<1>3. IInv /\ NoneRefused => AlwaysAccepting
  BY DEF IInv, AcceptsUntilRefused, AlwaysAccepting, Refused
<1> QED
  BY AlwaysInv, <1>1, <1>2, <1>3, PTL DEF Spec

\* Between two handlers every open socket is either in serverClass::connections,
\* waiting for its first byte, or has a receive of the plugin's player; never
\* both, and none of a closed one is left.
THEOREM SocketsAlwaysOwned == Spec => []SocketsOwned
<1>1. TypeOK /\ IInv => SocketsOwned
  BY DEF TypeOK, IInv, Accepting, Owned, SocketsOwned
<1> QED
  BY AlwaysInv, <1>1, PTL

\* Whatever ended start(), the launcher does not restart on its own after a
\* SIGINT that came while start() was running.
THEOREM SigintNeverAutoRestarts == Spec => SigintNoAutoRestart
<1>1. IInv /\ [Next]_vars => [Restart => ~signalled]_vars
  BY DEF IInv, Remembered, Restart, Restarts
<1> QED
  BY AlwaysInv, <1>1, PTL DEF Spec, SigintNoAutoRestart
=============================================================================
