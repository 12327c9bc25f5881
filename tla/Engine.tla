-------------------------------- MODULE Engine --------------------------------
(***************************************************************************)
(* One process of the server: main() of the launcher, which constructs     *)
(* Tasks, Server and Plugins, loads the ClassicPlugin, runs the scheduler, *)
(* destroys everything and may start again; serverClass, which accepts     *)
(* connections and hands them to the plugin; and the heartbeat.            *)
(*                                                                         *)
(* The plugin is seen from outside: it adopts connections, keeps one       *)
(* receive of its own in the io_service per player and queues map tasks.   *)
(* PlayerSession says what it does with them, TaskScheduler in which order *)
(* tasks run; here any queued task may be next.                            *)
(*                                                                         *)
(* Where the plugin receives or sends, the thread waits for a client: the  *)
(* sockets block.  Nothing makes a client answer; what must happen some    *)
(* day happens if the clients let it (Responsive).                         *)
(***************************************************************************)
EXTENDS Integers

CONSTANTS
    MaxClients,   \* bound: how many clients ever connect
    MaxLives,     \* bound: how many times the classes are constructed
    AutoRestart,  \* the launcher was started with --autoRestart
    Disallow      \* some onConnect hook sets the status of an event to false

ASSUME EngineAssumption ==
    /\ MaxClients \in Nat /\ MaxLives \in Nat \ {0}
    /\ AutoRestart \in BOOLEAN /\ Disallow \in BOOLEAN

VARIABLES
    pc,          \* where main() is: "construct", "load"; inside start():
                 \* "loop", "poll", and, waiting for a client, "chunk" in a map
                 \* task, "initial" in onInitialData, "data" in the receive
                 \* handler of a player; then "unload", "server", "tasks", for
                 \* the class it destroys next, "ask"; "exited"; "terminate",
                 \* "crash"
    who,         \* the client whose map task, first byte or receive it handles
    lives,       \* how many times the classes have been constructed
    steps,       \* serverClass::step tasks in the queue
    beats,       \* a beat task is in the queue
    mapTasks,    \* clients with a map task of the plugin in the queue
    acceptor,    \* the async_accept: "none" outstanding, "armed", or
                 \* completed: "ready", "failed"
    client,      \* what has become of each client
    connections, \* serverClass::connections
    pluginOps,   \* clients with an operation of the plugin in the io_service
    heartbeat,   \* the static thread of beat(): "none", "running", "finished"
    sigint,      \* Tasks->sigint_raised
    interrupted, \* the local variable sigint of main()
    signalled    \* history: SIGINT came while start() was running

tasks == <<steps, beats, mapTasks>>
io == <<acceptor, client, connections, pluginOps>>
signals == <<sigint, interrupted, signalled>>
vars == <<pc, who, lives, tasks, io, heartbeat, signals>>

Client == 1..MaxClients
None == 0

\* A client has not come yet; waits in the listen queue; its accept handler is
\* queued; it has not sent its first byte; this handler is queued; it belongs
\* to the plugin; its socket is closed, or was because a hook disallows it.
Clients == {"out", "backlog", "accepted", "silent", "spoke", "hungup", "player",
            "gone", "refused"}

InPoll == {"poll", "initial", "data"}
Waits == {"chunk", "initial", "data"}
Up == pc \in {"loop", "chunk"} \cup InPoll

Init ==
    /\ pc = "construct" /\ who = None /\ lives = 0
    /\ steps = 0 /\ beats = FALSE /\ mapTasks = {}
    /\ acceptor = "none" /\ connections = {} /\ pluginOps = {}
    /\ client = [c \in Client |-> "out"]
    /\ heartbeat = "none"
    /\ sigint = FALSE /\ interrupted = FALSE /\ signalled = FALSE

-----------------------------------------------------------------------------
(* Outside the server thread.                                              *)

Connects(c) ==
    /\ Up /\ client[c] = "out" /\ \A d \in Client : d < c => client[d] # "out"
    /\ client' = [client EXCEPT ![c] = "backlog"]
    /\ UNCHANGED <<pc, who, lives, tasks, acceptor, connections, pluginOps, heartbeat,
                   signals>>

AcceptCompletes(c) ==
    /\ Up /\ acceptor = "armed" /\ client[c] = "backlog"
    /\ acceptor' = "ready"
    /\ client' = [client EXCEPT ![c] = "accepted"]
    /\ UNCHANGED <<pc, who, lives, tasks, connections, pluginOps, heartbeat, signals>>

AcceptFails ==
    /\ Up /\ acceptor = "armed"
    /\ acceptor' = "failed"
    /\ UNCHANGED <<pc, who, lives, tasks, client, connections, pluginOps, heartbeat,
                   signals>>

\* The first byte of a connection, or its end.
Speaks(c) ==
    /\ Up /\ client[c] = "silent"
    /\ \E s \in {"spoke", "hungup"} : client' = [client EXCEPT ![c] = s]
    /\ UNCHANGED <<pc, who, lives, tasks, acceptor, connections, pluginOps, heartbeat,
                   signals>>

\* doHeartBeat returns.
HeartbeatEnds ==
    /\ heartbeat = "running"
    /\ heartbeat' = "finished"
    /\ UNCHANGED <<pc, who, lives, tasks, io, signals>>

\* handle_sigint; before the first start() nothing catches the signal.
Sigint ==
    /\ lives > 0 /\ pc \notin {"exited", "terminate", "crash"}
    /\ lives = 1 => pc # "load"
    /\ sigint' = TRUE
    /\ signalled' = (signalled \/ Up)
    /\ UNCHANGED <<pc, who, lives, tasks, io, heartbeat, interrupted>>

-----------------------------------------------------------------------------
(* main(): construction.                                                   *)

\* cm.Construct(): the constructor of serverClass begins to accept and adds
\* its two tasks.
Construct ==
    /\ pc = "construct" /\ lives < MaxLives
    /\ pc' = "load" /\ lives' = lives + 1
    /\ steps' = 1 /\ beats' = TRUE /\ mapTasks' = {}
    /\ acceptor' = "armed" /\ connections' = {} /\ pluginOps' = {}
    /\ UNCHANGED <<who, client, heartbeat, signals>>

\* The port is taken, or the plugin cannot be loaded: neither is inside the try.
ConstructFails ==
    /\ \/ pc = "construct" /\ lives < MaxLives
       \/ pc = "load"
    /\ pc' = "terminate"
    /\ UNCHANGED <<who, lives, tasks, io, heartbeat, signals>>

\* Plugins->Load, then Tasks->start() resets sigint_raised.
Load ==
    /\ pc = "load"
    /\ pc' = "loop"
    /\ sigint' = FALSE /\ signalled' = FALSE
    /\ UNCHANGED <<who, lives, tasks, io, heartbeat, interrupted>>

-----------------------------------------------------------------------------
(* Tasks->start().                                                         *)

\* An exception of a task: caught in main().
Throw ==
    /\ pc' = "unload"
    /\ UNCHANGED <<lives, heartbeat, signals>>

\* Mutant of StartReturns: the loop ends for want of tasks only.
StartReturnsIdle ==
    /\ pc = "loop"
    /\ steps = 0 /\ ~beats /\ mapTasks = {}
    /\ pc' = "unload"
    /\ UNCHANGED <<who, lives, tasks, io, heartbeat, signals>>

\* The loop ends on SIGINT or for want of tasks.
StartReturns ==
    /\ pc = "loop"
    /\ sigint \/ (steps = 0 /\ ~beats /\ mapTasks = {})
    /\ pc' = "unload"
    /\ UNCHANGED <<who, lives, tasks, io, heartbeat, signals>>

\* beat(): timed_join(0) of a thread that never ran says what the version of
\* the library says; a running one is not joined, and then beat is not queued
\* again.
Beat ==
    /\ pc = "loop" /\ ~sigint /\ beats
    /\ \/ heartbeat # "running" /\ heartbeat' = "running" /\ beats' = TRUE
       \/ heartbeat # "finished" /\ heartbeat' = heartbeat /\ beats' = FALSE
    /\ UNCHANGED <<pc, who, lives, steps, mapTasks, io, signals>>

\* A map task of the plugin is taken: it sends a chunk, unless it was cancelled.
MapTask(c) ==
    /\ pc = "loop" /\ ~sigint /\ c \in mapTasks
    /\ mapTasks' = mapTasks \ {c}
    /\ \/ pc' = "chunk" /\ who' = c
       \/ UNCHANGED <<pc, who>>
    /\ UNCHANGED <<lives, steps, beats, io, heartbeat, signals>>

\* The chunk is sent: the next is queued, or it was the last, or it throws.
ChunkEnds ==
    /\ pc = "chunk"
    /\ \/ pc' = "loop" /\ mapTasks' \in {mapTasks, mapTasks \cup {who}}
       \/ pc' = "unload" /\ UNCHANGED mapTasks
    /\ who' = None
    /\ UNCHANGED <<lives, steps, beats, io, heartbeat, signals>>

\* serverClass::step begins with io_service.poll().
BeginStep ==
    /\ pc = "loop" /\ ~sigint /\ steps > 0
    /\ pc' = "poll" /\ steps' = steps - 1
    /\ UNCHANGED <<who, lives, beats, mapTasks, io, heartbeat, signals>>

\* Mutant of NewConnection: it does not accept again.
NewConnectionLast ==
    /\ pc = "poll" /\ acceptor = "ready"
    /\ acceptor' = "none"
    /\ \E c \in Client :
          /\ client[c] = "accepted"
          /\ connections' = connections \cup {c}
          /\ client' = [client EXCEPT ![c] = "silent"]
    /\ UNCHANGED <<pc, who, lives, tasks, pluginOps, heartbeat, signals>>

\* new_connection for a client that no hook disallows.
NewConnection ==
    /\ pc = "poll" /\ acceptor = "ready"
    /\ acceptor' = "armed"
    /\ \E c \in Client :
          /\ client[c] = "accepted"
          /\ connections' = connections \cup {c}
          /\ client' = [client EXCEPT ![c] = "silent"]
    /\ UNCHANGED <<pc, who, lives, tasks, pluginOps, heartbeat, signals>>

\* new_connection for one that is disallowed: it returns.
Disallowed ==
    /\ Disallow
    /\ pc = "poll" /\ acceptor = "ready"
    /\ acceptor' = "none"
    /\ \E c \in Client :
          /\ client[c] = "accepted"
          /\ client' = [client EXCEPT ![c] = "refused"]
    /\ UNCHANGED <<pc, who, lives, tasks, connections, pluginOps, heartbeat, signals>>

\* The accept failed, the client has no remote endpoint any more, or its
\* address does not resolve.
NewConnectionThrows ==
    /\ pc = "poll" /\ acceptor \in {"ready", "failed"}
    /\ acceptor' = "none"
    /\ client' = [c \in Client |-> IF client[c] = "accepted" THEN "gone"
                                   ELSE client[c]]
    /\ Throw
    /\ UNCHANGED <<who, tasks, connections, pluginOps>>

\* on_connection_data: a client whose first byte is that of a player is waited
\* for in onInitialData; nobody keeps any other.
OnConnectionData(c) ==
    /\ pc = "poll" /\ client[c] \in {"spoke", "hungup"}
    /\ \/ /\ client[c] = "spoke"
          /\ pc' = "initial" /\ who' = c
          /\ UNCHANGED <<client, connections>>
       \/ /\ client' = [client EXCEPT ![c] = "gone"]
          /\ connections' = connections \ {c}
          /\ UNCHANGED <<pc, who>>
    /\ UNCHANGED <<lives, tasks, acceptor, pluginOps, heartbeat, signals>>

\* Mutant of Adopt: connections keeps the socket of a player.
AdoptKeeps ==
    /\ pc = "initial"
    /\ pc' = "poll" /\ who' = None
    /\ client' = [client EXCEPT ![who] = "player"]
    /\ pluginOps' = pluginOps \cup {who} /\ mapTasks' = mapTasks \cup {who}
    /\ UNCHANGED <<lives, steps, beats, acceptor, connections, heartbeat, signals>>

\* The plugin has taken the client for a player, and serverClass lets it go.
Adopt ==
    /\ pc = "initial"
    /\ pc' = "poll" /\ who' = None
    /\ client' = [client EXCEPT ![who] = "player"]
    /\ pluginOps' = pluginOps \cup {who} /\ mapTasks' = mapTasks \cup {who}
    /\ connections' = connections \ {who}
    /\ UNCHANGED <<lives, steps, beats, acceptor, heartbeat, signals>>

\* onInitialData throws: the socket stays in connections.
AdoptThrows ==
    /\ pc = "initial"
    /\ Throw
    /\ who' = None
    /\ client' = [client EXCEPT ![who] = "gone"]
    /\ UNCHANGED <<tasks, acceptor, connections, pluginOps>>

\* A receive of the plugin completes: onData receives the rest of the packet
\* and sends what others see of it, or the player leaves.
PlayerData(c) ==
    /\ pc = "poll" /\ c \in pluginOps
    /\ pc' = "data" /\ who' = c
    /\ pluginOps' = pluginOps \ {c}
    /\ UNCHANGED <<lives, tasks, acceptor, client, connections, heartbeat, signals>>

\* The handler of the player ends with another receive.
PlayerStays ==
    /\ pc = "data"
    /\ pc' = "poll" /\ who' = None
    /\ pluginOps' = pluginOps \cup {who}
    /\ UNCHANGED <<lives, tasks, acceptor, client, connections, heartbeat, signals>>

\* It ends without, or throws.
PlayerLeaves ==
    /\ pc = "data"
    /\ pc' \in {"poll", "unload"} /\ who' = None
    /\ client' = [client EXCEPT ![who] = "gone"]
    /\ UNCHANGED <<lives, tasks, acceptor, connections, pluginOps, heartbeat, signals>>

\* poll() has run every handler that was ready.
Polled == acceptor \notin {"ready", "failed"}
          /\ \A c \in Client : client[c] \notin {"spoke", "hungup"}

\* Mutants of EndStep: the next step is queued before the hooks run, and again
\* after them; only the plugin's hooks would queue it.
EndStepTwice ==
    /\ pc = "poll" /\ Polled
    /\ \/ pc' = "loop" /\ steps' = steps + 2
       \/ pc' = "unload" /\ steps' = steps + 1
    /\ UNCHANGED <<who, lives, beats, mapTasks, io, heartbeat, signals>>
EndStepLast ==
    /\ pc = "poll" /\ Polled
    /\ pc' \in {"loop", "unload"}
    /\ UNCHANGED <<who, lives, tasks, io, heartbeat, signals>>

\* onServerStep() calls the plugin, which may throw; the next step is queued.
EndStep ==
    /\ pc = "poll" /\ Polled
    /\ \/ pc' = "loop" /\ steps' = steps + 1
       \/ pc' = "unload" /\ steps' = steps
    /\ UNCHANGED <<who, lives, beats, mapTasks, io, heartbeat, signals>>

-----------------------------------------------------------------------------
(* main(): destruction.                                                    *)

\* Mutant of Interrupted: it is read off a scheduler that was never signalled.
InterruptedNever == FALSE

\* Tasks->interupted().
Interrupted == sigint

\* ~PluginHandler deletes the plugin, which closes its sockets, and frees its
\* library; what the plugin still has in the io_service or the queue stays.
\* The plugin's destructor may fail, as PlayerSession's DestroyDies does.
Unload ==
    /\ pc = "unload"
    /\ interrupted' = Interrupted
    /\ pc' \in {"server", "terminate"}
    /\ client' = [c \in Client |-> IF client[c] = "player" THEN "gone"
                                   ELSE client[c]]
    /\ UNCHANGED <<who, lives, tasks, acceptor, connections, pluginOps, heartbeat,
                   sigint, signalled>>

\* ~serverClass: the sockets are closed, and the io_service destroys its
\* operations, with the code of whoever started them.
DestroyServer ==
    /\ pc = "server"
    /\ pc' = IF pluginOps = {} THEN "tasks" ELSE "crash"
    /\ acceptor' = "none" /\ connections' = {}
    /\ client' = [c \in Client |-> IF client[c] = "out" THEN "out" ELSE "gone"]
    /\ UNCHANGED <<who, lives, tasks, pluginOps, heartbeat, signals>>

\* ~TaskScheduler destroys the functions still queued.
DestroyTasks ==
    /\ pc = "tasks"
    /\ pc' = IF mapTasks = {} THEN "ask" ELSE "crash"
    /\ steps' = 0 /\ beats' = FALSE
    /\ UNCHANGED <<who, lives, mapTasks, io, heartbeat, signals>>

\* Mutant of Restarts: --autoRestart is all that counts.
RestartsAlways == AutoRestart

\* The condition of the automatic restart.
Restarts == AutoRestart /\ ~interrupted

Restart ==
    /\ pc = "ask" /\ Restarts
    /\ pc' = "construct"
    /\ UNCHANGED <<who, lives, tasks, io, heartbeat, signals>>

\* Otherwise the user is asked.
Ask ==
    /\ pc = "ask" /\ ~Restarts
    /\ pc' \in {"construct", "exited"}
    /\ UNCHANGED <<who, lives, tasks, io, heartbeat, signals>>

-----------------------------------------------------------------------------
Handler ==
    \/ NewConnection \/ Disallowed \/ NewConnectionThrows
    \/ \E c \in Client : OnConnectionData(c)

\* What ends when the clients waited for have sent, or read, enough.
WaitEnds == ChunkEnds \/ Adopt \/ AdoptThrows \/ PlayerStays \/ PlayerLeaves

Main ==
    \/ Construct \/ ConstructFails \/ Load
    \/ StartReturns \/ Beat \/ BeginStep \/ EndStep
    \/ Unload \/ DestroyServer \/ DestroyTasks \/ Restart \/ Ask

Next ==
    \/ Main \/ Handler \/ WaitEnds \/ AcceptFails \/ HeartbeatEnds \/ Sigint
    \/ \E c \in Client :
          \/ Connects(c) \/ AcceptCompletes(c) \/ Speaks(c)
          \/ MapTask(c) \/ PlayerData(c)

Spec == Init /\ [][Next]_vars

\* The server thread goes on where it does not wait for a client, and a
\* connection that waits is accepted when an accept is outstanding.  SF for the
\* server step: tasks are taken by their time, so a queued step is not overtaken
\* for ever (EventuallyTaken of SchedulerForever).  SF for handlers: those of
\* players do not overtake a queued one for ever.  SF for the end of the step:
\* poll() ends, the clients sending no faster than the thread handles it.
Fairness ==
    /\ WF_vars(Main) /\ SF_vars(Handler)
    /\ SF_vars(BeginStep) /\ SF_vars(EndStep)
    /\ \A c \in Client : WF_vars(AcceptCompletes(c))

FairSpec == Spec /\ Fairness

-----------------------------------------------------------------------------
(* Properties.                                                             *)

TypeOK ==
    /\ pc \in {"construct", "load", "loop", "unload", "server", "tasks", "ask",
               "exited", "terminate", "crash"} \cup InPoll \cup Waits
    /\ IF pc \in Waits THEN who \in Client ELSE who = None
    /\ lives \in 0..MaxLives
    /\ steps \in 0..1 /\ beats \in BOOLEAN /\ mapTasks \subseteq Client
    /\ acceptor \in {"none", "armed", "ready", "failed"}
    /\ client \in [Client -> Clients]
    /\ connections \subseteq Client /\ pluginOps \subseteq Client
    /\ heartbeat \in {"none", "running", "finished"}
    /\ sigint \in BOOLEAN /\ interrupted \in BOOLEAN /\ signalled \in BOOLEAN

\* While start() runs there is exactly one server step, queued or running: the
\* io_service is polled for ever, and never by two chains of tasks.
OneStep == /\ pc \in {"loop", "chunk"} => steps = 1
           /\ pc \in InPoll => steps = 0

\* As long as start() runs an accept is outstanding or its handler is queued,
\* so that one more client can always connect.  (The run engine_disallow shows
\* that one client a hook disallows is the last that connects.)
AlwaysAccepting == Up => acceptor # "none"

Refused == \E c \in Client : client[c] = "refused"

\* What holds of the code: unless a client was refused, an accept is outstanding
\* or its handler is queued; whatever else becomes of connections, even of those
\* that fail in a handler, the server goes on accepting or goes down.
AcceptsUntilRefused == Up => acceptor # "none" \/ Refused

\* Every socket has one owner: serverClass until the first byte was handled,
\* then the plugin, which has a receive of its own for it whenever it does not
\* handle one; none is in both hands, and none that is closed is kept.
SocketsOwned ==
    Up => /\ connections = {c \in Client : client[c] \in {"silent", "spoke", "hungup"}}
          /\ pluginOps = {c \in Client : client[c] = "player" /\ ~(pc = "data" /\ who = c)}
          /\ acceptor = "ready" <=> \E c \in Client : client[c] = "accepted"

\* After SIGINT while start() was running the launcher does not restart the
\* server on its own, however start() then ended.
SigintNoAutoRestart == [][Restart => ~signalled]_vars

\* No client keeps the thread waiting for ever.
Responsive == []<>(pc \notin Waits)

\* If no client keeps the thread waiting for ever, SIGINT ends start().
SigintEndsStart == Responsive => ((Up /\ signalled) ~> ~Up)

\* serverClass owes the client something.
Owes(c) == client[c] \in {"backlog", "accepted", "spoke", "hungup"}

\* If no client keeps the thread waiting for ever, one that connects or speaks
\* is handled, whatever the other clients do, unless the server goes down or a
\* client has been refused.
EventuallyServed ==
    Responsive => \A c \in Client : (Up /\ Owes(c)) ~> (~Up \/ Refused \/ ~Owes(c))

\* The classes are destroyed without running code of a library that has been
\* freed.
NoUnloadedCode == pc # "crash"
=============================================================================
