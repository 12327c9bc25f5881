# Aftershock (ArMCpp): specifications, model checking and proofs

Aftershock is a Minecraft Classic server in C++0x: an engine (`src/Aftershock/src`,
`Launcher.cpp`) that runs one scheduler thread and one boost::asio `io_service`, and
a plugin, `ClassicPlugin`, with the players, the worlds and the player database. This
directory holds TLA+ modules of its parts, the TLC runs that check them on small
instances and TLAPS proofs of their main safety properties. All paths below are under
`src/Aftershock/`.

## 1. Inventory

Almost everything runs on one thread: `main()` calls `Tasks->start()`, which takes
tasks off a priority queue ordered by time and sleeps in between. Every 50 ms the
task `serverClass::step` polls the `io_service`, whose completion handlers accept
connections and read the first byte of each packet (the rest of a packet is then read
*blocking*), and calls the event chains the plugin has hooked. Concurrency is
therefore mostly *re-entrancy* and *ordering*: handlers that fail in the middle,
objects deleted while a completion or a task still points at them, and exceptions
that leave through the whole stack down to `main()`. The only second thread is the
heartbeat; SIGINT comes at any moment.

| component | state | operations | talks to | hard behaviour | what makes it correct |
|---|---|---|---|---|---|
| Player sessions: `ClassicPlugin/Player.*`, `Players.*` | list of `Player*`, `IDS`, per player `disconnected`, `currentWorld`, `sendMapTask`, its receive | onInitialData/add, onData, disconnect, kick, step (reap), sendMapInit/Chunk/Final, destructor | socket, World, scheduler, event chains | disconnect inside a broadcast, disconnect twice, delete with a handler queued, map task of a dead player | roster = connected players; nothing runs on a deleted player; every connected player is listened to; ids unique; disconnected players are deleted |
| World: `ClassicPlugin/World.*`, `Worlds.*` | `Players` set, map, chunks | addPlayer/removePlayer, spawn/unspawn, broadcastPacket, updatePosition, sendChat, changeBlock, processMapSend | Player | set modified while it is walked; assertion in checkPlayer | clients show exactly who is there; chunks are the map |
| Scheduler: `src/taskScheduler.cpp`, `include/taskScheduler.hpp` | priority queue of tasks, `run`, `sigint_raised` | add/callLater, cancel, stop, SIGINT, start | everything | the local clock changed both ways, SIGINT between test and call, tasks that make tasks without end | order of times; early and late by one change of the clock at most; at most once; not after cancel; none overtaken for ever; stops |
| Server: `src/Server.cpp` | acceptor, `connections` | accept, new_connection, on_connection_data, step | io_service, hooks, scheduler | exception or early return between two steps of a chain; handlers that wait for a client | always accepting; one owner per socket; one step task; whoever speaks is served, if no client blocks the thread for ever |
| Launcher: `Launcher.cpp` | the four global objects | Construct, Load, start, Destruct, restart | all | destruction order; SIGINT against restart | no code of a freed library runs; SIGINT is not followed by an automatic restart |
| Heartbeat: `src/Heartbeat.cpp` | static thread, static `ServerInfo` | beat, doHeartBeat, UriEncode | scheduler, HTTP | slow request; statics that outlive a restart of the server | one thread at a time; its data overwritten once per life of the server at most |
| Plugin handler: `src/Plugin.cpp` | list of handles | Load, Unload, Get, Has | dlopen | load of the same name twice | freed exactly once |
| Player database: `ClassicPlugin/PlayerDB.*`, `include/CSVDB` | rows, index, file | addPlayer, getPlayerInfo, load, save | file | crash before save, escaping, bad row | what was saved is what is loaded |
| Event chains: `include/eventChain.hpp` | hooks, `lastSuccess` | add*, remove, call | plugins | chainBreaker, hook removed during a call | order; break stops |
| Logging: `src/Logging.cpp` | prefix stream, mutex, file | log, info, error, debug | two threads | prefix outside the lock; lock kept by an exception | lines are whole |
| Packets: `include/Packets.hpp`, `src/Packets.cpp` | — | send, recv of tuples | socket | short reads, string widths | recv(send(x)) = x |
| Text: `src/Aftershock.cpp` | — | multiLine, singleLine | chat | names that leave no room | ends; keeps the text |
| NBT files, `ReleaseMPPlugin`, `plugins/mcbans`, `TestPlugin.cpp`, `SFArMC++` | | | | | not modelled, see section 8 |

The hazards, each at its line with the properties that watch it, are in
`PROJECT.json`.

## 2. Modules and how they correspond to the code

**PlayerSession** models `Players`, `Player` and the roster part of `World`. Its
variables are the members of these classes under their names (`players`, `IDS`, `id`,
`disc` for `disconnected`, `world` for a non-null `currentWorld`, `members` for
`World::Players`, `visible` for `isVisible`, `mapTask` and `sent` for `sendMapTask`
and its iterators), the state of each `async_receive` (`recv`), who has closed its
end (`gone`), what each client has been shown (`view`), and `proc`, where the single
thread is. One action is one handler from entry to exit: `OnData`, `OnError` and
their variants for the ways `Player::onData` ends, `Join`/`JoinFails` for
`onInitialData`, `PlayersStep` for `Players::step`, `MapChunk`/`MapFinal` for the map
tasks, `Destroy`/`DestroyDies` for `~Players`. The *recursion* of a broadcast (a send fails, the
receiver is disconnected inside the loop, its leaving is broadcast as well, ...) is one
action: which receivers drop out, who is skipped and who is told what are chosen
nondeterministically within what the loops allow (`Audiences`, `Skippable`,
`Iterated`, `GoesOn`, `Views`). Undefined behaviour is a choice over outcomes and is
recorded in `ubs`: advancing an erased set iterator (`"iterator"`), reading the id of
a deleted player (`"freed"`), reading past the bitset once a signed char has counted
past 127 (`"index"`), walking the list while a destructor is in it (`"listed"`).
`DeferredAborts` distinguishes the two ways boost::asio delivers aborted receives:
the POSIX reactors run them in the next poll; the completion port of Windows, on
which this server was developed, may deliver them later.

**PlayerLifecycle** is the abstract promise: absent → loading → playing → left →
deleted, never backwards, and the roster is exactly the players that play.
`PlayerSession!Life` is the refinement mapping (`Stage`).

**TaskScheduler** models `TaskScheduler` and `_Task`: `alive` are the task objects, `tasks` is the priority queue
(as a set; `Tops` is the choice its comparator makes), `current` the task that was
popped, `Canceled` and `Called` the two bits of each task, `run`, `sigint_raised`.
`elapsed` is the time that has really passed and `ahead` how far `local_time` (`Now`) is ahead of it, which
`ChangeClock` changes to summer time and back at any moment, any number of times; `wake` is the true time the
sleep ends, computed from the local clock when it began. The loop of `start()` is cut where a
signal may come: `Take` is its test with the pop; `Drop`, `CallAtOnce` and `Sleep` are what `sleepThenCall` does with a
task that is skipped, late, or neither; then `Wake`, `Finish`, `Throw`, `Return`. `CallLater` and `Cancel` are what functions do while
they run; `Destroy` gives up the last handle of a task, whose object may then be made anew; `Sigint` comes
between any two of these steps, and `held` remembers what was popped when it first came.
**OneShotTasks** is its abstract
promise: each task runs at most once, alone, and not after it was cancelled.
**SchedulerForever** is the same scheduler without an end of time, so that a task can be overtaken without end:
`Pass` counts time from the present, keeping only the order of the call times that are over.

**Engine** composes the rest of one process: `main()` (construct, load, `start()`,
destroy, restart), `serverClass` (acceptor, `connections`, the step task) and `beat`.
The plugin is seen from outside: it adopts sockets, keeps receives and queues map
tasks (`pluginOps`, `mapTasks`). Its handlers receive and send on blocking sockets, so they are cut in two:
`OnConnectionData`, `PlayerData` and `MapTask` enter them, the thread then waits for the client `who` (`pc` is `"initial"`,
`"data"` or `"chunk"`), and `Adopt`, `AdoptThrows`, `PlayerStays`, `PlayerLeaves` and `ChunkEnds` are how the wait
ends, if it does. SIGINT, other clients and the heartbeat go on meanwhile. Any queued task may be next; SchedulerForever says why
none is left out for ever.

**PlayerDB** models `PlayerDataBase` with the CSVDB classes it is an instance of: `rows`
and `index` are the members of those names, `file` the lines of `Players.csv`. A row is
its key, the name, because nothing changes the numbers beside it. `Load`, `LoadFails`, `Open`,
`Write`, `WriteCut` and `EndUnsaved` are what the constructor and the destructor do or
may fail to do; `Join` is the look-up and insertion of `onInitialData`. Names are sequences
over the three kinds of characters the format knows: commas, backslashes, others.
`Escape`, `Decode` and `Readable` say what writing and reading do to such a name: a comma
gets a backslash, reading removes a backslash before a comma twice (`readCommas` and then
`replace_all`), and a name that ends in a backslash swallows the next column, so that a
number does not parse and loading stops there. The character looked at before the
beginning of an empty string (`DB_Row.hpp:116`) is never a backslash with the string
classes this code is built with, and has no effect.

**MapChunks**, **TextFormat** and **World** are what clients are shown. MapChunks is the
loop of `processMapSend`, one action per packet (a byte of the map is its offset, a packet
where it begins and how long it is); a write behind the list of packets is recorded in
`overrun`, after which the process may crash. TextFormat is the loop of
`format::player::multiLine`, one action per line. World extends both with the map sends,
`spawnPlayer`/`spawnPlayers`, `updatePosition`, leaving, and the movement and chat cases of
`onData`: `pos` is `Player::pos`, whatever its memory held until `spawnPlayer` sets it;
`shown` is where each client shows each player when it applies every packet it was sent.
Coordinates are 16 bits (`Wide`) and offsets 8 (`Narrow`), wrapping as in the code. Where
PlayerSession is about sends that fail, every send of World arrives.

**Packets** and **Connection** are the byte streams between the server and clients in the
game. Packets is `Packet<...>::StaticLength`: an id and fields of fixed sizes, each one
`send()` or `receive()` whose result nobody looks at. In Connection `OnData` takes an id in
the poll, `ReceiveField` one field on the only thread, blocked while nothing is there,
`SendPiece` one field of a chat broadcast, blocked while the connection is full;
`ReceiveThrows` and `SendFails` are a peer that closed. What is in flight is how many bytes have
`arrived` and how many the server has `taken`.

**Logging** is `outputLogger`, one operation of a log call per action (`Clear`, `Put`, `Lock`,
`WriteHead`, `WriteBody`, `WriteTail`, `Unlock`), because the stream for the time is shared
and used before the mutex is taken; a write may throw, the file may fail, other code writes
to `cout`. **Heartbeat** extends it with `beat()` on the server's thread and `doHeartBeat()` on
its own, which share the static `ServerInfo`; thread and `ServerInfo` live on when the launcher restarts
the server (`Restart`), which queues `beat` again.

The modules named `*_proofs` hold the theorems, one for each component; **SequenceFacts** holds the lemmas about
naturals and sequences that three of them share. `PROJECT.json` maps every definition to its lines.

How they compose: Engine's `MapTask` with `ChunkEnds`, `OnConnectionData` with `Adopt`, and `PlayerData` with `PlayerStays` and `PlayerLeaves` are what
Engine sees of PlayerSession's actions, which take each as one step; Engine's fairness of `BeginStep` and
PlayerSession's of `MapTask` are what `EventuallyTaken` of SchedulerForever gives;
PlayerSession's `StillListening` and `MapSendSafe` describe exactly what is still in
the `io_service` and the queue when Engine destroys them. World is composed of MapChunks
and TextFormat, Heartbeat of Logging, Connection of Packets (EXTENDS). Connection opens up
what PlayerSession and World take as one step, a packet that is received whole and a
broadcast, and shows whom Engine's waits wait for; Heartbeat opens up Engine's `Beat` and `HeartbeatEnds`.

Operators that are named *Mutant of X* are X with a plausible bug; they are used by no
specification. Each property of a passing run has one that TLC refutes it with, which
shows that the property says something about that line of the code.

## 3. Runs

| run | instance | what it shows |
|---|---|---|
| `session` | 3 players, 1 packet, 1 chunk, ids 0..2, deferred aborts; 1.4 M states | `RosterConsistent`, `MapSendSafe`, `StillListening`, `IdsBookkept`, `ViewsExact`, and that PlayerSession implements PlayerLifecycle |
| `session_live` | 2 players, 2 packets, 2 chunks, one id before the signed char ends | `EventuallyReaped`, `MapSendEnds` under fairness, `HandlersOwned` |
| `session_assert` | 1 player | **violated**: `NoAssertFails` |
| `session_waits` | 2 players | **violated**: `WaitsForNextStep` |
| `sched` | SchedulerForever: 3 tasks at a time made without end, delays 0 and 2, clock changes by 1 both ways, no end of time; 1.2 M states | `SleepBounded`, `InOrder`, `NeverEarly`, `SigintStops`, `EventuallyTaken`, and that the scheduler implements OneShotTasks |
| `engine` | 2 clients, 2 lives, `--autoRestart`, refusals; 65 k states | `OneStep`, `AcceptsUntilRefused`, `SocketsOwned`, `SigintNoAutoRestart`, and, where no client blocks the thread for ever, `SigintEndsStart` and `EventuallyServed` |
| `playerdb` | 8 names, 3 rows, 3 lives; 0.8 M states | `IndexSound`, `SavedNamesReturn`, `DuplicatesHaveCommas` |
| `world` | 2 players, 3 places, packets of 4 bytes, lines of 5 characters; 0.4 M states | `MapWhole`, `DriftWhole`, `StepsShown`, `FacingShown`, `ChatKept`, `ChatEnds` |
| `connection` | 2 clients, 1 or 2 packets each, room for 4 bytes; 0.2 M states | `InStep`, `WaitsForDebtor`, `AllHandled` |
| `heartbeat` | 2 threads, 1 log call each, 4 beats, 2 restarts of the server; 0.5 M states | `LinesWhole`, `StampsOwn`, `OneOverwritePerLife`, `LogEnds` |
| `engine_disallow` | 2 clients, refusals | **violated**: `AlwaysAccepting` |
| `engine_unload` | 1 client | **violated**: `NoUnloadedCode` |

Type invariants are checked in `session`, `sched` and `connection`, and proved for all components.

Deadlock is not checked in any run: the server really stops (SIGINT, a failed
assertion, an uncaught exception, the answer `n`), and bounded models end when their
bounds are used up.

Bounds, and why they are enough:

* Three players are the fewest with which a broadcast made by one meets a receiver
  that fails and, walking on, a third that is skipped, told or fails in turn; with three
  ids the third join already happens with ids freed and reused, and `Bits`
  one above `LastSigned` or two above it lets the index run past the signed range.
  One packet per run of `session` is enough to start every kind of broadcast, because
  its three audiences (`Audiences`) are chosen in the action; two chunks are checked in
  `session_live`, where a map task is queued again.
* Three tasks with delays 0 and 2 give equal times, times in the past, and a task made
  by another one that overtakes a third; a change of 1 is smaller than the delay and
  larger than nothing. Nothing is bounded but how many tasks exist at a time: time is relative (`Pass`), objects are recycled, and the
  number of clock changes, signals and tasks made one after another has no bound. One task that waits, one that makes, one that is
  made are the fewest with which the first can be overtaken for ever, and it is with the mutant of `Tops`.
  The theorems are about `Spec` of TaskScheduler, where time is absolute and ends at an arbitrary `MaxTime`.
* Two clients and two lives: one client can be served while the other is accepted, and the
  second life starts with what the first left behind.
* World: two players are a shower and a shown; two moves are one while the map loads and one
  after it, or two steps that add up. `Wide` = 16 over `Narrow` = 4 keeps the code's ratio of
  sizes where offsets are cut; the places differ by steps that fit the offset, by its
  largest multiple and by a wrap. A map of 10 bytes in packets of 4 ends with a short packet, one of 4
  with a full one. One name leaves two characters of a line to the text and the other none.
* Connection: fields of one and two bytes are the shortest that can arrive in parts; the bytes in
  them include ids, so a shifted stream is read as other packets; a connection with room for 4
  bytes holds one chat packet and not two, so broadcasts fill it in the middle of a packet.
* Heartbeat: one call of each thread gives a line before, across and after one of the other; with two
  restarts three beats of three lives can meet one thread, and a fourth comes after it. The theorems have no bound on either.
* The eight names are one for each way the file format treats a name (see PlayerDBMC); three
  rows let a player join after two others have become duplicates; three lives let one that does not
  save, or cannot read the file, come between a save and a load.

## 4. Fairness

One thread runs everything, and it never stops taking tasks: weak fairness of its
steps (`BeginPoll`, `PlayersStep`, every completed handler of PlayerSession; `Main` in
Engine; the steps of `start()` in SchedulerForever). Strong fairness is used where another task of the same
queue may be taken first: a map task in PlayerSession and the server step in Engine. A
task that is queued now has a time; later tasks get later times, but for the clock; so it is overtaken
finitely often. This is what `EventuallyTaken` checks, under weak
fairness of `start()` and of time alone, with tasks made without end.

In Engine a completed accept is assumed to be reported by the operating system. `poll()` runs what is ready:
strong fairness of serverClass's handlers, which those of players, entered in between, do not overtake for ever, and of
`EndStep`, which says that clients do not send faster than the thread handles it. *That a wait for a client ends is not assumed*:
no fairness is given to `WaitEnds`, because `recv` in `onInitialData` (`Players.cpp:94`) and `onData`
(`Player.cpp:118`, `:152`, `:167`) and every blocking send last as long as the client likes. One client that stops in the middle of
its handshake stops the server, SIGINT included; `EventuallyServed` and `SigintEndsStart` therefore begin with
`Responsive`, no client keeps the thread for ever, which Connection states of the single bytes. PlayerSession's
`EventuallyReaped` and `MapSendEnds` take packets as received whole and sends as ended, so they rest on the same
assumption. Nothing is assumed of the heartbeat. Functions the scheduler calls may take any time but end (weak fairness of
`Finish`), which for the server's functions is `Responsive` again.

World: the loop of `multiLine` and the broadcast after it go on (one thread, inside one
handler). Connection: the thread goes on while it can (weak fairness of `ReceiveField`,
`ReceiveThrows`, sends); the `io_service` runs completed handlers in the order they become ready,
so the handler of each connection, disabled again and again while others are inside theirs, gets strong
fairness; that clients go on sending what they began and reading what they got is an
assumption on the clients, and `AllHandled` says what the server makes of it. Heartbeat: the
operating system runs both threads; the mutex need not be fair, as the
number of calls is bounded.

## 5. What is proved

Every safety property and every action property that a passing run checks, and both refinements, are proved, for
every value of the constants, from the named assumptions on them:

* `SessionAssumption`, `SchedulerAssumption`, `EngineAssumption`, `ChunksAssumption`, `LoggingAssumption`,
  `HeartbeatAssumption`: ranges of the parameters.
* `WorldAssumption`, `FormatAssumption`: ranges, that the 16 bits are a multiple of the 8, and that names, messages
  and the separator are texts.
* `DatabaseAssumption`: names are texts over the three kinds of characters.
* `LayoutAssumption`, `ConnectionAssumption`: a packet the server knows has fields, none of them empty; clients send
  packets and nothing else (`Message`; of an id the switch does not have, anything); a chat packet has at least one
  field; there are finitely many clients, and a connection has room for at least a byte.

* **PlayerSession_proofs**: `TypeCorrect`, `RosterAlwaysConsistent`,
  `MapSendAlwaysSafe`, `AlwaysListening`, `HandlersAlwaysOwned`. The invariant `IInv`
  ties five things together while the server is up (`Sound`): the roster, the map tasks, the
  receives, the handlers and the stages. None of them is inductive alone: that the map
  task of a player is cancelled when it leaves needs that a player in `world` without a
  task is in `members`; that a handler runs on a living player needs the receives;
  each handler must re-establish all of them for every set of players that a
  broadcast loses. Lemmas about `Disconnect`, `DisconnectThrows`, `Views` and `GoesOn` say this once, the
  handlers cite them. `HandlersAlwaysOwned` is for the reactors only (`~DeferredAborts`).
  On top of `IInv`: `IdsAlwaysBookkept`, `ViewsAlwaysExact`, `LifecycleImplemented`.
  Only a join and a `Players::step` touch the ids and the list, so `IdsBookkept` is inductive with the types. Because ids
  tell listed players apart as long as nothing undefined happened, an unspawn takes only the player that leaves
  out of the clients' views. `ViewsExact` ends with the first send that fails inside a broadcast, where the loop goes on over an erased iterator. For
  `LifecycleImplemented` each handler becomes a `Connect`, `EnterWorld`, `Leave`, `Delete` or `Down` of PlayerLifecycle, or a
  stutter: a whole recursion of failing sends is one `Leave` of the set of players it loses.
* **TaskScheduler_proofs**: `TypeCorrect`, `NeverOversleeps`, `AlwaysInOrder`,
  `AlwaysNeverEarly`, `SigintAlwaysStops`, `Refinement`. The invariant says that a popped task
  is in neither the queue nor the past (`Popped`), that a call time and a due time differ by what the clock showed when the
  task was made, which is one of its two readings (`DueTimes`), that the thread sleeps for the task it popped, and for how long (`Asleep`), and
  that what it has popped since a signal is what it held then (`Held`).
  `NeverEarly` and `SigintStops` are action properties that follow from the last three. `Refinement` shows that `Start`,
  `Take`, `Sleep`, the clock and SIGINT are stutters of OneShotTasks and every other step is one of its steps.
* **Engine_proofs**: `TypeCorrect`, `AlwaysOneStep`, `AlwaysAcceptsUntilRefused`,
  `AcceptsAll` (where no hook refuses), `SocketsAlwaysOwned`, `SigintNeverAutoRestarts`.
  `Fresh` is needed because a life must start with nothing of the last one;
  `Accepting` because `new_connection` must find exactly one client; `Remembered` because the
  scheduler that knows of the signal is destroyed before the launcher asks; `Handled` because the client the thread
  waits for must still be the one whose socket changes hands when the wait ends.

* **SequenceFacts** (lemmas only): every non-empty set of naturals has a least element, which `Min` is
  (`LeastNatural`, from the well-foundedness of the finite sets), hence `Induction` over a set of naturals. With it,
  `FlattenSeq`, which is a recursive function, can be reasoned about for sequences of any length: one element more is
  that sequence behind the rest (`FlattenAppend`), and each element is found behind those before it (`FlattenAt`).
* **PlayerDB_proofs**: `TypeCorrect`, `IndexAlwaysSound`, `SavedNamesAlwaysReturn`, `DuplicatesAlwaysHaveCommas`.
  `Indexed` says where every name is found. The first part is about texts of any length, by induction:
  `UnescapeEscape` (one of the two removals of backslashes undoes `Escape`), `UnescapePlain` and `CommaKept` (the
  other one changes only names that have, and keep, a comma), `EscapeBacked` (no comma is bare), hence `CleanReturns`.
  `Written` then ties what is saved to the lines of the file: `kept` is empty from the moment a save is begun. Neither half of `DuplicatesHaveCommas` is
  inductive alone: rows differ because lines do, lines because the rows written did, so `Distinct` is kept of both.
* **Connection_proofs**: `TypeCorrect`, `AlwaysInStep`, `AlwaysWaitsForDebtor`, for any clients, packets, sizes and
  capacities. `Followed` says where in a client's stream the server is: between handlers at the end of the packets it has
  handled, in the middle of one (`Midway`) behind its id and the fields received, each of them what was sent. `StreamAt` and
  `FieldAt` find packet and field at that place in the concatenated stream, so a full receive takes exactly the
  next field. That needs `Types` (no more is taken than has arrived) and `Busy` (there is a field left to
  receive). A client that has nothing there then owes the field that is waited for, which is `WaitsForDebtor`.
* **World_proofs**: `TypesAlwaysHold`, `MapAlwaysWhole`, `DriftAlwaysWhole`, `FacingAlwaysShown`,
  `StepsAlwaysShown`, `ChatAlwaysKept`, for any number of players, axes and moves and for all sizes. The first part is
  arithmetic: `Cong` (equal but for a multiple) is compatible with sums and with remainders, so that an
  offset cut to 8 bits keeps a position modulo 256 (`OffsetKeeps`) and is exact for short steps
  (`OffsetExact`). `Views` is then inductive with `ViewTypes`: a join changes the position of somebody
  nobody shows yet, the last map packet puts `pos` and what is shown at the spawn at
  once, every move shifts both alike. For the map, `CutInv` says that the first `cut` packets are the
  pieces `Ith` and where the loop must be; `MapInv` that nobody joins before the loop has ended, and that
  what a player was sent is a prefix of the packets. `CeilBounds` and `Monotone` turn the bound of the
  do-while into "exactly the multiples". `ChatKept` is inductive with the types of the texts: `LineCut` says that a
  line without the name, and what is left, are the text that was cut, which is where a name that fills the line fails.
* **Heartbeat_proofs**: `TypesAlwaysHold`, `LinesAlwaysWhole`, `StampsAlwaysOwn`,
  `AtMostOneOverwritePerLife`, for any number of calls, arguments, direct texts, beats and restarts. The invariant `LogInv`
  says for each of file and console which piece came last before the present one (`Lines`), that
  the owner of the mutex is the thread between `head` and `unlock`, and what the shared stream holds for
  a thread nobody met; `BeatInv` that a beat which found the thread running left none in the queue until the server restarts, so that
  (`Ahead`) the thread sees no beat later than the one that started it by more than the restarts since allow.

Only model-checked: what is temporal (`EventuallyReaped`, `MapSendEnds`, `EventuallyTaken`, `SigintEndsStart`,
`EventuallyServed`, `ChatEnds`, `AllHandled`, `LogEnds`), because liveness and ENABLED are out of the prover's
reach, and the four properties that the code violates.

## 6. Where the code disagrees with itself

1. `World::checkPlayer` asserts that a leaving player is in the world (`World.cpp:193`); it is
   not before its map has been sent. `session_assert`.
2. `disconnect(); // Wait for next step` (`Player.hpp:157`): the aborted receive
   disconnects a second time and throws (`Player.cpp:108`, `:79`). `session_waits`.
3. Events.hpp says an event's status disallows *the* connection; it ends accepting
   (`Server.cpp:87`). `engine_disallow`.
4. The plugin is freed before the objects that hold its handlers (`Launcher.cpp:92`);
   `ClassicPlugin/exitcrash.txt` is that crash. `engine_unload`.

The models also show, without a statement of the repository to hold against it: a heartbeat
slower than a minute is the last until the server restarts (`Beat`), and each restart during it overwrites the data it reads once more; tasks
run early by the hour the clock is set forward, and late by the hour it is set back; after a SIGINT that comes between the test
of the loop and the call one more function is entered; SIGINT during destruction or construction is
lost (`Engine!Load` resets it); a player whose name has a backslash
before a comma is loaded under another name, which may be that of another player; a name that ends in a
backslash makes the next life forget it and everybody after it, and its save makes that final, as the
save of a life that could not open the file for reading does for all players; a failing accept, a client that resets its connection
before `remote_endpoint`, or one exception in any handler ends the whole server. Of what clients are shown: a step
of more than a signed byte moves a player by a multiple of 256 for the others, for good; after a move that also
turns, heading and pitch are exchanged until the next turn without a move (`World.cpp:241`); a compressed map of
a multiple of 1024 bytes makes `processMapSend` write behind its list; a name that with its `: ` fills a line makes
`multiLine` go on until the memory ends. Of the streams: a field that arrives in two parts shifts the rest of
that client's stream for good, and a client that stops in the middle of a packet, its first one included, stops everybody, and SIGINT. Of the log: the
time of a line may be missing or doubled where two calls meet, and a write that throws leaves the mutex locked, so that the next log
call never ends.

## 7. Plan

Done, in this order: PlayerSession with PlayerLifecycle; TaskScheduler with OneShotTasks and SchedulerForever; Engine; PlayerDB;
MapChunks, TextFormat and World; Packets and Connection; Logging and Heartbeat; theorems for all
their safety and action properties.

What is left is small or out of reach. Connection with short sends seen by the client (its bytes instead of their
number) would show the same shift in the other direction. The table of plugins and the order of
hooks become worth a module once the program loads a second plugin. An abstract specification of Connection, the
packets of each client handled in order, would say with `ImplementsLifecycle` what a session sees of it. Liveness stays with TLC.

## 8. Not modelled

* Vendored code: zlib's headers, json_spirit under `plugins/mcbans` (of the plugin itself nothing is
  here), `libNBT/NBTLib.hpp`, the header of a binary library that reads the map file.
* `ReleaseMPPlugin`: older copies of the ClassicPlugin and a `Protocol39.hpp` for another client that
  the current headers do not compile with. `SFArMC++`: a stub of packet builders. `TestPlugin.cpp`: an example hook
  that allows everyone. Binaries and doxygen files.
* Dead code: the physics of `World` (its thread and task are commented out, `World.cpp:73-74`), CSVDB's row
  updates, the plain `multiLine` and the `sendChat` that calls it, `DynamicLength` packets: nothing calls them.
* The table of loaded plugins (`Get`, `Has`, `Unload` by name, `Reload`): the launcher loads one plugin once. Event chains: templates over
  boost::signal; the hooks the server calls are outcomes in Engine and PlayerSession.
* Contents nothing depends on: the wording of logs, block types, the numbers of a database row, option parsing, the HTTP text of the
  heartbeat, the bytes of what the server sends.

The first two items and declarations without behaviour are most of the lines under `src/`, so a map of definitions to
lines stays a small part of them; of the files the server is built from, the map covers the functions named above.
