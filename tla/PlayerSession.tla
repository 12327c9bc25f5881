---------------------------- MODULE PlayerSession ----------------------------
(***************************************************************************)
(* The players of the ClassicPlugin: the list kept by Players, one Player  *)
(* object per connection, the roster of the world "Default" (the only      *)
(* world the code ever joins) and what the client of each player has been  *)
(* told about the others.  One action per handler the single server thread *)
(* runs: a map-send task, the poll of the io_service with its completion   *)
(* handlers, Players::step, Players::~Players.                             *)
(*                                                                         *)
(* A handler runs to its end, to an exception nobody catches, to a failed  *)
(* assert or to a crash, so it is one action however many sends it makes.  *)
(* A send to a client that has gone may fail; the failure disconnects that *)
(* player from inside the loop that is sending.                            *)
(***************************************************************************)
EXTENDS Integers, FiniteSets

CONSTANTS
    MaxJoin,       \* bound: how many Player objects are ever constructed
    MaxData,       \* bound: how many packets the clients send in all
    Chunks,        \* level chunks of the map, at least one
    LastSigned,    \* the last id a signed char reaches (127 in the code)
    Bits,          \* IDS.size(), also the largest uint8_t (255 in the code)
    DeferredAborts \* TRUE: a cancelled receive may complete after a later
                   \* poll (Windows IOCP); FALSE: the poll that follows runs
                   \* it (the POSIX reactors)

ASSUME SessionAssumption ==
    /\ MaxJoin \in Nat /\ MaxData \in Nat
    /\ Chunks \in Nat \ {0}
    /\ LastSigned \in Nat /\ Bits \in Nat /\ LastSigned < Bits
    /\ DeferredAborts \in BOOLEAN

VARIABLES
    proc,      \* "sched": Tasks->start picks a task; "poll": inside
               \* io_service.poll(); "throw": an exception left Tasks->start;
               \* "assert", "crash", "stopped": the plugin is gone
    joined,    \* Player objects constructed so far; they are 1..joined
    players,   \* Players::players, in the order of their numbers
    IDS,       \* Players::IDS, the ids whose bit is set
    id,        \* Player::ID
    disc,      \* Player::disconnected: "no", "maybe" (indeterminate), "yes"
    world,     \* players whose currentWorld is not null
    members,   \* World::Players
    visible,   \* players whose uninitialised isVisible reads true
    mapTask,   \* players with a map-send task queued and not cancelled
    sent,      \* level chunks sent to each player
    recv,      \* the async_receive of each player: "none" outstanding,
               \* "armed", or completed, its handler waiting in the
               \* io_service: "ready" (one byte), "failed" (an error)
    gone,      \* players whose client has closed its end
    budget,    \* packets the clients may still send
    view,      \* ids the client of each player has been shown
    ubs        \* undefined behaviour met and survived so far

peerVars == <<gone, budget>>
idVars == <<joined, IDS, id, visible>>
vars == <<proc, joined, players, IDS, id, disc, world, members, visible,
          mapTask, sent, recv, gone, budget, view, ubs>>

Player == 1..MaxJoin
Byte == 0..Bits
Up == proc \in {"sched", "poll"}

Init ==
    /\ proc = "sched"
    /\ joined = 0
    /\ players = {} /\ IDS = {} /\ world = {} /\ members = {}
    /\ visible = {} /\ mapTask = {} /\ gone = {} /\ ubs = {}
    /\ id = [p \in Player |-> 0]
    /\ disc = [p \in Player |-> "no"]
    /\ sent = [p \in Player |-> 0]
    /\ recv = [p \in Player |-> "none"]
    /\ view = [p \in Player |-> {}]
    /\ budget = MaxData

-----------------------------------------------------------------------------
(* The client's side.                                                      *)

PeerLeaves(p) ==
    /\ Up /\ p \in players \ gone
    /\ gone' = gone \cup {p}
    /\ UNCHANGED <<proc, idVars, players, disc, world, members, mapTask, sent,
                   recv, budget, view, ubs>>

PacketArrives(p) ==
    /\ Up /\ recv[p] = "armed" /\ budget > 0
    /\ recv' = [recv EXCEPT ![p] = "ready"]
    /\ budget' = budget - 1
    /\ UNCHANGED <<proc, idVars, players, disc, world, members, mapTask, sent,
                   gone, view, ubs>>

ReceiveFails(p) ==
    /\ Up /\ recv[p] = "armed" /\ p \in gone
    /\ recv' = [recv EXCEPT ![p] = "failed"]
    /\ UNCHANGED <<proc, idVars, players, disc, world, members, mapTask, sent,
                   peerVars, view, ubs>>

-----------------------------------------------------------------------------
(* How a handler ends when sends fail.                                     *)

\* An exception leaves the handler, poll(), serverClass::step and
\* Tasks->start() before the handler has changed anything.
Throw ==
    /\ proc' = "throw"
    /\ UNCHANGED <<idVars, players, disc, world, members, mapTask, sent, recv,
                   peerVars, view, ubs>>

\* The plugin is gone.  What was in its memory and on its connections is
\* cleared, to keep the states of dead servers few.
Cleared ==
    /\ IDS' = {} /\ mapTask' = {} /\ gone' = {} /\ ubs' = {} /\ budget' = 0
    /\ recv' = [p \in Player |-> "none"]
    /\ sent' = [p \in Player |-> 0]
    /\ view' = [p \in Player |-> {}]
    /\ UNCHANGED <<joined, id, visible>>

\* A failed assert or a crash.
Dies(how) == proc' = how /\ Cleared /\ UNCHANGED <<players, disc, world, members>>

\* The players of M whose sends fail when a packet goes to the players R:
\* none, or some of R that have gone and, if one of those is visible, others
\* of M that the Unspawn broadcast of its disconnect() finds gone.
FailSets(M, R) ==
    {F \in SUBSET (M \cap gone) :
        \/ F = {}
        \/ F \cap R # {} /\ (F \subseteq R \/ F \cap R \cap visible # {})}

\* World::broadcastPacket(p, p2) and spawnPlayers compare ids, not objects.
Others(p) == {q \in members : id[q] # id[p]}

\* Mutant of Disconnect: leaveCurrentWorld forgets removePlayer.
DisconnectStaysListed(D, M, t, r) ==
    /\ mapTask' = t \ D
    /\ members' = M
    /\ world' = world \ D
    /\ recv' = [q \in Player |->
                  IF q \in D /\ r[q] = "armed" THEN "failed" ELSE r[q]]
    /\ disc' = [q \in Player |-> IF q \in D THEN "yes" ELSE disc[q]]

\* disconnect() of the players D, all of it: the map task is cancelled,
\* leaveCurrentWorld, then cancel, shutdown and close of the socket, which
\* completes an outstanding receive with an error.
Disconnect(D, M, t, r) ==
    /\ mapTask' = t \ D
    /\ members' = M \ D
    /\ world' = world \ D
    /\ recv' = [q \in Player |->
                  IF q \in D /\ r[q] = "armed" THEN "failed" ELSE r[q]]
    /\ disc' = [q \in Player |-> IF q \in D THEN "yes" ELSE disc[q]]

\* disconnect() of the players D when the shutdown of player x throws: S are
\* the players inside whose Unspawn broadcast that happens, so they are still
\* in the world; the rest of D was disconnected before.  The exception leaves
\* poll() or the map task, serverClass::step and Tasks->start().
DisconnectThrows(D, outer, M, t, r) ==
    /\ \E x \in D : \E S \in SUBSET ((D \cap visible) \ {x}) :
          /\ outer \subseteq S \cup {x}
          /\ members' = (M \ D) \cup S
          /\ world' = (world \ D) \cup S
          /\ recv' = [q \in Player |-> IF q \in D \ S /\ r[q] = "armed"
                                       THEN "failed" ELSE r[q]]
          /\ disc' = [q \in Player |-> IF q \in S \cup {x} THEN "maybe"
                                       ELSE IF q \in D THEN "yes" ELSE disc[q]]
    /\ mapTask' = t \ D
    /\ proc' = "throw"
    /\ UNCHANGED <<idVars, players, peerVars, view, ubs>>

\* Mutant of Views: the Unspawn packets are not sent.
ViewsNoUnspawn(M, D, told, shown, missed) ==
    [q \in Player |-> IF q \in (M \ D) \cap told THEN view[q] \cup shown
                      ELSE view[q]]

\* What the clients of M see once the Spawn with the ids in `shown' reached
\* told, and the Unspawn of each visible player of D all but those in missed.
Views(M, D, told, shown, missed) ==
    [q \in Player |->
        IF q \in M \ D
        THEN (view[q] \cup (IF q \in told THEN shown ELSE {}))
                \ {id[d] : d \in {e \in D \cap visible : <<q, e>> \notin missed}}
        ELSE view[q]]

\* A disconnect inside a loop over World::Players erases the element the loop
\* stands on; its ++ then reads a freed node, and whom the loop goes on to
\* skip is anyone's guess.
Skippable(F, D, M) == IF F = {} THEN {} ELSE (M \ D) \X (D \cap visible)

Iterated(F) == ubs \cup (IF F = {} THEN {} ELSE {"iterator"})

\* A handler goes on after the players D were disconnected, F of them inside
\* a loop over World::Players.
GoesOn(F, D, r) ==
    /\ Disconnect(D, members, mapTask, r)
    /\ ubs' = Iterated(F)
    /\ \E missed \in SUBSET Skippable(F, D, members) :
          view' = Views(members, D, {}, {}, missed)
    /\ UNCHANGED <<proc, idVars, players, sent, peerVars>>

-----------------------------------------------------------------------------
(* io_service.poll(): completion handlers.                                 *)

BeginPoll ==
    /\ proc = "sched"
    /\ proc' = "poll"
    /\ UNCHANGED <<idVars, players, disc, world, members, mapTask, sent, recv,
                   peerVars, view, ubs>>

\* Mutant of FreeIds: the ids in use are not skipped.
FreeIdsFirst == {0}

\* Players::getFreeID: the first free id the signed char reaches; beyond it
\* the bits are read outside the bitset, so any higher id may come back.
FreeIds ==
    LET free == (0..LastSigned) \ IDS
    IN  IF free # {} THEN {i \in free : \A j \in free : i <= j}
                     ELSE (LastSigned + 1)..(Bits - 1)

\* Players::add enters the new player in the list and in IDS.
Enlist(p, i) ==
    /\ joined' = p
    /\ players' = players \cup {p}
    /\ id' = [id EXCEPT ![p] = i]
    /\ IDS' = IDS \cup {i}
    /\ ubs' = ubs \cup (IF i > LastSigned THEN {"index"} ELSE {})

\* joinWorld("Default") and sendMapInit: the first map task is queued.
JoinWorld(p) ==
    /\ world' = world \cup {p}
    /\ mapTask' = mapTask \cup {p}

\* The constructor of Player; isVisible holds whatever the memory held.
Construct(p) ==
    /\ JoinWorld(p)
    /\ recv' = [recv EXCEPT ![p] = "armed"]
    /\ \E vis \in BOOLEAN : visible' = visible \cup (IF vis THEN {p} ELSE {})

\* on_connection_data and Players::onInitialData for a client whose handshake
\* succeeds, even if it leaves right afterwards.
Join ==
    /\ proc = "poll" /\ joined < MaxJoin
    /\ \E i \in FreeIds : Enlist(joined + 1, i)
    /\ Construct(joined + 1)
    /\ \E left \in BOOLEAN : gone' = gone \cup (IF left THEN {joined + 1} ELSE {})
    /\ UNCHANGED <<proc, disc, members, sent, budget, view>>

\* The handshake fails: a receive or send throws, or serverFull is rethrown
\* ("throw"); the level-init packet fails while sendMapTask is still null, or
\* the read beyond the bitset faults ("crash").
JoinFails ==
    /\ proc = "poll" /\ joined < MaxJoin
    /\ Throw \/ Dies("crash")

\* Mutant of OnData: it returns without arming the receive again.
OnDataDeaf(p) ==
    /\ proc = "poll" /\ recv[p] = "ready" /\ p \in players /\ disc[p] = "no"
    /\ recv' = [recv EXCEPT ![p] = "none"]
    /\ UNCHANGED <<proc, idVars, players, disc, world, members, mapTask, sent,
                   peerVars, view, ubs>>

\* Whom the packet of p is passed on to: nobody (a movement of nothing, an
\* unknown packet), the others in the world (a movement) or everybody in it (a
\* block change, chat).
Audiences(p) == {{}, Others(p), members}

\* onData with one byte for a player still connected; at its end the receive is
\* armed again, on a closed socket if p itself could not be sent to.
OnData(p) ==
    /\ proc = "poll" /\ recv[p] = "ready" /\ p \in players /\ disc[p] = "no"
    /\ \E R \in Audiences(p) : \E F \in FailSets(members, R) :
          \/ GoesOn(F, F, [recv EXCEPT ![p] = "armed"])
          \/ F # {} /\ Dies("crash")
          \/ /\ F # {}
             /\ DisconnectThrows(F, {}, members, mapTask, [recv EXCEPT ![p] = "none"])
             /\ UNCHANGED sent

\* onData whose blocking recv() of the packet's fields throws: the client has
\* gone, or disconnect() closed the socket while this handler was waiting.
OnDataThrows(p) ==
    /\ proc = "poll" /\ recv[p] = "ready" /\ p \in players
    /\ p \in gone \/ disc[p] = "yes"
    /\ Throw

\* onData for a player disconnected while the handler was waiting, with a
\* movement (no world, so it is not even read) or an unknown packet: the
\* receive is armed on the closed socket and fails.
OnDataLate(p) ==
    /\ proc = "poll" /\ recv[p] = "ready" /\ p \in players /\ disc[p] = "yes"
    /\ recv' = [recv EXCEPT ![p] = "failed"]
    /\ UNCHANGED <<proc, idVars, players, disc, world, members, mapTask, sent,
                   peerVars, view, ubs>>

\* onData with an error, for a player in the world: disconnected becomes
\* indeterminate, which keeps broadcasts away from it, then disconnect().
OnError(p) ==
    /\ proc = "poll" /\ recv[p] = "failed" /\ p \in players /\ disc[p] = "no"
    /\ p \in members
    /\ LET r == [recv EXCEPT ![p] = "none"]
           R == IF p \in visible THEN members \ {p} ELSE {}
       IN  \E F \in FailSets(members \ {p}, R) :
             \/ GoesOn(F, F \cup {p}, r)
             \/ /\ DisconnectThrows(F \cup {p}, {p}, members, mapTask, r)
                /\ UNCHANGED sent
             \/ F # {} /\ Dies("crash")

\* The same for a player whose map is still being sent: unSpawnPlayer or
\* unSpawnPlayers asserts that the player is in World::Players.
OnErrorAsserts(p) ==
    /\ proc = "poll" /\ recv[p] = "failed" /\ p \in players /\ disc[p] = "no"
    /\ p \notin members
    /\ Dies("assert")

\* The same for a player already disconnected: indeterminate overwrites true,
\* disconnect() runs again and sock->cancel() throws, the socket being closed.
OnErrorAgain(p) ==
    /\ proc = "poll" /\ recv[p] = "failed" /\ p \in players /\ disc[p] = "yes"
    /\ proc' = "throw"
    /\ disc' = [disc EXCEPT ![p] = "maybe"]
    /\ recv' = [recv EXCEPT ![p] = "none"]
    /\ UNCHANGED <<idVars, players, world, members, mapTask, sent, peerVars,
                   view, ubs>>

\* onData of a Player that Players::step has deleted.
OnFreed(p) ==
    /\ proc = "poll" /\ recv[p] \in {"ready", "failed"} /\ p \notin players
    /\ Dies("crash")

-----------------------------------------------------------------------------
(* Players::step, at the end of serverClass::step.                         *)

\* Mutants of Reaped: only the head of the list is looked at; the test of
\* Player::step is inverted.
ReapedHead == {p \in players : disc[p] = "yes" /\ \A q \in players : p <= q}
ReapedInverted == {p \in players : disc[p] # "yes"}

\* What one Players::step deletes: the disconnected players, but after a
\* deletion the loop starts again at the second of the list, so the player
\* that became first is not looked at.
Reaped ==
    LET dead == {p \in players : disc[p] = "yes"}
        Second(q) == /\ Cardinality({p \in players : p < q}) = 1
                     /\ \E p \in dead : p < q
    IN  {q \in dead : ~Second(q)}

\* `delete *it; IDS.reset((*it)->id())': the id that is reset is read from
\* freed memory; bitset::reset throws for an id that is out of range, which
\* leaves the list with a deleted player in it.
Reap ==
    \E read \in [Reaped -> Byte] :
        LET wild == {p \in Reaped : read[p] = Bits}
            done == {p \in Reaped : \A w \in wild : p < w}
        IN  /\ players' = players \ done
            /\ IDS' = IDS \ {read[p] : p \in done}
            /\ ubs' = ubs \cup (IF \E p \in done : read[p] # id[p]
                                THEN {"freed"} ELSE {})
                          \cup (IF wild # {} THEN {"listed"} ELSE {})
            /\ proc' = IF wild = {} THEN "sched" ELSE "throw"

\* Mutant of Drained: serverClass::step runs its hooks before poll().
DrainedNever == TRUE

\* poll() has run every handler there was to run.
Drained == DeferredAborts \/ \A p \in Player : recv[p] \in {"none", "armed"}

PlayersStep ==
    /\ proc = "poll" /\ Drained
    /\ Reap
    /\ UNCHANGED <<joined, id, visible, disc, world, members, mapTask, sent,
                   recv, peerVars, view>>

-----------------------------------------------------------------------------
(* Map-send tasks.                                                         *)

\* Mutants of MapChunk: one task too many is scheduled; each task after the
\* end schedules the next; no next task is scheduled.
MapChunkOneTooMany(p) ==
    /\ proc = "sched" /\ p \in mapTask /\ sent[p] + 1 <= Chunks
    /\ sent' = [sent EXCEPT ![p] = @ + 1]
    /\ UNCHANGED <<proc, idVars, players, disc, world, members, mapTask, recv,
                   peerVars, view, ubs>>
MapChunkPastEnd(p) ==
    /\ proc = "sched" /\ p \in mapTask /\ sent[p] <= Chunks
    /\ sent' = [sent EXCEPT ![p] = @ + 1]
    /\ UNCHANGED <<proc, idVars, players, disc, world, members, mapTask, recv,
                   peerVars, view, ubs>>
MapChunkStops(p) ==
    /\ proc = "sched" /\ p \in mapTask /\ sent[p] + 1 < Chunks
    /\ sent' = [sent EXCEPT ![p] = @ + 1]
    /\ mapTask' = mapTask \ {p}
    /\ UNCHANGED <<proc, idVars, players, disc, world, members, recv, peerVars,
                   view, ubs>>

\* sendMapChunk, not the last one.
MapChunk(p) ==
    /\ proc = "sched" /\ p \in mapTask /\ sent[p] + 1 < Chunks
    /\ sent' = [sent EXCEPT ![p] = @ + 1]
    /\ UNCHANGED <<proc, idVars, players, disc, world, members, mapTask, recv,
                   peerVars, view, ubs>>

\* A chunk or the final packet cannot be sent: disconnect() asserts that the
\* player is in World::Players, where only the final packet will put it.
MapSendAsserts(p) ==
    /\ proc = "sched" /\ p \in mapTask /\ p \in gone
    /\ p \notin members
    /\ Dies("assert")

\* The last chunk and sendMapFinal: the player enters the world, is announced
\* to the others and shown each of them.
MapFinal(p) ==
    /\ proc = "sched" /\ p \in mapTask /\ sent[p] + 1 = Chunks
    /\ LET M == members \cup {p}
           R == Others(p)
           t == mapTask \ {p}
       IN  \E F \in FailSets(M, R \cup {p}) :
             \/ \* all is sent, or p fails while the others are shown to it
                /\ p \in F => R # {} /\ (R \subseteq F => p \in visible)
                /\ Disconnect(F, M, t, recv)
                /\ ubs' = Iterated(F \ {p})
                /\ \E told \in IF F \ {p} = {} THEN {R} ELSE SUBSET (R \ F),
                      missed \in SUBSET Skippable(F \ {p}, F, M) :
                      view' = [Views(M, F, told, {id[p]}, missed) EXCEPT
                                 ![p] = IF p \in F THEN @
                                        ELSE {id[q] : q \in R \ F}]
                /\ sent' = [sent EXCEPT ![p] = Chunks]
                /\ UNCHANGED <<proc, idVars, players, peerVars>>
             \/ \* the loop's iterator faults, or p fails before spawnPlayers
                \* is called through a null currentWorld
                /\ F # {} /\ Dies("crash")
             \/ /\ F # {}
                /\ DisconnectThrows(F, {}, M, t, recv)
                /\ sent' = [sent EXCEPT ![p] = Chunks]

-----------------------------------------------------------------------------
(* ~Players, when Tasks->start has returned or thrown: each player is      *)
(* deleted in turn and kicked unless it is disconnected.                   *)

Kicked == {p \in players : disc[p] = "no"}

Destroy ==
    /\ proc \in {"sched", "throw"}
    /\ Kicked \subseteq members
    /\ proc' = "stopped"
    /\ players' = {}
    /\ disc' = [p \in Player |-> IF p \in Kicked THEN "yes" ELSE disc[p]]
    /\ members' = members \ Kicked
    /\ world' = world \ Kicked
    /\ Cleared

\* A player still loading fails the same assert; a send that throws leaves a
\* destructor; a player freed but still listed is deleted twice; a player
\* deleted half disconnected is still in the world's roster when the next
\* visible one is announced to leave.
DestroyDies ==
    /\ proc \in {"sched", "throw"}
    /\ \/ /\ ~ (Kicked \subseteq members)
          /\ Dies("assert")
       \/ /\ \/ Kicked \cap gone # {}
             \/ "listed" \in ubs
             \/ \E q \in (players \cap members) \ Kicked, p \in Kicked \cap visible :
                   q < p
          /\ Dies("crash")

-----------------------------------------------------------------------------
Handler(p) ==
    \/ OnData(p) \/ OnDataThrows(p) \/ OnDataLate(p)
    \/ OnError(p) \/ OnErrorAsserts(p) \/ OnErrorAgain(p) \/ OnFreed(p)

MapTask(p) == MapChunk(p) \/ MapSendAsserts(p) \/ MapFinal(p)

Next ==
    \/ BeginPoll \/ Join \/ JoinFails \/ PlayersStep \/ Destroy \/ DestroyDies
    \/ \E p \in Player :
          PeerLeaves(p) \/ PacketArrives(p) \/ ReceiveFails(p)
          \/ Handler(p) \/ MapTask(p)

Spec == Init /\ [][Next]_vars

\* The server thread never stops taking tasks and poll() runs what is ready.
\* SF for the map tasks: the scheduler takes tasks by their time, and the next
\* server step is always 50 ms later, so a queued map task is overtaken by
\* finitely many of them.
Fairness ==
    /\ WF_vars(BeginPoll) /\ WF_vars(PlayersStep)
    /\ \A p \in Player : WF_vars(Handler(p)) /\ SF_vars(MapTask(p))

FairSpec == Spec /\ Fairness

-----------------------------------------------------------------------------
(* Properties.                                                             *)

TypeOK ==
    /\ proc \in {"sched", "poll", "throw", "assert", "crash", "stopped"}
    /\ joined \in 0..MaxJoin
    /\ players \subseteq 1..joined
    /\ world \subseteq 1..joined /\ members \subseteq 1..joined
    /\ visible \subseteq 1..joined /\ mapTask \subseteq 1..joined
    /\ gone \subseteq 1..joined
    /\ IDS \subseteq Byte
    /\ id \in [Player -> Byte]
    /\ disc \in [Player -> {"no", "maybe", "yes"}]
    /\ sent \in [Player -> 0..Chunks]
    /\ recv \in [Player -> {"none", "armed", "ready", "failed"}]
    /\ budget \in 0..MaxData
    /\ view \in [Player -> SUBSET Byte]
    /\ ubs \subseteq {"iterator", "index", "freed", "listed"}

\* Between handlers, the world's set of raw Player pointers holds only players
\* that exist, are connected and point back to the world, whatever sends
\* failed inside whatever loop; and no player is left half disconnected.
RosterConsistent ==
    Up => /\ members \subseteq world
          /\ world = {p \in players : disc[p] = "no"}
          /\ \A p \in Player : disc[p] # "maybe"

\* A queued map task never runs on a deleted or disconnected player, and every
\* player that has not entered the world has one, with chunks left to send.
MapSendSafe ==
    Up => /\ mapTask = world \ members
          /\ \A p \in Player : p \in mapTask <=> p \in players /\ sent[p] < Chunks

\* A connected player always has a receive outstanding or completed: no
\* handler returns leaving a client that will never be heard again.
StillListening ==
    Up => \A p \in world : recv[p] # "none"

\* With a reactor that runs aborted receives in the next poll, Players::step
\* never deletes a player whose handler is still to run.
HandlersOwned ==
    Up => \A p \in Player : recv[p] # "none" => p \in players

\* As long as no id was read out of freed memory or past the bitset, IDS holds
\* exactly the ids of the listed players, which are all different.
IdsBookkept ==
    Up /\ ubs \cap {"freed", "index"} = {} =>
        /\ IDS = {id[p] : p \in players}
        /\ \A p, q \in players : id[p] = id[q] => p = q

\* As long as no undefined behaviour was met, the client of a player in the
\* world shows every other player of the world, and besides these only players
\* that left while their uninitialised isVisible read false.
ViewsExact ==
    Up /\ ubs = {} =>
        \A p \in members :
            /\ {id[q] : q \in members \ {p}} \subseteq view[p]
            /\ view[p] \subseteq {id[q] : q \in members \ {p}}
                                 \cup {id[q] : q \in (1..joined) \ visible}

\* A disconnected player is deleted by some later step, unless the server goes
\* down first; the element the loop skips is not skipped for ever.
EventuallyReaped ==
    \A p \in Player :
        (Up /\ disc[p] = "yes") ~> (~Up \/ p \notin players)

\* A player whose map is being sent is sent all of it, unless the server goes
\* down first.
MapSendEnds ==
    \A p \in Player : (Up /\ p \in mapTask) ~> (~Up \/ sent[p] = Chunks)

\* World::checkPlayer asserts that the player is in World::Players; no client
\* behaviour should make that false.
NoAssertFails == proc # "assert"

\* After `disconnect(); // Wait for next step' the player stays disconnected
\* until Players::step deletes it: nothing disconnects it a second time.
WaitsForNextStep ==
    [][\A p \in Player : disc[p] = "yes" => disc'[p] = "yes"]_vars

\* The stage of each player's life, for the abstract specification.
Stage ==
    [p \in Player |->
        IF p > joined THEN "absent"
        ELSE IF p \notin players THEN "deleted"
        ELSE IF disc[p] # "no" THEN "left"
        ELSE IF p \in members THEN "playing"
        ELSE "loading"]

Life == INSTANCE PlayerLifecycle WITH up <- Up, stage <- Stage, roster <- members

\* The handlers, tasks and steps implement the lifecycle of PlayerLifecycle.
ImplementsLifecycle == Life!Spec
=============================================================================
