--------------------------------- MODULE World ---------------------------------
(***************************************************************************)
(* The world "Default" and what the client of each player is shown of it:  *)
(* the map, the positions of the others, the chat.  MapChunks is the       *)
(* constructor's cutting of the map, TextFormat the formatting of a chat   *)
(* message; here are the map sends, World's spawn and updatePosition, and  *)
(* the movement and chat cases of Player::onData.                          *)
(*                                                                         *)
(* PlayerSession is about connections that fail, here every send arrives.  *)
(* A client applies each packet as the protocol says; as all packets to it *)
(* are on one TCP stream, what it shows is given by what was sent.         *)
(*                                                                         *)
(* Coordinates are modelled by their low 16 bits (Wide): packets carry no  *)
(* more of them, and the offsets sent are their difference cut to 8 bits   *)
(* (Narrow).  A heading or pitch is a byte.                                *)
(***************************************************************************)
EXTENDS MapChunks, TextFormat, FiniteSets

CONSTANTS
    Player,
    Name,         \* the username of each player
    Axes,         \* x, y and z
    Wide,         \* 2^16
    Narrow,       \* 2^8
    Angles,       \* headings and pitches that occur
    Places,       \* coordinates that occur, one number for each axis
    MapSpawn,     \* the position getMapSpawn() reads from the map file
    Messages,     \* chat messages, as the packet's padded strings
    MaxMoves,     \* bound: movement packets in all
    MaxChats      \* bound: chat packets in all

Coordinates == [Axes -> 0..(Wide - 1)]
Position == [at : Coordinates, h : 0..(Narrow - 1), p : 0..(Narrow - 1)]

ASSUME WorldAssumption ==
    /\ Narrow \in Nat \ {0} /\ Narrow % 2 = 0
    /\ Wide \in Nat \ {0} /\ Wide % Narrow = 0
    /\ Angles \subseteq 0..(Narrow - 1)
    /\ Places \subseteq Coordinates
    /\ MapSpawn \in Position
    /\ Name \in [Player -> Text] /\ Messages \subseteq Text
    /\ MaxMoves \in Nat /\ MaxChats \in Nat

VARIABLES
    proc,     \* "cutting": the world is constructed; "idle": the scheduler
              \* is; "format": inside multiLine; "down": the server ended
    members,  \* World::Players
    loading,  \* players whose map is being sent
    map,      \* the level chunks each player was sent
    pos,      \* Player::pos
    knows,    \* the players each client was told to spawn
    shown,    \* where each client shows each player it was told of
    moves,    \* movement packets handled
    chats     \* chat packets handled

mapVars == <<members, loading, map>>
viewVars == <<pos, knows, shown>>
vars == <<chunkVars, formatVars, proc, members, loading, map, pos, knows,
          shown, moves, chats>>

\* The positions that occur.
Occurring == [at : Places, h : Angles, p : Angles]

Init ==
    /\ CutInit /\ FormatInit
    /\ proc = "cutting"
    /\ members = {} /\ loading = {}
    /\ map = [p \in Player |-> <<>>]
    /\ pos = [p \in Player |-> MapSpawn]
    /\ knows = [q \in Player |-> {}]
    /\ shown = [q \in Player |-> [p \in Player |-> MapSpawn]]
    /\ moves = 0 /\ chats = 0

-----------------------------------------------------------------------------
(* World::World: the map is cut before anybody can connect.                *)

Cut ==
    /\ proc = "cutting"
    /\ CutChunk
    /\ UNCHANGED <<formatVars, proc, mapVars, viewVars, moves, chats>>

\* The write behind the list kills the process.
CutCrashes ==
    /\ proc = "cutting" /\ overrun
    /\ proc' = "down"
    /\ UNCHANGED <<chunkVars, formatVars, mapVars, viewVars, moves, chats>>

Booted ==
    /\ proc = "cutting" /\ ~cutting
    /\ proc' = "idle"
    /\ UNCHANGED <<chunkVars, formatVars, mapVars, viewVars, moves, chats>>

-----------------------------------------------------------------------------
(* A player joins: the chunks one by one, then it appears.                 *)

\* The constructor of Player: joinWorld and sendMapInit.  The position of a new
\* Player is whatever its memory held.
Join(p) ==
    /\ proc = "idle" /\ p \notin members \cup loading /\ map[p] = <<>>
    /\ loading' = loading \cup {p}
    /\ \E junk \in Occurring : pos' = [pos EXCEPT ![p] = junk]
    /\ UNCHANGED <<chunkVars, formatVars, proc, members, map, knows, shown,
                   moves, chats>>

\* sendMapChunk, another one to come.
SendMapChunk(p) ==
    /\ proc = "idle" /\ p \in loading
    /\ Len(map[p]) + 1 < Len(chunks)
    /\ map' = [map EXCEPT ![p] = Append(@, chunks[Len(@) + 1])]
    /\ UNCHANGED <<chunkVars, formatVars, proc, members, loading, viewVars,
                   moves, chats>>

\* Mutant of Spawned: only the newcomer is told, not those who are there.
SpawnedAlone(p) ==
    /\ knows' = [knows EXCEPT ![p] = members]
    /\ shown' = [shown EXCEPT ![p] = [q \in Player |-> IF q \in members THEN pos[q] ELSE @[q]]]

\* spawnPlayer tells the others of p, spawnPlayers tells p of the others.
Spawned(p) ==
    /\ knows' = [q \in Player |->
                   IF q = p THEN members \ {p}
                   ELSE IF q \in members THEN knows[q] \cup {p} ELSE knows[q]]
    /\ shown' = [q \in Player |-> [r \in Player |->
                   IF q = p /\ r \in members \ {p} THEN pos[r]
                   ELSE IF q \in members \ {p} /\ r = p THEN MapSpawn
                   ELSE shown[q][r]]]

\* sendMapChunk with the last one, and sendMapFinal.
SendMapFinal(p) ==
    /\ proc = "idle" /\ p \in loading
    /\ Len(map[p]) + 1 = Len(chunks)
    /\ map' = [map EXCEPT ![p] = Append(@, chunks[Len(@) + 1])]
    /\ loading' = loading \ {p}
    /\ members' = members \cup {p}
    /\ pos' = [pos EXCEPT ![p] = MapSpawn]
    /\ Spawned(p)
    /\ UNCHANGED <<chunkVars, formatVars, proc, moves, chats>>

\* leaveCurrentWorld, with the Unspawn that only some players get sent about.
Leave(p) ==
    /\ proc = "idle" /\ p \in members
    /\ members' = members \ {p}
    /\ \E isVisible \in BOOLEAN :
          knows' = IF isVisible THEN [q \in Player |->
                      IF q \in members THEN knows[q] \ {p} ELSE knows[q]]
                   ELSE knows
    /\ UNCHANGED <<chunkVars, formatVars, proc, loading, map, pos, shown,
                   moves, chats>>

-----------------------------------------------------------------------------
(* Movement.                                                               *)

\* Mutant of Offset: the byte is not read as signed.
OffsetUnsigned(new, old) == (new - old) % Narrow

\* int8_t offset = int16 - uint32: the last byte of the difference, signed.
Offset(new, old) ==
    LET byte == (new - old) % Narrow
    IN  IF byte < Narrow \div 2 THEN byte ELSE byte - Narrow

\* Mutant of Update: the angles are sent with every move and only then.
UpdateMoveOnly(old, new) ==
    LET off == [a \in Axes |-> Offset(new.at[a], old.at[a])]
    IN  IF \E a \in Axes : off[a] # 0
        THEN [kind |-> "Movement", off |-> off, h |-> new.p, p |-> new.h]
        ELSE [kind |-> "none"]

\* World::updatePosition: the packet for a player that was at old.  The
\* movement packet's heading is set to the pitch and its pitch to the heading.
Update(old, new) ==
    LET off    == [a \in Axes |-> Offset(new.at[a], old.at[a])]
        moved  == \E a \in Axes : off[a] # 0
        turned == new.h # old.h \/ new.p # old.p
    IN  CASE moved /\ turned   -> [kind |-> "Movement", off |-> off, h |-> new.p, p |-> new.h]
          [] moved /\ ~turned  -> [kind |-> "Position", off |-> off]
          [] ~moved /\ turned  -> [kind |-> "Orientation", h |-> new.h, p |-> new.p]
          [] ~moved /\ ~turned -> [kind |-> "none"]

\* What a client makes of the packet about a player it shows at s.
Applied(packet, s) ==
    LET there == [a \in Axes |-> (s.at[a] + packet.off[a]) % Wide]
    IN  CASE packet.kind = "Movement"    -> [at |-> there, h |-> packet.h, p |-> packet.p]
          [] packet.kind = "Position"    -> [s EXCEPT !.at = there]
          [] packet.kind = "Orientation" -> [s EXCEPT !.h = packet.h, !.p = packet.p]
          [] packet.kind = "none"        -> s

\* The movement case of onData; a client ignores a player it was not told of.
Movement(p) ==
    /\ proc = "idle" /\ p \in members \cup loading /\ moves < MaxMoves
    /\ moves' = moves + 1
    /\ \E new \in Occurring :
          /\ pos' = [pos EXCEPT ![p] = new]
          /\ shown' = [q \in Player |-> [r \in Player |->
                IF r = p /\ q \in members \ {p} /\ p \in knows[q]
                THEN Applied(Update(pos[p], new), shown[q][p])
                ELSE shown[q][r]]]
    /\ UNCHANGED <<chunkVars, formatVars, proc, mapVars, knows, chats>>

-----------------------------------------------------------------------------
(* Chat: the case of onData, of which multiLine is the only loop.          *)

Chat(p) ==
    /\ proc = "idle" /\ p \in members \cup loading /\ chats < MaxChats
    /\ proc' = "format"
    /\ chats' = chats + 1
    /\ \E text \in Messages : BeginFormat(Name[p], text)
    /\ UNCHANGED <<chunkVars, mapVars, viewVars, moves>>

MultiLine ==
    /\ proc = "format"
    /\ FormatLine
    /\ UNCHANGED <<chunkVars, proc, mapVars, viewVars, moves, chats>>

\* bad_alloc leaves the handler, the poll and the scheduler.
MultiLineFails ==
    /\ proc = "format"
    /\ FormatFails
    /\ proc' = "down"
    /\ UNCHANGED <<chunkVars, mapVars, viewVars, moves, chats>>

\* World::sendChat: the lines go to all in the world, the speaker too; what
\* a broadcast changes when sends fail is PlayerSession's subject.
SendChat ==
    /\ proc = "format" /\ FormatEnds
    /\ proc' = "idle"
    /\ UNCHANGED <<chunkVars, formatVars, mapVars, viewVars, moves, chats>>

-----------------------------------------------------------------------------
Next ==
    \/ Cut \/ CutCrashes \/ Booted
    \/ \E p \in Player : \/ Join(p) \/ SendMapChunk(p) \/ SendMapFinal(p)
                         \/ Leave(p) \/ Movement(p) \/ Chat(p)
    \/ MultiLine \/ MultiLineFails \/ SendChat

Spec == Init /\ [][Next]_vars

\* One thread runs the handlers and does not stop inside one.
FairSpec == Spec /\ WF_vars(MultiLine) /\ WF_vars(SendChat)

-----------------------------------------------------------------------------
(* Properties.                                                             *)

TypeOK ==
    /\ zippedSize \in Nat /\ it \in Nat /\ cut \in Nat
    /\ chunks \in Seq([from : Nat, size : Nat])
    /\ cutting \in BOOLEAN /\ overrun \in BOOLEAN
    /\ chat \in [username : Text, msg : Text] /\ msg \in Text /\ lines \in Seq(Text)
    /\ proc \in {"cutting", "idle", "format", "down"}
    /\ members \subseteq Player /\ loading \subseteq Player
    /\ map \in [Player -> Seq([from : Nat, size : Nat])]
    /\ pos \in [Player -> Position]
    /\ knows \in [Player -> SUBSET Player]
    /\ shown \in [Player -> [Player -> Position]]
    /\ moves \in Nat /\ chats \in Nat

\* The pieces m begin where the map begins, follow each other without gap or
\* overlap, and end where it ends.
WholeMap(m) ==
    /\ Len(m) > 0
    /\ m[1].from = 0
    /\ \A i \in 1..(Len(m) - 1) : m[i + 1].from = m[i].from + m[i].size
    /\ m[Len(m)].from + m[Len(m)].size = zippedSize

\* A player is put into the world with the whole map, each byte once and in
\* order, and cutting it writes behind the list of packets exactly when the
\* compressed size is a multiple of the packets' (the do-while in
\* processMapSend ends on the first packet that is not full).
MapWhole ==
    /\ \A p \in members : WholeMap(map[p])
    /\ proc = "idle" => (overrun <=> zippedSize % ChunkSize = 0)

Apart(q, p) == q \in members /\ p \in members /\ q # p

\* How far client q shows player p from where the server has it.
Drift(q, p, a) == (pos[p].at[a] - shown[q][p].at[a]) % Wide

\* Whatever the players did, also while their maps were loading, everybody in
\* the world shows everybody else in it, and wrong at most by a multiple of
\* 256: the offsets that updatePosition sends are taken from Player::pos, which
\* spawnPlayer sets behind the back of the movement handler.
DriftWhole ==
    \A q, p \in Player : Apart(q, p) =>
        /\ p \in knows[q]
        /\ \A a \in Axes : Drift(q, p, a) % Narrow = 0

\* p moved no further along a than a signed byte says.
ShortStep(p, a) ==
    LET step == (pos'[p].at[a] - pos[p].at[a]) % Wide
    IN  step < Narrow \div 2 \/ step >= Wide - Narrow \div 2

\* Only a step that does not fit the offset's eight bits (onData truncates it)
\* makes a client show a player at another distance from its real position.
StepsShown ==
    [][\A q, p \in Player : Apart(q, p) /\ Apart(q, p)' =>
          \A a \in Axes : ShortStep(p, a) => Drift(q, p, a)' = Drift(q, p, a)]_vars

\* A client shows a player's heading and pitch or the two exchanged (as the
\* movement packet has them), never those of an earlier moment, although
\* three kinds of packets carry them and one kind does not.
FacingShown ==
    \A q, p \in Player : Apart(q, p) =>
        LET s == shown[q][p]
        IN  \/ s.h = pos[p].h /\ s.p = pos[p].p
            \/ s.h = pos[p].p /\ s.p = pos[p].h

\* At each iteration of multiLine the lines made so far, without their names,
\* and the text left are the message, and no line is longer than a packet's
\* string, for every name that leaves room for text.
ChatKept ==
    Fits(chat.username) =>
        /\ Said(chat.username) \o msg = chat.msg
        /\ \A i \in 1..Len(lines) : Len(lines[i]) <= Width

\* multiLine ends for every name that leaves room for text in a line (with
\* another name its loop ends when the memory does).
ChatEnds == proc = "format" /\ Fits(chat.username) ~> proc = "idle"

=============================================================================
