------------------------------ MODULE Connection ------------------------------
(***************************************************************************)
(* The byte streams between the server and clients that are in the game.   *)
(* The id of a packet is received asynchronously; onData then receives the *)
(* fields one by one and blocking, on the only thread.  A chat message is  *)
(* passed on to everybody by blocking sends.                               *)
(*                                                                         *)
(* A receive returns with what has arrived, also if that is less than the  *)
(* field; a send (the sockets are non-blocking inside asio once they have  *)
(* been used asynchronously) returns with what found room.  Both results   *)
(* are ignored.  What is sent is modelled by its number of bytes.          *)
(***************************************************************************)
EXTENDS Packets, FiniteSets

CONSTANTS
    Client,
    Nobody,
    Plans,      \* what each client may have to send: sequences of packets
    Reply,      \* sizes of the pieces of a Packet_Chat: 1, 1 and 64
    Capacity    \* bytes the connection takes that a client has not read

ASSUME ConnectionAssumption ==
    /\ IsFiniteSet(Client) /\ Nobody \notin Client
    /\ UNION Range(Plans) \subseteq Seq(Message)
    /\ Reply \in Seq(Nat \ {0}) /\ Reply # <<>>
    /\ Capacity \in Nat \ {0}

VARIABLES
    plan,       \* the packets each client sends
    arrived,    \* how many bytes of them have arrived
    taken,      \* and how many the server has received
    closed,     \* clients that closed their end
    players,    \* World's Players: clients the server still has, in order
    proc,       \* the thread: "poll" for any handler, "receive" inside
                \* recv(), "send" inside sendChat, "down"
    who,        \* whose packet onData is handling
    packet,     \* and as much as it has of it
    out,        \* the pieces still to be sent, in their order
    pipe,       \* bytes sent to each client that it has not read
    handled,    \* the packets handled, as the server understood them
    short       \* clients of which a receive got less than a field

inVars == <<plan, arrived, taken, short>>
vars == <<plan, arrived, taken, closed, players, proc, who, packet, out,
          pipe, handled, short>>

Nothing == Begun(0)
\* The bytes of every plan: one constant, evaluated once.
Streams == [p \in UNION Range(Plans) |-> Stream(p)]

Outgoing(c) == Streams[plan[c]]
There(c) == arrived[c] - taken[c]
Has(c) == c \in Range(players)

\* The elements of s that are in K, in their order.
Kept(s, K) ==
    FlattenSeq([i \in DOMAIN s |-> IF s[i] \in K THEN <<s[i]>> ELSE <<>>])

Init ==
    /\ plan \in [Client -> UNION Range(Plans)]
    /\ \A c \in Client : plan[c] \in Plans[c]
    /\ arrived = [c \in Client |-> 0] /\ taken = [c \in Client |-> 0]
    /\ closed = {} /\ players \in SetToSeqs(Client)
    /\ proc = "poll" /\ who = Nobody /\ packet = Nothing /\ out = <<>>
    /\ pipe = [c \in Client |-> 0]
    /\ handled = [c \in Client |-> <<>>]
    /\ short = {}

-----------------------------------------------------------------------------
(* The clients and the network.                                            *)

\* Any part of what a client sends may arrive at once.
Arrive(c) ==
    /\ c \notin closed
    /\ \E n \in (arrived[c] + 1)..Len(Outgoing(c)) :
          arrived' = [arrived EXCEPT ![c] = n]
    /\ UNCHANGED <<plan, taken, closed, players, proc, who, packet, out,
                   pipe, handled, short>>

Close(c) ==
    /\ c \notin closed
    /\ closed' = closed \cup {c}
    /\ UNCHANGED <<inVars, players, proc, who, packet, out, pipe, handled>>

\* The client reads all it was sent.
Read(c) ==
    /\ pipe[c] > 0
    /\ pipe' = [pipe EXCEPT ![c] = 0]
    /\ UNCHANGED <<inVars, closed, players, proc, who, packet, out, handled>>

-----------------------------------------------------------------------------
(* onData.                                                                 *)

\* Mutant of Listening: the first packet is the last one waited for.
ListeningOnce(c) == proc = "poll" /\ Has(c) /\ handled[c] = <<>>

\* A receive of the next id is registered, and poll may run its handler.
Listening(c) == proc = "poll" /\ Has(c)

\* A byte that is no id is passed over by the switch, and the next one taken
\* for an id.
OnData(c) ==
    /\ Listening(c) /\ There(c) > 0
    /\ LET id == Outgoing(c)[taken[c] + 1]
       IN  IF id \in Known
           THEN proc' = "receive" /\ who' = c /\ packet' = Begun(id)
           ELSE UNCHANGED <<proc, who, packet>>
    /\ taken' = [taken EXCEPT ![c] = @ + 1]
    /\ UNCHANGED <<plan, arrived, closed, players, out, pipe, handled, short>>

OnError(c) ==
    /\ Listening(c) /\ There(c) = 0 /\ c \in closed
    /\ players' = Kept(players, Client \ {c})
    /\ UNCHANGED <<inVars, closed, proc, who, packet, out, pipe, handled>>

\* broadcastPacket of a Packet_Chat: its pieces to one player after the other.
Broadcast ==
    FlattenSeq([i \in DOMAIN players |->
        [k \in DOMAIN Reply |-> [to |-> players[i], size |-> Reply[k]]]])

\* The packet is complete and its handler runs.
Handle(p) ==
    /\ handled' = [handled EXCEPT ![who] = Append(@, p)]
    /\ packet' = Nothing /\ who' = Nobody
    /\ IF p.id = ChatId THEN proc' = "send" /\ out' = Broadcast
       ELSE proc' = "poll" /\ UNCHANGED out

\* One receive(), which found something.
ReceiveField ==
    /\ proc = "receive" /\ There(who) > 0
    /\ LET n == Taken(NextSize(packet), There(who))
           p == Received(packet, SubSeq(Outgoing(who), taken[who] + 1, taken[who] + n))
       IN  /\ taken' = [taken EXCEPT ![who] = @ + n]
           /\ short' = IF n < NextSize(packet) THEN short \cup {who} ELSE short
           /\ IF Complete(p) THEN Handle(p)
              ELSE packet' = p /\ UNCHANGED <<proc, who, out, handled>>
    /\ UNCHANGED <<plan, arrived, closed, players, pipe>>

\* End of the stream: receive() throws, and nobody catches it before main().
ReceiveThrows ==
    /\ proc = "receive" /\ There(who) = 0 /\ who \in closed
    /\ proc' = "down"
    /\ UNCHANGED <<inVars, closed, players, who, packet, out, pipe, handled>>

Sent(rest) == out' = rest /\ proc' = IF rest = <<>> THEN "poll" ELSE "send"

\* One send(), which found room.
SendPiece ==
    /\ proc = "send"
    /\ LET c == Head(out).to
           n == Taken(Head(out).size, Capacity - pipe[c])
       IN  /\ pipe[c] < Capacity
           /\ pipe' = [pipe EXCEPT ![c] = @ + n]
    /\ Sent(Tail(out))
    /\ UNCHANGED <<inVars, closed, players, who, packet, handled>>

\* sendPacket catches the failure and disconnects the receiver.
SendFails ==
    /\ proc = "send" /\ Head(out).to \in closed
    /\ players' = Kept(players, Client \ {Head(out).to})
    /\ Sent(Kept(out, {piece \in Range(out) : piece.to # Head(out).to}))
    /\ UNCHANGED <<inVars, closed, who, packet, pipe, handled>>

-----------------------------------------------------------------------------
Peers == \E c \in Client : Arrive(c) \/ Close(c) \/ Read(c)

Poll == \E c \in Client : OnData(c) \/ OnError(c)

Next == Peers \/ Poll \/ ReceiveField \/ ReceiveThrows \/ SendPiece \/ SendFails

Spec == Init /\ [][Next]_vars

\* The server goes on while it can; the io_service runs the handlers of each
\* connection in the order they become ready.  The clients go on sending what
\* they began and reading what they get.
FairSpec ==
    /\ Spec
    /\ WF_vars(ReceiveField) /\ WF_vars(ReceiveThrows)
    /\ WF_vars(SendPiece \/ SendFails)
    /\ \A c \in Client : /\ SF_vars(OnData(c)) /\ WF_vars(Arrive(c))
                         /\ WF_vars(Read(c))

-----------------------------------------------------------------------------
(* Properties.                                                             *)

TypeOK ==
    /\ arrived \in [Client -> Nat] /\ taken \in [Client -> Nat]
    /\ \A c \in Client : taken[c] <= arrived[c]
    /\ closed \subseteq Client /\ Range(players) \subseteq Client
    /\ proc \in {"poll", "receive", "send", "down"}
    /\ who \in Client \cup {Nobody}
    /\ pipe \in [Client -> 0..Capacity]
    /\ short \subseteq Client

\* All the packets a client sends have a case in onData's switch.
Speaks(c) == \A i \in DOMAIN plan[c] : plan[c][i].id \in Known

\* The stream from a client is understood as it was meant, unless a receive
\* was short once (or the client sent a packet the switch does not have): no
\* order of arrivals, closing clients, broadcasts and full connections else
\* shifts it.
InStep ==
    \A c \in Client : Speaks(c) /\ c \notin short =>
        /\ IsPrefix(handled[c], plan[c])
        /\ proc = "receive" /\ who = c =>
              LET sent == plan[c][Len(handled[c]) + 1]
              IN  packet.id = sent.id /\ IsPrefix(packet.fields, sent.fields)

\* The thread waits inside recv() only for a client that has begun a packet
\* and not yet sent all of it, unless a receive of that client was short
\* before: what stops everybody else is always somebody who owes bytes.
WaitsForDebtor ==
    proc = "receive" /\ There(who) = 0 /\ Speaks(who) /\ who \notin short =>
        \E k \in DOMAIN plan[who] :
            k = Len(handled[who]) + 1 /\ arrived[who] < End(plan[who], k)

\* If nobody closes, clients go on sending and reading and no receive is
\* short, every packet of every client is handled: one client's blocking
\* receive or full connection holds up the others only for a while.
AllHandled ==
    <>(\/ \A c \in Client : handled[c] = plan[c]
       \/ \E c \in Client : c \in closed \cup short \/ ~Speaks(c))

=============================================================================
