-------------------------------- MODULE Packets --------------------------------
(***************************************************************************)
(* Packet<ID, ...>::StaticLength: an id byte and then fields of fixed      *)
(* sizes, each sent by one send() and received by one receive() whose      *)
(* results nobody looks at.  A packet is its id and its fields, a field is *)
(* the sequence of its bytes.                                              *)
(***************************************************************************)
EXTENDS Integers, Sequences, SequencesExt

CONSTANT
    Layout   \* the sizes of the fields of the packets a client may send:
             \* 5 (block) |-> <<2,2,2,1,1>>, 8 (movement) |->
             \* <<1,2,2,2,1,1>>, 13 (chat) |-> <<1,64>>; MC modules take
             \* fewer and shorter fields

Known == DOMAIN Layout
ChatId == 13
Byte == 0..255

ASSUME LayoutAssumption ==
    /\ Known \subseteq Byte
    /\ \A id \in Known : Layout[id] \in Seq(Nat \ {0}) /\ Layout[id] # <<>>

Packet == [id : Byte, fields : Seq(Seq(Byte))]

\* What a client sends: a packet the server knows has the fields of its kind.
Message ==
    {p \in Packet : p.id \in Known =>
        /\ Len(p.fields) = Len(Layout[p.id])
        /\ \A k \in DOMAIN p.fields : Len(p.fields[k]) = Layout[p.id][k]}

Bytes(packet) == <<packet.id>> \o FlattenSeq(packet.fields)

Stream(packets) == FlattenSeq([i \in DOMAIN packets |-> Bytes(packets[i])])

\* Where the k-th packet ends in the stream.
End(packets, k) == Len(Stream(SubSeq(packets, 1, k)))

Begun(id) == [id |-> id, fields |-> <<>>]

\* Mutant of NextSize: the iterator over the sizes is not advanced.
NextSizeFirst(packet) == Layout[packet.id][1]

\* Mutant of NextSize: every field has room for a terminating zero.
NextSizeZero(packet) == Layout[packet.id][Len(packet.fields) + 1] + 1

\* The size of the field a receiver of the packet comes to next.
NextSize(packet) == Layout[packet.id][Len(packet.fields) + 1]

\* Mutant of Taken: there is always as much as was asked for.
TakenAll(wanted, there) == wanted

\* What a blocking receive() or send() of so many bytes moves when there is
\* anything: what is there, and no more than that.
Taken(wanted, there) == IF there < wanted THEN there ELSE wanted

\* The fields not filled keep what they had: nothing.
Received(packet, bytes) ==
    [id |-> packet.id, fields |-> Append(packet.fields, bytes)]

Complete(packet) == Len(packet.fields) = Len(Layout[packet.id])

=============================================================================
