--------------------------- MODULE Connection_proofs ---------------------------
(***************************************************************************)
(* Proofs about Connection, for any clients, packets, plans and sizes: the *)
(* server understands every stream as it was meant until a receive of that *)
(* client was short, and it waits only for somebody who owes it bytes.     *)
(***************************************************************************)
EXTENDS Connection, SequenceFacts

-----------------------------------------------------------------------------
(* The inductive invariant.                                                *)

Piece == [to : Client, size : Nat \ {0}]

Types ==
    /\ plan \in [Client -> UNION Range(Plans)]
    /\ arrived \in [Client -> Nat] /\ taken \in [Client -> Nat]
    /\ \A c \in Client : taken[c] <= arrived[c] /\ arrived[c] <= Len(Outgoing(c))
    /\ closed \subseteq Client /\ players \in Seq(Client)
    /\ proc \in {"poll", "receive", "send", "down"}
    /\ who \in Client \cup {Nobody}
    /\ packet \in Packet
    /\ out \in Seq(Piece)
    /\ pipe \in [Client -> 0..Capacity]
    /\ handled \in [Client -> Seq(Packet)]
    /\ short \subseteq Client

\* What the thread is doing has something to do: a packet that is received has
\* a client the server still has and a field to come, and a broadcast, which
\* goes to the speaker as well, a piece to send.
Busy ==
    /\ proc = "receive" => /\ who \in Range(players) /\ packet.id \in Known
                           /\ Len(packet.fields) < Len(Layout[packet.id])
    /\ proc = "send" => out # <<>>

\* The client is in the middle of its next packet: the server has the id, the
\* fields before and their bytes.
Midway(c) ==
    LET n == Len(handled[c])
        sent == plan[c][n + 1]
        k == Len(packet.fields)
    IN  /\ n < Len(plan[c]) /\ packet.id = sent.id /\ k < Len(sent.fields)
        /\ \A i \in 1..k : packet.fields[i] = sent.fields[i]
        /\ taken[c] = End(plan[c], n) + 1 + Len(Joined(sent.fields, k))

\* The packets handled are those sent, and the server stands right behind them.
Followed(c) ==
    /\ Len(handled[c]) <= Len(plan[c])
    /\ \A i \in 1..Len(handled[c]) : handled[c][i] = plan[c][i]
    /\ proc # "down" =>
          IF proc = "receive" /\ who = c THEN Midway(c)
          ELSE taken[c] = End(plan[c], Len(handled[c]))

IInv ==
    /\ Types /\ Busy
    /\ \A c \in Client : Speaks(c) /\ c \notin short => Followed(c)

-----------------------------------------------------------------------------
(* The stream of a client.                                                 *)

LEMMA BytesAre ==
    ASSUME NEW p \in Message
    PROVE  /\ Bytes(p) \in Seq(Byte) /\ FlattenSeq(p.fields) \in Seq(Byte)
           /\ Len(Bytes(p)) = 1 + Len(FlattenSeq(p.fields))
           /\ Bytes(p)[1] = p.id
           /\ \A j \in 1..Len(FlattenSeq(p.fields)) :
                 Bytes(p)[1 + j] = FlattenSeq(p.fields)[j]
<1> DEFINE fs == FlattenSeq(p.fields)
           id == <<p.id>>
<1>1. p.id \in Byte /\ fs \in Seq(Byte)
  BY FlattenType DEF Message, Packet
<1>2. id \in Seq(Byte) /\ Len(id) = 1 /\ id[1] = p.id
  BY <1>1
<1>3. Bytes(p) = id \o fs
  BY DEF Bytes
<1> HIDE DEF fs, id
<1>4. /\ Bytes(p) \in Seq(Byte) /\ Len(Bytes(p)) = 1 + Len(fs)
      /\ \A i \in 1..(1 + Len(fs)) :
            Bytes(p)[i] = IF i <= 1 THEN id[i] ELSE fs[i - 1]
  <2>1. /\ id \o fs \in Seq(Byte) /\ Len(id \o fs) = Len(id) + Len(fs)
        /\ \A i \in 1..(Len(id) + Len(fs)) :
              (id \o fs)[i] = IF i <= Len(id) THEN id[i] ELSE fs[i - Len(id)]
    BY <1>1, <1>2, ConcatProperties
  <2> QED
    BY <2>1, <1>2, <1>3
<1>5. Len(fs) \in Nat
  BY <1>1
<1>6. \A j \in 1..Len(fs) : Bytes(p)[1 + j] = fs[j]
  BY <1>4, <1>5
<1>7. Bytes(p)[1] = p.id
  BY <1>2, <1>4, <1>5
<1> QED
  BY <1>1, <1>4, <1>6, <1>7 DEF fs

Pieces(pl) == [i \in DOMAIN pl |-> Bytes(pl[i])]

LEMMA PiecesAre ==
    ASSUME NEW pl \in Seq(Message)
    PROVE  /\ Pieces(pl) \in Seq(Seq(Byte)) /\ Len(Pieces(pl)) = Len(pl)
           /\ \A i \in 1..Len(pl) : Pieces(pl)[i] = Bytes(pl[i])
           /\ Stream(pl) = FlattenSeq(Pieces(pl))
<1>1. \A i \in 1..Len(pl) : Bytes(pl[i]) \in Seq(Byte)
  BY BytesAre
<1>2. DOMAIN pl = 1..Len(pl) /\ Len(pl) \in Nat
  OBVIOUS
<1>3. Pieces(pl) \in [1..Len(pl) -> Seq(Byte)]
  BY <1>1, <1>2 DEF Pieces
<1>4. Pieces(pl) \in Seq(Seq(Byte)) /\ Len(Pieces(pl)) = Len(pl)
  BY <1>2, <1>3
<1> QED
  BY <1>2, <1>4 DEF Pieces, Stream

\* The end of the n-th packet is that of the n-th element of Pieces.
LEMMA EndIs ==
    ASSUME NEW pl \in Seq(Message), NEW n \in 0..Len(pl)
    PROVE  End(pl, n) = Len(Joined(Pieces(pl), n))
<1> DEFINE first == SubSeq(pl, 1, n)
<1>1. /\ first \in Seq(Message) /\ Len(first) = n
      /\ \A i \in 1..n : first[i] = pl[i]
  BY SubSeqType
<1> DEFINE a == Pieces(first)
           b == SubSeq(Pieces(pl), 1, n)
<1>2. a \in Seq(Seq(Byte)) /\ Len(a) = n /\ \A i \in 1..n : a[i] = Bytes(pl[i])
  <2> HIDE DEF first
  <2> QED
    BY <1>1, PiecesAre
<1>3. b \in Seq(Seq(Byte)) /\ Len(b) = n /\ \A i \in 1..n : b[i] = Bytes(pl[i])
  <2>1. Pieces(pl) \in Seq(Seq(Byte)) /\ n \in 0..Len(Pieces(pl))
    BY PiecesAre
  <2>2. /\ b \in Seq(Seq(Byte)) /\ Len(b) = n
        /\ \A i \in 1..n : b[i] = Pieces(pl)[i]
    BY <2>1, SubSeqType
  <2> HIDE DEF b
  <2> QED
    BY <2>2, PiecesAre
<1> HIDE DEF a, b
<1>4. a = b
  BY <1>2, <1>3, SeqEqual
<1>5. Stream(first) = FlattenSeq(a)
  <2> HIDE DEF first
  <2> QED
    BY <1>1, PiecesAre DEF a
<1> QED
  BY <1>4, <1>5 DEF End, Joined, b

LEMMA EndsAre ==
    ASSUME NEW pl \in Seq(Message)
    PROVE  /\ End(pl, 0) = 0 /\ End(pl, Len(pl)) = Len(Stream(pl))
           /\ Stream(pl) \in Seq(Byte)
           /\ \A n \in 0..Len(pl) : End(pl, n) \in Nat
<1>1. Pieces(pl) \in Seq(Seq(Byte)) /\ Len(Pieces(pl)) = Len(pl)
  BY PiecesAre
<1>2. Len(pl) \in Nat /\ 0 \in 0..Len(pl) /\ Len(pl) \in 0..Len(pl)
  OBVIOUS
<1>3. /\ Joined(Pieces(pl), 0) = <<>>
      /\ Joined(Pieces(pl), Len(pl)) = FlattenSeq(Pieces(pl))
      /\ \A n \in 0..Len(pl) : Len(Joined(Pieces(pl), n)) \in Nat
  BY <1>1, JoinedEnds
<1>4. FlattenSeq(Pieces(pl)) \in Seq(Byte)
  BY <1>1, FlattenType
<1> QED
  BY <1>2, <1>3, <1>4, EndIs, PiecesAre

\* Where the n-th packet is: its id behind the packets before, then the bytes
\* of its fields.
LEMMA StreamAt ==
    ASSUME NEW pl \in Seq(Message), NEW n \in 1..Len(pl)
    PROVE  LET e == End(pl, n - 1)
               fs == FlattenSeq(pl[n].fields)
           IN  /\ e \in Nat /\ End(pl, n) = e + 1 + Len(fs)
               /\ End(pl, n) <= Len(Stream(pl))
               /\ Stream(pl)[e + 1] = pl[n].id
               /\ \A j \in 1..Len(fs) : Stream(pl)[e + 1 + j] = fs[j]
<1> DEFINE e == End(pl, n - 1)
           fs == FlattenSeq(pl[n].fields)
           ps == Pieces(pl)
<1>1. pl[n] \in Message /\ n - 1 \in 0..Len(pl) /\ n \in 0..Len(pl)
  OBVIOUS
<1>2. ps \in Seq(Seq(Byte)) /\ n \in 1..Len(ps) /\ ps[n] = Bytes(pl[n])
      /\ Stream(pl) = FlattenSeq(ps)
  BY PiecesAre
<1>3. e = Len(Joined(ps, n - 1)) /\ End(pl, n) = Len(Joined(ps, n)) /\ e \in Nat
  BY <1>1, EndIs, EndsAre
<1> HIDE DEF ps, e
<1>4. /\ Len(Joined(ps, n)) = Len(Joined(ps, n - 1)) + Len(ps[n])
      /\ Len(Joined(ps, n)) <= Len(FlattenSeq(ps))
      /\ \A j \in 1..Len(ps[n]) :
            FlattenSeq(ps)[Len(Joined(ps, n - 1)) + j] = ps[n][j]
  BY <1>2, FlattenAt
<1>5. /\ Len(ps[n]) = 1 + Len(fs) /\ Len(fs) \in Nat /\ ps[n][1] = pl[n].id
      /\ \A j \in 1..Len(fs) : ps[n][1 + j] = fs[j]
  BY <1>1, <1>2, BytesAre, LenProperties
<1> HIDE DEF fs
<1>6. \A j \in 1..(1 + Len(fs)) : Stream(pl)[e + j] = ps[n][j]
  BY <1>2, <1>3, <1>4, <1>5
<1>7. Stream(pl)[e + 1] = pl[n].id
  BY <1>5, <1>6
<1>8. ASSUME NEW j \in 1..Len(fs) PROVE Stream(pl)[e + 1 + j] = fs[j]
  <2>1. 1 + j \in 1..(1 + Len(fs)) /\ e + (1 + j) = e + 1 + j
    BY <1>3, <1>5
  <2> QED
    BY <2>1, <1>5, <1>6
<1>9. End(pl, n) = e + 1 + Len(fs) /\ End(pl, n) <= Len(Stream(pl))
  BY <1>2, <1>3, <1>4, <1>5
<1> QED
  BY <1>3, <1>7, <1>8, <1>9 DEF e, fs

\* The bytes of the next field come right behind those of the fields before,
\* and no field reaches beyond the end of its packet.
LEMMA FieldAt ==
    ASSUME NEW pl \in Seq(Message), NEW n \in 1..Len(pl),
           NEW k \in Nat, k < Len(pl[n].fields),
           NEW t, t = End(pl, n - 1) + 1 + Len(Joined(pl[n].fields, k))
    PROVE  LET field == pl[n].fields[k + 1]
           IN  /\ t \in Nat /\ field \in Seq(Byte)
               /\ SubSeq(Stream(pl), t + 1, t + Len(field)) = field
               /\ t + Len(field) =
                     End(pl, n - 1) + 1 + Len(Joined(pl[n].fields, k + 1))
               /\ t + Len(field) <= End(pl, n)
<1> DEFINE fs == pl[n].fields
           field == fs[k + 1]
           e == End(pl, n - 1)
           before == Len(Joined(fs, k))
           st == Stream(pl)
<1>1. fs \in Seq(Seq(Byte))
  <2>1. pl[n] \in Message
    OBVIOUS
  <2> QED
    BY <2>1 DEF Message, Packet
<1>2. /\ e \in Nat /\ End(pl, n) = e + 1 + Len(FlattenSeq(fs))
      /\ End(pl, n) <= Len(st)
      /\ \A j \in 1..Len(FlattenSeq(fs)) : st[e + 1 + j] = FlattenSeq(fs)[j]
  BY StreamAt
<1>3. st \in Seq(Byte) /\ Len(st) \in Nat
  BY EndsAre, LenProperties
<1> HIDE DEF fs, e, st
<1>4. k + 1 \in 1..Len(fs) /\ (k + 1) - 1 = k /\ k \in 0..Len(fs)
  BY <1>1 DEF fs
<1>5. field \in Seq(Byte) /\ Len(field) \in Nat
  BY <1>1, <1>4
<1>6. before \in Nat
  BY <1>1, <1>4, JoinedEnds
<1>7. /\ Len(Joined(fs, k + 1)) = before + Len(field)
      /\ Len(Joined(fs, k + 1)) <= Len(FlattenSeq(fs))
      /\ \A j \in 1..Len(field) : FlattenSeq(fs)[before + j] = field[j]
  <2> DEFINE m == k + 1
  <2>1. m \in 1..Len(fs) /\ m - 1 = k
    BY <1>4
  <2> HIDE DEF m
  <2>2. /\ Len(Joined(fs, m)) = Len(Joined(fs, m - 1)) + Len(fs[m])
        /\ Len(Joined(fs, m)) <= Len(FlattenSeq(fs))
        /\ \A j \in 1..Len(fs[m]) :
              FlattenSeq(fs)[Len(Joined(fs, m - 1)) + j] = fs[m][j]
    BY <1>1, <2>1, FlattenAt
  <2> QED
    BY <2>1, <2>2 DEF m
<1>8. t = e + 1 + before
  BY DEF fs, e
<1>9. Len(FlattenSeq(fs)) \in Nat
  BY <1>1, FlattenType, LenProperties
<1> DEFINE total == Len(FlattenSeq(fs))
           upto == Len(Joined(fs, k + 1))
           size == Len(field)
<1> HIDE DEF before, field
<1>10. t \in Nat /\ t + Len(field) <= End(pl, n)
       /\ t + Len(field) = e + 1 + Len(Joined(fs, k + 1))
  <2>1. /\ upto = before + size /\ upto <= total
        /\ e \in Nat /\ End(pl, n) = e + 1 + total
        /\ size \in Nat /\ total \in Nat
    BY <1>2, <1>5, <1>7, <1>9
  <2> HIDE DEF total, upto, size, e
  <2>2. t \in Nat /\ t + size <= End(pl, n) /\ t + size = e + 1 + upto
    BY <2>1, <1>6, <1>8, SMTT(30)
  <2> QED
    BY <2>2 DEF upto, size
<1>11. ASSUME NEW j \in 1..Len(field) PROVE st[t + j] = field[j]
  <2>1. before + j \in 1..Len(FlattenSeq(fs)) /\ e + 1 + (before + j) = t + j
    <3>1. /\ before + size <= total
          /\ e \in Nat /\ size \in Nat /\ total \in Nat /\ j \in 1..size
      BY <1>2, <1>5, <1>7, <1>9
    <3> HIDE DEF total, size
    <3>2. before + j \in 1..total /\ e + 1 + (before + j) = t + j
      BY <3>1, <1>6, <1>8
    <3> QED
      BY <3>2 DEF total
  <2> QED
    BY <2>1, <1>2, <1>7
<1>12. t + Len(field) <= Len(st)
  BY <1>2, <1>3, <1>5, <1>9, <1>10
<1>13. SubSeq(st, t + 1, t + Len(field)) = field
  <2>1. FoundAt(st, field, t)
    BY <1>11, <1>12 DEF FoundAt
  <2> QED
    BY <2>1, <1>3, <1>5, <1>10, SubSeqIs
<1> QED
  BY <1>5, <1>10, <1>13 DEF fs, e, st, field

-----------------------------------------------------------------------------
(* What the actions do to queues.                                          *)

LEMMA KeptType ==
    ASSUME NEW T, NEW s \in Seq(T), NEW K PROVE Kept(s, K) \in Seq(T)
<1> DEFINE ss == [i \in DOMAIN s |-> IF s[i] \in K THEN <<s[i]>> ELSE <<>>]
<1>1. ss \in [1..Len(s) -> Seq(T)] /\ Len(s) \in Nat
  <2>1. \A i \in 1..Len(s) : <<s[i]>> \in Seq(T) /\ <<>> \in Seq(T)
    OBVIOUS
  <2> QED
    BY <2>1
<1>2. ss \in Seq(Seq(T))
  <2> HIDE DEF ss
  <2> QED
    BY <1>1
<1> HIDE DEF ss
<1>3. FlattenSeq(ss) \in Seq(T)
  BY <1>2, FlattenType
<1> QED
  BY <1>3 DEF Kept, ss

LEMMA BroadcastIs ==
    ASSUME players \in Seq(Client), players # <<>>
    PROVE  Broadcast \in Seq(Piece) /\ Broadcast # <<>>
<1> DEFINE one(i) == [k \in DOMAIN Reply |-> [to |-> players[i], size |-> Reply[k]]]
           ss == [i \in DOMAIN players |-> one(i)]
<1>1. /\ DOMAIN players = 1..Len(players) /\ Len(players) \in Nat /\ 1 \in 1..Len(players)
      /\ DOMAIN Reply = 1..Len(Reply) /\ Len(Reply) \in Nat \ {0}
  BY ConnectionAssumption
<1>2. ASSUME NEW i \in 1..Len(players) PROVE one(i) \in Seq(Piece) /\ one(i) # <<>>
  <2>1. \A k \in 1..Len(Reply) : [to |-> players[i], size |-> Reply[k]] \in Piece
    BY ConnectionAssumption DEF Piece
  <2>2. one(i) \in [1..Len(Reply) -> Piece]
    BY <2>1, <1>1
  <2> HIDE DEF one
  <2>3. one(i) \in Seq(Piece) /\ Len(one(i)) = Len(Reply)
    BY <2>2, <1>1
  <2> QED
    BY <2>3, <1>1
<1> HIDE DEF one
<1>3. ss \in [1..Len(players) -> Seq(Piece)] /\ ss[1] = one(1)
  BY <1>1, <1>2
<1> HIDE DEF ss
<1>4. ss \in Seq(Seq(Piece)) /\ Len(ss) = Len(players)
  BY <1>1, <1>3
<1>5. FlattenSeq(ss) \in Seq(Piece)
  BY <1>4, FlattenType
<1>6. FlattenSeq(ss) # <<>>
  BY <1>1, <1>2, <1>3, <1>4, FlattenNonEmpty
<1> QED
  BY <1>5, <1>6 DEF Broadcast, ss, one

LEMMA OutgoingIs ==
    ASSUME Types, NEW c \in Client
    PROVE  /\ plan[c] \in Seq(Message) /\ Outgoing(c) = Stream(plan[c])
           /\ Outgoing(c) \in Seq(Byte)
<1>1. plan[c] \in UNION Range(Plans)
  BY DEF Types
<1>2. plan[c] \in Seq(Message)
  BY <1>1, ConnectionAssumption
<1>3. Outgoing(c) = Stream(plan[c])
  BY <1>1 DEF Outgoing, Streams
<1> QED
  BY <1>2, <1>3, EndsAre

-----------------------------------------------------------------------------
(* The steps.                                                              *)

LEMMA InitInv == Init => IInv
<1> SUFFICES ASSUME Init PROVE IInv
  OBVIOUS
<1>1. plan \in [Client -> UNION Range(Plans)]
  BY DEF Init
<1>2. players \in Seq(Client)
  <2>1. Cardinality(Client) \in Nat
    BY ConnectionAssumption, FS_CardinalityType
  <2>2. players \in [1..Cardinality(Client) -> Client]
    BY DEF Init, SetToSeqs
  <2> QED
    BY <2>1, <2>2
<1>3. \A c \in Client : plan[c] \in Seq(Message) /\ Len(Outgoing(c)) \in Nat
  <2> TAKE c \in Client
  <2>1. plan[c] \in UNION Range(Plans)
    BY <1>1
  <2>2. plan[c] \in Seq(Message)
    BY <2>1, ConnectionAssumption
  <2>3. Outgoing(c) = Stream(plan[c])
    BY <2>1 DEF Outgoing, Streams
  <2> QED
    BY <2>2, <2>3, EndsAre
<1>4. packet \in Packet
  BY DEF Init, Nothing, Begun, Packet, Byte
<1>5. Types
  <2>1. Capacity \in Nat
    BY ConnectionAssumption
  <2>2. /\ arrived \in [Client -> Nat] /\ taken \in [Client -> Nat]
        /\ pipe \in [Client -> 0..Capacity] /\ handled \in [Client -> Seq(Packet)]
    BY <2>1 DEF Init
  <2>3. \A c \in Client : arrived[c] = 0 /\ taken[c] = 0
    BY DEF Init
  <2> QED
    BY <1>1, <1>2, <1>3, <1>4, <2>2, <2>3 DEF Init, Types
<1>6. Busy
  BY DEF Init, Busy
<1>7. \A c \in Client : Followed(c)
  <2> TAKE c \in Client
  <2>1. handled[c] = <<>> /\ taken[c] = 0 /\ proc = "poll" /\ Len(plan[c]) \in Nat
    BY <1>3 DEF Init
  <2>2. End(plan[c], 0) = 0
    BY <1>3, EndsAre
  <2> QED
    BY <2>1, <2>2 DEF Followed
<1> QED
  BY <1>5, <1>6, <1>7 DEF IInv

\* What an action leaves of a client's stream as it was.
Untouched(c) ==
    /\ plan'[c] = plan[c] /\ handled'[c] = handled[c] /\ taken'[c] = taken[c]
    /\ c \in short => c \in short'
    /\ \/ proc' = "down"
       \/ /\ proc # "down" /\ (proc = "receive" => who # c)
          /\ proc' = "receive" => who' # c
       \/ proc' = proc /\ who' = who /\ packet' = packet

LEMMA UntouchedFollows ==
    ASSUME NEW c \in Client, Untouched(c), Speaks(c) /\ c \notin short => Followed(c)
    PROVE  Speaks(c)' /\ c \notin short' => Followed(c)'
<1> SUFFICES ASSUME Speaks(c)', c \notin short' PROVE Followed(c)'
  OBVIOUS
<1>1. Followed(c)
  BY DEF Untouched, Speaks
<1> QED
  BY <1>1 DEF Untouched, Followed, Midway

LEMMA PeersStep ==
    ASSUME IInv, NEW c \in Client, Arrive(c) \/ Close(c) \/ Read(c)
    PROVE  IInv'
<1>1. Types'
  <2>1. CASE Arrive(c)
    <3>1. PICK n \in (arrived[c] + 1)..Len(Outgoing(c)) :
              arrived' = [arrived EXCEPT ![c] = n]
      BY <2>1 DEF Arrive
    <3>2. arrived[c] \in Nat /\ taken[c] \in Nat /\ Len(Outgoing(c)) \in Nat
      BY OutgoingIs, LenProperties DEF IInv, Types
    <3>3. n \in Nat /\ taken[c] <= n /\ n <= Len(Outgoing(c))
      BY <3>1, <3>2 DEF IInv, Types
    <3>4. \A d \in Client : Outgoing(d)' = Outgoing(d)
      BY <2>1 DEF Arrive, Outgoing
    <3> QED
      BY <2>1, <3>1, <3>3, <3>4 DEF IInv, Types, Arrive
  <2>2. CASE Close(c)
    BY <2>2 DEF IInv, Types, Close, inVars, Outgoing
  <2>3. CASE Read(c)
    BY <2>3, ConnectionAssumption, SMTT(30) DEF IInv, Types, Read, inVars, Outgoing
  <2> QED
    BY <2>1, <2>2, <2>3
<1>2. Busy'
  BY DEF IInv, Busy, Arrive, Close, Read, inVars
<1>3. \A d \in Client : Untouched(d)
  BY DEF Untouched, Arrive, Close, Read, inVars
<1> QED
  BY <1>1, <1>2, <1>3, UntouchedFollows DEF IInv

LEMMA OnErrorStep ==
    ASSUME IInv, NEW c \in Client, OnError(c) PROVE IInv'
<1>1. players' \in Seq(Client)
  BY KeptType DEF IInv, Types, OnError
<1>2. Types'
  BY <1>1 DEF IInv, Types, OnError, inVars, Outgoing
<1>3. Busy'
  BY DEF IInv, Busy, OnError, Listening, inVars
<1>4. \A d \in Client : Untouched(d)
  BY DEF Untouched, OnError, inVars
<1> QED
  BY <1>2, <1>3, <1>4, UntouchedFollows DEF IInv

LEMMA ReceiveThrowsStep ==
    ASSUME IInv, ReceiveThrows PROVE IInv'
<1>1. Types'
  BY DEF IInv, Types, ReceiveThrows, inVars, Outgoing
<1>2. Busy'
  BY DEF Busy, ReceiveThrows
<1>3. \A d \in Client : Untouched(d)
  BY DEF Untouched, ReceiveThrows, inVars
<1> QED
  BY <1>1, <1>2, <1>3, UntouchedFollows DEF IInv

LEMMA SendStep ==
    ASSUME IInv, SendPiece \/ SendFails PROVE IInv'
<1>1. out \in Seq(Piece) /\ out # <<>>
  BY DEF IInv, Types, Busy, SendPiece, SendFails
<1>2. Head(out) \in Piece /\ Tail(out) \in Seq(Piece)
  BY <1>1, HeadTailProperties
<1>3. players' \in Seq(Client)
  BY KeptType DEF IInv, Types, SendPiece, SendFails
<1>4. out' \in Seq(Piece)
  BY <1>1, <1>2, KeptType DEF SendPiece, SendFails, Sent
<1>5. pipe' \in [Client -> 0..Capacity]
  <2>1. CASE SendPiece
    <3> DEFINE c == Head(out).to
               n == Taken(Head(out).size, Capacity - pipe[c])
    <3>1. c \in Client /\ Head(out).size \in Nat \ {0}
      BY <1>2 DEF Piece
    <3>2. pipe[c] \in 0..Capacity /\ Capacity \in Nat /\ pipe[c] < Capacity
      BY <2>1, <3>1, ConnectionAssumption DEF IInv, Types, SendPiece
    <3>3. pipe' = [pipe EXCEPT ![c] = pipe[c] + n]
      BY <2>1 DEF SendPiece
    <3>4. pipe[c] + n \in 0..Capacity
      <4> HIDE DEF c
      <4> QED
        BY <3>1, <3>2 DEF Taken
    <3> HIDE DEF c, n
    <3> QED
      BY <3>1, <3>3, <3>4 DEF IInv, Types
  <2>2. CASE SendFails
    BY <2>2 DEF IInv, Types, SendFails
  <2> QED
    BY <2>1, <2>2
<1>6. /\ UNCHANGED <<inVars, closed, who, packet, handled>>
      /\ proc = "send" /\ proc' = IF out' = <<>> THEN "poll" ELSE "send"
  BY DEF SendPiece, SendFails, Sent
<1>7. Types'
  BY <1>3, <1>4, <1>5, <1>6 DEF IInv, Types, inVars, Outgoing
<1>8. Busy'
  BY <1>6 DEF Busy
<1>9. \A d \in Client : Untouched(d)
  BY <1>6 DEF Untouched, inVars
<1> QED
  BY <1>7, <1>8, <1>9, UntouchedFollows DEF IInv

LEMMA OnDataStep ==
    ASSUME IInv, NEW c \in Client, OnData(c) PROVE IInv'
<1> DEFINE t == taken[c] + 1
           id == Outgoing(c)[t]
<1>1. /\ plan[c] \in Seq(Message) /\ Outgoing(c) = Stream(plan[c])
      /\ Outgoing(c) \in Seq(Byte) /\ Len(Outgoing(c)) \in Nat
  BY OutgoingIs, LenProperties DEF IInv
<1>2. taken[c] \in Nat /\ t \in 1..arrived[c] /\ t <= Len(Outgoing(c)) /\ t \in Nat
  BY <1>1 DEF IInv, Types, OnData, There
<1>3. id \in Byte
  BY <1>1, <1>2
<1>4. /\ proc = "poll" /\ c \in Range(players)
      /\ taken' = [taken EXCEPT ![c] = t]
      /\ UNCHANGED <<plan, arrived, closed, players, out, pipe, handled, short>>
      /\ IF id \in Known THEN proc' = "receive" /\ who' = c /\ packet' = Begun(id)
         ELSE UNCHANGED <<proc, who, packet>>
  BY DEF OnData, Listening, Has
<1> HIDE DEF id
<1>5. Begun(id) \in Packet
  BY <1>3 DEF Begun, Packet
<1>6. Types'
  <2>1. taken' \in [Client -> Nat] /\ \A d \in Client : taken'[d] <= arrived[d]
    BY <1>2, <1>4 DEF IInv, Types
  <2>2. packet' \in Packet /\ who' \in Client \cup {Nobody}
        /\ proc' \in {"poll", "receive", "send", "down"}
    BY <1>4, <1>5 DEF IInv, Types
  <2>3. \A d \in Client : Outgoing(d)' = Outgoing(d)
    BY <1>4 DEF Outgoing
  <2> QED
    BY <1>4, <2>1, <2>2, <2>3 DEF IInv, Types
<1>7. Busy'
  <2>1. id \in Known => Len(Layout[id]) \in Nat \ {0}
    BY LayoutAssumption
  <2>2. Begun(id).id = id /\ Len(Begun(id).fields) = 0
    BY DEF Begun
  <2> QED
    BY <1>4, <2>1, <2>2 DEF Busy
<1>8. ASSUME Speaks(c)', c \notin short' PROVE Followed(c)'
  <2> DEFINE n == Len(handled[c])
             sent == plan[c][n + 1]
  <2>1. Followed(c) /\ Speaks(c)
    BY <1>4, <1>8 DEF IInv, Speaks
  <2>2. n \in Nat /\ n <= Len(plan[c]) /\ taken[c] = End(plan[c], n)
    BY <1>4, <2>1, LenProperties DEF Followed, IInv, Types
  <2>3. n # Len(plan[c])
    BY <1>1, <1>2, <2>2, EndsAre
  <2>4. n + 1 \in 1..Len(plan[c]) /\ (n + 1) - 1 = n /\ n < Len(plan[c])
    BY <1>1, <2>2, <2>3
  <2> HIDE DEF n
  <2>5. Stream(plan[c])[End(plan[c], n) + 1] = sent.id
    <3> DEFINE m == n + 1
    <3>1. m \in 1..Len(plan[c]) /\ m - 1 = n
      BY <2>4
    <3> HIDE DEF m
    <3>2. Stream(plan[c])[End(plan[c], m - 1) + 1] = plan[c][m].id
      BY <1>1, <3>1, StreamAt
    <3> QED
      BY <3>1, <3>2 DEF m
  <2>6. id = sent.id
    BY <1>1, <2>2, <2>5 DEF id
  <2>7. sent \in Message /\ sent.id \in Known
    BY <1>1, <2>1, <2>4 DEF Speaks
  <2>8. Len(sent.fields) = Len(Layout[sent.id]) /\ sent.fields \in Seq(Seq(Byte))
    BY <2>7 DEF Message, Packet
  <2>9. Len(sent.fields) \in Nat \ {0}
    BY <2>7, <2>8, LayoutAssumption
  <2>10. /\ packet'.id = sent.id /\ packet'.fields = <<>> /\ who' = c
         /\ proc' = "receive"
    BY <1>4, <2>6, <2>7 DEF Begun
  <2>11. taken'[c] = End(plan[c], n) + 1 + Len(Joined(sent.fields, 0))
    <3>1. Len(Joined(sent.fields, 0)) = 0
      BY <2>8, JoinedEnds
    <3>2. taken'[c] = taken[c] + 1
      BY <1>4 DEF IInv, Types
    <3> QED
      BY <3>1, <3>2, <1>2, <2>2
  <2>12. Len(packet'.fields) = 0
    BY <2>10
  <2>13. Midway(c)'
    BY <1>4, <2>4, <2>9, <2>10, <2>11, <2>12 DEF Midway, n
  <2> QED
    BY <1>4, <2>1, <2>10, <2>13 DEF Followed
<1>9. \A d \in Client : d # c => Untouched(d)
  <2> TAKE d \in Client
  <2> SUFFICES ASSUME d # c PROVE Untouched(d)
    OBVIOUS
  <2>1. taken'[d] = taken[d]
    BY <1>4 DEF IInv, Types
  <2>2. proc' = "receive" => who' # d
    BY <1>4
  <2> QED
    BY <1>4, <2>1, <2>2 DEF Untouched
<1> QED
  BY <1>6, <1>7, <1>8, <1>9, UntouchedFollows DEF IInv

\* A field more, and the packet is otherwise what it was.
LEMMA ReceivedIs ==
    ASSUME NEW q \in Packet, NEW bytes \in Seq(Byte)
    PROVE  /\ Received(q, bytes) \in Packet /\ Received(q, bytes).id = q.id
           /\ Received(q, bytes).fields = Append(q.fields, bytes)
<1>1. q.fields \in Seq(Seq(Byte)) /\ q.id \in Byte
  BY DEF Packet
<1>2. Append(q.fields, bytes) \in Seq(Seq(Byte))
  BY <1>1, AppendProperties
<1>3. Received(q, bytes) = [id |-> q.id, fields |-> Append(q.fields, bytes)]
  BY DEF Received
<1> QED
  BY <1>1, <1>2, <1>3 DEF Packet

\* The field that is received is the next one of the packet, unless it is short.
LEMMA ReceiveFieldStep ==
    ASSUME IInv, ReceiveField, NEW c \in Client, c = who PROVE IInv'
<1> DEFINE k == Len(packet.fields)
           size == NextSize(packet)
           n == Taken(size, There(c))
           bytes == SubSeq(Outgoing(c), taken[c] + 1, taken[c] + n)
           p == Received(packet, bytes)
<1>1. /\ proc = "receive" /\ c \in Client /\ c \in Range(players)
      /\ packet \in Packet /\ packet.id \in Known
      /\ k \in Nat /\ k < Len(Layout[packet.id])
  <2>1. proc = "receive"
    BY DEF ReceiveField
  <2>2. c \in Range(players) /\ packet.id \in Known /\ k < Len(Layout[packet.id])
    BY <2>1 DEF IInv, Busy
  <2>3. players \in Seq(Client) /\ packet \in Packet
    BY DEF IInv, Types
  <2>4. c \in Client
    BY <2>2, <2>3 DEF Range
  <2>5. k \in Nat
    BY <2>3 DEF Packet
  <2> QED
    BY <2>1, <2>2, <2>3, <2>4, <2>5
<1>2. /\ plan[c] \in Seq(Message) /\ Outgoing(c) = Stream(plan[c])
      /\ Outgoing(c) \in Seq(Byte) /\ Len(Outgoing(c)) \in Nat
  BY <1>1, OutgoingIs, LenProperties DEF IInv
<1>3. size \in Nat \ {0}
  BY <1>1, LayoutAssumption DEF NextSize
<1>4. /\ taken[c] \in Nat /\ arrived[c] \in Nat /\ arrived[c] <= Len(Outgoing(c))
      /\ There(c) \in Nat \ {0} /\ There(c) = arrived[c] - taken[c]
  BY <1>1 DEF IInv, Types, ReceiveField, There
<1> HIDE DEF size
<1>5. n \in Nat /\ n <= size /\ n <= There(c) /\ (n < size \/ n = size)
  BY <1>3, <1>4 DEF Taken
<1>6. taken[c] + n \in Nat /\ taken[c] + n <= arrived[c]
  BY <1>4, <1>5
<1>7. /\ taken' = [taken EXCEPT ![c] = taken[c] + n]
      /\ short' = IF n < size THEN short \cup {c} ELSE short
      /\ IF Complete(p) THEN Handle(p)
         ELSE packet' = p /\ UNCHANGED <<proc, who, out, handled>>
      /\ UNCHANGED <<plan, arrived, closed, players, pipe>>
  BY DEF ReceiveField, size
<1> HIDE DEF n
<1>8. bytes \in Seq(Byte)
  <2> DEFINE m == taken[c] + 1
             l == taken[c] + n
  <2>1. m \in Nat \ {0} /\ l \in 0..Len(Outgoing(c))
    BY <1>2, <1>4, <1>6
  <2> HIDE DEF m, l
  <2>2. SubSeq(Outgoing(c), m, l) \in Seq(Byte)
    BY <2>1, <1>2, SubSeqType
  <2> QED
    BY <2>2 DEF m, l
<1> HIDE DEF bytes
<1>9. /\ p \in Packet /\ p.id = packet.id
      /\ p.fields = Append(packet.fields, bytes) /\ Len(p.fields) = k + 1
  <2>1. Append(packet.fields, bytes) \in Seq(Seq(Byte))
        /\ Len(Append(packet.fields, bytes)) = k + 1
    BY <1>1, <1>8, AppendProperties DEF Packet
  <2>2. p = Received(packet, bytes) /\ packet \in Packet
    BY <1>1
  <2>3. p \in Packet /\ p.id = packet.id /\ p.fields = Append(packet.fields, bytes)
    BY <2>2, <1>8, ReceivedIs
  <2> QED
    BY <2>1, <2>3
<1>10. Complete(p) <=> k + 1 = Len(Layout[packet.id])
  BY <1>9 DEF Complete
<1> HIDE DEF p
<1>11. Types'
  <2>1. taken' \in [Client -> Nat] /\ \A d \in Client : taken'[d] <= arrived[d]
    BY <1>1, <1>6, <1>7 DEF IInv, Types
  <2>2. \A d \in Client : Outgoing(d)' = Outgoing(d)
    BY <1>7 DEF Outgoing
  <2>3. short' \subseteq Client
    BY <1>1, <1>7 DEF IInv, Types
  <2>4. CASE Complete(p)
    <3>1. Nothing \in Packet
      BY DEF Nothing, Begun, Packet, Byte
    <3>2. players # <<>>
      BY <1>1 DEF Range
    <3>3. Broadcast \in Seq(Piece)
      BY <3>2, BroadcastIs DEF IInv, Types
    <3>4. handled' \in [Client -> Seq(Packet)]
      <4>1. handled[c] \in Seq(Packet) /\ handled \in [Client -> Seq(Packet)]
        BY <1>1 DEF IInv, Types
      <4>2. Append(handled[c], p) \in Seq(Packet)
        BY <4>1, <1>9, AppendProperties
      <4>3. handled' = [handled EXCEPT ![c] = Append(handled[c], p)]
        BY <1>1, <1>7, <2>4 DEF Handle
      <4> QED
        BY <4>1, <4>2, <4>3
    <3>5. /\ proc' \in {"poll", "send"} /\ who' = Nobody /\ packet' \in Packet
          /\ out' \in Seq(Piece)
      BY <1>7, <2>4, <3>1, <3>3 DEF IInv, Types, Handle
    <3> QED
      BY <1>7, <2>1, <2>2, <2>3, <3>4, <3>5 DEF IInv, Types
  <2>5. CASE ~Complete(p)
    BY <1>7, <1>9, <2>1, <2>2, <2>3, <2>5 DEF IInv, Types
  <2> QED
    BY <2>4, <2>5
<1>12. Busy'
  <2>1. CASE Complete(p)
    <3>1. players # <<>>
      BY <1>1 DEF Range
    <3>2. Broadcast # <<>>
      BY <3>1, BroadcastIs DEF IInv, Types
    <3> QED
      BY <3>2, <2>1, <1>7 DEF Busy, Handle
  <2>2. CASE ~Complete(p)
    <3>1. Len(Layout[packet.id]) \in Nat
      BY <1>1, LayoutAssumption
    <3>2. k + 1 < Len(Layout[packet.id])
      BY <3>1, <2>2, <1>1, <1>10
    <3> QED
      BY <3>2, <2>2, <1>1, <1>7, <1>9 DEF Busy
  <2> QED
    BY <2>1, <2>2
<1>13. ASSUME Speaks(c), c \notin short' PROVE Followed(c)'
  <2> DEFINE pl == plan[c]
             h == Len(handled[c])
             sent == pl[h + 1]
             fs == sent.fields
  <2>1. c \notin short /\ n = size
    BY <1>5, <1>7, <1>13
  <2>2. Followed(c)
    BY <2>1, <1>1, <1>13 DEF IInv
  <2>3. Midway(c)
    BY <2>2, <1>1 DEF Followed
  <2>4. /\ h \in Nat /\ h < Len(pl) /\ packet.id = sent.id /\ k < Len(fs)
        /\ \A i \in 1..k : packet.fields[i] = fs[i]
        /\ taken[c] = End(pl, h) + 1 + Len(Joined(fs, k))
    BY <2>3, <1>1 DEF Midway, IInv, Types
  <2> DEFINE m == h + 1
  <2>5. m \in 1..Len(pl) /\ m - 1 = h /\ pl \in Seq(Message) /\ sent = pl[m]
    BY <2>4, <1>2
  <2>6. sent \in Message
    BY <2>5
  <2>7. /\ fs \in Seq(Seq(Byte)) /\ Len(fs) = Len(Layout[packet.id])
        /\ size = Len(fs[k + 1]) /\ sent \in Packet
    <3>1. /\ fs \in Seq(Seq(Byte)) /\ sent \in Packet /\ Len(fs) = Len(Layout[packet.id])
          /\ \A i \in DOMAIN fs : Len(fs[i]) = Layout[packet.id][i]
      <4>1. sent \in Packet /\ sent.id = packet.id
        BY <2>4, <2>6 DEF Message
      <4>2. packet.id \in Known
        BY <1>1
      <4>3. \A q \in Message : q.id \in Known =>
                /\ Len(q.fields) = Len(Layout[q.id])
                /\ \A i \in DOMAIN q.fields : Len(q.fields[i]) = Layout[q.id][i]
        BY DEF Message
      <4>4. \A q \in Packet : q.fields \in Seq(Seq(Byte))
        BY DEF Packet
      <4> HIDE DEF sent
      <4> QED
        BY <4>1, <4>2, <4>3, <4>4, <2>6
    <3>2. k + 1 \in DOMAIN fs
      <4>1. k \in Nat /\ k < Len(fs)
        BY <2>4, <1>1
      <4>2. fs \in Seq(Seq(Byte))
        BY <3>1
      <4> HIDE DEF fs
      <4>3. DOMAIN fs = 1..Len(fs) /\ Len(fs) \in Nat
        BY <4>2
      <4> QED
        BY <4>1, <4>3
    <3> QED
      BY <3>1, <3>2 DEF size, NextSize
  <2> HIDE DEF m, pl, sent
  <2>8. /\ SubSeq(Stream(pl), taken[c] + 1, taken[c] + Len(fs[k + 1])) = fs[k + 1]
        /\ taken[c] + Len(fs[k + 1]) = End(pl, h) + 1 + Len(Joined(fs, k + 1))
    <3>1. /\ taken[c] = End(pl, m - 1) + 1 + Len(Joined(pl[m].fields, k))
          /\ k \in Nat /\ k < Len(pl[m].fields)
      BY <2>4, <2>5, <1>1
    <3>2. LET field == pl[m].fields[k + 1]
          IN  /\ SubSeq(Stream(pl), taken[c] + 1, taken[c] + Len(field)) = field
              /\ taken[c] + Len(field) =
                    End(pl, m - 1) + 1 + Len(Joined(pl[m].fields, k + 1))
      BY <3>1, <2>5, FieldAt
    <3> QED
      BY <3>2, <2>5
  <2>9. bytes = fs[k + 1]
    BY <2>1, <2>7, <2>8, <1>2 DEF bytes, pl
  <2>10. taken'[c] = End(pl, h) + 1 + Len(Joined(fs, k + 1))
    BY <2>1, <2>7, <2>8, <1>1, <1>7 DEF IInv, Types
  <2>11. \A i \in 1..(k + 1) : p.fields[i] = fs[i]
    <3>1. packet.fields \in Seq(Seq(Byte))
      BY <1>1 DEF Packet
    <3>2. p.fields[k + 1] = bytes /\ \A i \in 1..k : p.fields[i] = packet.fields[i]
      BY <3>1, <1>8, <1>9, AppendProperties
    <3> TAKE i \in 1..(k + 1)
    <3>3. i = k + 1 \/ i \in 1..k
      BY <1>1
    <3> QED
      BY <3>2, <3>3, <2>4, <2>9
  <2>12. CASE Complete(p)
    <3>1. k + 1 = Len(fs)
      BY <2>7, <2>12, <1>10
    <3>2. p.fields = fs
      <4>1. p.fields \in Seq(Seq(Byte)) /\ Len(p.fields) = Len(fs)
        BY <3>1, <1>9 DEF Packet
      <4> QED
        BY <4>1, <3>1, <2>7, <2>11, SeqEqual
    <3>3. p = sent
      <4>1. /\ p = [id |-> p.id, fields |-> p.fields]
            /\ sent = [id |-> sent.id, fields |-> sent.fields]
        BY <2>7, <1>9 DEF Packet
      <4> QED
        BY <4>1, <3>2, <2>4, <1>9
    <3>4. /\ Len(handled'[c]) = h + 1 /\ handled'[c][h + 1] = sent
          /\ \A i \in 1..h : handled'[c][i] = handled[c][i]
      <4>1. handled'[c] = Append(handled[c], p) /\ handled[c] \in Seq(Packet)
        BY <2>12, <1>1, <1>7 DEF Handle, IInv, Types
      <4> QED
        BY <4>1, <3>3, <1>9, AppendProperties
    <3>5. taken'[c] = End(pl, h + 1)
      <4>1. Joined(fs, k + 1) = FlattenSeq(fs)
        BY <3>1, <2>7, JoinedEnds
      <4>2. End(pl, m) = End(pl, m - 1) + 1 + Len(FlattenSeq(pl[m].fields))
        BY <2>5, StreamAt
      <4> QED
        BY <4>1, <4>2, <2>5, <2>10 DEF m
    <3>6. \A i \in 1..(h + 1) : handled'[c][i] = pl[i]
      <4> TAKE i \in 1..(h + 1)
      <4>1. i = h + 1 \/ i \in 1..h
        BY <2>4
      <4> QED
        BY <4>1, <3>4, <2>2 DEF Followed, pl, sent
    <3>7. h + 1 <= Len(pl)
      BY <2>5 DEF m
    <3>8. proc' \in {"poll", "send"} /\ plan' = plan
      BY <2>12, <1>7 DEF Handle
    <3> QED
      BY <3>4, <3>5, <3>6, <3>7, <3>8 DEF Followed, pl
  <2>13. CASE ~Complete(p)
    <3>1. Len(fs) \in Nat /\ k + 1 < Len(fs)
      <4>1. /\ k \in Nat /\ Len(fs) \in Nat /\ k < Len(fs)
            /\ Len(fs) = Len(Layout[packet.id])
        BY <2>4, <2>7, <1>1
      <4> HIDE DEF fs
      <4> QED
        BY <4>1, <2>13, <1>10
    <3>2. packet' = p /\ UNCHANGED <<plan, proc, c, handled>>
      BY <2>13, <1>7
    <3>3. Midway(c)'
      BY <3>1, <3>2, <2>4, <2>10, <2>11, <1>9 DEF Midway, pl, sent
    <3>4. /\ handled'[c] = handled[c] /\ plan'[c] = plan[c]
          /\ proc' = "receive" /\ who' = c
      BY <3>2, <1>1, <1>7, <2>13
    <3>5. /\ Len(handled'[c]) <= Len(plan'[c])
          /\ \A i \in 1..Len(handled'[c]) : handled'[c][i] = plan'[c][i]
      BY <3>4, <2>2 DEF Followed
    <3> QED
      BY <3>3, <3>4, <3>5 DEF Followed
  <2> QED
    BY <2>12, <2>13
<1>14. \A d \in Client : d # c => Untouched(d)
  <2> TAKE d \in Client
  <2> SUFFICES ASSUME d # c PROVE Untouched(d)
    OBVIOUS
  <2>1. taken'[d] = taken[d] /\ (d \in short => d \in short')
    BY <1>7 DEF IInv, Types
  <2>2. handled'[d] = handled[d] /\ (proc' = "receive" => who' # d)
    BY <1>7 DEF IInv, Types, Handle
  <2> QED
    BY <1>1, <1>7, <2>1, <2>2 DEF Untouched
<1>15. ASSUME NEW d \in Client PROVE Speaks(d)' /\ d \notin short' => Followed(d)'
  <2>1. Speaks(d)' <=> Speaks(d)
    BY <1>7 DEF Speaks
  <2>2. CASE d = c
    BY <2>1, <2>2, <1>13
  <2>3. CASE d # c
    BY <2>3, <1>14, UntouchedFollows DEF IInv
  <2> QED
    BY <2>2, <2>3
<1> QED
  BY <1>11, <1>12, <1>15 DEF IInv

LEMMA InvStep == IInv /\ [Next]_vars => IInv'
<1> SUFFICES ASSUME IInv, [Next]_vars PROVE IInv'
  OBVIOUS
<1>1. CASE UNCHANGED vars
  <2>1. Types' /\ Busy'
    BY <1>1 DEF IInv, Types, Busy, vars, Outgoing
  <2>2. \A c \in Client : Untouched(c)
    BY <1>1 DEF vars, Untouched
  <2> QED
    BY <2>1, <2>2, UntouchedFollows DEF IInv
<1>2. CASE Peers
  BY <1>2, PeersStep DEF Peers
<1>3. CASE Poll
  BY <1>3, OnDataStep, OnErrorStep DEF Poll
<1>4. CASE ReceiveField
  <2>1. who \in Range(players) /\ players \in Seq(Client)
    BY <1>4 DEF IInv, Types, Busy, ReceiveField
  <2>2. PICK c \in Client : c = who
    BY <2>1 DEF Range
  <2> QED
    BY <1>4, <2>2, ReceiveFieldStep
<1> QED
  BY <1>1, <1>2, <1>3, <1>4, ReceiveThrowsStep, SendStep DEF Next

-----------------------------------------------------------------------------
(* The theorems.                                                           *)

\* Every reachable state is well typed: no receive takes what has not arrived,
\* no connection holds more than its capacity.
THEOREM TypeCorrect == Spec => []TypeOK
<1>1. IInv => TypeOK
  <2> SUFFICES ASSUME IInv PROVE TypeOK
    OBVIOUS
  <2>1. Range(players) \subseteq Client
    BY DEF IInv, Types, Range
  <2> QED
    BY <2>1 DEF IInv, Types, TypeOK
<1> QED
  BY InitInv, InvStep, <1>1, PTL DEF Spec

\* However the bytes of a client arrive in parts and whatever the server does
\* between them, it handles the packets that were sent, in their order, until
\* a receive of that client returns less than a field.
THEOREM AlwaysInStep == Spec => []InStep
<1>1. IInv => InStep
  <2> SUFFICES ASSUME IInv, NEW c \in Client, Speaks(c), c \notin short
               PROVE  /\ IsPrefix(handled[c], plan[c])
                      /\ proc = "receive" /\ who = c =>
                            LET sent == plan[c][Len(handled[c]) + 1]
                            IN  /\ packet.id = sent.id
                                /\ IsPrefix(packet.fields, sent.fields)
    BY DEF InStep
  <2>1. Followed(c) /\ Types
    BY DEF IInv
  <2>2. plan[c] \in Seq(Message) /\ handled[c] \in Seq(Packet)
    BY <2>1, OutgoingIs DEF Types
  <2>3. IsPrefix(handled[c], plan[c])
    <3>1. plan[c] \in Seq(Packet)
      BY <2>2 DEF Message
    <3> QED
      BY <3>1, <2>1, <2>2, PrefixIs DEF Followed
  <2>4. ASSUME proc = "receive", who = c
        PROVE  LET sent == plan[c][Len(handled[c]) + 1]
               IN  packet.id = sent.id /\ IsPrefix(packet.fields, sent.fields)
    <3> DEFINE h == Len(handled[c])
               sent == plan[c][h + 1]
    <3>1. /\ h < Len(plan[c]) /\ packet.id = sent.id
          /\ Len(packet.fields) < Len(sent.fields)
          /\ \A i \in 1..Len(packet.fields) : packet.fields[i] = sent.fields[i]
      BY <2>1, <2>4 DEF Followed, Midway
    <3>2. h + 1 \in 1..Len(plan[c])
      BY <2>2, <3>1
    <3>3. sent \in Packet /\ packet \in Packet
      BY <2>1, <2>2, <3>2 DEF Message, Types
    <3> HIDE DEF sent
    <3>4. /\ packet.fields \in Seq(Seq(Byte)) /\ sent.fields \in Seq(Seq(Byte))
          /\ Len(packet.fields) <= Len(sent.fields)
      BY <3>1, <3>3 DEF Packet
    <3>5. IsPrefix(packet.fields, sent.fields)
      BY <3>1, <3>4, PrefixIs
    <3> QED
      BY <3>1, <3>5 DEF sent
  <2> QED
    BY <2>3, <2>4
<1> QED
  BY InitInv, InvStep, <1>1, PTL DEF Spec

\* The only thread waits inside a receive only for a client that has sent the
\* begin of a packet and owes the rest, unless the stream of that client has
\* been shifted by a short receive before.
THEOREM AlwaysWaitsForDebtor == Spec => []WaitsForDebtor
<1>1. IInv => WaitsForDebtor
  <2> SUFFICES ASSUME IInv, proc = "receive", There(who) = 0, Speaks(who),
                      who \notin short
               PROVE  \E k \in DOMAIN plan[who] :
                          k = Len(handled[who]) + 1 /\ arrived[who] < End(plan[who], k)
    BY DEF WaitsForDebtor
  <2> DEFINE h == Len(handled[who])
             m == h + 1
             pl == plan[who]
             fs == pl[m].fields
             k == Len(packet.fields)
  <2>1. Types /\ who \in Client /\ packet \in Packet
    <3>1. who \in Range(players) /\ Types
      BY DEF IInv, Busy
    <3>2. players \in Seq(Client) /\ packet \in Packet
      BY <3>1 DEF Types
    <3>3. Range(players) \subseteq Client
      BY <3>2 DEF Range
    <3> QED
      BY <3>1, <3>2, <3>3
  <2>2. Midway(who)
    BY <2>1 DEF IInv, Followed
  <2>3. pl \in Seq(Message) /\ h \in Nat /\ k \in Nat /\ arrived[who] \in Nat
        /\ taken[who] \in Nat
    <3>1. pl \in Seq(Message) /\ handled[who] \in Seq(Packet)
      BY <2>1, OutgoingIs DEF Types
    <3>2. packet.fields \in Seq(Seq(Byte))
      BY <2>1 DEF Packet
    <3> QED
      BY <3>1, <3>2, <2>1 DEF Types
  <2>4. /\ h < Len(pl) /\ k < Len(fs) /\ packet.id = pl[m].id
        /\ taken[who] = End(pl, h) + 1 + Len(Joined(fs, k))
    BY <2>2 DEF Midway
  <2>5. m \in 1..Len(pl) /\ m - 1 = h
    BY <2>3, <2>4
  <2>6. pl[m] \in Message /\ pl[m].id \in Known
    BY <2>3, <2>5 DEF Speaks
  <2>7. Len(fs[k + 1]) \in Nat \ {0}
    <3>1. /\ Len(fs) = Len(Layout[pl[m].id]) /\ Len(fs) \in Nat
          /\ \A i \in 1..Len(fs) : Len(fs[i]) = Layout[pl[m].id][i]
      <4> HIDE DEF m, pl
      <4> QED
        BY <2>6, SMTT(30) DEF Message, Packet
    <3>2. k + 1 \in 1..Len(fs)
      <4>1. k < Len(fs) /\ k \in Nat
        BY <2>3, <2>4
      <4>2. Len(fs) \in Nat
        BY <3>1
      <4> HIDE DEF k, fs
      <4> QED
        BY <4>1, <4>2
    <3>3. Layout[pl[m].id][k + 1] \in Nat \ {0}
      <4> HIDE DEF k, fs
      <4> QED
        BY <2>6, <3>1, <3>2, LayoutAssumption
    <3> QED
      BY <3>1, <3>2, <3>3
  <2>8. arrived[who] = taken[who]
    BY <2>3 DEF There
  <2> HIDE DEF m, pl, h
  <2>9. taken[who] + Len(fs[k + 1]) <= End(pl, m)
    <3>1. /\ taken[who] = End(pl, m - 1) + 1 + Len(Joined(pl[m].fields, k))
          /\ k < Len(pl[m].fields)
      BY <2>4, <2>5
    <3> QED
      BY <3>1, <2>3, <2>5, FieldAt
  <2>10. End(pl, m) \in Nat
    BY <2>3, <2>5, EndsAre
  <2>11. taken[who] < End(pl, m)
    <3> HIDE DEF k, fs
    <3> QED
      BY <2>3, <2>7, <2>9, <2>10
  <2>12. m \in DOMAIN pl
    BY <2>3, <2>5
  <2> QED
    BY <2>8, <2>11, <2>12 DEF m, pl, h
<1> QED
  BY InitInv, InvStep, <1>1, PTL DEF Spec
=============================================================================
