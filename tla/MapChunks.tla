------------------------------- MODULE MapChunks -------------------------------
(***************************************************************************)
(* World::processMapSend: the compressed map is cut into the packets every *)
(* player is sent.  The list of packets is made first, as long as the size *)
(* calls for; a do-while loop then fills one packet per iteration.         *)
(*                                                                         *)
(* A byte of the map is its offset, so a packet's payload is where it      *)
(* begins and how long it is.  The progress bar's number is left out.      *)
(***************************************************************************)
EXTENDS Integers, Sequences

CONSTANTS
    ChunkSize,   \* payload of one packet (1024)
    ZippedSizes  \* sizes the compressed map may have; two gzip streams are
                 \* never empty

ASSUME ChunksAssumption ==
    /\ ChunkSize \in Nat \ {0}
    /\ ZippedSizes \subseteq Nat \ {0}

VARIABLES
    zippedSize,  \* zippedData.size()
    chunks,      \* MapSendData::chunks
    cut,         \* packets the loop has filled, the position of ChunkPacket
    it,          \* offset of the first byte not yet in a packet
    cutting,     \* the loop goes on
    overrun      \* a packet was written behind the end of the list

chunkVars == <<zippedSize, chunks, cut, it, cutting, overrun>>

Empty == [from |-> 0, size |-> 0]

\* Mutant of CeilDiv: one packet short when the size is no multiple.
FloorDiv(a, b) == a \div b

CeilDiv(a, b) == (a + b - 1) \div b

CutInit ==
    /\ zippedSize \in ZippedSizes
    /\ chunks = [i \in 1..CeilDiv(zippedSize, ChunkSize) |-> Empty]
    /\ cut = 0 /\ it = 0
    /\ cutting = TRUE /\ overrun = FALSE

\* Mutant of PieceSize: the whole rest goes into the packet.
PieceSizeUncapped(left) == left

\* min(itend - it, 1024)
PieceSize(left) == IF left > ChunkSize THEN ChunkSize ELSE left

\* One iteration.  Behind the last element std::list has its own bookkeeping:
\* what the write does there is undefined, the list itself is unchanged.
CutChunk ==
    LET size == PieceSize(zippedSize - it)
    IN  /\ cutting
        /\ IF cut < Len(chunks)
           THEN /\ chunks' = [chunks EXCEPT ![cut + 1] = [from |-> it, size |-> size]]
                /\ UNCHANGED overrun
           ELSE overrun' = TRUE /\ UNCHANGED chunks
        /\ cut' = cut + 1
        /\ it' = it + size
        /\ cutting' = (size = ChunkSize)
        /\ UNCHANGED zippedSize

=============================================================================
