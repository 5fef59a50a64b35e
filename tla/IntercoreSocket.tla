-------------------------- MODULE IntercoreSocket --------------------------
(***************************************************************************)
(* One of the two ring buffers in memory that the cores of the MT3620      *)
(* share: the part of Socket.c that an index or a byte depends on.         *)
(*                                                                         *)
(* A ring has CAPACITY bytes.  A message takes a size field, a header and  *)
(* its payload, and the next one begins at the next multiple of            *)
(* RB_ALIGNMENT, all of it wrapping around at the end.  The payloads are   *)
(* all INTERCORE_DISK_DATA_BLOCK_T, so there is one size.  A byte of the   *)
(* ring is modelled by the message it belongs to and its place in it.      *)
(* Bytes that have been read are Unused; the code leaves them as they are. *)
(***************************************************************************)
EXTENDS Integers, Sequences

CONSTANTS
    RB_ALIGNMENT,       \* 16
    SIZE_FIELD,         \* sizeof(uint32_t)
    MSG_HEADER,         \* sizeof(Socket_Msg_Header)
    PAYLOAD,            \* sizeof(INTERCORE_DISK_DATA_BLOCK_T)
    RB_MAX_PAYLOAD_LEN, \* 1040
    RECV_BUFFER,        \* sizeof(recvBuffer)
    CAPACITY,           \* a power of two less the 64 bytes of the ring's header
    Unused              \* a byte that belongs to no unread message

ASSUME SocketAssumption ==
    /\ {RB_ALIGNMENT, SIZE_FIELD, MSG_HEADER, PAYLOAD, CAPACITY} \subseteq Nat \ {0}
    /\ {RB_MAX_PAYLOAD_LEN, RECV_BUFFER} \subseteq Nat
    /\ SIZE_FIELD <= RB_ALIGNMENT
    /\ CAPACITY % RB_ALIGNMENT = 0
    /\ PAYLOAD <= RECV_BUFFER

BLOCK == SIZE_FIELD + MSG_HEADER + PAYLOAD

RoundUp(value) == ((value + RB_ALIGNMENT - 1) \div RB_ALIGNMENT) * RB_ALIGNMENT

\* From the start of a message to the start of the next.
SLOT == RoundUp(BLOCK)

Cells == 0 .. CAPACITY - 1

EmptyRing == [data |-> [c \in Cells |-> Unused], writeIndex |-> 0, readIndex |-> 0]

-----------------------------------------------------------------------------
\* Where the byte number k of a transfer that starts at startPos lies.
CellOf(startPos, k) ==
    LET toEnd == CAPACITY - startPos
    IN IF k < toEnd THEN startPos + k ELSE k - toEnd

\* The end of a transfer, which may be CAPACITY.
FinalPos(startPos, size) ==
    IF startPos + size > CAPACITY THEN startPos + size - CAPACITY ELSE startPos + size

WriteRB(data, startPos, bytes) ==
    [c \in Cells |-> IF \E k \in DOMAIN bytes : CellOf(startPos, k) = c
                     THEN bytes[CHOOSE k \in DOMAIN bytes : CellOf(startPos, k) = c]
                     ELSE data[c]]

NextBlock(pos) ==
    IF RoundUp(pos) >= CAPACITY THEN RoundUp(pos) - CAPACITY ELSE RoundUp(pos)

IndexOK(index) == index < CAPACITY /\ index % RB_ALIGNMENT = 0

AvailSpace(rb) ==
    IF rb.readIndex <= rb.writeIndex
    THEN rb.readIndex - rb.writeIndex + CAPACITY
    ELSE rb.readIndex - rb.writeIndex

\* Mutant: data that wraps around is not taken for what it is.
AvailDataUnwrapped(rb) == rb.writeIndex - rb.readIndex

AvailData(rb) ==
    IF rb.writeIndex >= rb.readIndex
    THEN rb.writeIndex - rb.readIndex
    ELSE rb.writeIndex - rb.readIndex + CAPACITY

\* The size bytes from number first of message m.
BytesOf(m, first, size) == [k \in 0 .. size - 1 |-> <<m, first + k>>]

-----------------------------------------------------------------------------
\* Socket_Write has room for a message.
CanWrite(rb) ==
    /\ PAYLOAD <= RB_MAX_PAYLOAD_LEN
    /\ IndexOK(rb.readIndex) /\ IndexOK(rb.writeIndex)
    /\ AvailSpace(rb) >= BLOCK + RB_ALIGNMENT

SocketWrite(rb, m) ==
    LET header  == FinalPos(rb.writeIndex, SIZE_FIELD)
        payload == FinalPos(header, MSG_HEADER)
        end     == FinalPos(payload, PAYLOAD)
        sized   == WriteRB(rb.data, rb.writeIndex, BytesOf(m, 0, SIZE_FIELD))
        headed  == WriteRB(sized, header, BytesOf(m, SIZE_FIELD, MSG_HEADER))
    IN [data |-> WriteRB(headed, payload, BytesOf(m, SIZE_FIELD + MSG_HEADER, PAYLOAD)),
        writeIndex |-> NextBlock(end),
        readIndex  |-> rb.readIndex]

\* Socket_Read finds a message.  Every size field says BLOCK less itself, which
\* is at least MSG_HEADER.
CanRead(rb) ==
    /\ IndexOK(rb.writeIndex) /\ IndexOK(rb.readIndex)
    /\ AvailData(rb) >= SIZE_FIELD
    /\ SIZE_FIELD <= CAPACITY - rb.readIndex
    /\ BLOCK <= AvailData(rb)
    /\ PAYLOAD <= RECV_BUFFER

SocketRead(rb) ==
    LET header  == FinalPos(rb.readIndex, SIZE_FIELD)
        payload == FinalPos(header, MSG_HEADER)
        end     == FinalPos(payload, PAYLOAD)
    IN [data |-> [c \in Cells |->
                     IF \E k \in 0 .. BLOCK - 1 : CellOf(rb.readIndex, k) = c
                     THEN Unused ELSE rb.data[c]],
        writeIndex |-> rb.writeIndex,
        readIndex  |-> NextBlock(end)]

-----------------------------------------------------------------------------
(***************************************************************************)
(* The ring is the queue of the messages that were written and not yet     *)
(* read: it holds every byte of each in its place, and the indices say how *)
(* many there are.                                                         *)
(***************************************************************************)
RingHolds(rb, queue) ==
    /\ rb.readIndex \in Nat /\ IndexOK(rb.readIndex)
    /\ rb.writeIndex \in Nat /\ IndexOK(rb.writeIndex)
    /\ AvailData(rb) = Len(queue) * SLOT
    /\ \A i \in 1 .. Len(queue), k \in 0 .. BLOCK - 1 :
          rb.data[CellOf(rb.readIndex, (i - 1) * SLOT + k)] = <<queue[i], k>>
=============================================================================
