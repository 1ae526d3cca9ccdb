---------------------------- MODULE PacketFraming ----------------------------
(***************************************************************************)
(* How CConnection turns the byte stream of a socket back into packets:    *)
(* HandleRecvEvent, DoReceive and ExtractBuffer                            *)
(* (Server/ServerEngine/Connection.cpp), for packets smaller than the      *)
(* receive buffer (SmallPackets); PacketFramingLarge adds the larger ones. *)
(*                                                                         *)
(* The stream is the sequence of the peer's packets; a byte is its         *)
(* position in the stream, from 1.  TCP may cut the stream anywhere: a     *)
(* receive delivers any number of the bytes not yet received that fit in   *)
(* the receive buffer.  One thread at a time works on a connection         *)
(* (NetEngine, Custody), so a step of the loop is an action.               *)
(***************************************************************************)
EXTENDS Integers, Sequences

CONSTANTS
    HeaderSize,   \* sizeof(PacketHeader)
    BuffSize,     \* CONST_BUFF_SIZE, the size of m_pRecvBuf
    PacketSizes,  \* the sizes of the packets peers send, header included
    MaxPackets,   \* bound: packets in the stream
    MaxBytes      \* bound: bytes in the stream

ASSUME FramingAssumption ==
    /\ HeaderSize \in Nat \ {0} /\ BuffSize \in Nat /\ HeaderSize < BuffSize
    /\ MaxPackets \in Nat /\ MaxBytes \in Nat
    /\ PacketSizes \subseteq Nat
    /\ \A size \in PacketSizes : size >= HeaderSize

\* What this module is about, and the hypothesis of the theorems: a larger
\* packet takes a branch of ExtractBuffer that is only in PacketFramingLarge,
\* where bytes do get lost.
SmallPackets == \A size \in PacketSizes : size < BuffSize

VARIABLES
    ends,      \* ends[k]: the last byte of packet k of the stream; ends[0] = 0
    received,  \* bytes taken from the socket
    unread,    \* the m_dwDataLen bytes at m_pBufPos
    pc,        \* "idle" between two receives, "extract" inside ExtractBuffer
    handed,    \* history: the bytes of the buffers given to OnDataHandle
    packets    \* history: how many buffers that were

vars == <<ends, received, unread, pc, handed, packets>>

\* The streams peers send.  That the ends grow follows from the sizes, by an
\* induction which no prover at hand does.
Streams == {e \in [0 .. MaxPackets -> 0 .. MaxBytes] :
               /\ e[0] = 0
               /\ \A j, k \in 0 .. MaxPackets : j < k => e[j] < e[k]
               /\ \A k \in 1 .. MaxPackets : e[k] - e[k - 1] \in PacketSizes}

Init ==
    /\ ends \in Streams
    /\ received = 0
    /\ unread = <<>>
    /\ pc = "idle"
    /\ handed = <<>>
    /\ packets = 0

-----------------------------------------------------------------------------
\* The first n elements of s, and the others.
First(s, n) == SubSeq(s, 1, n)
Rest(s, n)  == SubSeq(s, n + 1, Len(s))

\* pHeader->dwSize is size: the size of the packet that starts at m_pBufPos;
\* bytes inside a packet could be read as any size.
HeaderSays(size) ==
    IF \E k \in 1 .. MaxPackets : unread[1] = ends[k - 1] + 1
    THEN \E k \in 1 .. MaxPackets : unread[1] = ends[k - 1] + 1 /\ size = ends[k] - ends[k - 1]
    ELSE size \in PacketSizes

NoHeader(len) == len < HeaderSize

\* The rest of the packet has not come yet, and will fit in the buffer.
\* (IncompleteAtEnd, IncompleteUnlessExact and RecvOver are plausible mistakes,
\* which some property refutes: see PROJECT.json.)
IncompleteUnlessExact(size, len) == size # len /\ size < BuffSize
IncompleteAtEnd(size, len) == size >= len /\ size < BuffSize
Incomplete(size, len) == size > len /\ size < BuffSize

OnDataHandle(bytes) ==
    /\ handed' = handed \o bytes
    /\ packets' = packets + 1

\* The receive is given the room behind the bytes that are still unread.
RecvOver(n) == unread' = [i \in 1 .. n |-> received + i]
RecvBehind(n) == unread' = unread \o [i \in 1 .. n |-> received + i]

HandleRecvEvent(n) ==
    /\ pc = "idle"
    /\ n \in 1 .. BuffSize - Len(unread)
    /\ received + n <= ends[MaxPackets]
    /\ received' = received + n
    /\ RecvBehind(n)
    /\ pc' = "extract"
    /\ UNCHANGED <<ends, handed, packets>>

\* The loop ends: the bytes left are moved to the front of the buffer.
Stop ==
    /\ pc = "extract"
    /\ \/ NoHeader(Len(unread))
       \/ ~NoHeader(Len(unread)) /\ \E size \in PacketSizes :
             HeaderSays(size) /\ Incomplete(size, Len(unread))
    /\ pc' = "idle"
    /\ UNCHANGED <<ends, received, unread, handed, packets>>

\* A whole packet is copied to a buffer of its own and handed over.
HandOver ==
    /\ pc = "extract"
    /\ ~NoHeader(Len(unread))
    /\ \E size \in PacketSizes :
          /\ HeaderSays(size)
          /\ ~Incomplete(size, Len(unread)) /\ size <= Len(unread)
          /\ OnDataHandle(First(unread, size))
          /\ unread' = Rest(unread, size)
    /\ UNCHANGED <<ends, received, pc>>

Next == Stop \/ HandOver \/ \E n \in 1 .. BuffSize : HandleRecvEvent(n)

Spec == Init /\ [][Next]_vars
-----------------------------------------------------------------------------
(* Properties *)

\* Every variable stays in its range.
TypeOK ==
    /\ ends \in Streams
    /\ received \in 0 .. ends[MaxPackets] /\ packets \in Nat
    /\ unread \in Seq(Nat) /\ handed \in Seq(Nat)
    /\ pc \in {"idle", "extract"}

\* Every byte received has been handed over or is still to be read, in the
\* order of the stream: none is lost and none appears twice.
Conservation == handed \o unread = [i \in 1 .. received |-> i]

\* The buffers handed over are the packets of the stream, cut where the peer
\* cut them: framing never slips, whatever the fragmentation.
Framed == packets <= MaxPackets /\ Len(handed) = ends[packets]

\* The inductive invariant, which the proofs use, checked here by TLC.
IInv == TypeOK /\ Conservation /\ Framed

\* There is room for the next receive: a receive into an empty space completes
\* with 0 bytes, which closes the connection.
RoomToReceive == pc = "idle" => Len(unread) < BuffSize

\* A packet is handed over by the event that brings its last byte.
NothingWithheld ==
    pc = "idle" => \A k \in 1 .. MaxPackets : ends[k] <= received => packets >= k
=============================================================================
