------------------------ MODULE PacketFraming_proofs ------------------------
(***************************************************************************)
(* Proofs about PacketFraming, for any header and buffer size, any sizes   *)
(* of packets smaller than the buffer, any stream and any fragmentation.   *)
(***************************************************************************)
EXTENDS PacketFraming, SequenceTheorems, TLAPS

\* The bytes up to n, in order.
Bytes(n) == [i \in 1 .. n |-> i]

LEMMA Sizes ==
    /\ HeaderSize \in Nat /\ HeaderSize > 0 /\ BuffSize \in Nat /\ HeaderSize < BuffSize
    /\ MaxPackets \in Nat /\ MaxBytes \in Nat
    /\ \A size \in PacketSizes : size \in Nat /\ size >= HeaderSize
  BY FramingAssumption

\* Appending bytes may be done piece by piece.
LEMMA Associative ==
    ASSUME NEW a \in Seq(Nat), NEW b \in Seq(Nat), NEW c \in Seq(Nat)
    PROVE  (a \o b) \o c = a \o (b \o c)
  BY ConcatAssociative

\* The two parts of a sequence of bytes.
LEMMA Cut ==
    ASSUME NEW s \in Seq(Nat), NEW n \in Nat, n <= Len(s)
    PROVE  /\ First(s, n) \in Seq(Nat) /\ Len(First(s, n)) = n
           /\ Rest(s, n) \in Seq(Nat)
<1>1. First(s, n) \in Seq(Nat) /\ Len(First(s, n)) = n
  BY DEF First
<1>2. Rest(s, n) \in Seq(Nat)
  BY DEF Rest
<1> QED
  BY <1>1, <1>2

\* What Conservation says of lengths, and of the next byte to read.
LEMMA Lengths ==
    ASSUME TypeOK, Conservation
    PROVE  /\ Len(handed) \in Nat /\ Len(unread) \in Nat /\ received \in Nat
           /\ Len(handed) + Len(unread) = received
           /\ Len(unread) > 0 => unread[1] = Len(handed) + 1
<1>1. handed \in Seq(Nat) /\ unread \in Seq(Nat)
  BY DEF TypeOK
<1>2. ends \in [0 .. MaxPackets -> 0 .. MaxBytes] /\ received \in 0 .. ends[MaxPackets]
  BY DEF TypeOK, Streams
<1>3. received \in Nat
  BY <1>2, Sizes
<1>4. Bytes(received) \in Seq(Nat) /\ Len(Bytes(received)) = received
  BY <1>3 DEF Bytes
<1>5. handed \o unread = Bytes(received)
  BY DEF Conservation, Bytes
<1>6. /\ Len(handed \o unread) = Len(handed) + Len(unread)
      /\ Len(unread) > 0 => (handed \o unread)[Len(handed) + 1] = unread[1]
  BY <1>1
<1>7. Len(unread) > 0 => Bytes(received)[Len(handed) + 1] = Len(handed) + 1
  BY <1>1, <1>3, <1>4, <1>5, <1>6 DEF Bytes
<1> QED BY <1>1, <1>3, <1>4, <1>5, <1>6, <1>7

\* At the front of the unread bytes there is always the header of the next
\* packet, so dwSize is that packet's size.
LEMMA HeaderKnown ==
    ASSUME IInv, Len(unread) > 0
    PROVE  /\ packets < MaxPackets
           /\ ends[packets + 1] - ends[packets] \in PacketSizes
           /\ \A size : HeaderSays(size) => size = ends[packets + 1] - ends[packets]
<1>1. TypeOK /\ Conservation /\ Framed
  BY DEF IInv
<1>2. /\ Len(handed) \in Nat /\ Len(unread) \in Nat
      /\ Len(handed) + Len(unread) = received
      /\ unread[1] = ends[packets] + 1
  BY <1>1, Lengths DEF Framed
<1>3. /\ ends \in [0 .. MaxPackets -> 0 .. MaxBytes]
      /\ \A j, k \in 0 .. MaxPackets : j < k => ends[j] < ends[k]
      /\ \A k \in 1 .. MaxPackets : ends[k] - ends[k - 1] \in PacketSizes
      /\ received <= ends[MaxPackets]
  BY <1>1, Sizes DEF TypeOK, Streams
<1>4. packets \in 0 .. MaxPackets /\ Len(handed) = ends[packets]
  BY <1>1, Sizes DEF TypeOK, Framed
<1>5. packets < MaxPackets
  BY <1>2, <1>3, <1>4, Sizes
<1>6. packets + 1 \in 1 .. MaxPackets /\ (packets + 1) - 1 = packets
  BY <1>4, <1>5, Sizes
<1>7. ASSUME NEW k \in 1 .. MaxPackets, unread[1] = ends[k - 1] + 1
      PROVE  k = packets + 1
  <2>1. k - 1 \in 0 .. MaxPackets /\ ends[k - 1] = ends[packets]
    BY <1>2, <1>3, <1>4, <1>7, Sizes
  <2>2. ~(k - 1 < packets) /\ ~(packets < k - 1)
    BY <2>1, <1>3, <1>4
  <2> QED BY <2>1, <2>2, <1>4, Sizes
<1>8. ASSUME NEW size, HeaderSays(size)
      PROVE  size = ends[packets + 1] - ends[packets]
  <2>1. PICK k \in 1 .. MaxPackets :
            unread[1] = ends[k - 1] + 1 /\ size = ends[k] - ends[k - 1]
    BY <1>2, <1>6, <1>8 DEF HeaderSays
  <2>2. k = packets + 1
    BY <2>1, <1>7
  <2> QED BY <2>1, <2>2, <1>6
<1> QED BY <1>3, <1>5, <1>6, <1>8

-----------------------------------------------------------------------------
(* The inductive invariant. *)

LEMMA InitIInv == Init => IInv
<1> SUFFICES ASSUME Init PROVE IInv
  OBVIOUS
<1>1. ends \in [0 .. MaxPackets -> 0 .. MaxBytes] /\ ends[0] = 0
  BY DEF Init, Streams
<1>2. ends[MaxPackets] \in Nat
  BY <1>1, Sizes
<1>3. TypeOK
  BY <1>2 DEF Init, TypeOK
<1>4. Conservation
  BY DEF Init, Conservation
<1>5. Framed
  BY <1>1, Sizes DEF Init, Framed
<1> QED BY <1>3, <1>4, <1>5 DEF IInv

LEMMA HandleRecvEventInv ==
    ASSUME IInv, NEW n \in 1 .. BuffSize, HandleRecvEvent(n)
    PROVE  IInv'
<1>1. TypeOK /\ Conservation /\ Framed
  BY DEF IInv
<1>2. /\ n \in Nat /\ received' = received + n /\ received + n <= ends[MaxPackets]
      /\ unread' = unread \o [i \in 1 .. n |-> received + i]
      /\ pc' = "extract" /\ UNCHANGED <<ends, handed, packets>>
  BY Sizes DEF HandleRecvEvent, RecvBehind
<1> HIDE DEF HandleRecvEvent
<1> DEFINE new == [i \in 1 .. n |-> received + i]
<1>3. received \in Nat
  BY <1>1, Lengths
<1>4. handed \in Seq(Nat) /\ unread \in Seq(Nat) /\ new \in Seq(Nat) /\ Len(new) = n
  BY <1>1, <1>2, <1>3 DEF TypeOK
<1>5. TypeOK'
  <2>1. unread' \in Seq(Nat)
    BY <1>2, <1>4
  <2>2. ends[MaxPackets] \in Nat
    BY <1>1, Sizes DEF TypeOK, Streams
  <2>3. received' \in 0 .. ends'[MaxPackets]
    BY <1>2, <1>3, <2>2
  <2> QED BY <1>1, <1>2, <2>1, <2>3 DEF TypeOK, Streams
<1>6. Conservation'
  <2>1. handed' \o unread' = (handed \o unread) \o new
    <3> HIDE DEF new
    <3>1. (handed \o unread) \o new = handed \o (unread \o new)
      BY ONLY <1>4, Associative
    <3> QED BY <1>2, <3>1 DEF new
  <2>2. handed \o unread = Bytes(received)
    BY <1>1 DEF Conservation, Bytes
  <2>3. Bytes(received) \o new = Bytes(received + n)
    <3>1. Bytes(received) \in Seq(Nat) /\ Len(Bytes(received)) = received
      BY <1>3 DEF Bytes
    <3>2. Bytes(received + n) \in Seq(Nat) /\ Len(Bytes(received + n)) = received + n
      BY <1>2, <1>3 DEF Bytes
    <3>3. /\ Bytes(received) \o new \in Seq(Nat)
          /\ Len(Bytes(received) \o new) = received + n
      <4> HIDE DEF new
      <4> QED BY <1>4, <3>1, ConcatProperties
    <3>4. ASSUME NEW i \in 1 .. received + n
          PROVE  (Bytes(received) \o new)[i] = Bytes(received + n)[i]
      <4>1. CASE i <= received
        BY <1>2, <1>3, <1>4, <3>1, <4>1 DEF Bytes
      <4>2. CASE i > received
        BY <1>2, <1>3, <1>4, <3>1, <4>2 DEF Bytes
      <4>3. i \in Nat
        BY <1>2, <1>3
      <4> HIDE DEF new
      <4>4. i <= received \/ i > received
        BY <1>3, <4>3
      <4> QED BY <4>1, <4>2, <4>4
    <3> HIDE DEF new
    <3> QED BY <3>2, <3>3, <3>4, SeqEqual
  <2> QED BY <1>2, <2>1, <2>2, <2>3 DEF Conservation, Bytes
<1>7. Framed'
  BY <1>1, <1>2 DEF Framed
<1> QED BY <1>5, <1>6, <1>7 DEF IInv

LEMMA HandOverInv ==
    ASSUME IInv, HandOver
    PROVE  IInv'
<1>1. TypeOK /\ Conservation /\ Framed
  BY DEF IInv
<1>2. /\ Len(handed) \in Nat /\ Len(unread) \in Nat /\ received \in Nat
      /\ Len(handed) + Len(unread) = received
  BY <1>1, Lengths
<1>3. handed \in Seq(Nat) /\ unread \in Seq(Nat) /\ packets \in Nat
  BY <1>1 DEF TypeOK
<1>4. PICK size \in PacketSizes :
          /\ HeaderSays(size) /\ size <= Len(unread)
          /\ handed' = handed \o First(unread, size) /\ packets' = packets + 1
          /\ unread' = Rest(unread, size)
          /\ UNCHANGED <<ends, received, pc>>
  BY DEF HandOver, OnDataHandle
<1>5. size \in Nat /\ size > 0
  BY Sizes
<1>6. packets < MaxPackets /\ size = ends[packets + 1] - ends[packets]
  BY <1>2, <1>4, <1>5, HeaderKnown
<1>7. /\ First(unread, size) \in Seq(Nat) /\ Len(First(unread, size)) = size
      /\ Rest(unread, size) \in Seq(Nat)
  BY <1>3, <1>4, <1>5, Cut
<1>8. TypeOK'
  BY <1>1, <1>3, <1>4, <1>7 DEF TypeOK, Streams
<1>9. Conservation'
  <2>1. First(unread, size) \o Rest(unread, size) = unread
    <3>1. 1 \in 1 .. Len(unread) + 1 /\ size \in 1 - 1 .. Len(unread)
             /\ Len(unread) \in size .. Len(unread)
      BY <1>2, <1>4, <1>5
    <3>2. SubSeq(unread, 1, size) \o SubSeq(unread, size + 1, Len(unread))
            = SubSeq(unread, 1, Len(unread))
      BY <1>3, <3>1, ConcatAdjacentSubSeq
    <3>3. SubSeq(unread, 1, Len(unread)) = unread
      BY <1>3, SubSeqFull
    <3> QED BY <3>2, <3>3 DEF First, Rest
  <2>2. (handed \o First(unread, size)) \o Rest(unread, size)
          = handed \o (First(unread, size) \o Rest(unread, size))
    <3> DEFINE first == First(unread, size)
               rest  == Rest(unread, size)
    <3>1. first \in Seq(Nat) /\ rest \in Seq(Nat)
      BY <1>7
    <3> HIDE DEF first, rest
    <3>2. (handed \o first) \o rest = handed \o (first \o rest)
      BY ONLY <1>3, <3>1, Associative
    <3> QED BY <3>2 DEF first, rest
  <2> QED BY <1>1, <1>4, <2>1, <2>2 DEF Conservation
<1>10. Framed'
  <2>1. Len(handed') = Len(handed) + size
    <3> DEFINE first == First(unread, size)
    <3>1. first \in Seq(Nat) /\ Len(first) = size /\ handed' = handed \o first
      BY <1>4, <1>7
    <3> HIDE DEF first
    <3> QED BY <1>3, <3>1, ConcatProperties
  <2>2. ends \in [0 .. MaxPackets -> 0 .. MaxBytes]
    BY <1>1 DEF TypeOK, Streams
  <2>3. packets \in 0 .. MaxPackets /\ packets + 1 \in 0 .. MaxPackets
    BY <1>3, <1>6, Sizes
  <2> QED BY <1>1, <1>4, <1>6, <2>1, <2>2, <2>3, Sizes DEF Framed
<1> QED BY <1>8, <1>9, <1>10 DEF IInv

LEMMA StopInv ==
    ASSUME IInv, Stop
    PROVE  IInv'
<1>1. pc' = "idle" /\ UNCHANGED <<ends, received, unread, handed, packets>>
  BY DEF Stop
<1> QED BY <1>1 DEF IInv, TypeOK, Conservation, Framed

LEMMA StepIInv == IInv /\ [Next]_vars => IInv'
<1> SUFFICES ASSUME IInv, [Next]_vars PROVE IInv'
  OBVIOUS
<1>1. CASE UNCHANGED vars
  BY <1>1 DEF vars, IInv, TypeOK, Conservation, Framed
<1>2. CASE Stop
  BY <1>2, StopInv
<1>3. CASE HandOver
  BY <1>3, HandOverInv
<1>4. ASSUME NEW n \in 1 .. BuffSize, HandleRecvEvent(n)
      PROVE  IInv'
  BY <1>4, HandleRecvEventInv
<1> QED BY <1>1, <1>2, <1>3, <1>4 DEF Next

\* When every packet is smaller than the receive buffer: whatever the
\* fragmentation, no byte is lost, doubled or moved, and the buffers handed
\* over are the peer's packets.
THEOREM FramingInvariant == SmallPackets /\ Spec => []IInv
  BY InitIInv, StepIInv, PTL DEF Spec

-----------------------------------------------------------------------------
(* What the next receive finds. *)

LEMMA StopLeavesRoom ==
    ASSUME IInv, Stop
    PROVE  RoomToReceive' /\ NothingWithheld'
<1>1. TypeOK /\ Conservation /\ Framed
  BY DEF IInv
<1>2. /\ Len(handed) \in Nat /\ Len(unread) \in Nat /\ received \in Nat
      /\ Len(handed) + Len(unread) = received
      /\ Len(handed) = ends[packets] /\ packets \in 0 .. MaxPackets
  BY <1>1, Lengths, Sizes DEF Framed, TypeOK
<1>3. UNCHANGED <<ends, received, unread, handed, packets>>
  BY DEF Stop
<1>4. /\ ends \in [0 .. MaxPackets -> 0 .. MaxBytes]
      /\ \A j, k \in 0 .. MaxPackets : j < k => ends[j] < ends[k]
      /\ \A k \in 1 .. MaxPackets : ends[k] - ends[k - 1] \in PacketSizes
  BY <1>1 DEF TypeOK, Streams
<1>5. \/ Len(unread) < HeaderSize
      \/ /\ ~(Len(unread) < HeaderSize)
         /\ \E size \in PacketSizes :
               HeaderSays(size) /\ size > Len(unread) /\ size < BuffSize
  BY DEF Stop, NoHeader, Incomplete
<1>6. Len(unread) < BuffSize
  BY <1>2, <1>5, Sizes
<1>7. ASSUME packets < MaxPackets
      PROVE  Len(unread) < ends[packets + 1] - ends[packets]
  <2>1. packets + 1 \in 1 .. MaxPackets /\ (packets + 1) - 1 = packets
    BY <1>2, <1>7, Sizes
  <2>2. ends[packets + 1] - ends[packets] \in PacketSizes
    BY <1>4, <2>1
  <2>3. CASE Len(unread) < HeaderSize
    BY <1>2, <2>2, <2>3, Sizes
  <2>4. CASE ~(Len(unread) < HeaderSize)
    <3>1. PICK size \in PacketSizes : HeaderSays(size) /\ size > Len(unread)
      BY <1>5, <2>4
    <3>2. Len(unread) > 0
      BY <1>2, <2>4, Sizes
    <3>3. size = ends[packets + 1] - ends[packets]
      BY <3>1, <3>2, HeaderKnown
    <3> QED BY <3>1, <3>3, Sizes
  <2> QED BY <2>3, <2>4
<1>8. ASSUME NEW k \in 1 .. MaxPackets, ends[k] <= received
      PROVE  packets >= k
  <2> SUFFICES ASSUME packets < k PROVE FALSE
    BY <1>2, Sizes
  <2>1. packets < MaxPackets /\ packets + 1 \in 0 .. MaxPackets
    BY <1>2, Sizes
  <2>2. ends[packets + 1] <= ends[k]
    <3>1. CASE k = packets + 1
      BY <3>1, <1>4, <2>1
    <3>2. CASE packets + 1 < k
      BY <3>2, <1>4, <2>1, Sizes
    <3> QED BY <3>1, <3>2, <1>2, Sizes
  <2>3. /\ ends[packets] \in Nat /\ ends[packets + 1] \in Nat /\ ends[k] \in Nat
        /\ Len(unread) < ends[packets + 1] - ends[packets]
    BY <1>2, <1>4, <1>7, <2>1, Sizes
  <2> QED BY ONLY <1>2, <1>8, <2>2, <2>3
<1>9. RoomToReceive'
  BY <1>3, <1>6 DEF RoomToReceive
<1> QED BY <1>3, <1>8, <1>9 DEF NothingWithheld

LEMMA StepReceives ==
    IInv /\ RoomToReceive /\ NothingWithheld /\ [Next]_vars
        => RoomToReceive' /\ NothingWithheld'
<1> SUFFICES ASSUME IInv, RoomToReceive, NothingWithheld, [Next]_vars
             PROVE  RoomToReceive' /\ NothingWithheld'
  OBVIOUS
<1>1. CASE UNCHANGED vars
  BY <1>1 DEF vars, RoomToReceive, NothingWithheld
<1>2. CASE Stop
  BY <1>2, StopLeavesRoom
<1>3. CASE HandOver
  BY <1>3 DEF HandOver, RoomToReceive, NothingWithheld
<1>4. CASE \E n \in 1 .. BuffSize : HandleRecvEvent(n)
  BY <1>4 DEF HandleRecvEvent, RoomToReceive, NothingWithheld
<1> QED BY <1>1, <1>2, <1>3, <1>4 DEF Next

LEMMA InitReceives == Init => RoomToReceive /\ NothingWithheld
<1> SUFFICES ASSUME Init PROVE RoomToReceive /\ NothingWithheld
  OBVIOUS
<1>1. RoomToReceive
  BY Sizes DEF Init, RoomToReceive
<1>2. /\ ends \in [0 .. MaxPackets -> 0 .. MaxBytes] /\ ends[0] = 0
      /\ \A j, k \in 0 .. MaxPackets : j < k => ends[j] < ends[k]
  BY DEF Init, Streams
<1>3. \A k \in 1 .. MaxPackets : ends[k] > 0
  BY <1>2, Sizes
<1> QED BY <1>1, <1>2, <1>3, Sizes DEF Init, NothingWithheld

\* When every packet is smaller than the receive buffer, a receive always has
\* room, so none completes with 0 bytes for want of it.
THEOREM AlwaysRoomToReceive == SmallPackets /\ Spec => []RoomToReceive
  BY FramingInvariant, InitReceives, StepReceives, PTL DEF Spec

\* When every packet is smaller than the receive buffer, it is handed over by
\* the event that brings its last byte.
THEOREM PacketsNeverWithheld == SmallPackets /\ Spec => []NothingWithheld
  BY FramingInvariant, InitReceives, StepReceives, PTL DEF Spec
=============================================================================
