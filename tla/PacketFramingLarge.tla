-------------------------- MODULE PacketFramingLarge --------------------------
(***************************************************************************)
(* PacketFraming with packets as large as the receive buffer or larger,    *)
(* which ExtractBuffer puts together in a data buffer of their size.       *)
(***************************************************************************)
EXTENDS PacketFraming

VARIABLE large   \* m_pCurRecvBuffer and m_pCurBufferSize

largeVars == <<vars, large>>

\* m_pCurRecvBuffer is NULL.
None == [size |-> 0, total |-> 0, bytes |-> <<>>]

\* memcpy(buffer + at, bytes, Len(bytes))
Copied(buffer, at, bytes) ==
    [i \in 1 .. Len(buffer) |-> IF i - at \in 1 .. Len(bytes) THEN bytes[i - at] ELSE buffer[i]]

LargeInit == Init /\ large = None

StartLarge ==
    /\ pc = "extract" /\ large = None
    /\ ~NoHeader(Len(unread))
    /\ \E size \in PacketSizes :
          /\ HeaderSays(size)
          /\ ~Incomplete(size, Len(unread)) /\ size > Len(unread)
          /\ large' = [size |-> size, total |-> Len(unread),
                       bytes |-> Copied([i \in 1 .. size |-> 0], 0, unread)]
    /\ unread' = <<>>
    /\ UNCHANGED <<ends, received, pc, handed, packets>>

\* m_dwDataLen is set to 0 before it is added to the length of the buffer,
\* which stays as it was: the next fragment overwrites this one.
AppendLarge ==
    /\ pc = "extract" /\ large # None
    /\ large.total + Len(unread) < large.size
    /\ large' = [large EXCEPT !.bytes = Copied(large.bytes, large.total, unread)]
    /\ unread' = <<>>
    /\ pc' = "idle"
    /\ UNCHANGED <<ends, received, handed, packets>>

CompleteLarge ==
    /\ pc = "extract" /\ large # None
    /\ large.total + Len(unread) >= large.size
    /\ LET missing == large.size - large.total IN
       /\ OnDataHandle(Copied(large.bytes, large.total, First(unread, missing)))
       /\ unread' = Rest(unread, missing)
    /\ large' = None
    /\ UNCHANGED <<ends, received, pc>>

LargeNext ==
    \/ StartLarge \/ AppendLarge \/ CompleteLarge
    \/ (Stop \/ HandOver) /\ large = None /\ UNCHANGED large
    \/ (\E n \in 1 .. BuffSize : HandleRecvEvent(n)) /\ UNCHANGED large

LargeSpec == LargeInit /\ [][LargeNext]_largeVars
-----------------------------------------------------------------------------
\* Conservation, with the packet that is being put together: the engine hides
\* from the logic how packets are received (README.md:12), and the buffer
\* pools serve packets of up to 64K (DataBuffer.h:287-291).
LargeConservation ==
    handed \o First(large.bytes, large.total) \o unread = [i \in 1 .. received |-> i]
=============================================================================
