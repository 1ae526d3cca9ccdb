------------------------------ MODULE SendPath ------------------------------
(***************************************************************************)
(* What becomes of a packet's buffer (Server/ServerEngine/Connection.cpp,  *)
(* NetManager.cpp, ServiceBase.cpp).  The logic thread composes a packet   *)
(* in a buffer and posts it on a connection; an event thread that gets the *)
(* completion releases the buffer.  Event threads put what comes in into   *)
(* buffers of the same pool, for the logic thread.                         *)
(*                                                                         *)
(* A connection has one m_IoOverlapSend for all its sends, and its         *)
(* pDataBuffer tells a completion which buffer to release.  m_IsSending,   *)
(* which is to keep sends apart, is never set: SendBuffer posts at once,   *)
(* so the send list is empty whenever nobody holds its lock, the branch    *)
(* that joins several buffers never runs, and the DoSend after a           *)
(* completion finds nothing.                                               *)
(***************************************************************************)
EXTENDS DataBuffer

CONSTANTS Conns, Threads,  \* connections, event threads
          Fixed,           \* m_WriteBuffer of a scene: a buffer of no pool
          MaxSends         \* bound: how many packets are sent

ASSUME SendAssumption ==
    /\ NULL \notin Threads \cup Conns /\ MaxSends \in Nat
    /\ Fixed \notin Buffers \cup {NULL}

VARIABLES
    composing,   \* the buffer the logic thread writes, or NULL
    posting,     \* the connection DoSend has cleared m_IoOverlapSend of, or NULL
    queued,      \* received buffers, in m_DataQueue
    overlap,     \* m_IoOverlapSend.pDataBuffer
    sent,        \* how many packets were sent
    inflight,    \* sends that are posted and not yet dealt with
    releasing,   \* the send an event thread deals with, and the buffer it will
                 \* release
    overlapped,  \* history: a send was posted before the one before it on the
                 \* connection was dealt with
    stopped      \* a NULL pointer was followed

logic == <<composing, posting, queued>>
sends == <<overlap, sent, inflight, releasing>>
vars  == <<buffers, logic, sends, overlapped, stopped>>

Init ==
    /\ BufferInit
    /\ composing = NULL /\ posting = NULL /\ queued = {}
    /\ overlap = [c \in Conns |-> NULL]
    /\ sent = 0 /\ inflight = {}
    /\ releasing = [t \in Threads |-> NULL]
    /\ overlapped = FALSE /\ stopped = FALSE
-----------------------------------------------------------------------------
\* Release of a buffer of the pool, or of one that has no manager: that stops.
Releasable(b) == b # Fixed /\ Reachable(b)
ReleaseBuffer(b) == b # Fixed /\ Release(b)
ReleaseBufferStops(b) == IF b = Fixed THEN UNCHANGED buffers ELSE ReleaseStops(b)

(* The logic thread.                                                         *)

\* The constructor of CBufferHelper, or the copy SendCmdToConnection makes.
Compose ==
    /\ ~stopped
    /\ composing = NULL /\ sent < MaxSends
    /\ \E b \in Buffers : AllocDataBuff(b) /\ composing' = b
    /\ UNCHANGED <<posting, queued, sends, overlapped, stopped>>

\* SendCmdToConnection with two arguments makes no copy: CScene sends its own
\* m_WriteBuffer.
ComposeFixed ==
    /\ ~stopped
    /\ composing = NULL /\ sent < MaxSends
    /\ composing' = Fixed
    /\ UNCHANGED <<buffers, posting, queued, sends, overlapped, stopped>>

\* SendBuffer and DoSend, up to the Clear of m_IoOverlapSend.
Prepare(c) ==
    /\ ~stopped
    /\ composing # NULL /\ posting = NULL
    /\ posting' = c
    /\ overlap' = [overlap EXCEPT ![c] = NULL]
    /\ overlapped' = (overlapped \/ \E io \in inflight : io.conn = c)
    /\ UNCHANGED <<buffers, composing, queued, sent, inflight, releasing, stopped>>

\* pDataBuffer is set, and WSASend called.
Submit(c) ==
    /\ ~stopped
    /\ posting = c
    /\ posting' = NULL /\ composing' = NULL
    /\ overlap' = [overlap EXCEPT ![c] = composing]
    /\ sent' = sent + 1
    /\ UNCHANGED <<queued, releasing, overlapped>>

Post(c) ==
    /\ Submit(c)
    /\ inflight' = inflight \cup {[conn |-> c, buf |-> composing, no |-> sent]}
    /\ UNCHANGED <<buffers, stopped>>

\* WSASend fails: Close, which does nothing to buffers, and the release.
PostFails(c) ==
    /\ Submit(c)
    /\ ReleaseBuffer(composing) \/ ReleaseBufferStops(composing)
    /\ stopped' = ~Releasable(composing)
    /\ UNCHANGED inflight

\* A received packet is handled.  Its buffer is never released.
Dispatch ==
    /\ ~stopped
    /\ \E b \in queued : queued' = queued \ {b}
    /\ UNCHANGED <<buffers, composing, posting, sends, overlapped, stopped>>
-----------------------------------------------------------------------------
(* The event threads.                                                        *)

\* ExtractBuffer, for one packet.
Receive(t) ==
    /\ ~stopped
    /\ releasing[t] = NULL
    /\ \E b \in Buffers : AllocDataBuff(b) /\ queued' = queued \cup {b}
    /\ UNCHANGED <<composing, posting, sends, overlapped, stopped>>

\* One overlapped structure for all connections.
CompletedShared(t, io) ==
    [releasing EXCEPT ![t] = [io |-> io, buf |-> overlap[CHOOSE c \in Conns : overlap[c] # NULL]]]

\* What the completion of a send is going to release.
Completed(t, io) == [releasing EXCEPT ![t] = [io |-> io, buf |-> overlap[io.conn]]]

\* The completions no thread deals with yet.
Waiting == {io \in inflight : \A t \in Threads : releasing[t] # NULL => releasing[t].io # io}

\* Completions come in any order, to any thread, whether the send succeeded or
\* its socket was closed.
SendCompleted(t) ==
    /\ ~stopped
    /\ releasing[t] = NULL
    /\ \E io \in Waiting : overlap[io.conn] # NULL /\ releasing' = Completed(t, io)
    /\ UNCHANGED <<buffers, logic, overlap, sent, inflight, overlapped, stopped>>

\* The next send has just cleared the structure: this one is taken for no
\* command of the engine and its buffer is kept for ever,
CompletedCleared(t) ==
    /\ ~stopped
    /\ releasing[t] = NULL
    /\ \E io \in Waiting : overlap[io.conn] = NULL /\ inflight' = inflight \ {io}
    /\ UNCHANGED <<buffers, logic, overlap, sent, releasing, overlapped, stopped>>

\* or dwCmdType is read before that, or after it is set again, and pDataBuffer,
\* which is NULL, released.
CompletedNull(t) ==
    /\ ~stopped
    /\ releasing[t] = NULL
    /\ \E io \in Waiting : overlap[io.conn] = NULL
    /\ stopped' = TRUE
    /\ UNCHANGED <<buffers, logic, sends, overlapped>>

ReleaseSent(t) ==
    /\ ~stopped
    /\ releasing[t] # NULL
    /\ ReleaseBuffer(releasing[t].buf)
    /\ inflight' = inflight \ {releasing[t].io}
    /\ releasing' = [releasing EXCEPT ![t] = NULL]
    /\ UNCHANGED <<logic, overlap, sent, overlapped, stopped>>

ReleaseFails(t) ==
    /\ ~stopped
    /\ releasing[t] # NULL
    /\ ~Releasable(releasing[t].buf)
    /\ ReleaseBufferStops(releasing[t].buf)
    /\ stopped' = TRUE
    /\ UNCHANGED <<logic, sends, overlapped>>
-----------------------------------------------------------------------------
\* One thread: it sends what it has composed before it does anything else.
Logic == \/ posting = NULL /\ (Compose \/ ComposeFixed \/ Dispatch)
         \/ \E c \in Conns : Prepare(c) \/ Post(c) \/ PostFails(c)
Event(t) == \/ Receive(t) \/ SendCompleted(t) \/ CompletedCleared(t) \/ CompletedNull(t)
            \/ ReleaseSent(t) \/ ReleaseFails(t)

Next == Logic \/ \E t \in Threads : Event(t)

Spec == Init /\ [][Next]_vars
-----------------------------------------------------------------------------
(* Properties *)

MaybeBuffer == Buffers \cup {NULL}
Sendable == Buffers \cup {Fixed}
Sends == [conn : Conns, buf : Sendable, no : Nat]

TypeOK ==
    /\ created \subseteq Buffers /\ refs \in [Buffers -> Int]
    /\ links \in [next : [Buffers -> MaybeBuffer], prev : [Buffers -> MaybeBuffer],
                  head : [Lists -> MaybeBuffer]]
    /\ composing \in Sendable \cup {NULL} /\ queued \subseteq Buffers
    /\ posting \in Conns \cup {NULL} /\ (posting # NULL => composing # NULL)
    /\ overlap \in [Conns -> Sendable \cup {NULL}]
    /\ sent \in Nat
    /\ inflight \subseteq Sends /\ \A io \in inflight : io.no < sent
    /\ releasing \in [Threads -> [io : Sends, buf : Sendable] \cup {NULL}]
    /\ \A t \in Threads : releasing[t] # NULL => releasing[t].io \in inflight
    /\ overlapped \in BOOLEAN /\ stopped \in BOOLEAN

\* The two lists of the pool stay lists and hold every buffer once, even when
\* a buffer is released twice or while a send is in flight: a Release that
\* finds a free buffer either stops the server or puts it first again.
PoolSound ==
    \E used \in SUBSET created : /\ IsListOf(links, "used", used)
                                 /\ IsListOf(links, "free", created \ used)

\* As long as sends do not overlap on a connection, a buffer of the pool that
\* is written, in flight or waiting for the logic thread has one such use and
\* one reference, what a completion releases is what was sent, and the server
\* stops for nothing but the release of a buffer of no pool.
OneOwner ==
    ~overlapped =>
        /\ \A i, j \in inflight : i.buf = j.buf => i = j \/ i.buf = Fixed
        /\ \A i \in inflight : i.buf = Fixed \/ (/\ i.buf # composing /\ i.buf \notin queued
                                                 /\ refs[i.buf] = 1)
        /\ composing \in Buffers => composing \notin queued /\ refs[composing] = 1
        /\ \A b \in queued : refs[b] = 1
        /\ \A t \in Threads : releasing[t] # NULL => releasing[t].buf = releasing[t].io.buf
        /\ stopped => \E c \in Conns : overlap[c] = Fixed

\* Expected to fail.  A reference count is never negative (the assertion at
\* DataBuffer.h:47-50), whatever is sent.
RefCountNotNegative == \A b \in Buffers : refs[b] >= 0
=============================================================================
