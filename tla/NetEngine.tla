------------------------------ MODULE NetEngine ------------------------------
(***************************************************************************)
(* The life of a network connection in a server process: CConnection,      *)
(* CConnectionMgr (Server/ServerEngine/Connection.cpp), CNetManager        *)
(* (NetManager.cpp, the WIN32 completion port build) and                   *)
(* ServiceBase::Update (ServiceBase.cpp).                                  *)
(*                                                                         *)
(* Connections are pooled: CreateConnection takes one from a linked free   *)
(* list, DeleteConnection puts it back.  The listener thread accepts       *)
(* sockets, the event threads handle I/O completions, and the logic        *)
(* thread drains the queues of new connections, packets and closed         *)
(* connections, recycling the closed ones.  The queues are the ones of     *)
(* LockFreeQueue, which implements FifoQueue; a push on a full queue is    *)
(* dropped, for no caller looks at its result.                             *)
(*                                                                         *)
(* A session is one socket handed to CreateConnection.  A connection is    *)
(* closed by the thread that handles its completion (or accepted it), and  *)
(* also by the logic thread: the idle check that begins every Update       *)
(* closes a silent one, and a failed send the one it was meant for.  Those *)
(* own closes do not know of the receive in flight, which closes again.    *)
(***************************************************************************)
EXTENDS Naturals, Sequences, FiniteSets

CONSTANTS
    Conns,          \* m_vtConnList without its slot 0
    EventThreads,
    NULL,
    MaxSessions,    \* bound: sockets accepted or connected
    MaxPackets,     \* bound: packets of a session
    MaxOwnCloses,   \* bound: closes the logic thread makes by itself
    DataCapacity,   \* of m_DataQueue: Q_SIZE - 1
    NoticeCapacity  \* of m_NewConList and of m_CloseConList

ASSUME NetEngineAssumption ==
    /\ IsFiniteSet(Conns) /\ Conns # {} /\ NULL \notin Conns
    /\ {"listener", "logic"} \cap EventThreads = {}
    /\ {MaxSessions, MaxPackets, MaxOwnCloses, DataCapacity, NoticeCapacity} \subseteq Nat
    /\ NoticeCapacity >= Cardinality(Conns)   \* 2^16 - 1 in the code

Sessions == 1 .. MaxSessions
Threads  == EventThreads \cup {"listener", "logic"}

VARIABLES
    freeRoot,   \* m_pFreeConnRoot
    next,       \* m_pNext of a connection
    socket,     \* m_hSocket: a session, or 0 for INVALID_SOCKET
    connected,  \* m_bConnected
    handler,    \* m_pDataHandler is not NULL
    newConList, dataQueue, closeConList,
    pc,         \* the next step of a thread
    conn,       \* its local pConnection
    hSocket,    \* its local hSocket: the session just accepted or connected
    batch,      \* the packets ExtractBuffer still has to hand over
    running,    \* GameService::Init has returned, Run calls Update for ever
    dispatching,\* the logic thread is inside DispatchPacket
    stopped,    \* a NULL m_pDataHandler was called: the process is gone
    made,       \* sessions started
    open,       \* sessions whose socket handle is not closed
    io,         \* the I/O in flight: [conn, session, kind]
    received,   \* packets received of a session
    \* history
    owner,      \* the session a connection serves: 0 when it is free
    dispatched, \* the packets of a session handed to DispatchPacket, in order
    dropped,    \* the packets that found the data queue full
    ownCloses   \* the closes the logic thread has made by itself

pool    == <<freeRoot, next>>
fields  == <<socket, connected, handler>>
queues  == <<newConList, dataQueue, closeConList>>
hand    == <<conn, hSocket>>
process == <<running, dispatching, stopped>>
kernel  == <<made, open, io, received>>
history == <<owner, dispatched, dropped, ownCloses>>
vars    == <<pool, fields, queues, pc, hand, batch, process, kernel, history>>

\* InitConnectionList links the connections in the order of their numbers.
InitConnectionList ==
    \E list \in [1 .. Cardinality(Conns) -> Conns] :
        /\ \A i, j \in DOMAIN list : list[i] = list[j] => i = j
        /\ freeRoot = list[1]
        /\ next = [c \in Conns |->
                     LET i == CHOOSE j \in DOMAIN list : list[j] = c IN
                     IF i = Cardinality(Conns) THEN NULL ELSE list[i + 1]]

Init ==
    /\ InitConnectionList
    /\ socket = [c \in Conns |-> 0]
    /\ connected = [c \in Conns |-> FALSE]
    /\ handler = [c \in Conns |-> FALSE]
    /\ newConList = <<>> /\ dataQueue = <<>> /\ closeConList = <<>>
    /\ pc = [t \in Threads |-> CASE t = "listener" -> "accept"
                                 [] t = "logic" -> "update"
                                 [] OTHER -> "wait"]
    /\ conn = [t \in Threads |-> NULL]
    /\ hSocket = [t \in Threads |-> 0]
    /\ batch = [t \in Threads |-> <<>>]
    /\ running = FALSE /\ dispatching = FALSE /\ stopped = FALSE
    /\ made = 0 /\ open = {} /\ io = {}
    /\ received = [s \in Sessions |-> 0]
    /\ owner = [c \in Conns |-> 0]
    /\ dispatched = [s \in Sessions |-> <<>>]
    /\ dropped = {} /\ ownCloses = 0

-----------------------------------------------------------------------------
Goto(t, step) == pc' = [pc EXCEPT ![t] = step]

\* The thread is done with its connection and returns to where it was.
Home(t) == CASE t = "listener" -> "accept"
             [] t = "logic" -> (IF dispatching THEN "dispatch" ELSE "update")
             [] OTHER -> "wait"
Leave(t) == /\ Goto(t, Home(t))
            /\ conn' = [conn EXCEPT ![t] = NULL]
            /\ hSocket' = [hSocket EXCEPT ![t] = 0]

PushTo(queue, item, capacity) ==
    IF Len(queue) < capacity THEN Append(queue, item) ELSE queue

\* A definition named as a variant of the one that follows it (Kept, Swapped,
\* Early, ...) is a plausible mistake, which some property refutes when it
\* takes the place of the definition: see PROJECT.json.

\* ExtractBuffer's loop ends when it has handed every packet over.
LoopEndsEarly(packets) == Len(packets) <= 1
LoopEnds(packets) == packets = <<>>

UnlinkKept(c) == freeRoot' = c
Unlink(c) == freeRoot' = next[c]

LinkSwapped(c) == freeRoot' = c /\ next' = [next EXCEPT ![c] = freeRoot']
Link(c) == next' = [next EXCEPT ![c] = freeRoot] /\ freeRoot' = c

\* AssociateCompletePort starts: CreateConnection, in its lock.  With an empty
\* pool it fails, and the socket stays open with nobody to close it.
CreateConnection(t) ==
    /\ made < MaxSessions
    /\ made' = made + 1
    /\ open' = open \cup {made'}
    /\ \/ /\ freeRoot = NULL
          /\ Leave(t)
          /\ UNCHANGED <<pool, owner>>
       \/ /\ freeRoot # NULL
          /\ Goto(t, "associate")
          /\ conn' = [conn EXCEPT ![t] = freeRoot]
          /\ hSocket' = [hSocket EXCEPT ![t] = made']
          /\ Unlink(freeRoot)
          /\ owner' = [owner EXCEPT ![freeRoot] = made']
          /\ UNCHANGED next
    /\ UNCHANGED <<fields, queues, batch, process, io, received, dispatched, dropped, ownCloses>>

Accept == pc["listener"] = "accept" /\ CreateConnection("listener")

\* ConnectToOtherSvrEx, which only GameService::Init calls.
Connect == pc["logic"] = "update" /\ ~running /\ CreateConnection("logic")

\* SetSocket, SetDataHandler and CreateIoCompletionPort, which may fail.
Associate(t) ==
    /\ pc[t] = "associate"
    /\ socket' = [socket EXCEPT ![conn[t]] = hSocket[t]]
    /\ handler' = [handler EXCEPT ![conn[t]] = TRUE]
    /\ \/ Goto(t, IF t = "logic" THEN "connectEx" ELSE "ok")
       \/ Goto(t, "notify")
    /\ UNCHANGED <<connected, pool, queues, hand, batch, process, kernel, history>>

\* Asynchronous I/O starts on a socket whose handle is open.
Submit(t, session, kind) ==
    /\ session \in open
    /\ io' = io \cup {[conn |-> conn[t], session |-> session, kind |-> kind]}
    /\ Leave(t)

\* ConnectEx is submitted, or fails and ConnectToOtherSvrEx closes.
ConnectEx ==
    /\ pc["logic"] = "connectEx"
    /\ \/ Submit("logic", hSocket["logic"], "connect")
       \/ Goto("logic", "notify") /\ UNCHANGED <<io, hand>>
    /\ UNCHANGED <<pool, fields, queues, batch, process, made, open, received, history>>

SetConnectionOK(t) ==
    /\ pc[t] = "ok"
    /\ connected' = [connected EXCEPT ![conn[t]] = TRUE]
    /\ Goto(t, "announce")
    /\ UNCHANGED <<socket, handler, pool, queues, hand, batch, process, kernel, history>>

OnNewConnect(t) ==
    /\ pc[t] = "announce"
    /\ newConList' = PushTo(newConList, conn[t], NoticeCapacity)
    /\ Goto(t, "receive")
    /\ UNCHANGED <<dataQueue, closeConList, pool, fields, hand, batch, process, kernel, history>>

\* WSARecv fails (ERROR_IO_PENDING is no failure): nothing is in flight.
RecvFailedPending(t) ==
    io' = io \cup {[conn |-> conn[t], session |-> socket[conn[t]], kind |-> "recv"]}
RecvFailed(t) == io' = io

\* WSARecv is submitted, or fails and the caller closes the connection.
DoReceive(t) ==
    /\ pc[t] = "receive"
    /\ \/ Submit(t, socket[conn[t]], "recv")
       \/ RecvFailed(t) /\ Goto(t, "notify") /\ UNCHANGED hand
    /\ UNCHANGED <<pool, fields, queues, batch, process, made, open, received, history>>

-----------------------------------------------------------------------------
(* CConnection::Close: the logic thread is told first, then the socket is    *)
(* shut, then the fields are reset.  The logic thread may recycle the        *)
(* connection, and the listener use it again, between these steps.           *)

OnCloseConnectIfConnected(c) ==
    closeConList' = IF connected[c] THEN PushTo(closeConList, c, NoticeCapacity) ELSE closeConList
OnCloseConnect(c) == closeConList' = PushTo(closeConList, c, NoticeCapacity)

\* Whether the thread is about to call the data handler of its connection.
CallsHandler(t) == \/ pc[t] = "notify"
                   \/ pc[t] = "extract" /\ ~LoopEnds(batch[t])

\* Nobody checks m_pDataHandler, which DeleteConnection sets to NULL: the call
\* is the end of the process.
HandlerNull(t) ==
    /\ CallsHandler(t)
    /\ ~handler[conn[t]]
    /\ stopped' = TRUE
    /\ UNCHANGED <<pool, fields, queues, pc, hand, batch, running, dispatching, kernel, history>>

CloseNotify(t) ==
    /\ pc[t] = "notify"
    /\ handler[conn[t]]
    /\ OnCloseConnect(conn[t])
    /\ Goto(t, "closeSocket")
    /\ UNCHANGED <<newConList, dataQueue, pool, fields, hand, batch, process, kernel, history>>

CloseSocket(t) ==
    /\ pc[t] = "closeSocket"
    /\ open' = open \ {socket[conn[t]]}
    /\ Goto(t, "reset")
    /\ UNCHANGED <<pool, fields, queues, hand, batch, process, made, io, received, history>>

CloseReset(t) ==
    /\ pc[t] = "reset"
    /\ socket' = [socket EXCEPT ![conn[t]] = 0]
    /\ connected' = [connected EXCEPT ![conn[t]] = FALSE]
    /\ Leave(t)
    /\ UNCHANGED <<handler, pool, queues, batch, process, kernel, history>>

-----------------------------------------------------------------------------
(* The event threads: WorkThread_ProcessEvent dequeues one completion.       *)

CompletedPosted(op) == io' = io
Completed(op) == io' = io \ {op}

Dequeue(e, op) ==
    /\ pc[e] = "wait"
    /\ op \in io
    /\ Completed(op)
    /\ conn' = [conn EXCEPT ![e] = op.conn]
    /\ UNCHANGED <<pool, queues, hSocket, process, made, open, history>>

\* n packets have arrived in full (0: only a part of one).  They may have
\* arrived before the handle was closed, so the session need not be open.
RecvBytes(e, op) ==
    /\ Dequeue(e, op)
    /\ op.kind = "recv"
    /\ LET s == op.session IN
       \E n \in 0 .. MaxPackets - received[s] :
          /\ batch' = [batch EXCEPT ![e] =
                         [i \in 1 .. n |-> [session |-> s, no |-> received[s] + i]]]
          /\ received' = [received EXCEPT ![s] = @ + n]
    /\ Goto(e, "extract")
    /\ UNCHANGED fields

\* The peer has closed, the line failed, or our own side closed the handle.
RecvZero(e, op) ==
    /\ Dequeue(e, op)
    /\ op.kind = "recv"
    /\ Goto(e, "notify")
    /\ UNCHANGED <<fields, batch, received>>

Connected(e, op) ==
    /\ Dequeue(e, op)
    /\ op.kind = "connect"
    /\ Goto(e, "ok")
    /\ UNCHANGED <<fields, batch, received>>

ConnectFailed(e, op) ==
    /\ Dequeue(e, op)
    /\ op.kind = "connect"
    /\ connected' = [connected EXCEPT ![op.conn] = FALSE]
    /\ Goto(e, "notify")
    /\ UNCHANGED <<socket, handler, batch, received>>

\* ExtractBuffer hands over one packet after the other, OnDataHandle pushes
\* it, and then HandleRecvEvent posts the next receive.
Extract(e) ==
    /\ pc[e] = "extract"
    /\ \/ /\ LoopEnds(batch[e])
          /\ Goto(e, "receive")
          /\ UNCHANGED <<batch, dataQueue, dropped>>
       \/ /\ ~LoopEnds(batch[e])
          /\ handler[conn[e]]
          /\ batch' = [batch EXCEPT ![e] = Tail(@)]
          /\ dataQueue' = PushTo(dataQueue, Head(batch[e]), DataCapacity)
          /\ dropped' = IF Len(dataQueue) < DataCapacity THEN dropped
                        ELSE dropped \cup {Head(batch[e])}
          /\ UNCHANGED pc
    /\ UNCHANGED <<newConList, closeConList, pool, fields, hand, process, kernel>>
    /\ UNCHANGED <<owner, dispatched, ownCloses>>

-----------------------------------------------------------------------------
(* The logic thread: after Init, ServiceBase::Update for ever.               *)

\* A close the logic thread makes by itself, of any connection.
OwnClose(c) ==
    /\ ownCloses < MaxOwnCloses
    /\ ownCloses' = ownCloses + 1
    /\ conn' = [conn EXCEPT !["logic"] = c]
    /\ Goto("logic", "notify")
    /\ UNCHANGED <<pool, fields, queues, hSocket, batch, dispatching, stopped, kernel>>
    /\ UNCHANGED <<owner, dispatched, dropped>>

\* CheckConntionAvalible, which begins Update, closes a connection that is OK
\* and has been silent for three seconds: any one that is open, for no bound
\* relates the time of its last packet to the other steps.  (It reads slot 0
\* of m_vtConnList first, which is NULL: the model goes on from a read that
\* found a connection that is not OK.)
IdleClose(c) ==
    /\ pc["logic"] = "update"
    /\ socket[c] # 0 /\ connected[c]     \* IsConnectionOK
    /\ running' = TRUE
    /\ OwnClose(c)

\* The check is over.
CheckEnds ==
    /\ pc["logic"] = "update"
    /\ running' = TRUE
    /\ Goto("logic", "new")
    /\ UNCHANGED <<pool, fields, queues, hand, batch, dispatching, stopped, kernel, history>>

DrainNew ==
    /\ pc["logic"] = "new"
    /\ \/ newConList # <<>> /\ newConList' = Tail(newConList) /\ UNCHANGED pc
       \/ newConList = <<>> /\ Goto("logic", "data") /\ UNCHANGED newConList
    /\ UNCHANGED <<dataQueue, closeConList, pool, fields, hand, batch, process, kernel, history>>

DrainData ==
    /\ pc["logic"] = "data"
    /\ \/ /\ dataQueue # <<>>
          /\ dataQueue' = Tail(dataQueue)
          /\ LET packet == Head(dataQueue) IN
             dispatched' = [dispatched EXCEPT ![packet.session] = Append(@, packet.no)]
          /\ dispatching' = TRUE
          /\ Goto("logic", "dispatch")
       \/ /\ dataQueue = <<>>
          /\ Goto("logic", "close")
          /\ UNCHANGED <<dataQueue, dispatched, dispatching>>
    /\ UNCHANGED <<newConList, closeConList, pool, fields, hand, batch, running, stopped, kernel>>
    /\ UNCHANGED <<owner, dropped, ownCloses>>

\* A handler of the packet sends to a connection it knows by its number, which
\* may be free again or serve another session, and the send fails.
SendFails(c) ==
    /\ pc["logic"] = "dispatch"
    /\ OwnClose(c)
    /\ UNCHANGED running

DispatchEnds ==
    /\ pc["logic"] = "dispatch"
    /\ dispatching' = FALSE
    /\ Goto("logic", "data")
    /\ UNCHANGED <<pool, fields, queues, hand, batch, running, stopped, kernel, history>>

\* DeleteConnection, in its lock: link on the free list and Clear().
DeleteConnection(c) ==
    /\ Link(c)
    /\ socket' = [socket EXCEPT ![c] = 0]
    /\ connected' = [connected EXCEPT ![c] = FALSE]
    /\ handler' = [handler EXCEPT ![c] = FALSE]
    /\ owner' = [owner EXCEPT ![c] = 0]

DrainClose ==
    /\ pc["logic"] = "close"
    /\ \/ /\ closeConList # <<>>
          /\ closeConList' = Tail(closeConList)
          /\ DeleteConnection(Head(closeConList))
          /\ UNCHANGED pc
       \/ /\ closeConList = <<>>
          /\ Goto("logic", "update")
          /\ UNCHANGED <<closeConList, pool, fields, owner>>
    /\ UNCHANGED <<newConList, dataQueue, hand, batch, process, kernel>>
    /\ UNCHANGED <<dispatched, dropped, ownCloses>>

-----------------------------------------------------------------------------
\* A step of a thread that has a connection in hand.
Work(t) == \/ Associate(t) \/ SetConnectionOK(t) \/ OnNewConnect(t) \/ DoReceive(t)
           \/ CloseNotify(t) \/ CloseSocket(t) \/ CloseReset(t) \/ HandlerNull(t)

Completion(e) == \E op \in io : \/ RecvBytes(e, op) \/ RecvZero(e, op)
                               \/ Connected(e, op) \/ ConnectFailed(e, op)

OwnCloses == \E c \in Conns : IdleClose(c) \/ SendFails(c)
Logic == CheckEnds \/ DrainNew \/ DrainData \/ DispatchEnds \/ DrainClose

Next == /\ ~stopped
        /\ \/ Accept \/ Connect \/ ConnectEx
           \/ \E t \in Threads : Work(t)
           \/ \E e \in EventThreads : Completion(e) \/ Extract(e)
           \/ OwnCloses \/ Logic

\* Threads keep running: one inside a call goes on with it, and the logic
\* thread calls Update for ever.  Peers owe nothing: no completion is due.
Fairness == /\ \A t \in Threads : WF_vars(~stopped /\ Work(t))
            /\ \A e \in EventThreads : WF_vars(~stopped /\ Extract(e))
            /\ WF_vars(~stopped /\ Logic) /\ WF_vars(~stopped /\ ConnectEx)

Spec == Init /\ [][Next]_vars
FairSpec == Spec /\ Fairness
-----------------------------------------------------------------------------
(* Properties.  Most of them hold only as long as the logic thread has closed *)
(* no connection by itself: after such a close two threads are busy with the  *)
(* same session, HandlerNeverNull fails, and nothing is promised any more.    *)

Operations == [conn : Conns, session : Sessions, kind : {"recv", "connect"}]
Packets    == [session : Sessions, no : 1 .. MaxPackets]

\* Every variable stays in its range.
TypeOK ==
    /\ freeRoot \in Conns \cup {NULL} /\ next \in [Conns -> Conns \cup {NULL}]
    /\ socket \in [Conns -> 0 .. MaxSessions]
    /\ connected \in [Conns -> BOOLEAN] /\ handler \in [Conns -> BOOLEAN]
    /\ newConList \in Seq(Conns) /\ dataQueue \in Seq(Packets) /\ closeConList \in Seq(Conns)
    /\ pc \in [Threads -> {"accept", "associate", "ok", "announce", "receive", "notify",
                           "closeSocket", "reset", "wait", "extract", "update", "connectEx",
                           "new", "data", "dispatch", "close"}]
    /\ conn \in [Threads -> Conns \cup {NULL}]
    /\ hSocket \in [Threads -> 0 .. MaxSessions]
    /\ batch \in [Threads -> Seq(Packets)]
    /\ running \in BOOLEAN /\ dispatching \in BOOLEAN /\ stopped \in BOOLEAN
    /\ made \in 0 .. MaxSessions /\ open \subseteq Sessions /\ io \subseteq Operations
    /\ received \in [Sessions -> 0 .. MaxPackets]
    /\ owner \in [Conns -> 0 .. MaxSessions]
    /\ dispatched \in [Sessions -> Seq(1 .. MaxPackets)]
    /\ dropped \subseteq Packets
    /\ ownCloses \in 0 .. MaxOwnCloses

\* The connections on the free list, first to last, then NULL.
FreeList ==
    LET node[i \in 0 .. Cardinality(Conns)] ==
            IF i = 0 THEN freeRoot
            ELSE IF node[i - 1] = NULL THEN NULL ELSE next[node[i - 1]]
    IN  node

\* As long as the logic thread has closed nothing by itself, the free list is a
\* list: it ends, meets no connection twice, and holds exactly the connections
\* that serve no session (CreateConnection and DeleteConnection run in different
\* threads and relink it).
FreeListSound ==
    ownCloses = 0 =>
        /\ FreeList[Cardinality(Conns)] = NULL
        /\ \A i, j \in DOMAIN FreeList :
               FreeList[i] = FreeList[j] /\ i # j => FreeList[i] = NULL
        /\ {FreeList[i] : i \in DOMAIN FreeList} \ {NULL} = {c \in Conns : owner[c] = 0}

\* Who may still decide the fate of c: a thread that has not yet reported it
\* closed, an I/O in flight, or a close notice.
Holders(c) == {t \in Threads : conn[t] = c /\ pc[t] \notin {"closeSocket", "reset"}}
Pending(c) == {op \in io : op.conn = c}
Notices(c) == {i \in DOMAIN closeConList : closeConList[i] = c}

\* As long as the logic thread has closed nothing by itself, a connection that
\* serves a session has exactly one custodian, one that is free none: so it is
\* closed once, recycled once, and its handler is there whenever it is called.
Custody ==
    ownCloses = 0 =>
        \A c \in Conns :
            /\ Cardinality(Holders(c)) + Cardinality(Pending(c)) + Cardinality(Notices(c))
                 = IF owner[c] = 0 THEN 0 ELSE 1
            /\ \A t \in Holders(c) : pc[t] # "associate" => handler[c]
            /\ \A op \in Pending(c) : handler[c] /\ op.session = owner[c]

\* As long as the logic thread has closed nothing by itself, a notice that a
\* connection is closed is never dropped on a full queue: its connection would
\* never be recycled.
CloseNoticeFits ==
    ownCloses = 0 =>
        \A t \in Threads : pc[t] = "notify" => Len(closeConList) < NoticeCapacity

\* No packet is lost on its way through the batches of the event threads and the
\* data queue, except on a full queue; and as long as the logic thread has closed
\* nothing by itself, the packets of a session are dispatched in the order they
\* were received, each at most once, whichever threads handled the completions.
PacketsInOrder ==
    \A s \in Sessions :
        /\ \A n \in 1 .. received[s] :
              LET packet == [session |-> s, no |-> n] IN
              \/ \E i \in DOMAIN dispatched[s] : dispatched[s][i] = n
              \/ packet \in dropped
              \/ \E i \in DOMAIN dataQueue : dataQueue[i] = packet
              \/ \E e \in EventThreads : \E i \in DOMAIN batch[e] : batch[e][i] = packet
        /\ ownCloses = 0 =>
              \A i \in DOMAIN dispatched[s] :
                  /\ dispatched[s][i] \in 1 .. received[s]
                  /\ [session |-> s, no |-> dispatched[s][i]] \notin dropped
                  /\ \A j \in DOMAIN dispatched[s] : i < j => dispatched[s][i] < dispatched[s][j]

\* Every single packet received is dispatched, unless it found the queue full or
\* the process died.
PacketsDispatched ==
    \A s \in Sessions : \A n \in 1 .. MaxPackets :
        (received[s] >= n)
            ~> (\/ \E i \in DOMAIN dispatched[s] : dispatched[s][i] = n
                \/ [session |-> s, no |-> n] \in dropped
                \/ stopped)

\* A connection being closed is recycled, unless the process died.
ClosedIsRecycled ==
    \A t \in Threads, s \in Sessions :
        (pc[t] = "notify" /\ owner[conn[t]] = s) ~> (stopped \/ \A c \in Conns : owner[c] # s)

\* The connections as their users see them, until the logic thread closes one by
\* itself: each taken once for a session, reported closed once, and only then
\* given back.
Pool == INSTANCE ConnectionPool
          WITH serving <- owner,
               closing <- {c \in Conns : Notices(c) # {}},
               misused <- ownCloses > 0
IsPool == Pool!Spec

\* NetManager.cpp:180 says that when a receive completes with 0 bytes, "the peer has
\* closed".
ZeroMeansPeerClosed ==
    [][\A e \in EventThreads, op \in io : RecvZero(e, op) => op.session \in open]_vars

\* Whoever calls a connection's data handler finds one: SetDataHandler asserts
\* (Connection.cpp:355-361) that a connection is never given a NULL handler,
\* and Close and ExtractBuffer call it unchecked.
HandlerNeverNull == \A t \in Threads : CallsHandler(t) => handler[conn[t]]
=============================================================================
