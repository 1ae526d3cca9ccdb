-------------------------- MODULE NetEngine_proofs --------------------------
(***************************************************************************)
(* Proofs about NetEngine, for any number of connections, event threads,   *)
(* sessions and packets.  Base, what types and threads' hands are like,    *)
(* and Accounted, which says where each packet received is, hold whatever  *)
(* the logic thread closes.  As long as it has closed nothing by itself,   *)
(* the inductive invariant IInv says who decides the fate of each          *)
(* connection; that the engine implements ConnectionPool follows from it,  *)
(* and with OrderInv the order of the packets.                             *)
(***************************************************************************)
EXTENDS NetEngine, SetInduction, TLAPS

Idle    == {"accept", "wait", "update", "new", "data", "dispatch", "close"}
Closing == {"closeSocket", "reset"}
Steps   == {"accept", "associate", "ok", "announce", "receive", "notify", "closeSocket",
            "reset", "wait", "extract", "update", "connectEx", "new", "data", "dispatch", "close"}

\* A thread has a connection in hand just when its step needs one.
HandsFull == \A t \in Threads : IF pc[t] \in Idle THEN conn[t] = NULL ELSE conn[t] \in Conns

Hands == /\ pc \in [Threads -> Steps] /\ conn \in [Threads -> Conns \cup {NULL}]
         /\ hSocket \in [Threads -> 0 .. MaxSessions]
         /\ HandsFull

\* The rest of TypeOK.
PoolOK    == freeRoot \in Conns \cup {NULL} /\ next \in [Conns -> Conns \cup {NULL}]
FieldsOK  == /\ socket \in [Conns -> 0 .. MaxSessions]
             /\ connected \in [Conns -> BOOLEAN] /\ handler \in [Conns -> BOOLEAN]
QueuesOK  == newConList \in Seq(Conns) /\ dataQueue \in Seq(Packets) /\ closeConList \in Seq(Conns)
KernelOK  == /\ made \in 0 .. MaxSessions /\ open \subseteq Sessions /\ io \subseteq Operations
             /\ received \in [Sessions -> 0 .. MaxPackets]
ProcessOK == running \in BOOLEAN /\ dispatching \in BOOLEAN /\ stopped \in BOOLEAN
HistoryOK == /\ owner \in [Conns -> 0 .. MaxSessions]
             /\ dispatched \in [Sessions -> Seq(1 .. MaxPackets)]
             /\ dropped \subseteq Packets
             /\ ownCloses \in 0 .. MaxOwnCloses
BatchOK   == batch \in [Threads -> Seq(Packets)]

Base == TypeOK /\ HandsFull

LEMMA BaseIs ==
    Base <=> Hands /\ PoolOK /\ FieldsOK /\ QueuesOK /\ KernelOK /\ ProcessOK /\ HistoryOK /\ BatchOK
  BY DEF Base, TypeOK, Hands, PoolOK, FieldsOK, QueuesOK, KernelOK, ProcessOK, HistoryOK, BatchOK,
         Steps

LEMMA BaseNext ==
    ASSUME Hands', PoolOK', FieldsOK', QueuesOK', KernelOK', ProcessOK', HistoryOK', BatchOK'
    PROVE  Base'
  BY DEF Base, TypeOK, Hands, PoolOK, FieldsOK, QueuesOK, KernelOK, ProcessOK, HistoryOK, BatchOK,
         Steps

LEMMA Assumptions ==
    /\ IsFiniteSet(Conns) /\ Conns # {} /\ NULL \notin Conns
    /\ "listener" \in Threads /\ "logic" \in Threads
    /\ EventThreads \subseteq Threads
    /\ \A e \in EventThreads : e # "listener" /\ e # "logic"
    /\ MaxSessions \in Nat /\ MaxPackets \in Nat /\ MaxOwnCloses \in Nat
    /\ Cardinality(Conns) \in Nat /\ NoticeCapacity \in Nat /\ NoticeCapacity >= Cardinality(Conns)
  BY NetEngineAssumption, FS_CardinalityType DEF Threads

LEMMA PushToType ==
    ASSUME NEW S, NEW queue \in Seq(S), NEW item \in S, NEW capacity
    PROVE  PushTo(queue, item, capacity) \in Seq(S)
  BY DEF PushTo

LEMMA TailType ==
    ASSUME NEW S, NEW queue \in Seq(S), queue # <<>>
    PROVE  Head(queue) \in S /\ Tail(queue) \in Seq(S)
  OBVIOUS

LEMMA HomeIsIdle == \A t : Home(t) \in Idle
  BY DEF Home, Idle

LEMMA GotoType ==
    ASSUME Base, NEW t \in Threads, NEW step, Goto(t, step), step \in Steps
    PROVE  /\ pc' \in [Threads -> Steps]
           /\ pc'[t] = step /\ \A u \in Threads : u # t => pc'[u] = pc[u]
  BY BaseIs DEF Goto, Hands

\* A step with a connection in hand that keeps it.
LEMMA GotoHands ==
    ASSUME Base, NEW t \in Threads, NEW step \in Steps, Goto(t, step), conn' = conn, hSocket' = hSocket,
           step \in Idle <=> conn[t] = NULL
    PROVE  Hands'
<1>1. Hands
  BY BaseIs
<1>2. /\ pc' \in [Threads -> Steps]
      /\ pc'[t] = step /\ \A u \in Threads : u # t => pc'[u] = pc[u]
  BY GotoType
<1>3. conn[t] = NULL \/ conn[t] \in Conns
  BY <1>1 DEF Hands
<1> QED
  BY <1>1, <1>2, <1>3 DEF Hands, HandsFull

\* A step that takes connection c in hand.
LEMMA TakeHands ==
    ASSUME Base, NEW t \in Threads, NEW step \in Steps \ Idle, Goto(t, step), NEW c \in Conns,
           conn' = [conn EXCEPT ![t] = c], hSocket' \in [Threads -> 0 .. MaxSessions]
    PROVE  Hands'
<1>1. Hands
  BY BaseIs
<1>2. /\ pc' \in [Threads -> Steps]
      /\ pc'[t] = step /\ \A u \in Threads : u # t => pc'[u] = pc[u]
  BY GotoType
<1>3. /\ conn' \in [Threads -> Conns \cup {NULL}]
      /\ conn'[t] = c /\ \A u \in Threads : u # t => conn'[u] = conn[u]
  BY <1>1 DEF Hands
<1> QED
  BY <1>1, <1>2, <1>3 DEF Hands, HandsFull

LEMMA LeaveType ==
    ASSUME Base, NEW t \in Threads, Leave(t)
    PROVE  /\ Hands'
           /\ pc'[t] \in Idle /\ conn'[t] = NULL
           /\ \A u \in Threads : u # t => pc'[u] = pc[u] /\ conn'[u] = conn[u] /\ hSocket'[u] = hSocket[u]
<1>1. Hands
  BY BaseIs
<1>2. /\ pc' \in [Threads -> Steps] /\ pc'[t] \in Idle
      /\ \A u \in Threads : u # t => pc'[u] = pc[u]
  BY HomeIsIdle, GotoType DEF Leave, Steps, Idle
<1>3. /\ conn' \in [Threads -> Conns \cup {NULL}]
      /\ conn'[t] = NULL /\ \A u \in Threads : u # t => conn'[u] = conn[u]
  BY <1>1 DEF Leave, Hands
<1>4. /\ hSocket' \in [Threads -> 0 .. MaxSessions]
      /\ \A u \in Threads : u # t => hSocket'[u] = hSocket[u]
  <2>1. 0 \in 0 .. MaxSessions
    BY Assumptions
  <2> QED
    BY <1>1, <2>1 DEF Leave, Hands
<1> QED
  BY <1>1, <1>2, <1>3, <1>4 DEF Hands, HandsFull

LEMMA InHand ==
    ASSUME Base, NEW t \in Threads, pc[t] \notin Idle
    PROVE  conn[t] \in Conns /\ conn[t] # NULL
  BY Assumptions DEF Base, HandsFull
-----------------------------------------------------------------------------
(* Types and hands, whatever the logic thread closes.                        *)

LEMMA InitBase == Init => Base
<1> SUFFICES ASSUME Init PROVE Base
  OBVIOUS
<1>1. PICK list \in [1 .. Cardinality(Conns) -> Conns] :
          /\ freeRoot = list[1]
          /\ next = [c \in Conns |->
                       LET i == CHOOSE j \in DOMAIN list : list[j] = c IN
                       IF i = Cardinality(Conns) THEN NULL ELSE list[i + 1]]
          /\ \A i, j \in DOMAIN list : list[i] = list[j] => i = j
  BY DEF Init, InitConnectionList
<1>2. Cardinality(Conns) \in Nat /\ Cardinality(Conns) # 0
  BY Assumptions, FS_EmptySet
<1>3. list \in Surjection(1 .. Cardinality(Conns), Conns)
  <2>1. list \in Injection(1 .. Cardinality(Conns), Conns)
    BY <1>1 DEF Injection, IsInjective
  <2>2. Cardinality(1 .. Cardinality(Conns)) = Cardinality(Conns)
    BY <1>2, FS_Interval
  <2> QED
    BY <2>1, <2>2, Assumptions, FS_Injection
<1>4. PoolOK
  <2>1. ASSUME NEW c \in Conns PROVE next[c] \in Conns \cup {NULL}
    <3> DEFINE i == CHOOSE j \in DOMAIN list : list[j] = c
    <3>1. i \in 1 .. Cardinality(Conns) /\ list[i] = c
      BY <1>1, <1>3 DEF Surjection
    <3> QED
      BY <1>1, <1>2, <3>1
  <2> QED
    BY <1>1, <1>2, <2>1 DEF PoolOK
<1>5. 0 \in 0 .. MaxSessions /\ 0 \in 0 .. MaxPackets /\ 0 \in 0 .. MaxOwnCloses
  BY Assumptions
<1>6. Hands
  <2>1. pc \in [Threads -> Steps] /\ \A t \in Threads : pc[t] \in Idle /\ conn[t] = NULL
    BY DEF Init, Steps, Idle
  <2>2. conn \in [Threads -> Conns \cup {NULL}] /\ hSocket \in [Threads -> 0 .. MaxSessions]
    BY <1>5 DEF Init
  <2> QED
    BY <2>1, <2>2 DEF Hands, HandsFull
<1>7. FieldsOK
  BY <1>5 DEF Init, FieldsOK
<1>8. QueuesOK /\ BatchOK
  BY DEF Init, QueuesOK, BatchOK
<1>9. KernelOK
  BY <1>5 DEF Init, KernelOK
<1>10. ProcessOK
  BY DEF Init, ProcessOK
<1>11. HistoryOK
  BY <1>5 DEF Init, HistoryOK
<1> QED
  BY <1>4, <1>6, <1>7, <1>8, <1>9, <1>10, <1>11, BaseIs

LEMMA CreateBase ==
    ASSUME Base, NEW t \in Threads, CreateConnection(t)
    PROVE  Base'
<1>0. Hands /\ PoolOK /\ FieldsOK /\ QueuesOK /\ KernelOK /\ ProcessOK /\ HistoryOK /\ BatchOK
  BY BaseIs
<1>1. made' \in 1 .. MaxSessions /\ made' \in 0 .. MaxSessions
  BY <1>0, Assumptions DEF CreateConnection, KernelOK
<1>2. KernelOK'
  <2>1. open' \subseteq Sessions
    BY <1>0, <1>1 DEF CreateConnection, KernelOK, Sessions
  <2> QED
    BY <1>0, <1>1, <2>1 DEF CreateConnection, KernelOK
<1>3. Hands' /\ PoolOK' /\ owner' \in [Conns -> 0 .. MaxSessions]
  <2>1. CASE freeRoot = NULL
    <3>1. Leave(t) /\ UNCHANGED <<pool, owner>>
      BY <2>1 DEF CreateConnection
    <3> QED
      BY <1>0, <3>1, LeaveType DEF PoolOK, HistoryOK, pool
  <2>2. CASE freeRoot # NULL
    <3>1. freeRoot \in Conns
      BY <1>0, <2>2 DEF PoolOK
    <3>2. /\ Goto(t, "associate") /\ conn' = [conn EXCEPT ![t] = freeRoot]
          /\ hSocket' = [hSocket EXCEPT ![t] = made'] /\ Unlink(freeRoot)
          /\ owner' = [owner EXCEPT ![freeRoot] = made'] /\ next' = next
      BY <2>2 DEF CreateConnection
    <3>3. hSocket' \in [Threads -> 0 .. MaxSessions] /\ owner' \in [Conns -> 0 .. MaxSessions]
      <4> HIDE <3>1
      <4>1. hSocket \in [Threads -> 0 .. MaxSessions] /\ owner \in [Conns -> 0 .. MaxSessions]
        BY <1>0 DEF Hands, HistoryOK
      <4> QED
        BY <1>1, <3>2, <4>1
    <3>4. PoolOK'
      BY <1>0, <3>1, <3>2 DEF PoolOK, Unlink
    <3> QED
      BY <3>1, <3>2, <3>3, <3>4, TakeHands DEF Steps, Idle
  <2> QED
    BY <2>1, <2>2
<1>4. UNCHANGED <<socket, connected, handler, newConList, dataQueue, closeConList, batch, running,
                  dispatching, stopped, dispatched, dropped, ownCloses>>
  BY DEF CreateConnection, fields, queues, process
<1>5. HistoryOK'
  BY <1>0, <1>3, <1>4 DEF HistoryOK
<1>6. FieldsOK' /\ QueuesOK' /\ ProcessOK' /\ BatchOK'
  BY <1>0, <1>4 DEF FieldsOK, QueuesOK, ProcessOK, BatchOK
<1> QED
  BY <1>2, <1>3, <1>5, <1>6, BaseNext

LEMMA WorkBase ==
    ASSUME Base, NEW t \in Threads, Work(t) \/ (t = "logic" /\ ConnectEx)
    PROVE  Base'
<1>0. Hands /\ PoolOK /\ FieldsOK /\ QueuesOK /\ KernelOK /\ ProcessOK /\ HistoryOK /\ BatchOK
  BY BaseIs
<1>1. CASE Associate(t)
  <2>1. conn[t] \in Conns /\ conn[t] # NULL /\ hSocket[t] \in 0 .. MaxSessions
    BY <1>0, <1>1, InHand DEF Associate, Idle, Hands
  <2>2. FieldsOK'
    BY <1>0, <1>1, <2>1 DEF Associate, FieldsOK
  <2>3. Hands'
    BY <1>1, <2>1, GotoHands DEF Associate, hand, Steps, Idle
  <2>4. PoolOK' /\ QueuesOK' /\ KernelOK' /\ ProcessOK' /\ HistoryOK' /\ BatchOK'
    BY <1>0, <1>1 DEF Associate, PoolOK, QueuesOK, KernelOK, ProcessOK, HistoryOK, BatchOK,
                      pool, queues, process, kernel, history
  <2> QED
    BY <2>2, <2>3, <2>4, BaseNext
<1>2. CASE SetConnectionOK(t)
  <2>1. conn[t] \in Conns /\ conn[t] # NULL
    BY <1>2, InHand DEF SetConnectionOK, Idle
  <2>2. FieldsOK'
    BY <1>0, <1>2, <2>1 DEF SetConnectionOK, FieldsOK
  <2>3. Hands'
    BY <1>2, <2>1, GotoHands DEF SetConnectionOK, hand, Steps, Idle
  <2>4. PoolOK' /\ QueuesOK' /\ KernelOK' /\ ProcessOK' /\ HistoryOK' /\ BatchOK'
    BY <1>0, <1>2 DEF SetConnectionOK, PoolOK, QueuesOK, KernelOK, ProcessOK, HistoryOK, BatchOK,
                      pool, queues, process, kernel, history
  <2> QED
    BY <2>2, <2>3, <2>4, BaseNext
<1>3. CASE OnNewConnect(t)
  <2>1. conn[t] \in Conns /\ conn[t] # NULL
    BY <1>3, InHand DEF OnNewConnect, Idle
  <2>2. QueuesOK'
    BY <1>0, <1>3, <2>1, PushToType DEF OnNewConnect, QueuesOK
  <2>3. Hands'
    BY <1>3, <2>1, GotoHands DEF OnNewConnect, hand, Steps, Idle
  <2>4. PoolOK' /\ FieldsOK' /\ KernelOK' /\ ProcessOK' /\ HistoryOK' /\ BatchOK'
    BY <1>0, <1>3 DEF OnNewConnect, PoolOK, FieldsOK, KernelOK, ProcessOK, HistoryOK, BatchOK,
                      pool, fields, process, kernel, history
  <2> QED
    BY <2>2, <2>3, <2>4, BaseNext
<1>4. CASE DoReceive(t) \/ (t = "logic" /\ ConnectEx)
  <2>1. conn[t] \in Conns /\ conn[t] # NULL
    BY <1>4, InHand DEF DoReceive, ConnectEx, Idle
  <2>2. \/ \E session, kind : Submit(t, session, kind) /\ kind \in {"recv", "connect"}
        \/ Goto(t, "notify") /\ UNCHANGED <<io, hand>>
    BY <1>4 DEF DoReceive, ConnectEx, RecvFailed
  <2>3. Hands' /\ io' \subseteq Operations
    <3>1. ASSUME NEW session, NEW kind \in {"recv", "connect"}, Submit(t, session, kind)
          PROVE  Hands' /\ io' \subseteq Operations
      <4>1. [conn |-> conn[t], session |-> session, kind |-> kind] \in Operations
        BY <1>0, <2>1, <3>1 DEF Submit, KernelOK, Operations
      <4> QED
        BY <1>0, <3>1, <4>1, LeaveType DEF Submit, KernelOK
    <3>2. ASSUME Goto(t, "notify"), UNCHANGED <<io, hand>> PROVE Hands' /\ io' \subseteq Operations
      BY <1>0, <2>1, <3>2, GotoHands DEF hand, Steps, Idle, KernelOK
    <3> QED
      BY <2>2, <3>1, <3>2
  <2>4. UNCHANGED <<pool, fields, queues, batch, process, made, open, received, history>>
    BY <1>4 DEF DoReceive, ConnectEx
  <2>5. PoolOK' /\ FieldsOK' /\ QueuesOK' /\ KernelOK' /\ ProcessOK' /\ HistoryOK' /\ BatchOK'
    BY <1>0, <2>3, <2>4 DEF PoolOK, FieldsOK, QueuesOK, KernelOK, ProcessOK, HistoryOK, BatchOK,
                      pool, fields, queues, process, history
  <2> QED
    BY <2>3, <2>5, BaseNext
<1>5. CASE CloseNotify(t)
  <2>1. conn[t] \in Conns /\ conn[t] # NULL
    BY <1>5, InHand DEF CloseNotify, Idle
  <2>2. QueuesOK'
    BY <1>0, <1>5, <2>1, PushToType DEF CloseNotify, OnCloseConnect, QueuesOK
  <2>3. Hands'
    BY <1>5, <2>1, GotoHands DEF CloseNotify, hand, Steps, Idle
  <2>4. PoolOK' /\ FieldsOK' /\ KernelOK' /\ ProcessOK' /\ HistoryOK' /\ BatchOK'
    BY <1>0, <1>5 DEF CloseNotify, PoolOK, FieldsOK, KernelOK, ProcessOK, HistoryOK, BatchOK,
                      pool, fields, process, kernel, history
  <2> QED
    BY <2>2, <2>3, <2>4, BaseNext
<1>6. CASE CloseSocket(t)
  <2>1. conn[t] \in Conns /\ conn[t] # NULL
    BY <1>6, InHand DEF CloseSocket, Idle
  <2>2. Hands'
    BY <1>6, <2>1, GotoHands DEF CloseSocket, hand, Steps, Idle
  <2>3. open' \subseteq open
    BY <1>6 DEF CloseSocket
  <2>4. PoolOK' /\ FieldsOK' /\ QueuesOK' /\ KernelOK' /\ ProcessOK' /\ HistoryOK' /\ BatchOK'
    BY <1>0, <1>6, <2>3 DEF CloseSocket, PoolOK, FieldsOK, QueuesOK, KernelOK, ProcessOK, HistoryOK,
                      BatchOK, pool, fields, queues, process, history
  <2> QED
    BY <2>2, <2>4, BaseNext
<1>7. CASE CloseReset(t)
  <2>1. socket' \in [Conns -> 0 .. MaxSessions]
    <3>1. socket' = [socket EXCEPT ![conn[t]] = 0] /\ 0 \in 0 .. MaxSessions
      BY <1>7, Assumptions DEF CloseReset
    <3> QED
      BY <1>0, <3>1 DEF FieldsOK
  <2>2. connected' \in [Conns -> BOOLEAN] /\ handler' = handler
    BY <1>0, <1>7 DEF CloseReset, FieldsOK
  <2>3. Hands'
    BY <1>7, LeaveType DEF CloseReset
  <2>4. PoolOK' /\ FieldsOK' /\ QueuesOK' /\ KernelOK' /\ ProcessOK' /\ HistoryOK' /\ BatchOK'
    BY <1>0, <1>7, <2>1, <2>2 DEF CloseReset, PoolOK, FieldsOK, QueuesOK, KernelOK, ProcessOK,
                      HistoryOK, BatchOK, pool, queues, process, kernel, history
  <2> QED
    BY <2>3, <2>4, BaseNext
<1>8. CASE HandlerNull(t)
  <2>1. /\ UNCHANGED <<pool, fields, queues, pc, hand, batch, running, dispatching, kernel, history>>
        /\ stopped' \in BOOLEAN
    BY <1>8 DEF HandlerNull
  <2>2. Hands'
    BY <1>0, <2>1 DEF Hands, HandsFull, hand
  <2>3. PoolOK' /\ FieldsOK' /\ QueuesOK' /\ KernelOK' /\ ProcessOK' /\ HistoryOK' /\ BatchOK'
    BY <1>0, <2>1 DEF PoolOK, FieldsOK, QueuesOK, KernelOK, ProcessOK, HistoryOK, BatchOK,
                      pool, fields, queues, kernel, history
  <2> QED
    BY <2>2, <2>3, BaseNext
<1> QED
  BY <1>1, <1>2, <1>3, <1>4, <1>5, <1>6, <1>7, <1>8 DEF Work

LEMMA OperationType ==
    ASSUME Base, NEW op \in io
    PROVE  op.conn \in Conns /\ op.session \in Sessions /\ received[op.session] \in 0 .. MaxPackets
<1>1. op \in Operations /\ received \in [Sessions -> 0 .. MaxPackets]
  BY DEF Base, TypeOK
<1> QED
  BY <1>1 DEF Operations

\* The packets that a receive of n packets brings.
Arrived(s, first, n) == [i \in 1 .. n |-> [session |-> s, no |-> first + i]]

LEMMA ArrivedType ==
    ASSUME NEW s \in Sessions, NEW first \in 0 .. MaxPackets, NEW n \in 0 .. MaxPackets - first
    PROVE  /\ Arrived(s, first, n) \in Seq(Packets) /\ DOMAIN Arrived(s, first, n) = 1 .. n
           /\ \A i \in 1 .. n : /\ Arrived(s, first, n)[i].session = s
                                /\ Arrived(s, first, n)[i].no = first + i
           /\ n \in Nat /\ first + n \in 0 .. MaxPackets /\ first \in Nat
<1>1. n \in Nat /\ first + n \in 0 .. MaxPackets /\ first \in Nat
  BY Assumptions
<1>2. \A i \in 1 .. n : first + i \in 1 .. MaxPackets
  BY <1>1, Assumptions
<1> QED
  BY <1>1, <1>2 DEF Arrived, Packets

LEMMA CompletionBase ==
    ASSUME Base, NEW e \in EventThreads, Completion(e)
    PROVE  Base'
<1>0. Hands /\ PoolOK /\ FieldsOK /\ QueuesOK /\ KernelOK /\ ProcessOK /\ HistoryOK /\ BatchOK
      /\ e \in Threads
  BY BaseIs, Assumptions
<1>1. PICK op \in io : RecvBytes(e, op) \/ RecvZero(e, op) \/ Connected(e, op) \/ ConnectFailed(e, op)
  BY DEF Completion
<1>2. op.conn \in Conns /\ op.session \in Sessions /\ received[op.session] \in 0 .. MaxPackets
  BY OperationType
<1>3. /\ conn' = [conn EXCEPT ![e] = op.conn] /\ hSocket' = hSocket /\ io' \subseteq io
      /\ UNCHANGED <<pool, queues, process, made, open, history>>
  BY <1>1 DEF RecvBytes, RecvZero, Connected, ConnectFailed, Dequeue, Completed
<1>4. \E step \in {"extract", "notify", "ok"} : Goto(e, step)
  BY <1>1 DEF RecvBytes, RecvZero, Connected, ConnectFailed
<1>5. Hands'
  BY <1>0, <1>2, <1>3, <1>4, TakeHands DEF Steps, Idle, Hands
<1>6. BatchOK' /\ received' \in [Sessions -> 0 .. MaxPackets]
  <2>1. CASE RecvBytes(e, op)
    <3>1. PICK n \in 0 .. MaxPackets - received[op.session] :
              /\ batch' = [batch EXCEPT ![e] = Arrived(op.session, received[op.session], n)]
              /\ received' = [received EXCEPT ![op.session] = @ + n]
      BY <2>1 DEF RecvBytes, Arrived
    <3> HIDE DEF Arrived
    <3>2. Arrived(op.session, received[op.session], n) \in Seq(Packets)
          /\ received[op.session] + n \in 0 .. MaxPackets
      BY <1>2, ArrivedType
    <3> QED
      BY <1>0, <1>2, <3>1, <3>2 DEF BatchOK, KernelOK
  <2>2. CASE ~RecvBytes(e, op)
    BY <1>0, <1>1, <2>2 DEF RecvZero, Connected, ConnectFailed, BatchOK, KernelOK
  <2> QED
    BY <2>1, <2>2
<1>7. FieldsOK'
  <2>1. CASE ConnectFailed(e, op)
    BY <1>0, <2>1 DEF ConnectFailed, FieldsOK
  <2>2. CASE ~ConnectFailed(e, op)
    BY <1>0, <1>1, <2>2 DEF RecvBytes, RecvZero, Connected, FieldsOK, fields
  <2> QED
    BY <2>1, <2>2
<1>8. PoolOK' /\ QueuesOK' /\ KernelOK' /\ ProcessOK' /\ HistoryOK'
  BY <1>0, <1>3, <1>6 DEF PoolOK, QueuesOK, KernelOK, ProcessOK, HistoryOK, pool, queues, process, history
<1> QED
  BY <1>5, <1>6, <1>7, <1>8, BaseNext

\* The two ways of Extract.
LEMMA ExtractIs ==
    ASSUME Base, NEW e \in EventThreads, Extract(e)
    PROVE  /\ e \in Threads /\ pc[e] = "extract" /\ conn[e] \in Conns /\ conn[e] # NULL
           /\ UNCHANGED <<newConList, closeConList, pool, fields, hand, process, kernel>>
           /\ UNCHANGED <<owner, dispatched, ownCloses>>
           /\ batch[e] \in Seq(Packets)
           /\ \/ batch[e] = <<>> /\ Goto(e, "receive") /\ UNCHANGED <<batch, dataQueue, dropped>>
              \/ /\ batch[e] # <<>> /\ handler[conn[e]]
                 /\ Head(batch[e]) \in Packets /\ Tail(batch[e]) \in Seq(Packets)
                 /\ batch' = [batch EXCEPT ![e] = Tail(batch[e])] /\ pc' = pc
                 /\ dataQueue' = PushTo(dataQueue, Head(batch[e]), DataCapacity)
                 /\ dropped' = IF Len(dataQueue) < DataCapacity THEN dropped
                               ELSE dropped \cup {Head(batch[e])}
<1>1. e \in Threads /\ pc[e] = "extract"
  BY Assumptions DEF Extract
<1>2. conn[e] \in Conns /\ conn[e] # NULL
  BY <1>1, InHand DEF Idle
<1>3. batch[e] \in Seq(Packets)
  BY <1>1 DEF Base, TypeOK
<1>4. batch[e] # <<>> => Head(batch[e]) \in Packets /\ Tail(batch[e]) \in Seq(Packets)
  BY <1>3, TailType
<1> QED
  BY <1>1, <1>2, <1>3, <1>4 DEF Extract, LoopEnds

LEMMA ExtractBase ==
    ASSUME Base, NEW e \in EventThreads, Extract(e)
    PROVE  Base'
<1>0. Hands /\ PoolOK /\ FieldsOK /\ QueuesOK /\ KernelOK /\ ProcessOK /\ HistoryOK /\ BatchOK
  BY BaseIs
<1>1. CASE batch[e] = <<>> /\ Goto(e, "receive") /\ UNCHANGED <<batch, dataQueue, dropped>>
  <2>1. Hands'
    BY <1>1, ExtractIs, GotoHands DEF hand, Steps, Idle
  <2>2. BatchOK' /\ dataQueue' \in Seq(Packets) /\ dropped' \subseteq Packets
    BY <1>0, <1>1 DEF BatchOK, QueuesOK, HistoryOK
  <2>3. PoolOK' /\ FieldsOK' /\ QueuesOK' /\ KernelOK' /\ ProcessOK' /\ HistoryOK'
    BY <1>0, <2>2, ExtractIs DEF PoolOK, FieldsOK, QueuesOK, KernelOK, ProcessOK, HistoryOK, pool,
                                 fields, process, kernel
  <2> QED
    BY <2>1, <2>2, <2>3, BaseNext
<1>2. CASE batch[e] # <<>>
  <2>1. /\ Head(batch[e]) \in Packets /\ Tail(batch[e]) \in Seq(Packets)
        /\ batch' = [batch EXCEPT ![e] = Tail(batch[e])] /\ pc' = pc
        /\ dataQueue' = PushTo(dataQueue, Head(batch[e]), DataCapacity)
        /\ dropped' = IF Len(dataQueue) < DataCapacity THEN dropped
                      ELSE dropped \cup {Head(batch[e])}
    BY <1>2, ExtractIs
  <2>2. Hands'
    BY <1>0, <2>1, ExtractIs DEF Hands, HandsFull, hand
  <2>3. BatchOK'
    BY <1>0, <2>1 DEF BatchOK
  <2>4. dataQueue' \in Seq(Packets)
    BY <1>0, <2>1, PushToType DEF QueuesOK
  <2>5. dropped' \subseteq Packets
    BY <1>0, <2>1 DEF HistoryOK
  <2>6. PoolOK' /\ FieldsOK' /\ QueuesOK' /\ KernelOK' /\ ProcessOK' /\ HistoryOK'
    BY <1>0, <2>4, <2>5, ExtractIs DEF PoolOK, FieldsOK, QueuesOK, KernelOK, ProcessOK, HistoryOK,
                                       pool, fields, process, kernel
  <2> QED
    BY <2>2, <2>3, <2>6, BaseNext
<1> QED
  BY <1>1, <1>2, ExtractIs

LEMMA OwnCloseBase ==
    ASSUME Base, NEW c \in Conns, IdleClose(c) \/ SendFails(c)
    PROVE  Base' /\ ownCloses' > 0
<1>0. Hands /\ PoolOK /\ FieldsOK /\ QueuesOK /\ KernelOK /\ ProcessOK /\ HistoryOK /\ BatchOK
      /\ "logic" \in Threads
  BY BaseIs, Assumptions
<1>1. OwnClose(c) /\ running' \in BOOLEAN
  BY <1>0 DEF IdleClose, SendFails, ProcessOK
<1>2. ownCloses' \in 0 .. MaxOwnCloses /\ ownCloses' > 0
  BY <1>0, <1>1, Assumptions DEF OwnClose, HistoryOK
<1>3. Hands'
  BY <1>0, <1>1, TakeHands DEF OwnClose, Steps, Idle, Hands
<1>4. PoolOK' /\ FieldsOK' /\ QueuesOK' /\ KernelOK' /\ ProcessOK' /\ HistoryOK' /\ BatchOK'
  BY <1>0, <1>1, <1>2 DEF OwnClose, PoolOK, FieldsOK, QueuesOK, KernelOK, ProcessOK, HistoryOK,
                          BatchOK, pool, fields, queues, kernel
<1> QED
  BY <1>2, <1>3, <1>4, BaseNext

\* What DrainData takes from the queue.
LEMMA DrainDataIs ==
    ASSUME Base, DrainData, dataQueue # <<>>
    PROVE  LET packet == Head(dataQueue) IN
           /\ packet \in Packets /\ packet.session \in Sessions /\ packet.no \in 1 .. MaxPackets
           /\ 1 \in DOMAIN dataQueue /\ dataQueue[1] = packet
           /\ dataQueue' = Tail(dataQueue) /\ dataQueue' \in Seq(Packets)
           /\ dispatched' = [dispatched EXCEPT ![packet.session] = Append(@, packet.no)]
           /\ dispatched[packet.session] \in Seq(1 .. MaxPackets)
<1>1. dataQueue \in Seq(Packets) /\ dispatched \in [Sessions -> Seq(1 .. MaxPackets)]
  BY DEF Base, TypeOK
<1>2. Head(dataQueue) \in Packets /\ Tail(dataQueue) \in Seq(Packets)
      /\ 1 \in DOMAIN dataQueue /\ dataQueue[1] = Head(dataQueue)
  BY <1>1
<1>3. Head(dataQueue).session \in Sessions /\ Head(dataQueue).no \in 1 .. MaxPackets
  BY <1>2 DEF Packets
<1> QED
  BY <1>1, <1>2, <1>3 DEF DrainData

LEMMA LogicBase ==
    ASSUME Base, Logic
    PROVE  Base'
<1>0. Hands /\ PoolOK /\ FieldsOK /\ QueuesOK /\ KernelOK /\ ProcessOK /\ HistoryOK /\ BatchOK
      /\ "logic" \in Threads
  BY BaseIs, Assumptions
<1>1. pc["logic"] \in Idle /\ conn["logic"] = NULL
  BY <1>0 DEF Logic, CheckEnds, DrainNew, DrainData, DispatchEnds, DrainClose, Idle, Hands, HandsFull
<1>2. Hands'
  <2>1. conn' = conn /\ hSocket' = hSocket
    BY DEF Logic, CheckEnds, DrainNew, DrainData, DispatchEnds, DrainClose, hand
  <2>2. CASE pc' = pc
    BY <1>0, <2>1, <2>2 DEF Hands, HandsFull
  <2>3. CASE \E step \in {"new", "data", "dispatch", "close", "update"} : Goto("logic", step)
    BY <1>0, <1>1, <2>1, <2>3, GotoHands DEF Steps, Idle
  <2> QED
    BY <2>2, <2>3 DEF Logic, CheckEnds, DrainNew, DrainData, DispatchEnds, DrainClose
<1>3. CASE CheckEnds
  <2>1. running' \in BOOLEAN
    BY <1>3 DEF CheckEnds
  <2>2. PoolOK' /\ FieldsOK' /\ QueuesOK' /\ KernelOK' /\ ProcessOK' /\ HistoryOK' /\ BatchOK'
    BY <1>0, <1>3, <2>1 DEF CheckEnds, PoolOK, FieldsOK, QueuesOK, KernelOK, ProcessOK, HistoryOK,
                            BatchOK, pool, fields, queues, kernel, history
  <2> QED
    BY <1>2, <2>2, BaseNext
<1>4. CASE DrainNew
  <2>1. newConList' \in Seq(Conns)
    <3>1. newConList' = newConList \/ (newConList # <<>> /\ newConList' = Tail(newConList))
      BY <1>4 DEF DrainNew
    <3> QED
      BY <1>0, <3>1, TailType DEF QueuesOK
  <2>2. PoolOK' /\ FieldsOK' /\ QueuesOK' /\ KernelOK' /\ ProcessOK' /\ HistoryOK' /\ BatchOK'
    BY <1>0, <1>4, <2>1 DEF DrainNew, PoolOK, FieldsOK, QueuesOK, KernelOK, ProcessOK, HistoryOK,
                            BatchOK, pool, fields, process, kernel, history
  <2> QED
    BY <1>2, <2>2, BaseNext
<1>5. CASE DrainData
  <2>1. /\ dataQueue' \in Seq(Packets) /\ dispatched' \in [Sessions -> Seq(1 .. MaxPackets)]
        /\ dispatching' \in BOOLEAN
    <3>1. CASE dataQueue = <<>>
      BY <1>0, <1>5, <3>1 DEF DrainData, QueuesOK, HistoryOK, ProcessOK
    <3>2. CASE dataQueue # <<>>
      <4>1. dispatching' \in BOOLEAN
        BY <1>5, <3>2 DEF DrainData
      <4>2. PICK packet : packet = Head(dataQueue)
        OBVIOUS
      <4>3. dispatched' \in [Sessions -> Seq(1 .. MaxPackets)]
        <5>1. /\ packet.session \in Sessions /\ packet.no \in 1 .. MaxPackets
              /\ dispatched' = [dispatched EXCEPT ![packet.session] = Append(@, packet.no)]
              /\ dispatched[packet.session] \in Seq(1 .. MaxPackets)
          BY <1>5, <3>2, <4>2, DrainDataIs
        <5>2. Append(dispatched[packet.session], packet.no) \in Seq(1 .. MaxPackets)
          BY <5>1
        <5> QED
          BY <1>0, <5>1, <5>2 DEF HistoryOK
      <4> QED
        BY <1>5, <3>2, <4>1, <4>3, DrainDataIs
    <3> QED
      BY <3>1, <3>2
  <2>2. PoolOK' /\ FieldsOK' /\ QueuesOK' /\ KernelOK' /\ ProcessOK' /\ HistoryOK' /\ BatchOK'
    BY <1>0, <1>5, <2>1 DEF DrainData, PoolOK, FieldsOK, QueuesOK, KernelOK, ProcessOK, HistoryOK,
                            BatchOK, pool, fields, kernel
  <2> QED
    BY <1>2, <2>2, BaseNext
<1>6. CASE DispatchEnds
  <2>1. dispatching' \in BOOLEAN
    BY <1>6 DEF DispatchEnds
  <2>2. PoolOK' /\ FieldsOK' /\ QueuesOK' /\ KernelOK' /\ ProcessOK' /\ HistoryOK' /\ BatchOK'
    BY <1>0, <1>6, <2>1 DEF DispatchEnds, PoolOK, FieldsOK, QueuesOK, KernelOK, ProcessOK, HistoryOK,
                            BatchOK, pool, fields, queues, kernel, history
  <2> QED
    BY <1>2, <2>2, BaseNext
<1>7. CASE DrainClose
  <2>1. /\ PoolOK' /\ FieldsOK' /\ owner' \in [Conns -> 0 .. MaxSessions]
        /\ closeConList' \in Seq(Conns)
    <3>1. CASE closeConList = <<>>
      BY <1>0, <1>7, <3>1 DEF DrainClose, PoolOK, FieldsOK, HistoryOK, QueuesOK, pool, fields
    <3>2. CASE closeConList # <<>>
      <4> SUFFICES ASSUME NEW k, k = Head(closeConList)
                   PROVE  /\ PoolOK' /\ FieldsOK' /\ owner' \in [Conns -> 0 .. MaxSessions]
                          /\ closeConList' \in Seq(Conns)
        OBVIOUS
      <4>1. k \in Conns /\ closeConList' \in Seq(Conns) /\ DeleteConnection(k)
        BY <1>0, <1>7, <3>2, TailType DEF DrainClose, QueuesOK
      <4>2. 0 \in 0 .. MaxSessions
        BY Assumptions
      <4>3. FieldsOK' /\ owner' \in [Conns -> 0 .. MaxSessions]
        <5>1. socket' = [socket EXCEPT ![k] = 0] /\ owner' = [owner EXCEPT ![k] = 0]
          BY <4>1 DEF DeleteConnection
        <5>2. socket' \in [Conns -> 0 .. MaxSessions] /\ owner' \in [Conns -> 0 .. MaxSessions]
          BY <1>0, <4>2, <5>1 DEF FieldsOK, HistoryOK
        <5>3. connected' \in [Conns -> BOOLEAN] /\ handler' \in [Conns -> BOOLEAN]
          BY <1>0, <4>1 DEF DeleteConnection, FieldsOK
        <5> QED
          BY <5>2, <5>3 DEF FieldsOK
      <4>4. PoolOK'
        BY <1>0, <4>1 DEF DeleteConnection, Link, PoolOK
      <4> QED
        BY <4>1, <4>3, <4>4
    <3> QED
      BY <3>1, <3>2
  <2>2. QueuesOK' /\ KernelOK' /\ ProcessOK' /\ HistoryOK' /\ BatchOK'
    BY <1>0, <1>7, <2>1 DEF DrainClose, QueuesOK, KernelOK, ProcessOK, HistoryOK, BatchOK,
                            process, kernel
  <2> QED
    BY <1>2, <2>1, <2>2, BaseNext
<1> QED
  BY <1>3, <1>4, <1>5, <1>6, <1>7 DEF Logic

LEMMA NextBase == Base /\ [Next]_vars => Base'
<1> SUFFICES ASSUME Base, [Next]_vars PROVE Base'
  OBVIOUS
<1>1. CASE Accept \/ Connect
  BY <1>1, CreateBase, Assumptions DEF Accept, Connect
<1>2. CASE ConnectEx
  BY <1>2, WorkBase, Assumptions
<1>3. CASE OwnCloses
  BY <1>3, OwnCloseBase DEF OwnCloses
<1>4. CASE UNCHANGED vars
  BY <1>4 DEF Base, HandsFull, TypeOK, vars, pool, fields, queues, hand, process, kernel, history
<1> QED
  BY <1>1, <1>2, <1>3, <1>4, WorkBase, CompletionBase, ExtractBase, LogicBase DEF Next
-----------------------------------------------------------------------------
(* No packet is lost, whatever the logic thread closes.                      *)

\* A thread that does not extract has nothing to hand over.
BatchesDone == \A t \in Threads : pc[t] # "extract" => batch[t] = <<>>

IsDispatched(s, n) == \E i \in DOMAIN dispatched[s] : dispatched[s][i] = n
IsQueued(packet)   == \E i \in DOMAIN dataQueue : dataQueue[i] = packet
IsInBatch(packet)  == \E e \in EventThreads : \E i \in DOMAIN batch[e] : batch[e][i] = packet

Somewhere(s, n) ==
    LET packet == [session |-> s, no |-> n] IN
    IsDispatched(s, n) \/ packet \in dropped \/ IsQueued(packet) \/ IsInBatch(packet)

Accounted == \A s \in Sessions : \A n \in 1 .. received[s] : Somewhere(s, n)

AInv == Base /\ BatchesDone /\ Accounted

\* A step that moves no packet.
LEMMA AccountKept ==
    ASSUME Base', BatchesDone, Accounted,
           UNCHANGED <<dataQueue, dispatched, dropped, received, batch>>,
           \A t \in Threads : pc[t] = "extract" => pc'[t] = "extract" \/ batch[t] = <<>>
    PROVE  AInv'
<1>1. BatchesDone'
  BY DEF BatchesDone
<1>2. Accounted'
  <2>1. ASSUME NEW s, NEW n, Somewhere(s, n) PROVE Somewhere(s, n)'
    BY <2>1 DEF Somewhere, IsDispatched, IsQueued, IsInBatch
  <2> QED
    BY <2>1 DEF Accounted
<1> QED
  BY <1>1, <1>2 DEF AInv

LEMMA CompletionAccount ==
    ASSUME AInv, NEW e \in EventThreads, Completion(e)
    PROVE  AInv'
<1>0. Base /\ Base' /\ e \in Threads
  BY CompletionBase, Assumptions DEF AInv
<1>1. PICK op \in io : RecvBytes(e, op) \/ RecvZero(e, op) \/ Connected(e, op) \/ ConnectFailed(e, op)
  BY DEF Completion
<1>2. /\ pc[e] = "wait" /\ UNCHANGED <<dataQueue, dispatched, dropped>>
      /\ \E step \in {"extract", "notify", "ok"} : Goto(e, step)
  BY <1>1 DEF RecvBytes, RecvZero, Connected, ConnectFailed, Dequeue, queues, history
<1>3. \A u \in Threads : u # e => pc'[u] = pc[u]
  BY <1>0, <1>2, GotoType DEF Steps
<1>4. CASE ~RecvBytes(e, op)
  <2>1. UNCHANGED <<received, batch>>
    BY <1>1, <1>4 DEF RecvZero, Connected, ConnectFailed
  <2> QED
    BY <1>0, <1>2, <1>3, <2>1, AccountKept DEF AInv
<1>5. CASE RecvBytes(e, op)
  <2> SUFFICES ASSUME NEW s, s = op.session PROVE AInv'
    OBVIOUS
  <2>1. PICK n \in 0 .. MaxPackets - received[s] :
            /\ batch' = [batch EXCEPT ![e] = Arrived(s, received[s], n)]
            /\ received' = [received EXCEPT ![s] = @ + n]
    BY <1>5 DEF RecvBytes, Arrived
  <2> DEFINE new == Arrived(s, received[s], n)
  <2>2. s \in Sessions /\ received[s] \in 0 .. MaxPackets
    BY <1>0, OperationType
  <2>3. /\ new \in Seq(Packets) /\ DOMAIN new = 1 .. n /\ n \in Nat /\ received[s] \in Nat
        /\ \A i \in 1 .. n : new[i].session = s /\ new[i].no = received[s] + i
    <3>1. ASSUME NEW first \in 0 .. MaxPackets, NEW m \in 0 .. MaxPackets - first
          PROVE  /\ Arrived(s, first, m) \in Seq(Packets) /\ DOMAIN Arrived(s, first, m) = 1 .. m
                 /\ m \in Nat /\ first \in Nat
                 /\ \A i \in 1 .. m : /\ Arrived(s, first, m)[i].session = s
                                      /\ Arrived(s, first, m)[i].no = first + i
      <4>1. s \in Sessions
        BY <2>2
      <4> QED
        BY <4>1, ArrivedType
    <3> QED
      BY <2>2, <3>1, Zenon
  <2>4. ASSUME NEW i \in 1 .. n PROVE new[i] = [session |-> s, no |-> received[s] + i]
    BY DEF Arrived
  <2> HIDE DEF new
  <2>5. /\ batch'[e] = new /\ \A u \in Threads : u # e => batch'[u] = batch[u]
        /\ received'[s] = received[s] + n /\ \A r \in Sessions : r # s => received'[r] = received[r]
        /\ batch[e] = <<>> /\ EventThreads \subseteq Threads
    <3>1. batch \in [Threads -> Seq(Packets)] /\ received \in [Sessions -> 0 .. MaxPackets]
      BY <1>0 DEF Base, TypeOK
    <3>2. batch[e] = <<>>
      BY <1>0, <1>2 DEF AInv, BatchesDone
    <3> QED
      BY <1>0, <2>1, <2>2, <3>1, <3>2, Assumptions DEF new
  <2>6. pc'[e] = "extract"
    BY <1>0, <1>5, GotoType DEF RecvBytes, Steps
  <2>7. BatchesDone'
    BY <1>3, <2>5, <2>6 DEF AInv, BatchesDone
  <2>8. ASSUME NEW packet, IsInBatch(packet) PROVE IsInBatch(packet)'
    <3>1. PICK u \in EventThreads : \E i \in DOMAIN batch[u] : batch[u][i] = packet
      BY <2>8 DEF IsInBatch
    <3>2. u # e
      BY <2>5, <3>1
    <3>3. batch'[u] = batch[u]
      BY <2>5, <3>2
    <3> QED
      BY <3>1, <3>3 DEF IsInBatch
  <2>9. ASSUME NEW r \in Sessions, NEW m \in 1 .. received[r] PROVE Somewhere(r, m)'
    <3>1. Somewhere(r, m)
      BY DEF AInv, Accounted
    <3> QED
      BY <1>2, <2>8, <3>1 DEF Somewhere, IsDispatched, IsQueued
  <2>10. ASSUME NEW m \in 1 .. n, NEW no, no = received[s] + m PROVE Somewhere(s, no)'
    <3> SUFFICES ASSUME NEW packet, packet = [session |-> s, no |-> no] PROVE Somewhere(s, no)'
      OBVIOUS
    <3>1. batch'[e][m] = packet /\ m \in DOMAIN batch'[e]
      BY <2>3, <2>4, <2>5, <2>10
    <3>2. IsInBatch(packet)'
      BY <3>1 DEF IsInBatch
    <3> QED
      BY <3>2 DEF Somewhere
  <2>11. ASSUME NEW r \in Sessions, NEW m \in 1 .. received'[r] PROVE Somewhere(r, m)'
    <3>1. CASE m \in 1 .. received[r]
      BY <2>9, <3>1
    <3>2. CASE m \notin 1 .. received[r]
      <4>1. r = s
        BY <2>5, <3>2
      <4>2. m - received[s] \in 1 .. n /\ received[s] + (m - received[s]) = m
        BY <2>3, <2>5, <2>11, <3>2, <4>1
      <4> QED
        BY <2>10, <4>1, <4>2
    <3> QED
      BY <3>1, <3>2
  <2> QED
    BY <1>0, <2>7, <2>11 DEF AInv, Accounted
<1> QED
  BY <1>4, <1>5

LEMMA AppendGrows ==
    ASSUME NEW S, NEW queue \in Seq(S), NEW item, NEW m, m = Len(queue) + 1
    PROVE  LET longer == Append(queue, item) IN
           /\ DOMAIN longer = DOMAIN queue \cup {m} /\ m \notin DOMAIN queue
           /\ \A i \in DOMAIN queue : i < m /\ ~(m < i) /\ longer[i] = queue[i]
           /\ longer[m] = item /\ ~(m < m)
  OBVIOUS

\* All but the first of a queue moves one place on.
LEMMA TailShifts ==
    ASSUME NEW S, NEW queue \in Seq(S), queue # <<>>
    PROVE  /\ 1 \in DOMAIN queue /\ queue[1] = Head(queue)
           /\ \A i \in DOMAIN Tail(queue) :
                 /\ i \in Nat /\ i + 1 \in DOMAIN queue /\ 1 < i + 1
                 /\ Tail(queue)[i] = queue[i + 1]
           /\ \A i \in DOMAIN queue :
                 i # 1 => i - 1 \in DOMAIN Tail(queue) /\ Tail(queue)[i - 1] = queue[i]
           /\ \A i \in DOMAIN queue : i \in Nat
  OBVIOUS

LEMMA ExtractAccount ==
    ASSUME AInv, NEW e \in EventThreads, Extract(e)
    PROVE  AInv'
<1>0. Base /\ Base' /\ e \in Threads /\ pc[e] = "extract" /\ EventThreads \subseteq Threads
      /\ UNCHANGED <<dispatched, received>> /\ batch[e] \in Seq(Packets)
      /\ dataQueue \in Seq(Packets)
  <2>1. Base /\ Base' /\ EventThreads \subseteq Threads
    BY ExtractBase, Assumptions DEF AInv
  <2>2. dataQueue \in Seq(Packets)
    BY <2>1 DEF Base, TypeOK
  <2> QED
    BY <2>1, <2>2, ExtractIs DEF kernel
<1>1. CASE batch[e] = <<>> /\ Goto(e, "receive") /\ UNCHANGED <<batch, dataQueue, dropped>>
  <2>1. \A u \in Threads : u # e => pc'[u] = pc[u]
    BY <1>0, <1>1, GotoType DEF Steps
  <2> QED
    BY <1>0, <1>1, <2>1, AccountKept DEF AInv
<1>2. CASE batch[e] # <<>>
  <2> SUFFICES ASSUME NEW first, first = Head(batch[e]),
                      NEW rest, rest = Tail(batch[e])
               PROVE  AInv'
    OBVIOUS
  <2>1. /\ first \in Packets /\ batch' = [batch EXCEPT ![e] = rest] /\ pc' = pc
        /\ dataQueue' = PushTo(dataQueue, first, DataCapacity)
        /\ dropped' = IF Len(dataQueue) < DataCapacity THEN dropped ELSE dropped \cup {first}
    BY <1>0, <1>2, ExtractIs
  <2>2. batch'[e] = rest /\ \A u \in Threads : u # e => batch'[u] = batch[u]
    BY <1>0, <2>1 DEF Base, TypeOK
  <2>3. BatchesDone'
    BY <1>0, <2>1, <2>2 DEF AInv, BatchesDone
  <2>4. /\ \A packet : IsQueued(packet) => IsQueued(packet)'
        /\ \A packet \in dropped : packet \in dropped'
        /\ IsQueued(first)' \/ first \in dropped'
    <3>1. CASE Len(dataQueue) < DataCapacity
      <4> SUFFICES ASSUME NEW m, m = Len(dataQueue) + 1
                   PROVE  /\ \A packet : IsQueued(packet) => IsQueued(packet)'
                          /\ IsQueued(first)'
        BY <2>1, <3>1
      <4>1. dataQueue' = Append(dataQueue, first)
        BY <2>1, <3>1 DEF PushTo
      <4>2. /\ DOMAIN dataQueue' = DOMAIN dataQueue \cup {m} /\ dataQueue'[m] = first
            /\ \A i \in DOMAIN dataQueue : dataQueue'[i] = dataQueue[i]
        BY <1>0, <4>1, AppendGrows
      <4> QED
        BY <4>2 DEF IsQueued
    <3>2. CASE ~(Len(dataQueue) < DataCapacity)
      BY <2>1, <3>2 DEF PushTo, IsQueued
    <3> QED
      BY <3>1, <3>2
  <2>5. ASSUME NEW packet, IsInBatch(packet), packet # first PROVE IsInBatch(packet)'
    <3>1. PICK u \in EventThreads : \E i \in DOMAIN batch[u] : batch[u][i] = packet
      BY <2>5 DEF IsInBatch
    <3>2. CASE u = e
      <4>1. PICK i \in DOMAIN batch[e] : batch[e][i] = packet
        BY <3>1, <3>2
      <4>2. i # 1 /\ i - 1 \in DOMAIN rest /\ rest[i - 1] = packet
        BY <1>0, <1>2, <2>5, <4>1, TailShifts
      <4> QED
        BY <2>2, <4>2 DEF IsInBatch
    <3>3. CASE u # e
      BY <1>0, <2>2, <3>1, <3>3 DEF IsInBatch
    <3> QED
      BY <3>2, <3>3
  <2>6. ASSUME NEW s \in Sessions, NEW n \in 1 .. received[s] PROVE Somewhere(s, n)'
    <3> SUFFICES ASSUME NEW packet, packet = [session |-> s, no |-> n] PROVE Somewhere(s, n)'
      OBVIOUS
    <3>1. IsDispatched(s, n) \/ packet \in dropped \/ IsQueued(packet) \/ IsInBatch(packet)
      BY DEF AInv, Accounted, Somewhere
    <3>2. IsDispatched(s, n) => IsDispatched(s, n)'
      BY <1>0 DEF IsDispatched
    <3>3. IsDispatched(s, n)' \/ packet \in dropped' \/ IsQueued(packet)' \/ IsInBatch(packet)'
      BY <2>4, <2>5, <3>1, <3>2
    <3> QED
      BY <3>3 DEF Somewhere
  <2> QED
    BY <1>0, <2>3, <2>6 DEF AInv, Accounted
<1> QED
  BY <1>0, <1>1, <1>2, ExtractIs

LEMMA DispatchAccount ==
    ASSUME AInv, DrainData, dataQueue # <<>>
    PROVE  AInv'
<1> SUFFICES ASSUME NEW first, first = Head(dataQueue) PROVE AInv'
  OBVIOUS
<1>0. Base /\ Base' /\ "logic" \in Threads /\ dataQueue \in Seq(Packets)
  BY LogicBase, Assumptions DEF AInv, Logic, Base, TypeOK
<1>1. /\ first.session \in Sessions /\ dataQueue' = Tail(dataQueue)
      /\ dispatched' = [dispatched EXCEPT ![first.session] = Append(@, first.no)]
      /\ dispatched[first.session] \in Seq(1 .. MaxPackets)
  BY <1>0, DrainDataIs
<1>2. UNCHANGED <<batch, received, dropped>>
  BY DEF DrainData, kernel
<1>3. pc["logic"] = "data" /\ Goto("logic", "dispatch")
  BY DEF DrainData
<1>4. BatchesDone'
  <2>1. pc'["logic"] = "dispatch" /\ \A u \in Threads : u # "logic" => pc'[u] = pc[u]
    BY <1>0, <1>3, GotoType DEF Steps
  <2> QED
    BY <1>2, <1>3, <2>1 DEF AInv, BatchesDone
<1>5. ASSUME NEW s \in Sessions, NEW n, IsDispatched(s, n) PROVE IsDispatched(s, n)'
  <2>1. CASE s = first.session
    <3>1. dispatched'[s] = Append(dispatched[s], first.no) /\ dispatched[s] \in Seq(1 .. MaxPackets)
      BY <1>0, <1>1, <2>1 DEF Base, TypeOK
    <3>2. \A i \in DOMAIN dispatched[s] : i \in DOMAIN dispatched'[s] /\ dispatched'[s][i] = dispatched[s][i]
      BY <3>1
    <3> QED
      BY <1>5, <3>2 DEF IsDispatched
  <2>2. CASE s # first.session
    <3>1. dispatched'[s] = dispatched[s]
      BY <1>0, <1>1, <2>2 DEF Base, TypeOK
    <3> QED
      BY <1>5, <3>1 DEF IsDispatched
  <2> QED
    BY <2>1, <2>2
<1>6. IsDispatched(first.session, first.no)'
  <2>1. dispatched'[first.session] = Append(dispatched[first.session], first.no)
    BY <1>0, <1>1 DEF Base, TypeOK
  <2>2. \E i \in DOMAIN dispatched'[first.session] : dispatched'[first.session][i] = first.no
    <3>1. Len(dispatched[first.session]) + 1 \in DOMAIN dispatched'[first.session]
      BY <1>1, <2>1
    <3>2. dispatched'[first.session][Len(dispatched[first.session]) + 1] = first.no
      BY <1>1, <2>1
    <3> QED
      BY <3>1, <3>2
  <2> QED
    BY <2>2 DEF IsDispatched
<1>7. ASSUME NEW packet, IsQueued(packet), packet # first PROVE IsQueued(packet)'
  <2>1. PICK i \in DOMAIN dataQueue : dataQueue[i] = packet
    BY <1>7 DEF IsQueued
  <2>2. i # 1 /\ i - 1 \in DOMAIN dataQueue' /\ dataQueue'[i - 1] = packet
    BY <1>0, <1>1, <1>7, <2>1, TailShifts
  <2> QED
    BY <2>2 DEF IsQueued
<1>8. ASSUME NEW s \in Sessions, NEW n \in 1 .. received[s] PROVE Somewhere(s, n)'
  <2> SUFFICES ASSUME NEW packet, packet = [session |-> s, no |-> n] PROVE Somewhere(s, n)'
    OBVIOUS
  <2>1. IsDispatched(s, n) \/ packet \in dropped \/ IsQueued(packet) \/ IsInBatch(packet)
    BY DEF AInv, Accounted, Somewhere
  <2>2. IsInBatch(packet) => IsInBatch(packet)'
    BY <1>2 DEF IsInBatch
  <2>3. packet = first => IsDispatched(s, n)'
    BY <1>6
  <2>4. IsDispatched(s, n)' \/ packet \in dropped' \/ IsQueued(packet)' \/ IsInBatch(packet)'
    BY <1>2, <1>5, <1>7, <2>1, <2>2, <2>3
  <2> QED
    BY <2>4 DEF Somewhere
<1> QED
  BY <1>0, <1>2, <1>4, <1>8 DEF AInv, Accounted

LEMMA InitAccount == Init => AInv
<1> SUFFICES ASSUME Init PROVE AInv
  OBVIOUS
<1>1. (\A s \in Sessions : received[s] = 0) /\ \A t \in Threads : batch[t] = <<>>
  BY DEF Init
<1>2. BatchesDone /\ Accounted
  BY <1>1 DEF BatchesDone, Accounted
<1> QED
  BY <1>2, InitBase DEF AInv

LEMMA NextAccount == AInv /\ [Next]_vars => AInv'
<1> SUFFICES ASSUME AInv, [Next]_vars PROVE AInv'
  OBVIOUS
<1>0. Base' /\ Base /\ "logic" \in Threads /\ "listener" \in Threads
  BY NextBase, Assumptions DEF AInv
<1>1. CASE Accept \/ Connect
  <2>1. PICK t \in {"listener", "logic"} : CreateConnection(t) /\ pc[t] # "extract"
    BY <1>1 DEF Accept, Connect
  <2>2. \A u \in Threads : u # t => pc'[u] = pc[u]
    BY <1>0, <2>1, GotoType, LeaveType DEF CreateConnection, Steps
  <2>3. UNCHANGED <<dataQueue, dispatched, dropped, received, batch>>
    BY <2>1 DEF CreateConnection, queues
  <2> QED
    BY <1>0, <2>1, <2>2, <2>3, AccountKept DEF AInv
<1>2. CASE ConnectEx \/ \E t \in Threads : Work(t)
  <2>1. PICK t \in Threads : Work(t) \/ (t = "logic" /\ ConnectEx)
    BY <1>0, <1>2
  <2>2. UNCHANGED <<dataQueue, dispatched, dropped, received, batch>>
    BY <2>1 DEF Work, Associate, SetConnectionOK, OnNewConnect, DoReceive, CloseNotify, CloseSocket,
                CloseReset, HandlerNull, ConnectEx, queues, kernel, history
  <2>3. pc' = pc \/ (pc[t] # "extract" /\ (Leave(t) \/ \E step \in Steps : Goto(t, step)))
    BY <2>1 DEF Work, Associate, SetConnectionOK, OnNewConnect, DoReceive, CloseNotify, CloseSocket,
                CloseReset, HandlerNull, ConnectEx, Submit, Steps
  <2>4. \A u \in Threads : pc[u] = "extract" => pc'[u] = "extract"
    BY <1>0, <2>3, GotoType, LeaveType
  <2> QED
    BY <1>0, <2>2, <2>4, AccountKept DEF AInv
<1>3. CASE OwnCloses
  <2>1. PICK c \in Conns : OwnClose(c) /\ pc["logic"] # "extract"
    BY <1>3 DEF OwnCloses, IdleClose, SendFails
  <2>2. \A u \in Threads : u # "logic" => pc'[u] = pc[u]
    BY <1>0, <2>1, GotoType DEF OwnClose, Steps
  <2>3. UNCHANGED <<dataQueue, dispatched, dropped, received, batch>>
    BY <2>1 DEF OwnClose, queues, kernel
  <2> QED
    BY <1>0, <2>1, <2>2, <2>3, AccountKept DEF AInv
<1>4. CASE Logic /\ ~(DrainData /\ dataQueue # <<>>)
  <2>1. UNCHANGED <<dataQueue, dispatched, dropped, received, batch>>
    BY <1>4 DEF Logic, CheckEnds, DrainNew, DrainData, DispatchEnds, DrainClose, queues, kernel, history
  <2>2. pc["logic"] # "extract" /\ (pc' = pc \/ \E step \in Steps : Goto("logic", step))
    BY <1>4 DEF Logic, CheckEnds, DrainNew, DrainData, DispatchEnds, DrainClose, Steps
  <2>3. \A u \in Threads : pc[u] = "extract" => pc'[u] = "extract"
    BY <1>0, <2>2, GotoType
  <2> QED
    BY <1>0, <2>1, <2>3, AccountKept DEF AInv
<1>5. CASE UNCHANGED vars
  BY <1>0, <1>5, AccountKept DEF AInv, vars, queues, kernel, history
<1> QED
  BY <1>1, <1>2, <1>3, <1>4, <1>5, CompletionAccount, ExtractAccount, DispatchAccount DEF Next
-----------------------------------------------------------------------------
(* As long as the logic thread has closed nothing by itself.                 *)

\* Somebody else's Close may have reset the socket of a session that runs.
SocketsOwn == \A c \in Conns : socket[c] \in {0, owner[c]}

\* The socket just accepted or connected is the session of the connection.
SocketsInHand ==
    \A t \in Threads : pc[t] \in {"associate", "connectEx"} => hSocket[t] = owner[conn[t]]

\* A session is served by one connection.
SessionsDiffer == /\ \A c \in Conns : owner[c] <= made
                  /\ \A c, d \in Conns : owner[c] = owner[d] /\ owner[c] # 0 => c = d

\* The free list, last to first, is a sequence of the connections that serve
\* nobody.
IsFreeList(n, list) ==
    /\ n \in Nat /\ list \in [1 .. n -> Conns]
    /\ \A i, j \in 1 .. n : list[i] = list[j] => i = j
    /\ freeRoot = IF n = 0 THEN NULL ELSE list[n]
    /\ \A i \in 1 .. n : next[list[i]] = IF i = 1 THEN NULL ELSE list[i - 1]
    /\ \A c \in Conns : owner[c] = 0 <=> \E i \in 1 .. n : list[i] = c
FreeChain == \E n, list : IsFreeList(n, list)

\* Who decides the fate of c.
Custodian(c) ==
    \/ owner[c] = 0 /\ Holders(c) = {} /\ Pending(c) = {} /\ Notices(c) = {}
    \/ /\ owner[c] # 0
       /\ \/ (\E t \in Threads : Holders(c) = {t}) /\ Pending(c) = {} /\ Notices(c) = {}
          \/ Holders(c) = {} /\ (\E op \in io : Pending(c) = {op}) /\ Notices(c) = {}
          \/ Holders(c) = {} /\ Pending(c) = {} /\ \E i \in DOMAIN closeConList : Notices(c) = {i}

\* Its handler is there whenever it is called.
HandlersThere ==
    /\ \A t \in Threads : pc[t] \notin Idle \cup Closing \cup {"associate"} => handler[conn[t]]
    /\ \A op \in io : handler[op.conn] /\ op.session = owner[op.conn]

IInv ==
    /\ Base /\ SocketsOwn /\ SocketsInHand /\ SessionsDiffer /\ FreeChain /\ HandlersThere
    /\ \A c \in Conns : Custodian(c)
-----------------------------------------------------------------------------
(* What is in a thread's hands.                                              *)

LEMMA Serving ==
    ASSUME IInv, NEW t \in Threads, pc[t] \notin Idle \cup Closing
    PROVE  /\ conn[t] \in Conns /\ t \in Holders(conn[t])
           /\ owner[conn[t]] # 0 /\ owner[conn[t]] \in Sessions
           /\ Holders(conn[t]) = {t} /\ Pending(conn[t]) = {} /\ Notices(conn[t]) = {}
<1>1. conn[t] \in Conns /\ t \in Holders(conn[t])
  BY DEF IInv, Base, HandsFull, Holders, Closing
<1>2. Custodian(conn[t])
  BY <1>1 DEF IInv
<1>3. owner[conn[t]] # 0 /\ Holders(conn[t]) = {t} /\ Pending(conn[t]) = {} /\ Notices(conn[t]) = {}
  BY <1>1, <1>2 DEF Custodian
<1> QED
  BY <1>1, <1>3, Assumptions DEF IInv, Base, TypeOK, Sessions

LEMMA InFlight ==
    ASSUME IInv, NEW op \in io
    PROVE  /\ op.conn \in Conns /\ op \in Pending(op.conn) /\ op.session \in Sessions
           /\ owner[op.conn] # 0 /\ owner[op.conn] = op.session /\ handler[op.conn]
           /\ Holders(op.conn) = {} /\ Pending(op.conn) = {op} /\ Notices(op.conn) = {}
<1>1. op.conn \in Conns /\ op \in Pending(op.conn) /\ op.session \in Sessions
  BY DEF IInv, Base, TypeOK, Operations, Pending
<1>2. Custodian(op.conn)
  BY <1>1 DEF IInv
<1>3. owner[op.conn] # 0 /\ Holders(op.conn) = {} /\ Pending(op.conn) = {op} /\ Notices(op.conn) = {}
  BY <1>1, <1>2 DEF Custodian
<1> QED
  BY <1>1, <1>3 DEF IInv, HandlersThere

LEMMA Noticed ==
    ASSUME IInv, NEW i \in DOMAIN closeConList
    PROVE  /\ closeConList[i] \in Conns /\ owner[closeConList[i]] # 0
           /\ Holders(closeConList[i]) = {} /\ Pending(closeConList[i]) = {}
           /\ Notices(closeConList[i]) = {i}
<1>1. closeConList[i] \in Conns /\ i \in Notices(closeConList[i])
  BY DEF IInv, Base, TypeOK, Notices
<1>2. Custodian(closeConList[i])
  BY <1>1 DEF IInv
<1> QED
  BY <1>1, <1>2 DEF Custodian

\* The first of the free list serves nobody.
LEMMA FirstIsFree ==
    ASSUME IInv, freeRoot # NULL
    PROVE  freeRoot \in Conns /\ owner[freeRoot] = 0
<1>1. PICK n, list : IsFreeList(n, list)
  BY DEF IInv, FreeChain
<1> QED
  BY <1>1 DEF IsFreeList

\* A thread whose connection has no notice finds room for one.
LEMMA RoomForNotice ==
    ASSUME IInv, NEW c \in Conns, Notices(c) = {}
    PROVE  Len(closeConList) < NoticeCapacity
<1> DEFINE n == Len(closeConList)
           T == Conns \ {c}
<1>1. closeConList \in Seq(Conns) /\ n \in Nat /\ DOMAIN closeConList = 1 .. n
  BY DEF IInv, Base, TypeOK
<1>2. closeConList \in [1 .. n -> T]
  BY <1>1 DEF Notices
<1>3. \A i, j \in 1 .. n : closeConList[i] = closeConList[j] => i = j
  BY <1>1, Noticed DEF Notices
<1>4. closeConList \in Injection(1 .. n, T)
  BY <1>2, <1>3 DEF Injection, IsInjective
<1>5. IsFiniteSet(T) /\ Cardinality(T) = Cardinality(Conns) - 1
  BY Assumptions, FS_RemoveElement
<1>6. Cardinality(1 .. n) = n
  BY <1>1, FS_Interval
<1>7. Cardinality(1 .. n) <= Cardinality(T)
  BY <1>4, <1>5, FS_Injection
<1> QED
  BY <1>1, <1>5, <1>6, <1>7, Assumptions
-----------------------------------------------------------------------------
(* Steps that give no connection to anybody else.                            *)

Others(t) ==
    \A u \in Threads : u # t => pc'[u] = pc[u] /\ conn'[u] = conn[u] /\ hSocket'[u] = hSocket[u]

Holding(t) == pc[t] \notin Idle \cup Closing

LEMMA HoldersAre ==
    ASSUME Base, NEW c \in Conns
    PROVE  Holders(c) = {t \in Threads : Holding(t) /\ conn[t] = c}
  BY Assumptions DEF Base, HandsFull, Holders, Holding, Closing

LEMMA HoldersAreNext ==
    ASSUME Base', NEW c \in Conns
    PROVE  Holders(c)' = {t \in Threads : Holding(t)' /\ conn'[t] = c}
  BY Assumptions DEF Base, HandsFull, Holders, Holding, Closing

\* c, its custodian and its session are as they were.
LEMMA CustodianKept ==
    ASSUME NEW c \in Conns, Custodian(c), Holders(c)' = Holders(c), Pending(c)' = Pending(c),
           closeConList' = closeConList, owner'[c] = owner[c]
    PROVE  Custodian(c)'
<1>1. Notices(c)' = Notices(c)
  BY DEF Notices
<1>2. \A op \in io : Pending(c) = {op} => op \in io'
  BY DEF Pending
<1> QED
  BY <1>1, <1>2 DEF Custodian

LEMMA ChainKept ==
    ASSUME FreeChain, UNCHANGED <<freeRoot, next, owner>>
    PROVE  FreeChain'
<1>1. PICK n, list : IsFreeList(n, list)
  BY DEF FreeChain
<1>2. IsFreeList(n, list)'
  BY <1>1 DEF IsFreeList
<1> QED
  BY <1>2 DEF FreeChain

\* Sessions stay where they are.
LEMMA SessionsKept ==
    ASSUME IInv, owner' = owner, made' = made
    PROVE  SessionsDiffer'
  BY DEF IInv, SessionsDiffer

LEMMA SocketsKept ==
    ASSUME IInv, socket' = socket, owner' = owner
    PROVE  SocketsOwn'
  BY DEF IInv, SocketsOwn

\* A thread that has a socket in hand had it, for that connection, before.
LEMMA InHandKept ==
    ASSUME IInv, owner' = owner, NEW t \in Threads, Others(t),
           pc'[t] \in {"associate", "connectEx"} =>
               /\ pc[t] \in {"associate", "connectEx"}
               /\ conn'[t] = conn[t] /\ hSocket'[t] = hSocket[t]
    PROVE  SocketsInHand'
  BY DEF IInv, SocketsInHand, Others

\* What a step of t that keeps its connection, or has none, owes.
LEMMA StayIInv ==
    ASSUME IInv, Base', NEW t \in Threads, Others(t),
           UNCHANGED <<freeRoot, next, owner, io, closeConList, made>>,
           Holding(t)' <=> Holding(t),
           IF pc'[t] \in Idle THEN conn'[t] = NULL ELSE conn'[t] = conn[t] /\ conn[t] \in Conns,
           \A c \in Conns : handler[c] => handler'[c],
           pc'[t] \notin Idle \cup Closing \cup {"associate"} => handler'[conn[t]],
           pc'[t] \in {"associate", "connectEx"} =>
               pc[t] \in {"associate", "connectEx"} /\ hSocket'[t] = hSocket[t],
           SocketsOwn'
    PROVE  IInv'
<1>1. SessionsDiffer'
  BY SessionsKept
<1>2. SocketsInHand'
  <2>1. pc'[t] \in {"associate", "connectEx"} => conn'[t] = conn[t]
    BY DEF Idle
  <2> QED
    BY <2>1, InHandKept
<1>3. HandlersThere'
  <2>1. ASSUME NEW u \in Threads, pc'[u] \notin Idle \cup Closing \cup {"associate"}
        PROVE  handler'[conn'[u]]
    <3>1. CASE u = t
      BY <2>1, <3>1
    <3>2. CASE u # t
      <4>1. pc'[u] = pc[u] /\ conn'[u] = conn[u]
        BY <3>2 DEF Others
      <4>2. handler[conn[u]] /\ conn[u] \in Conns
        BY <2>1, <4>1 DEF IInv, HandlersThere, Base, HandsFull
      <4> QED
        BY <4>1, <4>2
    <3> QED
      BY <3>1, <3>2
  <2>2. \A op \in io' : handler'[op.conn] /\ op.session = owner'[op.conn]
    BY InFlight
  <2> QED
    BY <2>1, <2>2 DEF HandlersThere
<1>4. ASSUME NEW c \in Conns PROVE Custodian(c)'
  <2>1. \A u \in Threads : Holding(u)' /\ conn'[u] = c <=> Holding(u) /\ conn[u] = c
    <3>1. ASSUME NEW u \in Threads, u # t PROVE Holding(u)' /\ conn'[u] = c <=> Holding(u) /\ conn[u] = c
      BY <3>1 DEF Others, Holding
    <3>2. Holding(t)' /\ conn'[t] = c <=> Holding(t) /\ conn[t] = c
      BY DEF Holding
    <3> QED
      BY <3>1, <3>2
  <2>2. Holders(c)' = Holders(c)
    <3>1. Base /\ Base'
      BY DEF IInv
    <3>2. Holders(c) = {u \in Threads : Holding(u) /\ conn[u] = c}
      BY <3>1, HoldersAre
    <3>3. Holders(c)' = {u \in Threads : Holding(u)' /\ conn'[u] = c}
      BY <3>1, HoldersAreNext
    <3> QED
      BY <2>1, <3>2, <3>3
  <2>3. Pending(c)' = Pending(c)
    BY DEF Pending
  <2> QED
    BY <2>2, <2>3, CustodianKept DEF IInv
<1>5. FreeChain'
  BY ChainKept DEF IInv
<1> QED
  BY <1>1, <1>2, <1>3, <1>4, <1>5 DEF IInv

LEMMA GotoOthers ==
    ASSUME Base, NEW t \in Threads, NEW step \in Steps, Goto(t, step), UNCHANGED hand
    PROVE  Others(t) /\ pc'[t] = step /\ conn' = conn /\ hSocket' = hSocket
  BY GotoType DEF Others, hand

LEMMA WorkStays ==
    ASSUME IInv, NEW t \in Threads,
           \/ Associate(t) \/ SetConnectionOK(t) \/ OnNewConnect(t) \/ CloseSocket(t)
           \/ CloseReset(t)
    PROVE  IInv'
<1>0. Base' /\ Base
  BY WorkBase DEF Work, IInv
<1>1. CASE Associate(t)
  <2>1. PICK step \in {"connectEx", "ok", "notify"} : Goto(t, step)
    BY <1>1 DEF Associate
  <2>2. Others(t) /\ pc'[t] = step /\ conn' = conn /\ hSocket' = hSocket
    BY <1>0, <1>1, <2>1, GotoOthers DEF Associate, Steps
  <2>3. conn[t] \in Conns /\ Holding(t) /\ hSocket[t] = owner[conn[t]]
    BY <1>1, Serving DEF Associate, Idle, Closing, Holding, IInv, SocketsInHand
  <2>4. /\ handler' = [handler EXCEPT ![conn[t]] = TRUE]
        /\ socket' = [socket EXCEPT ![conn[t]] = hSocket[t]]
        /\ UNCHANGED <<freeRoot, next, owner, io, closeConList, made>>
    BY <1>1 DEF Associate, pool, queues, kernel, history
  <2>5. SocketsOwn'
    BY <1>0, <2>3, <2>4 DEF IInv, SocketsOwn, Base, TypeOK
  <2>6. handler'[conn[t]] /\ \A c \in Conns : handler[c] => handler'[c]
    BY <1>0, <2>3, <2>4 DEF Base, TypeOK
  <2>7. pc[t] = "associate"
    BY <1>1 DEF Associate
  <2> QED
    BY <1>0, <2>1, <2>2, <2>3, <2>4, <2>5, <2>6, <2>7, StayIInv DEF Holding, Idle, Closing
<1>2. CASE SetConnectionOK(t) \/ OnNewConnect(t)
  <2>1. PICK step \in {"announce", "receive"} : Goto(t, step)
    BY <1>2 DEF SetConnectionOK, OnNewConnect
  <2>2. Others(t) /\ pc'[t] = step /\ conn' = conn /\ hSocket' = hSocket
    BY <1>0, <1>2, <2>1, GotoOthers DEF SetConnectionOK, OnNewConnect, Steps
  <2>3. conn[t] \in Conns /\ Holding(t) /\ handler[conn[t]]
    BY <1>2, Serving DEF SetConnectionOK, OnNewConnect, Idle, Closing, Holding, IInv, HandlersThere
  <2>4. /\ handler' = handler /\ socket' = socket
        /\ UNCHANGED <<freeRoot, next, owner, io, closeConList, made>>
    BY <1>2 DEF SetConnectionOK, OnNewConnect, pool, fields, queues, kernel, history
  <2> QED
    BY <1>0, <2>1, <2>2, <2>3, <2>4, SocketsKept, StayIInv DEF Holding, Idle, Closing
<1>3. CASE CloseSocket(t)
  <2>1. Others(t) /\ pc'[t] = "reset" /\ conn' = conn /\ hSocket' = hSocket
    BY <1>0, <1>3, GotoOthers DEF CloseSocket, Steps
  <2>2. /\ handler' = handler /\ socket' = socket
        /\ UNCHANGED <<freeRoot, next, owner, io, closeConList, made>>
    BY <1>3 DEF CloseSocket, pool, fields, queues, history
  <2>3. conn[t] \in Conns
    BY <1>0, <1>3, InHand DEF CloseSocket, Idle
  <2> QED
    BY <1>0, <1>3, <2>1, <2>2, <2>3, SocketsKept, StayIInv DEF CloseSocket, Holding, Idle, Closing
<1>4. CASE CloseReset(t)
  <2>1. pc'[t] \in Idle /\ conn'[t] = NULL /\ Others(t)
    BY <1>0, <1>4, LeaveType DEF CloseReset, Others
  <2>2. /\ handler' = handler /\ socket' = [socket EXCEPT ![conn[t]] = 0]
        /\ UNCHANGED <<freeRoot, next, owner, io, closeConList, made>>
    BY <1>4 DEF CloseReset, pool, queues, kernel, history
  <2>3. SocketsOwn'
    BY <1>0, <2>2 DEF IInv, SocketsOwn, Base, TypeOK
  <2> QED
    BY <1>0, <1>4, <2>1, <2>2, <2>3, StayIInv DEF CloseReset, Holding, Idle, Closing
<1> QED
  BY <1>1, <1>2, <1>3, <1>4

\* Nobody finds the handler gone.
LEMMA HandlerIsThere ==
    ASSUME IInv, NEW t \in Threads
    PROVE  ~HandlerNull(t)
<1> SUFFICES ASSUME HandlerNull(t) PROVE FALSE
  OBVIOUS
<1>1. pc[t] \in {"notify", "extract"} /\ ~handler[conn[t]]
  BY DEF HandlerNull, CallsHandler
<1> QED
  BY <1>1 DEF IInv, HandlersThere, Idle, Closing

LEMMA ExtractIInv ==
    ASSUME IInv, NEW e \in EventThreads, Extract(e)
    PROVE  IInv'
<1>0. Base' /\ Base /\ e \in Threads /\ pc[e] = "extract" /\ conn[e] \in Conns
  BY ExtractBase, ExtractIs DEF IInv
<1>1. Holding(e) /\ handler[conn[e]]
  BY <1>0 DEF Idle, Closing, Holding, IInv, HandlersThere
<1>2. /\ handler' = handler /\ socket' = socket /\ UNCHANGED hand
      /\ UNCHANGED <<freeRoot, next, owner, io, closeConList, made>>
  BY DEF Extract, pool, fields, kernel
<1>3. PICK step \in {"receive", "extract"} : pc'[e] = step /\ Others(e)
  <2>1. CASE Goto(e, "receive")
    BY <1>0, <1>2, <2>1, GotoOthers DEF Steps
  <2>2. CASE pc' = pc
    BY <1>0, <1>2, <2>2 DEF Others, hand
  <2> QED
    BY <1>0, <2>1, <2>2, ExtractIs
<1> QED
  BY <1>0, <1>1, <1>2, <1>3, SocketsKept, StayIInv DEF Holding, Idle, Closing, hand

\* A step from one place where a thread has no connection to another.
LEMMA IdleIInv ==
    ASSUME IInv, Base', NEW t \in Threads, pc[t] \in Idle, pc'[t] \in Idle, conn'[t] = NULL,
           Others(t), UNCHANGED <<freeRoot, next, socket, handler, owner, io, closeConList, made>>
    PROVE  IInv'
  BY SocketsKept, StayIInv DEF Holding, Idle, Closing

LEMMA LogicStays ==
    ASSUME IInv, \/ CheckEnds \/ DrainNew \/ DrainData \/ DispatchEnds
                 \/ DrainClose /\ closeConList = <<>>
    PROVE  IInv'
<1>0. /\ Base' /\ Base /\ "logic" \in Threads /\ UNCHANGED hand
      /\ UNCHANGED <<freeRoot, next, socket, handler, owner, io, closeConList, made>>
  <2>1. Base' /\ Base /\ "logic" \in Threads
    BY LogicBase, Assumptions DEF Logic, IInv
  <2>2. UNCHANGED <<io, made, hand>>
    BY DEF CheckEnds, DrainNew, DrainData, DispatchEnds, DrainClose, kernel
  <2>3. UNCHANGED <<freeRoot, next, socket, handler, owner, closeConList>>
    <3>1. CASE CheckEnds \/ DrainNew \/ DrainData \/ DispatchEnds
      BY <3>1 DEF CheckEnds, DrainNew, DrainData, DispatchEnds, pool, fields, queues, history
    <3>2. CASE DrainClose /\ closeConList = <<>>
      BY <3>2 DEF DrainClose, pool, fields
    <3> QED
      BY <3>1, <3>2
  <2> QED
    BY <2>1, <2>2, <2>3
<1>1. pc["logic"] \in Idle /\ conn["logic"] = NULL
  BY <1>0 DEF CheckEnds, DrainNew, DrainData, DispatchEnds, DrainClose, Idle, Base, HandsFull
<1>2. CASE pc' = pc
  BY <1>0, <1>1, <1>2, IdleIInv DEF Others, hand
<1>3. CASE \E step \in {"new", "data", "dispatch", "close", "update"} : Goto("logic", step)
  <2>1. PICK step \in {"new", "data", "dispatch", "close", "update"} : Goto("logic", step)
    BY <1>3
  <2>2. Others("logic") /\ pc'["logic"] = step /\ conn' = conn
    BY <1>0, <2>1, GotoOthers DEF Steps
  <2> QED
    BY <1>0, <1>1, <2>1, <2>2, IdleIInv DEF Idle
<1> QED
  BY <1>2, <1>3 DEF CheckEnds, DrainNew, DrainData, DispatchEnds, DrainClose
-----------------------------------------------------------------------------
(* Steps that hand a connection on.                                          *)

LEMMA HoldersMove ==
    ASSUME Base, Base', NEW t \in Threads, Others(t), NEW c \in Conns
    PROVE  Holders(c)' = IF Holding(t)' /\ conn'[t] = c THEN Holders(c) \cup {t} ELSE Holders(c) \ {t}
<1>1. \A u \in Threads : u # t => (Holding(u)' <=> Holding(u)) /\ conn'[u] = conn[u]
  BY DEF Others, Holding
<1> QED
  BY <1>1, HoldersAre, HoldersAreNext

\* t posts a receive or a connect: the completion has the connection now.
LEMMA SubmitIInv ==
    ASSUME IInv, Base', NEW t \in Threads, NEW session, NEW kind, Holding(t), pc[t] # "associate",
           Submit(t, session, kind), session \in {owner[conn[t]], socket[conn[t]]},
           UNCHANGED <<pool, fields, queues, batch, process, made, open, received, history>>
    PROVE  IInv'
<1> SUFFICES ASSUME NEW k, k = conn[t] PROVE IInv'
  OBVIOUS
<1> DEFINE op == [conn |-> k, session |-> owner[k], kind |-> kind]
<1>1. /\ k \in Conns /\ owner[k] # 0 /\ Holders(k) = {t} /\ Pending(k) = {} /\ Notices(k) = {}
      /\ handler[k]
  BY Serving DEF Holding, IInv, HandlersThere
<1>2. session = owner[k]
  BY <1>1 DEF IInv, SocketsOwn, Base, TypeOK, Sessions, Submit
<1>3. /\ pc'[t] \in Idle /\ conn'[t] = NULL /\ Others(t) /\ io' = io \cup {op}
      /\ UNCHANGED <<freeRoot, next, socket, handler, owner, closeConList, made>>
  BY <1>2, LeaveType DEF IInv, Submit, Others, pool, fields, queues, history
<1>4. Base /\ Base'
  BY DEF IInv
<1>5. ~Holding(t)'
  BY <1>3 DEF Holding
<1>6. SocketsOwn' /\ SessionsDiffer' /\ SocketsInHand'
  <2>1. pc'[t] \notin {"associate", "connectEx"}
    BY <1>3 DEF Idle
  <2> QED
    BY <1>3, <2>1, SocketsKept, SessionsKept, InHandKept
<1>8. HandlersThere'
  <2>1. ASSUME NEW u \in Threads, pc'[u] \notin Idle \cup Closing \cup {"associate"}
        PROVE  handler'[conn'[u]]
    BY <1>3, <2>1 DEF Others, IInv, HandlersThere
  <2>2. op.conn = k /\ op.session = owner[k]
    BY <1>2
  <2>3. \A o \in io' : handler'[o.conn] /\ o.session = owner'[o.conn]
    BY <1>1, <1>3, <2>2 DEF IInv, HandlersThere
  <2> QED
    BY <2>1, <2>3 DEF HandlersThere
<1>9. ASSUME NEW c \in Conns, c # k PROVE Custodian(c)'
  <2>1. Holders(c)' = Holders(c)
    BY <1>3, <1>4, <1>5, <1>9, HoldersMove DEF Holders
  <2>2. Pending(c)' = Pending(c)
    BY <1>3, <1>9 DEF Pending
  <2> QED
    BY <1>3, <2>1, <2>2, CustodianKept DEF IInv
<1>10. Custodian(k)'
  <2>1. Holders(k)' = {}
    BY <1>1, <1>3, <1>4, <1>5, HoldersMove
  <2>2. \E o \in io' : Pending(k)' = {o}
    <3>1. \A o \in io : o.conn # k
      BY <1>1 DEF Pending
    <3>2. Pending(k)' = {op} /\ op \in io'
      BY <1>3, <3>1 DEF Pending
    <3> QED
      BY <3>2
  <2>3. Notices(k)' = {}
    BY <1>1, <1>3 DEF Notices
  <2>4. owner'[k] # 0
    BY <1>1, <1>3
  <2> QED
    BY <2>1, <2>2, <2>3, <2>4 DEF Custodian
<1>11. FreeChain'
  BY <1>3, ChainKept DEF IInv
<1> QED
  BY <1>4, <1>6, <1>8, <1>9, <1>10, <1>11 DEF IInv

\* A receive or a connect that was not posted: t closes its connection.
LEMMA FailedIInv ==
    ASSUME IInv, Base', NEW t \in Threads, Holding(t), pc[t] # "associate",
           Goto(t, "notify"), io' = io,
           UNCHANGED <<hand, pool, fields, queues, batch, process, made, open, received, history>>
    PROVE  IInv'
<1>1. conn[t] \in Conns /\ handler[conn[t]]
  BY Serving DEF Holding, IInv, HandlersThere
<1>2. Others(t) /\ pc'[t] = "notify" /\ conn' = conn
  BY GotoOthers DEF IInv, Steps
<1>3. UNCHANGED <<freeRoot, next, socket, handler, owner, closeConList, made>>
  BY DEF pool, fields, queues, history
<1> QED
  BY <1>1, <1>2, <1>3, SocketsKept, StayIInv DEF Holding, Idle, Closing

LEMMA ReceiveIInv ==
    ASSUME IInv, NEW t \in Threads, DoReceive(t) \/ (t = "logic" /\ ConnectEx)
    PROVE  IInv'
<1>1. Base' /\ Base
  <2>1. Work(t) \/ (t = "logic" /\ ConnectEx)
    BY DEF Work
  <2> QED
    BY <2>1, WorkBase DEF IInv
<1>2. Holding(t) /\ pc[t] # "associate"
  BY DEF DoReceive, ConnectEx, Holding, Idle, Closing
<1>3. UNCHANGED <<pool, fields, queues, batch, process, made, open, received, history>>
  BY DEF DoReceive, ConnectEx
<1>4. \/ \E session \in {owner[conn[t]], socket[conn[t]]}, kind \in {"recv", "connect"} :
             Submit(t, session, kind)
      \/ Goto(t, "notify") /\ io' = io /\ UNCHANGED hand
  <2>1. CASE DoReceive(t)
    BY <2>1 DEF DoReceive, RecvFailed
  <2>2. CASE t = "logic" /\ ConnectEx
    <3>1. hSocket[t] = owner[conn[t]]
      BY <2>2 DEF ConnectEx, IInv, SocketsInHand
    <3> QED
      BY <2>2, <3>1 DEF ConnectEx
  <2> QED
    BY <2>1, <2>2
<1> QED
  BY <1>1, <1>2, <1>3, <1>4, SubmitIInv, FailedIInv

\* t reports its connection closed: the notice has it now.
LEMMA NotifyIInv ==
    ASSUME IInv, NEW t \in Threads, CloseNotify(t)
    PROVE  IInv'
<1> SUFFICES ASSUME NEW k, k = conn[t] PROVE IInv'
  OBVIOUS
<1> DEFINE n == Len(closeConList) + 1
<1>0. Base' /\ Base
  BY WorkBase DEF IInv, Work
<1>1. Holding(t)
  BY DEF CloseNotify, Holding, Idle, Closing
<1>2. k \in Conns /\ owner[k] # 0 /\ Holders(k) = {t} /\ Pending(k) = {} /\ Notices(k) = {}
  BY <1>1, Serving DEF Holding
<1>3. /\ pc'[t] = "closeSocket" /\ Others(t)
      /\ UNCHANGED <<freeRoot, next, socket, handler, owner, io, made, conn>>
  <2>1. /\ Goto(t, "closeSocket") /\ UNCHANGED hand
        /\ UNCHANGED <<freeRoot, next, socket, handler, owner, io, made>>
    BY DEF CloseNotify, pool, fields, kernel, history
  <2> QED
    BY <1>0, <2>1, GotoOthers DEF Steps
<1>4. closeConList' = Append(closeConList, k) /\ closeConList \in Seq(Conns)
  <2>1. Len(closeConList) < NoticeCapacity
    BY <1>2, RoomForNotice
  <2> QED
    BY <1>0, <2>1 DEF CloseNotify, OnCloseConnect, PushTo, Base, TypeOK
<1>6. ~Holding(t)'
  BY <1>3 DEF Holding, Closing
<1>7. SocketsOwn' /\ SessionsDiffer' /\ SocketsInHand'
  BY <1>3, SocketsKept, SessionsKept, InHandKept
<1>9. HandlersThere'
  BY <1>3 DEF IInv, HandlersThere, Others, Closing
<1>10. ASSUME NEW c \in Conns
       PROVE  /\ Pending(c)' = Pending(c)
              /\ Notices(c)' = IF c = k THEN {n} ELSE Notices(c)
  <2>1. Pending(c)' = Pending(c)
    BY <1>3 DEF Pending
  <2>2. /\ DOMAIN closeConList' = DOMAIN closeConList \cup {n} /\ n \notin DOMAIN closeConList
        /\ closeConList'[n] = k /\ \A i \in DOMAIN closeConList : closeConList'[i] = closeConList[i]
    BY <1>4
  <2>3. Notices(c)' = IF c = k THEN Notices(c) \cup {n} ELSE Notices(c)
    <3> HIDE DEF n
    <3> QED
      BY <2>2 DEF Notices
  <2> QED
    BY <1>2, <2>1, <2>3
<1>11. ASSUME NEW c \in Conns, c # k PROVE Custodian(c)'
  <2>1. Holders(c)' = Holders(c)
    BY <1>0, <1>3, <1>6, <1>11, HoldersMove DEF Holders
  <2>2. \A i \in DOMAIN closeConList : i \in DOMAIN closeConList'
    BY <1>4
  <2>3. Pending(c)' = Pending(c) /\ Notices(c)' = Notices(c) /\ Custodian(c)
    BY <1>10, <1>11 DEF IInv
  <2> QED
    BY <1>3, <2>1, <2>2, <2>3 DEF Custodian
<1>12. Custodian(k)'
  <2>1. Holders(k)' = {}
    BY <1>0, <1>2, <1>3, <1>6, HoldersMove
  <2>2. Pending(k)' = {} /\ Notices(k)' = {n}
    BY <1>2, <1>10
  <2>3. n \in DOMAIN closeConList'
    BY <1>4
  <2> HIDE DEF n
  <2> QED
    BY <1>2, <1>3, <2>1, <2>2, <2>3 DEF Custodian
<1>13. FreeChain'
  BY <1>3, ChainKept DEF IInv
<1> QED
  BY <1>0, <1>7, <1>9, <1>11, <1>12, <1>13 DEF IInv

LEMMA WorkIInv ==
    ASSUME IInv, NEW t \in Threads, Work(t)
    PROVE  IInv'
  BY WorkStays, ReceiveIInv, NotifyIInv, HandlerIsThere DEF Work

\* A completion: the thread that dequeued it has the connection now.
LEMMA CompletionIInv ==
    ASSUME IInv, NEW e \in EventThreads, Completion(e)
    PROVE  IInv'
<1>0. Base' /\ Base /\ e \in Threads
  BY CompletionBase, Assumptions DEF IInv
<1>1. PICK op \in io : RecvBytes(e, op) \/ RecvZero(e, op) \/ Connected(e, op) \/ ConnectFailed(e, op)
  BY DEF Completion
<1> SUFFICES ASSUME NEW k, k = op.conn PROVE IInv'
  OBVIOUS
<1>2. Dequeue(e, op)
  BY <1>1 DEF RecvBytes, RecvZero, Connected, ConnectFailed
<1>3. /\ k \in Conns /\ op.session \in Sessions /\ owner[k] # 0 /\ owner[k] = op.session
      /\ handler[k] /\ Holders(k) = {} /\ Pending(k) = {op} /\ Notices(k) = {}
  BY InFlight
<1>4. PICK step \in {"extract", "notify", "ok"} : Goto(e, step)
  BY <1>1 DEF RecvBytes, RecvZero, Connected, ConnectFailed
<1>5. /\ conn' = [conn EXCEPT ![e] = k] /\ io' = io \ {op}
      /\ UNCHANGED <<freeRoot, next, owner, closeConList, made, socket, handler, hSocket>>
  <2>1. UNCHANGED <<socket, handler>>
    BY <1>1 DEF RecvBytes, RecvZero, Connected, ConnectFailed, fields
  <2> QED
    BY <1>2, <2>1 DEF Dequeue, Completed, pool, queues, history
<1>6. /\ pc'[e] = step /\ conn'[e] = k /\ Others(e)
      /\ \A u \in Threads : u # e => pc'[u] = pc[u] /\ conn'[u] = conn[u]
  BY <1>0, <1>4, <1>5, GotoType DEF Others, Steps, Base, TypeOK
<1>10. Holding(e)'
  BY <1>6 DEF Holding, Idle, Closing
<1>11. SocketsOwn' /\ SessionsDiffer' /\ SocketsInHand'
  BY <1>0, <1>5, <1>6, SocketsKept, SessionsKept, InHandKept
<1>13. HandlersThere'
  <2>1. ASSUME NEW u \in Threads, pc'[u] \notin Idle \cup Closing \cup {"associate"}
        PROVE  handler'[conn'[u]]
    BY <1>3, <1>5, <1>6, <2>1 DEF IInv, HandlersThere
  <2> QED
    BY <1>5, <2>1 DEF IInv, HandlersThere
<1>14. ~Holding(e)
  BY <1>2 DEF Dequeue, Holding, Idle
<1>15. ASSUME NEW c \in Conns, c # k PROVE Custodian(c)'
  <2>1. Holders(c)' = Holders(c)
    <3>1. e \notin Holders(c)
      BY <1>0, <1>14, HoldersAre
    <3> QED
      BY <1>0, <1>6, <1>15, <3>1, HoldersMove
  <2>2. Pending(c)' = Pending(c)
    BY <1>5, <1>15 DEF Pending
  <2> QED
    BY <1>5, <2>1, <2>2, CustodianKept DEF IInv
<1>16. Custodian(k)'
  <2>1. Holders(k)' = {e}
    BY <1>0, <1>3, <1>6, <1>10, HoldersMove
  <2>2. Pending(k)' = {}
    BY <1>3, <1>5 DEF Pending
  <2>3. Notices(k)' = {}
    BY <1>3, <1>5 DEF Notices
  <2> QED
    BY <1>0, <1>3, <1>5, <2>1, <2>2, <2>3 DEF Custodian
<1>17. FreeChain'
  BY <1>5, ChainKept DEF IInv
<1> QED
  BY <1>0, <1>11, <1>13, <1>15, <1>16, <1>17 DEF IInv

\* CreateConnection takes the first of the free list.
LEMMA ChainTaken ==
    ASSUME IInv, freeRoot # NULL, Unlink(freeRoot), next' = next, NEW s, s # 0,
           owner' = [owner EXCEPT ![freeRoot] = s]
    PROVE  FreeChain'
<1>1. PICK n, list : IsFreeList(n, list)
  BY DEF IInv, FreeChain
<1> DEFINE shorter == [i \in 1 .. n - 1 |-> list[i]]
<1>2. n \in Nat /\ n # 0 /\ freeRoot = list[n] /\ n \in 1 .. n /\ list \in [1 .. n -> Conns]
      /\ owner \in [Conns -> 0 .. MaxSessions]
  BY <1>1 DEF IsFreeList, IInv, Base, TypeOK
<1>3. n - 1 \in Nat /\ shorter \in [1 .. n - 1 -> Conns] /\ \A i \in 1 .. n - 1 : shorter[i] = list[i]
  BY <1>2
<1>4. \A i, j \in 1 .. n - 1 : shorter[i] = shorter[j] => i = j
  BY <1>1, <1>2, <1>3 DEF IsFreeList
<1>5. freeRoot' = IF n - 1 = 0 THEN NULL ELSE shorter[n - 1]
  BY <1>1, <1>2, <1>3 DEF IsFreeList, Unlink
<1>6. \A i \in 1 .. n - 1 : next'[shorter[i]] = IF i = 1 THEN NULL ELSE shorter[i - 1]
  BY <1>1, <1>2, <1>3 DEF IsFreeList
<1>7. ASSUME NEW c \in Conns PROVE owner'[c] = 0 <=> \E i \in 1 .. n - 1 : shorter[i] = c
  <2>1. CASE c = freeRoot
    <3>1. owner'[c] = s
      BY <1>2, <2>1
    <3>2. \A i \in 1 .. n - 1 : list[i] # list[n]
      BY <1>1, <1>2 DEF IsFreeList
    <3> QED
      BY <1>2, <1>3, <2>1, <3>1, <3>2
  <2>2. CASE c # freeRoot
    <3>1. owner'[c] = owner[c]
      BY <1>2, <2>2
    <3>2. owner[c] = 0 <=> \E i \in 1 .. n : list[i] = c
      BY <1>1 DEF IsFreeList
    <3>3. \A i \in 1 .. n : list[i] = c => i \in 1 .. n - 1
      BY <1>2, <2>2
    <3>4. \A i \in 1 .. n - 1 : i \in 1 .. n
      BY <1>2
    <3> QED
      BY <1>3, <3>1, <3>2, <3>3, <3>4
  <2> QED
    BY <2>1, <2>2
<1> HIDE DEF shorter
<1>8. IsFreeList(n - 1, shorter)'
  BY <1>3, <1>4, <1>5, <1>6, <1>7 DEF IsFreeList
<1> QED
  BY <1>8 DEF FreeChain

\* DeleteConnection puts a connection before the others.
LEMMA ChainLinked ==
    ASSUME IInv, NEW k \in Conns, owner[k] # 0, Link(k), owner' = [owner EXCEPT ![k] = 0]
    PROVE  FreeChain'
<1>1. PICK n, list : IsFreeList(n, list)
  BY DEF IInv, FreeChain
<1> DEFINE longer == [i \in 1 .. n + 1 |-> IF i = n + 1 THEN k ELSE list[i]]
<1>2. /\ n \in Nat /\ list \in [1 .. n -> Conns] /\ owner \in [Conns -> 0 .. MaxSessions]
      /\ next \in [Conns -> Conns \cup {NULL}]
      /\ next' = [next EXCEPT ![k] = freeRoot] /\ freeRoot' = k
  BY <1>1 DEF IsFreeList, IInv, Base, TypeOK, Link
<1>3. \A i \in 1 .. n : list[i] # k
  BY <1>1 DEF IsFreeList
<1>4. /\ n + 1 \in Nat /\ longer \in [1 .. n + 1 -> Conns] /\ longer[n + 1] = k
      /\ \A i \in 1 .. n : longer[i] = list[i]
      /\ \A i \in 1 .. n + 1 : i = n + 1 \/ i \in 1 .. n
      /\ \A i \in 1 .. n : i \in 1 .. n + 1 /\ i # n + 1
  BY <1>2
<1>5. \A i, j \in 1 .. n + 1 : longer[i] = longer[j] => i = j
  <2> HIDE DEF longer
  <2> QED
    BY <1>1, <1>3, <1>4 DEF IsFreeList
<1>6. freeRoot' = IF n + 1 = 0 THEN NULL ELSE longer[n + 1]
  BY <1>2, <1>4
<1>7. ASSUME NEW i \in 1 .. n + 1
      PROVE  next'[longer[i]] = IF i = 1 THEN NULL ELSE longer[i - 1]
  <2>1. CASE i = n + 1
    <3>1. next'[k] = freeRoot
      BY <1>2
    <3>2. freeRoot = IF n = 0 THEN NULL ELSE list[n]
      BY <1>1 DEF IsFreeList
    <3>3. n # 0 => n \in 1 .. n /\ longer[n] = list[n]
      BY <1>2, <1>4
    <3> QED
      BY <1>2, <1>4, <2>1, <3>1, <3>2, <3>3
  <2>2. CASE i # n + 1
    <3>1. i \in 1 .. n /\ longer[i] = list[i] /\ list[i] # k /\ list[i] \in Conns
      BY <1>2, <1>3, <1>4, <2>2
    <3>2. next'[list[i]] = next[list[i]]
      BY <1>2, <3>1
    <3>3. next[list[i]] = IF i = 1 THEN NULL ELSE list[i - 1]
      BY <1>1, <3>1 DEF IsFreeList
    <3>4. i # 1 => i - 1 \in 1 .. n
      BY <1>2, <3>1
    <3> QED
      BY <1>4, <3>1, <3>2, <3>3, <3>4
  <2> QED
    BY <2>1, <2>2
<1>8. ASSUME NEW c \in Conns PROVE owner'[c] = 0 <=> \E i \in 1 .. n + 1 : longer[i] = c
  <2>1. CASE c = k
    <3>1. owner'[c] = 0 /\ n + 1 \in 1 .. n + 1
      BY <1>2, <2>1
    <3> QED
      BY <1>4, <2>1, <3>1
  <2>2. CASE c # k
    <3>1. owner'[c] = owner[c]
      BY <1>2, <2>2
    <3>2. owner[c] = 0 <=> \E i \in 1 .. n : list[i] = c
      BY <1>1 DEF IsFreeList
    <3> HIDE DEF longer
    <3> QED
      BY <1>4, <2>2, <3>1, <3>2
  <2> QED
    BY <2>1, <2>2
<1> HIDE DEF longer
<1>9. IsFreeList(n + 1, longer)'
  BY <1>4, <1>5, <1>6, <1>7, <1>8 DEF IsFreeList
<1> QED
  BY <1>9 DEF FreeChain

\* The listener, or the logic thread before it runs, starts a session.
LEMMA CreateIInv ==
    ASSUME IInv, NEW t \in Threads, pc[t] \in Idle, CreateConnection(t)
    PROVE  IInv'
<1>0. Base' /\ Base
  BY CreateBase DEF IInv
<1>1. conn[t] = NULL /\ ~Holding(t)
  BY DEF IInv, Base, HandsFull, Holding
<1>2. made' = made + 1 /\ made \in Nat /\ \A c \in Conns : owner[c] \in Nat /\ owner[c] <= made
  BY <1>0 DEF CreateConnection, Base, TypeOK, IInv, SessionsDiffer
<1>3. UNCHANGED <<socket, connected, handler, closeConList, io, next>>
  BY DEF CreateConnection, fields, queues, pool
<1>4. CASE freeRoot = NULL
  <2>1. Leave(t) /\ UNCHANGED <<freeRoot, owner>>
    BY <1>4 DEF CreateConnection, pool
  <2>2. pc'[t] \in Idle /\ conn'[t] = NULL /\ Others(t)
    BY <1>0, <2>1, LeaveType DEF Others
  <2>3. SessionsDiffer'
    BY <1>2, <2>1 DEF IInv, SessionsDiffer
  <2>4. SocketsOwn' /\ FreeChain'
    BY <1>3, <2>1, SocketsKept, ChainKept DEF IInv
  <2>5. SocketsInHand'
    BY <2>1, <2>2, InHandKept DEF Idle
  <2>6. HandlersThere'
    BY <1>3, <2>1, <2>2 DEF IInv, HandlersThere, Others
  <2>7. ASSUME NEW c \in Conns PROVE Custodian(c)'
    <3>1. Holders(c)' = Holders(c)
      <4>1. t \notin Holders(c) /\ ~Holding(t)'
        BY <1>0, <1>1, <2>2, HoldersAre DEF Holding
      <4> QED
        BY <1>0, <2>2, <4>1, HoldersMove
    <3>2. Pending(c)' = Pending(c)
      BY <1>3 DEF Pending
    <3> QED
      BY <1>3, <2>1, <3>1, <3>2, CustodianKept DEF IInv
  <2> QED
    BY <1>0, <2>3, <2>4, <2>5, <2>6, <2>7 DEF IInv
<1>5. CASE freeRoot # NULL
  <2> SUFFICES ASSUME NEW k, k = freeRoot PROVE IInv'
    OBVIOUS
  <2>1. k \in Conns /\ owner[k] = 0 /\ Holders(k) = {} /\ Pending(k) = {} /\ Notices(k) = {}
    BY <1>5, FirstIsFree DEF IInv, Custodian
  <2>2. /\ Goto(t, "associate") /\ conn' = [conn EXCEPT ![t] = k] /\ Unlink(freeRoot)
        /\ hSocket' = [hSocket EXCEPT ![t] = made'] /\ owner' = [owner EXCEPT ![freeRoot] = made']
    BY <1>5 DEF CreateConnection
  <2>3. pc'[t] = "associate" /\ conn'[t] = k /\ hSocket'[t] = made' /\ Others(t)
    <3>1. /\ pc'[t] = "associate" /\ \A u \in Threads : u # t => pc'[u] = pc[u]
      BY <1>0, <2>2, GotoType DEF Steps
    <3>2. /\ conn'[t] = k /\ hSocket'[t] = made'
          /\ \A u \in Threads : u # t => conn'[u] = conn[u] /\ hSocket'[u] = hSocket[u]
      BY <1>0, <2>2 DEF Base, TypeOK
    <3> QED
      BY <3>1, <3>2 DEF Others
  <2>4. Holding(t)'
    BY <2>3 DEF Idle, Closing, Holding
  <2>5. owner'[k] = made + 1 /\ \A c \in Conns : c # k => owner'[c] = owner[c]
    BY <1>0, <1>2, <2>1, <2>2 DEF Base, TypeOK
  <2>6. SocketsOwn'
    <3>1. socket[k] = 0
      BY <2>1 DEF IInv, SocketsOwn
    <3> QED
      BY <1>3, <2>5, <3>1 DEF IInv, SocketsOwn
  <2>7. SessionsDiffer'
    BY <1>2, <2>5 DEF IInv, SessionsDiffer
  <2>8. SocketsInHand'
    <3>1. ASSUME NEW u \in Threads, u # t, pc'[u] \in {"associate", "connectEx"}
          PROVE  hSocket'[u] = owner'[conn'[u]]
      <4>1. pc[u] \in {"associate", "connectEx"} /\ conn'[u] = conn[u] /\ hSocket'[u] = hSocket[u]
        BY <2>3, <3>1 DEF Others
      <4>2. conn[u] \in Conns /\ owner[conn[u]] # 0 /\ hSocket[u] = owner[conn[u]]
        BY <4>1, Serving DEF Idle, Closing, IInv, SocketsInHand
      <4> QED
        BY <2>1, <2>5, <4>1, <4>2
    <3>2. hSocket'[t] = owner'[conn'[t]]
      BY <1>2, <2>3, <2>5
    <3> QED
      BY <3>1, <3>2 DEF SocketsInHand
  <2>9. HandlersThere'
    <3>1. ASSUME NEW u \in Threads, pc'[u] \notin Idle \cup Closing \cup {"associate"}
          PROVE  handler'[conn'[u]]
      BY <1>3, <2>3, <3>1 DEF Others, IInv, HandlersThere
    <3>2. ASSUME NEW op \in io' PROVE handler'[op.conn] /\ op.session = owner'[op.conn]
      <4>1. op \in io /\ op.conn \in Conns /\ owner[op.conn] # 0 /\ owner[op.conn] = op.session
            /\ handler[op.conn]
        BY <1>3, <3>2, InFlight
      <4>2. op.conn # k
        BY <2>1, <4>1
      <4> QED
        BY <1>3, <2>5, <4>1, <4>2
    <3> QED
      BY <3>1, <3>2 DEF HandlersThere
  <2>10. ASSUME NEW c \in Conns, c # k PROVE Custodian(c)'
    <3>1. Holders(c)' = Holders(c)
      <4>1. t \notin Holders(c)
        BY <1>0, <1>1, HoldersAre
      <4> QED
        BY <1>0, <2>3, <2>4, <2>10, <4>1, HoldersMove
    <3>2. Pending(c)' = Pending(c) /\ owner'[c] = owner[c]
      BY <1>3, <2>5, <2>10 DEF Pending
    <3> QED
      BY <1>3, <3>1, <3>2, CustodianKept DEF IInv
  <2>11. Custodian(k)'
    <3>1. Holders(k)' = {t}
      BY <1>0, <2>1, <2>3, <2>4, HoldersMove
    <3>2. Pending(k)' = {} /\ Notices(k)' = {}
      BY <1>3, <2>1 DEF Pending, Notices
    <3>3. owner'[k] # 0
      BY <1>2, <2>5
    <3> QED
      BY <3>1, <3>2, <3>3 DEF Custodian
  <2>12. FreeChain'
    <3>1. made' # 0
      BY <1>2
    <3>2. PICK s : s = made'
      OBVIOUS
    <3> QED
      BY <1>3, <1>5, <2>2, <3>1, <3>2, ChainTaken
  <2> QED
    BY <1>0, <2>6, <2>7, <2>8, <2>9, <2>10, <2>11, <2>12 DEF IInv
<1> QED
  BY <1>4, <1>5

\* The logic thread recycles the connection of a notice.
LEMMA DrainCloseIInv ==
    ASSUME IInv, DrainClose, closeConList # <<>>
    PROVE  IInv'
<1>0. Base' /\ Base
  BY LogicBase DEF IInv, Logic
<1> SUFFICES ASSUME NEW k, k = Head(closeConList) PROVE IInv'
  OBVIOUS
<1>1. /\ closeConList' = Tail(closeConList) /\ DeleteConnection(k)
      /\ UNCHANGED <<pc, conn, hSocket, made, io>>
  BY DEF DrainClose, kernel, hand
<1>2. closeConList \in Seq(Conns) /\ 1 \in DOMAIN closeConList /\ closeConList[1] = k
  BY <1>0 DEF Base, TypeOK
<1>3. k \in Conns /\ owner[k] # 0 /\ Holders(k) = {} /\ Pending(k) = {} /\ Notices(k) = {1}
  BY <1>2, Noticed
<1>4. /\ \A c \in Conns : owner'[c] = (IF c = k THEN 0 ELSE owner[c])
      /\ \A c \in Conns : socket'[c] = (IF c = k THEN 0 ELSE socket[c])
      /\ \A c \in Conns : c # k => handler'[c] = handler[c]
  BY <1>0, <1>1 DEF DeleteConnection, Base, TypeOK
<1>6. SocketsOwn'
  BY <1>4 DEF IInv, SocketsOwn
<1>7. SessionsDiffer'
  <2>1. made \in Nat
    BY <1>0 DEF Base, TypeOK
  <2> QED
    BY <1>1, <1>4, <2>1 DEF IInv, SessionsDiffer
<1>8. ASSUME NEW u \in Threads, Holding(u)
      PROVE  conn[u] \in Conns /\ conn[u] # k
  BY <1>3, <1>8, Serving DEF Holding
<1>9. SocketsInHand'
  <2>1. ASSUME NEW u \in Threads, pc[u] \in {"associate", "connectEx"}
        PROVE  owner'[conn[u]] = owner[conn[u]]
    BY <1>4, <1>8, <2>1 DEF Holding, Idle, Closing
  <2> QED
    BY <1>1, <2>1 DEF IInv, SocketsInHand
<1>10. HandlersThere'
  <2>1. ASSUME NEW u \in Threads, pc'[u] \notin Idle \cup Closing \cup {"associate"}
        PROVE  handler'[conn'[u]]
    BY <1>1, <1>4, <1>8, <2>1 DEF Holding, IInv, HandlersThere
  <2>2. ASSUME NEW op \in io' PROVE handler'[op.conn] /\ op.session = owner'[op.conn]
    <3>1. op \in io /\ op.conn \in Conns /\ op.conn # k /\ owner[op.conn] = op.session
          /\ handler[op.conn]
      BY <1>1, <1>3, <2>2, InFlight
    <3> QED
      BY <1>4, <3>1
  <2> QED
    BY <2>1, <2>2 DEF HandlersThere
<1>11. \A c \in Conns : Holders(c)' = Holders(c) /\ Pending(c)' = Pending(c)
  BY <1>1 DEF Holders, Pending
<1>12. /\ DOMAIN closeConList = 1 .. Len(closeConList) /\ Len(closeConList) \in Nat
       /\ DOMAIN closeConList' = 1 .. Len(closeConList) - 1
       /\ \A i \in DOMAIN closeConList' : closeConList'[i] = closeConList[i + 1]
  BY <1>1, <1>2
<1>13. ASSUME NEW c \in Conns, c # k PROVE Custodian(c)'
  <2>1. owner'[c] = owner[c] /\ Custodian(c)
    BY <1>4, <1>13 DEF IInv
  <2>2. Notices(c) = {} => Notices(c)' = {}
    BY <1>12 DEF Notices
  <2>3. ASSUME NEW i \in DOMAIN closeConList, Notices(c) = {i}
        PROVE  i - 1 \in DOMAIN closeConList' /\ Notices(c)' = {i - 1}
    <3>1. closeConList[i] = c /\ i # 1
      BY <1>2, <1>13, <2>3 DEF Notices
    <3>2. i - 1 \in DOMAIN closeConList' /\ closeConList'[i - 1] = c
      BY <1>12, <3>1
    <3>3. ASSUME NEW j \in DOMAIN closeConList', closeConList'[j] = c PROVE j = i - 1
      <4>1. j + 1 \in DOMAIN closeConList /\ closeConList[j + 1] = c
        BY <1>12, <3>3
      <4>2. j + 1 = i
        BY <2>3, <4>1 DEF Notices
      <4> QED
        BY <1>12, <4>2
    <3> QED
      BY <3>2, <3>3 DEF Notices
  <2>4. CASE \E i \in DOMAIN closeConList : Notices(c) = {i}
    <3>1. \E i \in DOMAIN closeConList' : Notices(c)' = {i}
      BY <2>3, <2>4
    <3>2. owner[c] # 0 /\ Holders(c) = {} /\ Pending(c) = {}
      BY <2>1, <2>4 DEF Custodian
    <3> QED
      BY <1>11, <2>1, <3>1, <3>2 DEF Custodian
  <2>5. CASE Notices(c) = {}
    BY <1>1, <1>11, <2>1, <2>2, <2>5 DEF Custodian
  <2> QED
    BY <2>1, <2>4, <2>5 DEF Custodian
<1>14. Custodian(k)'
  <2>1. Notices(k)' = {}
    <3>1. ASSUME NEW j \in DOMAIN closeConList', closeConList'[j] = k PROVE FALSE
      <4>1. j + 1 \in DOMAIN closeConList /\ closeConList[j + 1] = k /\ j + 1 # 1
        BY <1>12, <3>1
      <4> QED
        BY <1>3, <4>1 DEF Notices
    <3> QED
      BY <3>1 DEF Notices
  <2> QED
    BY <1>3, <1>4, <1>11, <2>1 DEF Custodian
<1>15. FreeChain'
  BY <1>1, <1>3, ChainLinked DEF DeleteConnection
<1> QED
  BY <1>0, <1>6, <1>7, <1>9, <1>10, <1>13, <1>14, <1>15 DEF IInv

LEMMA InitIInv == Init => IInv
<1> SUFFICES ASSUME Init PROVE IInv
  OBVIOUS
<1>1. Base
  BY InitBase
<1>2. \A t \in Threads : pc[t] \in {"accept", "update", "wait"} /\ conn[t] = NULL
  BY DEF Init
<1>3. io = {} /\ closeConList = <<>> /\ \A c \in Conns : owner[c] = 0 /\ socket[c] = 0
  BY DEF Init
<1>4. SocketsOwn /\ SocketsInHand /\ SessionsDiffer /\ HandlersThere
  <2>1. SocketsOwn
    BY <1>3 DEF SocketsOwn
  <2>2. SocketsInHand
    BY <1>2 DEF SocketsInHand
  <2>3. SessionsDiffer
    <3>1. made = 0
      BY DEF Init
    <3> QED
      BY <1>3, <3>1 DEF SessionsDiffer
  <2>4. HandlersThere
    BY <1>2, <1>3 DEF HandlersThere, Idle
  <2> QED
    BY <2>1, <2>2, <2>3, <2>4
<1>5. \A c \in Conns : Custodian(c)
  BY <1>2, <1>3, Assumptions DEF Custodian, Holders, Pending, Notices
<1>6. FreeChain
  <2> DEFINE n == Cardinality(Conns)
  <2>1. PICK list \in [1 .. n -> Conns] :
            /\ freeRoot = list[1]
            /\ next = [c \in Conns |->
                         LET i == CHOOSE j \in DOMAIN list : list[j] = c IN
                         IF i = n THEN NULL ELSE list[i + 1]]
            /\ \A i, j \in DOMAIN list : list[i] = list[j] => i = j
    BY DEF Init, InitConnectionList
  <2>2. n \in Nat /\ n # 0
    BY Assumptions, FS_EmptySet
  <2>3. list \in Surjection(1 .. n, Conns)
    <3>1. list \in Injection(1 .. n, Conns)
      BY <2>1 DEF Injection, IsInjective
    <3>2. Cardinality(1 .. n) = n
      BY <2>2, FS_Interval
    <3> QED
      BY <3>1, <3>2, Assumptions, FS_Injection
  <2> HIDE DEF n
  <2> DEFINE back == [i \in 1 .. n |-> list[n + 1 - i]]
  <2>4. /\ back \in [1 .. n -> Conns]
        /\ \A i \in 1 .. n : n + 1 - i \in 1 .. n /\ back[i] = list[n + 1 - i]
    BY <2>1, <2>2
  <2>5. \A i, j \in 1 .. n : back[i] = back[j] => i = j
    <3>1. \A i, j \in 1 .. n : list[i] = list[j] => i = j
      BY <2>1
    <3>2. \A i, j \in 1 .. n : n + 1 - i = n + 1 - j => i = j
      BY <2>2
    <3> HIDE DEF back
    <3> QED
      BY <2>4, <3>1, <3>2
  <2>6. freeRoot = back[n]
    BY <2>1, <2>2, <2>4
  <2>7. ASSUME NEW i \in 1 .. n PROVE next[list[i]] = IF i = n THEN NULL ELSE list[i + 1]
    <3> DEFINE m == CHOOSE j \in DOMAIN list : list[j] = list[i]
    <3>1. m = i
      BY <2>1
    <3>2. list[i] \in Conns
      BY <2>1
    <3> QED
      BY <2>1, <3>1, <3>2
  <2>8. ASSUME NEW i \in 1 .. n PROVE next[back[i]] = IF i = 1 THEN NULL ELSE back[i - 1]
    <3>1. next[back[i]] = IF n + 1 - i = n THEN NULL ELSE list[(n + 1 - i) + 1]
      BY <2>4, <2>7
    <3>2. CASE i = 1
      BY <2>2, <3>1, <3>2
    <3>3. CASE i # 1
      <4>1. i - 1 \in 1 .. n /\ n + 1 - (i - 1) = (n + 1 - i) + 1 /\ n + 1 - i # n
        BY <2>2, <3>3
      <4>2. back[i - 1] = list[n + 1 - (i - 1)]
        BY <2>4, <4>1
      <4> QED
        BY <3>1, <3>3, <4>1, <4>2
    <3> QED
      BY <3>2, <3>3
  <2>9. ASSUME NEW c \in Conns PROVE \E i \in 1 .. n : back[i] = c
    <3>1. PICK j \in 1 .. n : list[j] = c
      BY <2>3 DEF Surjection
    <3>2. n + 1 - j \in 1 .. n /\ n + 1 - (n + 1 - j) = j
      BY <2>2
    <3> QED
      BY <2>4, <3>1, <3>2
  <2> HIDE DEF back
  <2>10. IsFreeList(n, back)
    BY <1>3, <2>2, <2>4, <2>5, <2>6, <2>8, <2>9 DEF IsFreeList
  <2> QED
    BY <2>10 DEF FreeChain
<1> QED
  BY <1>1, <1>4, <1>5, <1>6 DEF IInv

LEMMA NextIInv == IInv /\ [Next]_vars /\ ownCloses' = 0 => IInv'
<1> SUFFICES ASSUME IInv, [Next]_vars, ownCloses' = 0 PROVE IInv'
  OBVIOUS
<1>1. CASE Accept \/ Connect
  BY <1>1, CreateIInv, Assumptions DEF Accept, Connect, Idle
<1>2. CASE ConnectEx
  BY <1>2, ReceiveIInv, Assumptions
<1>3. CASE Logic
  BY <1>3, LogicStays, DrainCloseIInv DEF Logic
<1>4. CASE OwnCloses
  <2>1. Base' /\ ownCloses' > 0
    BY <1>4, OwnCloseBase DEF OwnCloses, IInv
  <2> QED
    BY <2>1
<1>5. CASE UNCHANGED vars
  <2>1. Base'
    BY NextBase DEF IInv
  <2>2. UNCHANGED <<freeRoot, next, socket, handler, closeConList, pc, conn, hSocket, made, io, owner>>
    BY <1>5 DEF vars, pool, fields, queues, hand, kernel, history
  <2>3. FreeChain'
    BY <2>2, ChainKept DEF IInv
  <2>4. \A c \in Conns : Custodian(c)'
    BY <2>2 DEF IInv, Custodian, Holders, Pending, Notices
  <2> QED
    BY <2>1, <2>2, <2>3, <2>4 DEF IInv, SocketsOwn, SocketsInHand, SessionsDiffer, HandlersThere
<1> QED
  BY <1>1, <1>2, <1>3, <1>4, <1>5, WorkIInv, CompletionIInv, ExtractIInv DEF Next
-----------------------------------------------------------------------------
\* While the logic thread has closed nothing by itself, IInv holds.
Untouched == ownCloses = 0 => IInv

\* Only those closes are counted.
LEMMA OwnClosesGrow ==
    ASSUME [Next]_vars, ~OwnCloses
    PROVE  ownCloses' = ownCloses
<1>1. CASE \E t \in Threads : Work(t)
  BY <1>1 DEF Work, Associate, SetConnectionOK, OnNewConnect, DoReceive, CloseNotify,
              CloseSocket, CloseReset, HandlerNull, history
<1>2. CASE \E e \in EventThreads : Completion(e) \/ Extract(e)
  BY <1>2 DEF Completion, RecvBytes, RecvZero, Connected, ConnectFailed, Dequeue, Extract, history
<1>3. CASE Logic
  BY <1>3 DEF Logic, CheckEnds, DrainNew, DrainData, DispatchEnds, DrainClose, history
<1>4. CASE Accept \/ Connect \/ ConnectEx \/ UNCHANGED vars
  BY <1>4 DEF Accept, Connect, CreateConnection, ConnectEx, vars, history
<1> QED
  BY <1>1, <1>2, <1>3, <1>4 DEF Next

LEMMA UntouchedNext == Base /\ Untouched /\ [Next]_vars => Untouched'
<1> SUFFICES ASSUME Base, Untouched, [Next]_vars, ownCloses' = 0 PROVE IInv'
  BY DEF Untouched
<1>1. ~OwnCloses
  <2> SUFFICES ASSUME OwnCloses PROVE FALSE
    OBVIOUS
  <2>1. ownCloses' > 0
    BY OwnCloseBase DEF OwnCloses
  <2> QED
    BY <2>1
<1>2. IInv
  BY <1>1, OwnClosesGrow DEF Untouched
<1> QED
  BY <1>2, NextIInv

\* The inductive invariant, from which the theorems below follow: types, the
\* account of every packet, and the custody of the connections as long as the
\* logic thread has closed none by itself (Connection.cpp:509, 684-703).
EngineInv == AInv /\ Untouched
THEOREM EngineInvariant == Spec => []EngineInv
<1>1. Init => EngineInv
  BY InitAccount, InitIInv DEF EngineInv, Untouched
<1>2. EngineInv /\ [Next]_vars => EngineInv'
  BY NextAccount, UntouchedNext DEF EngineInv, AInv
<1> QED
  BY <1>1, <1>2, PTL DEF Spec

\* TypeOK, for any number of connections, event threads and sessions, whatever
\* the logic thread closes.
THEOREM EngineTypeCorrect == Spec => []TypeOK
<1>1. EngineInv => TypeOK
  BY DEF EngineInv, AInv, Base
<1> QED
  BY <1>1, EngineInvariant, PTL

\* Of three sets none has an element, or one has one.
AtMostOne(H, P, N, session) ==
    \/ session = 0 /\ H = {} /\ P = {} /\ N = {}
    \/ session # 0 /\ (\E x : H = {x}) /\ P = {} /\ N = {}
    \/ session # 0 /\ H = {} /\ (\E x : P = {x}) /\ N = {}
    \/ session # 0 /\ H = {} /\ P = {} /\ (\E x : N = {x})

LEMMA OneOfThree ==
    ASSUME NEW H, NEW P, NEW N, NEW session, AtMostOne(H, P, N, session)
    PROVE  Cardinality(H) + Cardinality(P) + Cardinality(N) = IF session = 0 THEN 0 ELSE 1
<1>1. Cardinality({}) = 0 /\ \A x : Cardinality({x}) = 1
  BY FS_EmptySet, FS_Singleton
<1> SUFFICES ASSUME NEW h, NEW p, NEW n,
                    h = Cardinality(H), p = Cardinality(P), n = Cardinality(N)
             PROVE  h + p + n = IF session = 0 THEN 0 ELSE 1
  OBVIOUS
<1>2. \/ session = 0 /\ h = 0 /\ p = 0 /\ n = 0
      \/ session # 0 /\ h = 1 /\ p = 0 /\ n = 0
      \/ session # 0 /\ h = 0 /\ p = 1 /\ n = 0
      \/ session # 0 /\ h = 0 /\ p = 0 /\ n = 1
  BY <1>1 DEF AtMostOne
<1> QED
  BY <1>2

\* As long as the logic thread has closed nothing by itself, a connection in use
\* has exactly one custodian, a free one none: it is closed once and recycled
\* once, and its handler is there.
THEOREM EngineCustody == Spec => []Custody
<1>1. ASSUME EngineInv PROVE Custody
  <2> SUFFICES ASSUME IInv PROVE Custody
    BY <1>1 DEF EngineInv, Untouched, Custody
  <2>1. ASSUME NEW c \in Conns
        PROVE  Cardinality(Holders(c)) + Cardinality(Pending(c)) + Cardinality(Notices(c))
                 = IF owner[c] = 0 THEN 0 ELSE 1
    <3>1. Custodian(c)
      BY DEF IInv
    <3>2. AtMostOne(Holders(c), Pending(c), Notices(c), owner[c])
      BY <3>1 DEF Custodian, AtMostOne
    <3> QED
      BY <3>2, OneOfThree
  <2>2. ASSUME NEW c \in Conns, NEW t \in Holders(c), pc[t] # "associate" PROVE handler[c]
    BY <2>2, HoldersAre DEF IInv, HandlersThere, Holding
  <2>3. ASSUME NEW c \in Conns, NEW op \in Pending(c) PROVE handler[c] /\ op.session = owner[c]
    BY <2>3 DEF Pending, IInv, HandlersThere
  <2> QED
    BY <2>1, <2>2, <2>3 DEF Custody
<1> QED
  BY <1>1, EngineInvariant, PTL

\* No list of different connections is longer than there are connections.
LEMMA FreeListFits ==
    ASSUME IInv, NEW n, NEW list, IsFreeList(n, list)
    PROVE  n <= Cardinality(Conns)
<1>1. n \in Nat /\ list \in [1 .. n -> Conns] /\ \A i, j \in 1 .. n : list[i] = list[j] => i = j
  BY DEF IsFreeList
<1>2. IsFiniteSet(1 .. n) /\ Cardinality(1 .. n) = n
  <2>1. n - 1 + 1 = n /\ (1 > n <=> n = 0)
    BY <1>1
  <2> QED BY <1>1, <2>1, FS_Interval
<1>3. SUFFICES ASSUME Cardinality(Conns) < Cardinality(1 .. n) PROVE FALSE
  BY <1>1, <1>2, Assumptions
<1>4. \E i, j \in 1 .. n : i # j /\ list[i] = list[j]
  BY <1>1, <1>2, <1>3, Assumptions, FS_PigeonHole
<1> QED BY <1>1, <1>4

\* FreeList, which follows the links from the root, meets that list backwards
\* and then NULL.
LEMMA FreeListIs ==
    ASSUME IInv, NEW n, NEW list, IsFreeList(n, list)
    PROVE  FreeList = [i \in 0 .. Cardinality(Conns) |-> IF i < n THEN list[n - i] ELSE NULL]
<1> DEFINE size == Cardinality(Conns)
           after(x) == IF x = NULL THEN NULL ELSE next[x]
           node[i \in 0 .. size] ==
               IF i = 0 THEN freeRoot
               ELSE IF node[i - 1] = NULL THEN NULL ELSE next[node[i - 1]]
           place == [i \in 0 .. size |-> IF i < n THEN list[n - i] ELSE NULL]
<1>1. size \in Nat /\ n \in Nat /\ list \in [1 .. n -> Conns] /\ NULL \notin Conns
  BY Assumptions DEF IsFreeList
<1>2. place[0] = freeRoot
  BY <1>1 DEF IsFreeList
<1>3. ASSUME NEW i \in 1 .. size PROVE place[i] = after(place[i - 1])
  <2>0. i - 1 \in 0 .. size /\ i \in 0 .. size
    BY <1>1
  <2>1. CASE i - 1 < n
    <3> DEFINE j == n - (i - 1)
    <3>1. j \in 1 .. n /\ place[i - 1] = list[j] /\ list[j] # NULL
      BY <2>0, <2>1, <1>1
    <3>2. next[list[j]] = IF j = 1 THEN NULL ELSE list[j - 1]
      BY <3>1 DEF IsFreeList
    <3>3. j = 1 <=> ~(i < n)
      BY <2>1, <1>1
    <3>4. j - 1 = n - i
      BY <1>1
    <3>5. place[i] = IF j = 1 THEN NULL ELSE list[j - 1]
      BY <2>0, <3>3, <3>4
    <3> HIDE DEF place, j
    <3> QED BY <3>1, <3>2, <3>5
  <2>2. CASE ~(i - 1 < n)
    <3>1. ~(i < n)
      BY <2>2, <1>1
    <3> QED BY <2>0, <2>2, <3>1
  <2> QED BY <2>1, <2>2
<1>4. place = [i \in 0 .. size |-> IF i = 0 THEN freeRoot ELSE after(place[i - 1])]
  <2>1. \A i \in 0 .. size : place[i] = IF i = 0 THEN freeRoot ELSE after(place[i - 1])
    <3> HIDE DEF place, after
    <3> QED BY <1>1, <1>2, <1>3
  <2> QED BY <2>1
<1>5. node = [i \in 0 .. size |-> IF i = 0 THEN freeRoot ELSE after(node[i - 1])]
  BY <1>4
<1> DEFINE S == {i \in 0 .. size : node[i] = place[i]}
<1> HIDE DEF node, place
<1>6. /\ \A i \in 0 .. size : node[i] = IF i = 0 THEN freeRoot ELSE after(node[i - 1])
      /\ \A i \in 0 .. size : place[i] = IF i = 0 THEN freeRoot ELSE after(place[i - 1])
  BY <1>4, <1>5
<1>7. 0 \in S
  BY <1>1, <1>6
<1>8. ASSUME NEW i \in 0 .. size - 1, i \in S PROVE i + 1 \in S
  <2>1. i + 1 \in 0 .. size /\ i + 1 # 0 /\ (i + 1) - 1 = i
    BY <1>1
  <2> QED BY <2>1, <1>6, <1>8
<1>9. 0 .. size \subseteq S
  <2> HIDE DEF S, size
  <2> QED BY <1>1, <1>7, <1>8, AllUpTo
<1>10. node = place
  BY <1>4, <1>5, <1>9
<1> QED BY <1>10 DEF FreeList, node, place

\* As long as the logic thread has closed nothing by itself, a walk along the
\* free list ends, meets no connection twice, and meets those that serve nobody,
\* whichever threads created and deleted connections
\* (Connection.cpp:603-663).
THEOREM EngineFreeListSound == Spec => []FreeListSound
<1>1. ASSUME EngineInv PROVE FreeListSound
  <2> SUFFICES ASSUME IInv PROVE FreeListSound
    BY <1>1 DEF EngineInv, Untouched, FreeListSound
  <2>1. PICK n, list : IsFreeList(n, list)
    BY DEF IInv, FreeChain
  <2> DEFINE size == Cardinality(Conns)
  <2>2. /\ size \in Nat /\ n \in Nat /\ n <= size /\ NULL \notin Conns
        /\ list \in [1 .. n -> Conns] /\ \A i, j \in 1 .. n : list[i] = list[j] => i = j
        /\ \A c \in Conns : owner[c] = 0 <=> \E i \in 1 .. n : list[i] = c
    <3>1. n <= size
      BY <2>1, FreeListFits
    <3>2. size \in Nat /\ NULL \notin Conns
      BY Assumptions, FS_CardinalityType
    <3> HIDE DEF size
    <3> QED BY <2>1, <3>1, <3>2 DEF IsFreeList
  <2>3. FreeList = [i \in 0 .. size |-> IF i < n THEN list[n - i] ELSE NULL]
    BY <2>1, FreeListIs
  <2> HIDE DEF size
  <2>4. /\ DOMAIN FreeList = 0 .. size
        /\ \A i \in 0 .. size : FreeList[i] = IF i < n THEN list[n - i] ELSE NULL
    BY <2>3
  <2>5. ASSUME NEW i \in 0 .. size, FreeList[i] # NULL
        PROVE  n - i \in 1 .. n /\ FreeList[i] = list[n - i] /\ FreeList[i] \in Conns
    <3>1. i < n /\ n - i \in 1 .. n
      BY <2>2, <2>4, <2>5
    <3> QED BY <3>1, <2>2, <2>4
  <2>6. FreeList[size] = NULL
    <3>1. size \in 0 .. size /\ ~(size < n)
      BY <2>2
    <3> QED BY <3>1, <2>4
  <2>7. ASSUME NEW i \in 0 .. size, NEW j \in 0 .. size, FreeList[i] = FreeList[j], FreeList[i] # NULL
        PROVE  i = j
    <3>1. n - i \in 1 .. n /\ n - j \in 1 .. n /\ list[n - i] = list[n - j]
      BY <2>5, <2>7
    <3>2. n - i = n - j
      BY <3>1, <2>2
    <3> QED BY <3>2, <2>2
  <2>8. {FreeList[i] : i \in DOMAIN FreeList} \ {NULL} = {c \in Conns : owner[c] = 0}
    <3>1. ASSUME NEW i \in 0 .. size, FreeList[i] # NULL
          PROVE  FreeList[i] \in Conns /\ owner[FreeList[i]] = 0
      BY <3>1, <2>2, <2>5
    <3>2. ASSUME NEW c \in Conns, owner[c] = 0
          PROVE  c # NULL /\ \E i \in 0 .. size : FreeList[i] = c
      <4>1. PICK k \in 1 .. n : list[k] = c
        BY <3>2, <2>2
      <4>2. n - k \in 0 .. size /\ n - k < n /\ n - (n - k) = k
        BY <2>2
      <4>3. FreeList[n - k] = c
        BY <4>1, <4>2, <2>4
      <4> QED BY <4>2, <4>3, <2>2
    <3> QED BY <3>1, <3>2, <2>4
  <2> QED BY <2>4, <2>6, <2>7, <2>8 DEF FreeListSound, size
<1> QED BY <1>1, EngineInvariant, PTL

\* As long as the logic thread has closed nothing by itself, a notice that a
\* connection is closed is never dropped.
THEOREM EngineNoticeFits == Spec => []CloseNoticeFits
<1>1. ASSUME EngineInv PROVE CloseNoticeFits
  <2> SUFFICES ASSUME IInv PROVE CloseNoticeFits
    BY <1>1 DEF EngineInv, Untouched, CloseNoticeFits
  <2>1. ASSUME NEW t \in Threads, pc[t] = "notify" PROVE Len(closeConList) < NoticeCapacity
    <3>1. conn[t] \in Conns /\ Notices(conn[t]) = {}
      BY <2>1, Serving DEF Idle, Closing
    <3> QED
      BY <3>1, RoomForNotice
  <2> QED
    BY <2>1 DEF CloseNoticeFits
<1> QED
  BY <1>1, EngineInvariant, PTL

\* As long as the logic thread has closed nothing by itself, nobody calls the
\* handler of a connection that has none.
THEOREM EngineHandlerThere == Spec => [](ownCloses = 0 => HandlerNeverNull)
<1>1. ASSUME EngineInv, ownCloses = 0 PROVE HandlerNeverNull
  <2>1. ASSUME NEW t \in Threads, CallsHandler(t) PROVE handler[conn[t]]
    BY <1>1, <2>1 DEF EngineInv, Untouched, IInv, HandlersThere, CallsHandler, Idle, Closing
  <2> QED
    BY <2>1 DEF HandlerNeverNull
<1> QED
  BY <1>1, EngineInvariant, PTL
-----------------------------------------------------------------------------
(* The engine's connections are those of ConnectionPool.                     *)

\* The connections a notice reports closed.
Reported == {c \in Conns : Notices(c) # {}}

LEMMA ReportedKept == closeConList' = closeConList => Reported' = Reported
  BY DEF Reported, Notices

\* A step that leaves alone what the pool's users see.
LEMMA Hidden ==
    ASSUME UNCHANGED <<owner, closeConList, made, ownCloses>>
    PROVE  UNCHANGED Pool!vars
  BY ReportedKept DEF Pool!vars, Reported

\* A socket is served by a connection that was free, or turned away for there
\* is none.
LEMMA CreateIsTake ==
    ASSUME IInv, NEW t \in Threads, CreateConnection(t)
    PROVE  Pool!Regular
<1>1. /\ made < MaxSessions /\ made' = made + 1
      /\ closeConList' = closeConList
  BY DEF CreateConnection, queues
<1>2. Reported' = Reported
  BY <1>1, ReportedKept
<1>3. CASE freeRoot = NULL
  <2>1. PICK n, list : IsFreeList(n, list)
    BY DEF IInv, FreeChain
  <2>2. n = 0
    <3>1. n # 0 => list[n] \in Conns
      BY <2>1 DEF IsFreeList
    <3> QED
      BY <1>3, <2>1, <3>1, Assumptions DEF IsFreeList
  <2>3. \A c \in Conns : owner[c] # 0
    BY <2>1, <2>2 DEF IsFreeList
  <2>4. owner' = owner
    BY <1>3 DEF CreateConnection
  <2> QED
    BY <1>1, <1>2, <2>3, <2>4 DEF Pool!Regular, Pool!TurnAway, Reported
<1>4. CASE freeRoot # NULL
  <2>1. freeRoot \in Conns /\ owner[freeRoot] = 0
    BY <1>4, FirstIsFree
  <2>2. owner' = [owner EXCEPT ![freeRoot] = made']
    BY <1>4 DEF CreateConnection
  <2>3. Pool!Take(freeRoot)
    BY <1>1, <1>2, <2>1, <2>2 DEF Pool!Take, Reported
  <2> QED
    BY <2>1, <2>3 DEF Pool!Regular
<1> QED
  BY <1>3, <1>4

\* A connection is reported closed once.
LEMMA NotifyIsClose ==
    ASSUME IInv, NEW t \in Threads, CloseNotify(t)
    PROVE  Pool!Regular
<1> SUFFICES ASSUME NEW k, k = conn[t] PROVE Pool!Regular
  OBVIOUS
<1>1. pc[t] = "notify"
  BY DEF CloseNotify
<1>2. k \in Conns /\ owner[k] # 0 /\ Notices(k) = {}
  BY <1>1, Serving DEF Idle, Closing
<1>3. UNCHANGED <<owner, made>>
  BY DEF CloseNotify, history, kernel
<1>4. closeConList' = Append(closeConList, k) /\ closeConList \in Seq(Conns)
  BY <1>2, RoomForNotice DEF CloseNotify, OnCloseConnect, PushTo, IInv, Base, TypeOK
<1>5. /\ DOMAIN closeConList' = DOMAIN closeConList \cup {Len(closeConList) + 1}
      /\ closeConList'[Len(closeConList) + 1] = k
      /\ \A i \in DOMAIN closeConList : closeConList'[i] = closeConList[i]
  BY <1>4
<1>6. ASSUME NEW c \in Conns PROVE Notices(c)' # {} <=> Notices(c) # {} \/ c = k
  BY <1>5 DEF Notices
<1>7. Reported' = Reported \cup {k}
  BY <1>2, <1>6 DEF Reported
<1>8. Pool!Close(k)
  BY <1>2, <1>3, <1>7 DEF Pool!Close, Reported
<1> QED
  BY <1>2, <1>8 DEF Pool!Regular

\* A connection is given back after it was reported closed.
LEMMA DrainIsGiveBack ==
    ASSUME IInv, DrainClose, closeConList # <<>>
    PROVE  Pool!Regular
<1> SUFFICES ASSUME NEW k, k = Head(closeConList) PROVE Pool!Regular
  OBVIOUS
<1>1. closeConList \in Seq(Conns) /\ closeConList' = Tail(closeConList)
  BY DEF DrainClose, IInv, Base, TypeOK
<1>2. 1 \in DOMAIN closeConList /\ closeConList[1] = k
  BY <1>1
<1>3. k \in Conns /\ Notices(k) = {1}
  BY <1>2, Noticed
<1>4. made' = made /\ owner' = [owner EXCEPT ![k] = 0]
  BY DEF DrainClose, DeleteConnection, kernel
<1>5. /\ \A i \in DOMAIN closeConList' :
            i + 1 \in DOMAIN closeConList /\ i + 1 # 1 /\ closeConList'[i] = closeConList[i + 1]
      /\ \A i \in DOMAIN closeConList :
            i # 1 => i - 1 \in DOMAIN closeConList' /\ closeConList'[i - 1] = closeConList[i]
  BY <1>1
<1>6. Notices(k)' = {}
  <2>1. ASSUME NEW i \in DOMAIN closeConList', closeConList'[i] = k PROVE FALSE
    BY <1>3, <1>5, <2>1 DEF Notices
  <2> QED
    BY <2>1 DEF Notices
<1>7. ASSUME NEW c \in Conns, c # k PROVE Notices(c)' # {} <=> Notices(c) # {}
  <2>1. ASSUME NEW i \in DOMAIN closeConList', closeConList'[i] = c PROVE Notices(c) # {}
    BY <1>5, <2>1 DEF Notices
  <2>2. ASSUME NEW i \in DOMAIN closeConList, closeConList[i] = c PROVE Notices(c)' # {}
    BY <1>2, <1>5, <1>7, <2>2 DEF Notices
  <2> QED
    BY <2>1, <2>2 DEF Notices
<1>8. Reported' = Reported \ {k} /\ k \in Reported
  BY <1>3, <1>6, <1>7 DEF Reported
<1>9. Pool!GiveBack(k)
  BY <1>4, <1>8 DEF Pool!GiveBack, Reported
<1> QED
  BY <1>3, <1>9 DEF Pool!Regular

\* What everybody but the logic thread's own closes does to the connections.
LEMMA StepIsRegular ==
    ASSUME IInv, Next \/ UNCHANGED vars, ~OwnCloses
    PROVE  (Pool!Regular /\ ownCloses' = ownCloses) \/ UNCHANGED Pool!vars
<1>1. CASE Accept \/ Connect
  <2>1. PICK t \in {"listener", "logic"} : CreateConnection(t)
    BY <1>1 DEF Accept, Connect
  <2>2. ownCloses' = ownCloses
    BY <2>1 DEF CreateConnection
  <2> QED
    BY <2>1, <2>2, CreateIsTake, Assumptions
<1>2. CASE ConnectEx
  BY <1>2, Hidden DEF ConnectEx, queues, history
<1>3. CASE \E t \in Threads : Work(t)
  <2>1. PICK t \in Threads : Work(t)
    BY <1>3
  <2>2. CASE CloseNotify(t)
    <3>1. ownCloses' = ownCloses
      BY <2>2 DEF CloseNotify, history
    <3> QED
      BY <2>2, <3>1, NotifyIsClose
  <2>3. CASE ~CloseNotify(t)
    <3>1. UNCHANGED <<owner, made, ownCloses>>
      BY <2>1, <2>3 DEF Work, Associate, SetConnectionOK, OnNewConnect, DoReceive, CloseSocket,
                        CloseReset, HandlerNull, kernel, history
    <3>2. UNCHANGED closeConList
      BY <2>1, <2>3 DEF Work, Associate, SetConnectionOK, OnNewConnect, DoReceive, CloseSocket,
                        CloseReset, HandlerNull, queues
    <3> QED
      BY <3>1, <3>2, Hidden
  <2> QED
    BY <2>2, <2>3
<1>4. CASE \E e \in EventThreads : Completion(e) \/ Extract(e)
  <2>1. PICK e \in EventThreads : Completion(e) \/ Extract(e)
    BY <1>4
  <2>2. CASE Completion(e)
    BY <2>2, Hidden DEF Completion, RecvBytes, RecvZero, Connected, ConnectFailed, Dequeue,
                        queues, history
  <2>3. CASE Extract(e)
    BY <2>3, Hidden DEF Extract, kernel
  <2> QED
    BY <2>1, <2>2, <2>3
<1>5. CASE Logic
  <2>1. CASE DrainClose /\ closeConList # <<>>
    <3>1. ownCloses' = ownCloses
      BY <2>1 DEF DrainClose
    <3> QED
      BY <2>1, <3>1, DrainIsGiveBack
  <2>2. CASE DrainClose /\ closeConList = <<>>
    BY <2>2, Hidden DEF DrainClose, kernel
  <2>3. CASE CheckEnds \/ DrainNew \/ DrainData \/ DispatchEnds
    BY <2>3, Hidden DEF CheckEnds, DrainNew, DrainData, DispatchEnds, kernel, queues, history
  <2> QED
    BY <1>5, <2>1, <2>2, <2>3 DEF Logic
<1>6. CASE UNCHANGED vars
  BY <1>6, Hidden DEF vars, kernel, queues, history
<1> QED
  BY <1>1, <1>2, <1>3, <1>4, <1>5, <1>6 DEF Next

\* The engine keeps ConnectionPool's promise: until the logic thread closes a
\* connection by itself, each is taken when it is free, reported closed once, and
\* only then given back.
THEOREM EngineIsPool == Spec => IsPool
<1>1. Init => Pool!Init
  BY DEF Init, Pool!Init, Notices
<1>2. EngineInv /\ EngineInv' /\ [Next]_vars => [Pool!Next]_(Pool!vars)
  <2> SUFFICES ASSUME EngineInv, EngineInv', [Next]_vars PROVE [Pool!Next]_(Pool!vars)
    OBVIOUS
  <2>1. ownCloses \in Nat /\ ownCloses' \in Nat
    BY Assumptions DEF EngineInv, AInv, Base, TypeOK
  <2>2. CASE ownCloses' > 0
    BY <2>2 DEF Pool!Next, Pool!Misuse
  <2>3. CASE ~(ownCloses' > 0)
    <3>1. ~OwnCloses
      BY <2>3, OwnCloseBase DEF OwnCloses, EngineInv, AInv
    <3>2. ownCloses = 0
      BY <2>1, <2>3, <3>1, OwnClosesGrow
    <3>3. IInv
      BY <3>2 DEF EngineInv, Untouched
    <3>4. (Pool!Regular /\ ownCloses' = ownCloses) \/ UNCHANGED Pool!vars
      BY <3>1, <3>3, StepIsRegular
    <3> QED
      BY <3>2, <3>4 DEF Pool!Next
  <2> QED
    BY <2>2, <2>3
<1> QED
  BY <1>1, <1>2, EngineInvariant, PTL DEF Spec, IsPool, Pool!Spec
-----------------------------------------------------------------------------
(* The packets of a session.                                                 *)

\* What was handed on of session s is numbered below n.
AllBefore(s, n) ==
    /\ \A i \in DOMAIN dispatched[s] : dispatched[s][i] < n
    /\ \A i \in DOMAIN dataQueue : dataQueue[i].session = s => dataQueue[i].no < n
    /\ \A p \in dropped : p.session = s => p.no < n

DispatchSorted ==
    \A s \in Sessions : \A i, j \in DOMAIN dispatched[s] : i < j => dispatched[s][i] < dispatched[s][j]
QueueSorted ==
    \A i, j \in DOMAIN dataQueue :
        i < j /\ dataQueue[i].session = dataQueue[j].session => dataQueue[i].no < dataQueue[j].no
QueueAfter ==
    \A i \in DOMAIN dataQueue : \A k \in DOMAIN dispatched[dataQueue[i].session] :
        dispatched[dataQueue[i].session][k] < dataQueue[i].no
DroppedApart == \A p \in dropped : ~IsQueued(p) /\ ~IsDispatched(p.session, p.no)
NoneAhead == \A s \in Sessions : AllBefore(s, received[s] + 1)

\* What t has still to hand over are packets of its session, in order, that come
\* after what was handed on.
BatchAhead(t) ==
    /\ \A i \in DOMAIN batch[t] :
          /\ batch[t][i].session = owner[conn[t]]
          /\ batch[t][i].no <= received[owner[conn[t]]]
          /\ AllBefore(owner[conn[t]], batch[t][i].no)
    /\ \A i, j \in DOMAIN batch[t] : i < j => batch[t][i].no < batch[t][j].no

OrderInv == /\ DispatchSorted /\ QueueSorted /\ QueueAfter /\ DroppedApart /\ NoneAhead
            /\ \A t \in Threads : pc[t] = "extract" => BatchAhead(t)

LEMMA QueuedPacket ==
    ASSUME Base, NEW i \in DOMAIN dataQueue
    PROVE  dataQueue[i].session \in Sessions /\ dataQueue[i].no \in Nat
<1>1. dataQueue[i] \in Packets
  BY DEF Base, TypeOK
<1> QED
  BY <1>1, Assumptions DEF Packets

LEMMA DispatchedNumber ==
    ASSUME Base, NEW s \in Sessions, NEW i \in DOMAIN dispatched[s]
    PROVE  dispatched[s][i] \in 1 .. MaxPackets /\ dispatched[s][i] \in Nat
<1>1. dispatched[s] \in Seq(1 .. MaxPackets)
  BY DEF Base, TypeOK
<1> QED
  BY <1>1, Assumptions

LEMMA DroppedPacket ==
    ASSUME Base, NEW p \in dropped
    PROVE  p.session \in Sessions /\ p.no \in Nat
<1>1. p \in Packets
  BY DEF Base, TypeOK
<1> QED
  BY <1>1, Assumptions DEF Packets

\* What comes before n comes before what is greater.
LEMMA BeforeLater ==
    ASSUME Base, NEW s \in Sessions, NEW n \in Nat, NEW m \in Nat, n <= m, AllBefore(s, n)
    PROVE  AllBefore(s, m)
<1>1. \A i \in DOMAIN dispatched[s] : dispatched[s][i] < m
  BY DispatchedNumber DEF AllBefore
<1>2. \A i \in DOMAIN dataQueue : dataQueue[i].session = s => dataQueue[i].no < m
  BY QueuedPacket DEF AllBefore
<1>3. \A p \in dropped : p.session = s => p.no < m
  BY DroppedPacket DEF AllBefore
<1> QED
  BY <1>1, <1>2, <1>3 DEF AllBefore

\* A thread that extracts, and its session.
LEMMA Extracting ==
    ASSUME IInv, NEW t \in Threads, pc[t] = "extract"
    PROVE  /\ conn[t] \in Conns /\ owner[conn[t]] \in Sessions
           /\ Holders(conn[t]) = {t} /\ Pending(conn[t]) = {} /\ Notices(conn[t]) = {}
  BY Serving DEF Idle, Closing

\* Two threads extract packets of two sessions.
LEMMA ExtractAlone ==
    ASSUME IInv, NEW t \in Threads, NEW u \in Threads, pc[t] = "extract", pc[u] = "extract",
           owner[conn[t]] = owner[conn[u]]
    PROVE  t = u
<1>1. conn[t] = conn[u]
  BY Extracting DEF IInv, SessionsDiffer, Sessions
<1> QED
  BY <1>1, Extracting

\* A step that moves no packet.
LEMMA OrderKept ==
    ASSUME OrderInv, UNCHANGED <<dataQueue, dispatched, dropped, received>>,
           \A t \in Threads : pc'[t] = "extract" =>
               pc[t] = "extract" /\ owner'[conn'[t]] = owner[conn[t]] /\ batch'[t] = batch[t]
    PROVE  OrderInv'
<1>1. \A s, n : AllBefore(s, n)' <=> AllBefore(s, n)
  BY DEF AllBefore
<1>2. DispatchSorted' /\ QueueSorted' /\ QueueAfter'
  BY DEF OrderInv, DispatchSorted, QueueSorted, QueueAfter
<1>3. DroppedApart'
  BY DEF OrderInv, DroppedApart, IsQueued, IsDispatched
<1>4. NoneAhead'
  BY DEF OrderInv, NoneAhead, AllBefore
<1>5. ASSUME NEW t \in Threads, pc'[t] = "extract" PROVE BatchAhead(t)'
  BY <1>5 DEF OrderInv, BatchAhead, AllBefore
<1> QED
  BY <1>2, <1>3, <1>4, <1>5 DEF OrderInv

LEMMA CreateOrder ==
    ASSUME IInv, OrderInv, NEW t \in Threads, CreateConnection(t)
    PROVE  OrderInv'
<1>0. Base
  BY DEF IInv
<1>1. UNCHANGED <<dataQueue, dispatched, dropped, received, batch>>
  BY DEF CreateConnection, queues
<1>2. pc'[t] # "extract" /\ \A u \in Threads : u # t => pc'[u] = pc[u] /\ conn'[u] = conn[u]
  <2>1. CASE Leave(t)
    BY <1>0, <2>1, LeaveType DEF Idle
  <2>2. CASE Goto(t, "associate") /\ conn' = [conn EXCEPT ![t] = freeRoot]
    BY <1>0, <2>2, GotoType DEF Steps, Base, TypeOK
  <2> QED
    BY <2>1, <2>2 DEF CreateConnection
<1>3. ASSUME NEW u \in Threads, pc'[u] = "extract" PROVE owner'[conn'[u]] = owner[conn[u]]
  <2>1. u # t /\ pc[u] = "extract" /\ conn'[u] = conn[u]
    BY <1>2, <1>3
  <2>2. conn[u] \in Conns /\ owner[conn[u]] # 0
    BY <2>1, Serving DEF Idle, Closing
  <2>3. owner' = owner \/ (freeRoot # NULL /\ owner' = [owner EXCEPT ![freeRoot] = made'])
    BY DEF CreateConnection
  <2>4. CASE owner' = owner
    BY <2>1, <2>4
  <2>5. CASE freeRoot # NULL /\ owner' = [owner EXCEPT ![freeRoot] = made']
    <3>1. owner[freeRoot] = 0 /\ freeRoot # conn[u]
      BY <2>2, <2>5, FirstIsFree
    <3> QED
      BY <1>0, <2>1, <2>2, <2>5, <3>1 DEF Base, TypeOK
  <2> QED
    BY <2>3, <2>4, <2>5
<1> QED
  BY <1>1, <1>2, <1>3, OrderKept

\* A thread extracts after its step if it did before, unless it received.
LEMMA WorkOrder ==
    ASSUME IInv, OrderInv, NEW t \in Threads, Work(t) \/ (t = "logic" /\ ConnectEx)
    PROVE  OrderInv'
<1>0. Base /\ ~HandlerNull(t)
  BY HandlerIsThere DEF IInv
<1>1. UNCHANGED <<dataQueue, dispatched, dropped, received, batch, owner>>
  BY DEF Work, Associate, SetConnectionOK, OnNewConnect, DoReceive, CloseNotify, CloseSocket,
         CloseReset, HandlerNull, ConnectEx, kernel, history, queues
<1>2. \/ Leave(t)
      \/ conn' = conn /\ \E step \in Steps \ {"extract"} : Goto(t, step)
  BY <1>0 DEF Work, Associate, SetConnectionOK, OnNewConnect, DoReceive, CloseNotify, CloseSocket,
              CloseReset, ConnectEx, Submit, Steps, hand
<1>3. pc'[t] # "extract" /\ \A u \in Threads : u # t => pc'[u] = pc[u] /\ conn'[u] = conn[u]
  BY <1>0, <1>2, LeaveType, GotoType DEF Idle
<1> QED
  BY <1>1, <1>3, OrderKept

\* New packets come after the old ones.
LEMMA CompletionOrder ==
    ASSUME IInv, OrderInv, NEW e \in EventThreads, Completion(e)
    PROVE  OrderInv'
<1>0. Base /\ Base' /\ e \in Threads
  BY CompletionBase, Assumptions DEF IInv
<1>1. PICK op \in io : RecvBytes(e, op) \/ RecvZero(e, op) \/ Connected(e, op) \/ ConnectFailed(e, op)
  BY DEF Completion
<1>2. /\ conn' = [conn EXCEPT ![e] = op.conn]
      /\ UNCHANGED <<dataQueue, dispatched, dropped, owner>>
  BY <1>1 DEF RecvBytes, RecvZero, Connected, ConnectFailed, Dequeue, queues, history
<1>3. /\ op.conn \in Conns /\ op.session \in Sessions /\ owner[op.conn] = op.session
      /\ Holders(op.conn) = {}
  BY InFlight
<1>4. CASE ~RecvBytes(e, op)
  <2>1. UNCHANGED <<batch, received>> /\ \E step \in Steps \ {"extract"} : Goto(e, step)
    BY <1>1, <1>4 DEF RecvZero, Connected, ConnectFailed, Steps
  <2>2. pc'[e] # "extract" /\ \A u \in Threads : u # e => pc'[u] = pc[u] /\ conn'[u] = conn[u]
    BY <1>0, <1>2, <2>1, GotoType DEF Base, TypeOK
  <2> QED
    BY <1>2, <2>1, <2>2, OrderKept
<1>5. CASE RecvBytes(e, op)
  <2> SUFFICES ASSUME NEW s, s = op.session PROVE OrderInv'
    OBVIOUS
  <2>1. PICK n \in 0 .. MaxPackets - received[s] :
            /\ batch' = [batch EXCEPT ![e] = Arrived(s, received[s], n)]
            /\ received' = [received EXCEPT ![s] = @ + n]
    BY <1>5 DEF RecvBytes, Arrived
  <2> SUFFICES ASSUME NEW new, new = Arrived(s, received[s], n),
                      NEW old, old = received[s]
               PROVE  OrderInv'
    OBVIOUS
  <2>2. s \in Sessions /\ old \in 0 .. MaxPackets /\ old \in Nat /\ n \in Nat
        /\ DOMAIN new = 1 .. n
        /\ \A i \in 1 .. n : new[i].session = s /\ new[i].no = old + i
    BY <1>0, <2>1, OperationType, ArrivedType
  <2>3. /\ batch'[e] = new /\ conn'[e] = op.conn /\ received'[s] = old + n
        /\ \A u \in Threads : u # e => batch'[u] = batch[u] /\ conn'[u] = conn[u]
    <3>1. /\ batch \in [Threads -> Seq(Packets)] /\ conn \in [Threads -> Conns \cup {NULL}]
          /\ received \in [Sessions -> 0 .. MaxPackets]
      BY <1>0 DEF Base, TypeOK
    <3> QED
      BY <1>0, <1>2, <2>1, <2>2, <3>1
  <2>4. \A r \in Sessions : /\ r # s => received'[r] = received[r]
                            /\ received[r] \in Nat /\ received'[r] \in Nat /\ received[r] <= received'[r]
    <3>1. received \in [Sessions -> 0 .. MaxPackets]
      BY <1>0 DEF Base, TypeOK
    <3>2. \A r \in Sessions : received'[r] = IF r = s THEN received[r] + n ELSE received[r]
      BY <2>1, <2>2, <3>1
    <3>3. \A r \in Sessions : received[r] \in Nat
      BY <3>1, Assumptions
    <3> QED
      BY <2>2, <3>2, <3>3
  <2>5. pc'[e] = "extract" /\ \A u \in Threads : u # e => pc'[u] = pc[u]
    BY <1>5, <1>0, GotoType DEF RecvBytes, Steps
  <2>6. DispatchSorted' /\ QueueSorted' /\ QueueAfter' /\ DroppedApart'
    BY <1>2 DEF OrderInv, DispatchSorted, QueueSorted, QueueAfter, DroppedApart, IsQueued, IsDispatched
  <2>7. NoneAhead'
    <3>1. ASSUME NEW r \in Sessions, NEW m, m = received'[r] + 1 PROVE AllBefore(r, m)
      <4>1. AllBefore(r, received[r] + 1)
        BY DEF OrderInv, NoneAhead
      <4> QED
        BY <1>0, <2>4, <3>1, <4>1, BeforeLater
    <3> QED
      BY <1>2, <3>1 DEF NoneAhead, AllBefore
  <2>8. BatchAhead(e)'
    <3>1. owner'[conn'[e]] = s
      BY <1>2, <1>3, <2>3
    <3>2. ASSUME NEW i \in 1 .. n, NEW m, m = new[i].no PROVE AllBefore(s, m)
      <4>1. AllBefore(s, old + 1)
        BY <2>2 DEF OrderInv, NoneAhead
      <4>2. m = old + i /\ i \in Nat /\ 1 <= i
        BY <2>2, <3>2
      <4> QED
        BY <1>0, <2>2, <4>1, <4>2, BeforeLater
    <3>3. \A i \in 1 .. n : new[i].session = s /\ new[i].no <= received'[s]
      BY <2>2, <2>3
    <3>4. \A i, j \in 1 .. n : i < j => new[i].no < new[j].no
      BY <2>2
    <3> HIDE <2>1
    <3> QED
      BY <1>2, <2>2, <2>3, <3>1, <3>2, <3>3, <3>4 DEF BatchAhead, AllBefore
  <2>9. ASSUME NEW u \in Threads, pc'[u] = "extract", u # e PROVE BatchAhead(u)'
    <3>1. pc[u] = "extract" /\ conn'[u] = conn[u] /\ batch'[u] = batch[u]
      BY <2>3, <2>5, <2>9
    <3>2. owner[conn[u]] \in Sessions /\ owner[conn[u]] # s
      <4>1. conn[u] # op.conn /\ conn[u] \in Conns /\ owner[conn[u]] \in Sessions
        BY <1>3, <3>1, Extracting
      <4> QED
        BY <1>3, <4>1 DEF IInv, SessionsDiffer, Sessions
    <3>3. received'[owner[conn[u]]] = received[owner[conn[u]]]
      BY <2>4, <3>2
    <3>4. BatchAhead(u)
      BY <3>1 DEF OrderInv
    <3> QED
      BY <1>2, <3>1, <3>3, <3>4 DEF BatchAhead, AllBefore
  <2> QED
    BY <2>5, <2>6, <2>7, <2>8, <2>9 DEF OrderInv
<1> QED
  BY <1>1, <1>4, <1>5

\* The packet handed over comes after all that was handed on, and before the
\* rest.
LEMMA ExtractOrder ==
    ASSUME IInv, OrderInv, NEW e \in EventThreads, Extract(e)
    PROVE  OrderInv'
<1>0. /\ Base /\ Base' /\ e \in Threads /\ pc[e] = "extract" /\ batch[e] \in Seq(Packets)
      /\ dataQueue \in Seq(Packets) /\ UNCHANGED <<conn, received, owner, dispatched>>
  <2>1. Base /\ Base'
    BY ExtractBase DEF IInv
  <2>2. dataQueue \in Seq(Packets)
    BY <2>1 DEF Base, TypeOK
  <2> QED
    BY <2>1, <2>2, ExtractIs DEF kernel, hand
<1>1. CASE batch[e] = <<>> /\ Goto(e, "receive") /\ UNCHANGED <<batch, dataQueue, dropped>>
  <2>1. pc'[e] # "extract" /\ \A u \in Threads : u # e => pc'[u] = pc[u]
    BY <1>0, <1>1, GotoType DEF Steps
  <2> QED
    BY <1>0, <1>1, <2>1, OrderKept
<1>2. CASE batch[e] # <<>>
  <2> SUFFICES ASSUME NEW s, s = owner[conn[e]],
                      NEW first, first = Head(batch[e]), NEW n, n = first.no,
                      NEW rest, rest = Tail(batch[e])
               PROVE  OrderInv'
    OBVIOUS
  <2>1. /\ first \in Packets /\ batch' = [batch EXCEPT ![e] = rest] /\ pc' = pc
        /\ dataQueue' = PushTo(dataQueue, first, DataCapacity)
        /\ dropped' = IF Len(dataQueue) < DataCapacity THEN dropped ELSE dropped \cup {first}
    BY <1>0, <1>2, ExtractIs
  <2>2. batch'[e] = rest /\ \A u \in Threads : u # e => batch'[u] = batch[u]
    BY <1>0, <2>1 DEF Base, TypeOK
  <2>3. /\ 1 \in DOMAIN batch[e] /\ batch[e][1] = first
        /\ \A i \in DOMAIN rest :
              i \in Nat /\ i + 1 \in DOMAIN batch[e] /\ 1 < i + 1 /\ rest[i] = batch[e][i + 1]
    BY <1>0, <1>2, TailShifts
  <2>4. BatchAhead(e) /\ s \in Sessions
    BY <1>0, Extracting DEF OrderInv
  <2>5. first.session = s /\ n <= received[s] /\ n \in Nat /\ received[s] \in Nat /\ AllBefore(s, n)
    <3>1. n \in Nat
      BY <2>1, Assumptions DEF Packets
    <3>2. received[s] \in Nat
      <4>1. received \in [Sessions -> 0 .. MaxPackets]
        BY <1>0 DEF Base, TypeOK
      <4> QED
        BY <2>4, <4>1, Assumptions
    <3> QED
      BY <2>3, <2>4, <3>1, <3>2 DEF BatchAhead
  <2>6. n < received[s] + 1 /\ ~(n < n)
    BY <2>5
  <2>7. \A p \in Packets : p.session = s /\ p.no = n => p = first
    BY <2>1, <2>5 DEF Packets
  \* What is before a number greater than n still is.
  <2>8. ASSUME NEW r, NEW m, AllBefore(r, m), r # s \/ n < m PROVE AllBefore(r, m)'
    <3>1. CASE Len(dataQueue) < DataCapacity
      <4> SUFFICES ASSUME NEW k, k = Len(dataQueue) + 1 PROVE AllBefore(r, m)'
        OBVIOUS
      <4>1. dataQueue' = Append(dataQueue, first) /\ dropped' = dropped
        BY <2>1, <3>1 DEF PushTo
      <4>2. /\ DOMAIN dataQueue' = DOMAIN dataQueue \cup {k} /\ dataQueue'[k] = first
            /\ \A i \in DOMAIN dataQueue : dataQueue'[i] = dataQueue[i]
        BY <1>0, <4>1, AppendGrows
      <4> QED
        BY <1>0, <2>5, <2>8, <4>1, <4>2 DEF AllBefore
    <3>2. CASE ~(Len(dataQueue) < DataCapacity)
      <4>1. dataQueue' = dataQueue /\ dropped' = dropped \cup {first}
        BY <2>1, <3>2 DEF PushTo
      <4> QED
        BY <1>0, <2>5, <2>8, <4>1 DEF AllBefore
    <3> QED
      BY <3>1, <3>2
  <2>9. DispatchSorted'
    BY <1>0 DEF OrderInv, DispatchSorted
  <2>10. QueueSorted' /\ QueueAfter' /\ DroppedApart'
    <3>1. CASE Len(dataQueue) < DataCapacity
      <4> SUFFICES ASSUME NEW k, k = Len(dataQueue) + 1
                   PROVE  QueueSorted' /\ QueueAfter' /\ DroppedApart'
        OBVIOUS
      <4>1. dataQueue' = Append(dataQueue, first) /\ dropped' = dropped
        BY <2>1, <3>1 DEF PushTo
      <4>2. /\ DOMAIN dataQueue' = DOMAIN dataQueue \cup {k} /\ dataQueue'[k] = first
            /\ \A i \in DOMAIN dataQueue : i < k /\ ~(k < i) /\ dataQueue'[i] = dataQueue[i]
            /\ ~(k < k)
        BY <1>0, <4>1, AppendGrows
      <4>3. \A i \in DOMAIN dataQueue : dataQueue[i].session = s => dataQueue[i].no < n
        BY <2>5 DEF AllBefore
      <4>4. QueueSorted'
        BY <2>5, <4>2, <4>3 DEF OrderInv, QueueSorted
      <4>5. QueueAfter'
        <5>1. \A i \in DOMAIN dispatched[s] : dispatched[s][i] < n
          BY <2>5 DEF AllBefore
        <5> QED
          BY <1>0, <2>5, <4>2, <5>1 DEF OrderInv, QueueAfter
      <4>6. DroppedApart'
        <5>1. first \notin dropped
          BY <2>5, <2>6 DEF AllBefore
        <5>2. ASSUME NEW p \in dropped PROVE ~IsQueued(p)'
          <6>1. p # first /\ \A i \in DOMAIN dataQueue : dataQueue[i] # p
            BY <5>1, <5>2 DEF OrderInv, DroppedApart, IsQueued
          <6> QED
            BY <4>2, <6>1 DEF IsQueued
        <5>3. ASSUME NEW p \in dropped PROVE ~IsDispatched(p.session, p.no)'
          BY <1>0, <5>3 DEF OrderInv, DroppedApart, IsDispatched
        <5> QED
          BY <4>1, <5>2, <5>3 DEF DroppedApart
      <4> QED
        BY <4>4, <4>5, <4>6
    <3>2. CASE ~(Len(dataQueue) < DataCapacity)
      <4>1. dataQueue' = dataQueue /\ dropped' = dropped \cup {first}
        BY <2>1, <3>2 DEF PushTo
      <4>2. ~IsQueued(first) /\ ~IsDispatched(first.session, first.no)
        BY <2>5, <2>6 DEF AllBefore, IsQueued, IsDispatched
      <4>3. DroppedApart'
        BY <1>0, <4>1, <4>2 DEF OrderInv, DroppedApart, IsQueued, IsDispatched
      <4> QED
        BY <1>0, <4>1, <4>3 DEF OrderInv, QueueSorted, QueueAfter
    <3> QED
      BY <3>1, <3>2
  <2>11. NoneAhead'
    <3>1. ASSUME NEW r \in Sessions, NEW m, m = received[r] + 1 PROVE AllBefore(r, m)'
      <4>1. AllBefore(r, m) /\ (r # s \/ n < m)
        BY <2>6, <3>1 DEF OrderInv, NoneAhead
      <4> QED
        BY <2>8, <4>1
    <3>2. ASSUME NEW r \in Sessions PROVE AllBefore(r, received[r] + 1)'
      BY <1>0, <3>1 DEF AllBefore
    <3> QED
      BY <3>2 DEF NoneAhead
  <2>12. BatchAhead(e)'
    <3>1. ASSUME NEW i \in DOMAIN rest, NEW m, m = rest[i].no
          PROVE  rest[i].session = s /\ m <= received[s] /\ AllBefore(s, m)'
      <4>1. i + 1 \in DOMAIN batch[e] /\ rest[i] = batch[e][i + 1] /\ 1 < i + 1
        BY <2>3
      <4>2. rest[i].session = s /\ m <= received[s] /\ AllBefore(s, m) /\ n < m
        BY <2>3, <2>4, <3>1, <4>1 DEF BatchAhead
      <4> QED
        BY <2>8, <4>2
    <3>2. ASSUME NEW i \in DOMAIN rest, NEW j \in DOMAIN rest, i < j PROVE rest[i].no < rest[j].no
      <4>1. /\ i + 1 \in DOMAIN batch[e] /\ j + 1 \in DOMAIN batch[e] /\ i + 1 < j + 1
            /\ rest[i] = batch[e][i + 1] /\ rest[j] = batch[e][j + 1]
        BY <2>3, <3>2
      <4> QED
        BY <2>4, <4>1 DEF BatchAhead
    <3>3. ASSUME NEW i \in DOMAIN rest PROVE AllBefore(s, rest[i].no)'
      BY <2>2, <3>1 DEF AllBefore
    <3>4. owner'[conn'[e]] = s
      BY <1>0
    <3> QED
      BY <1>0, <2>2, <3>1, <3>2, <3>3, <3>4 DEF BatchAhead, AllBefore
  <2>13. ASSUME NEW u \in Threads, pc'[u] = "extract", u # e PROVE BatchAhead(u)'
    <3> SUFFICES ASSUME NEW r, r = owner[conn[u]] PROVE BatchAhead(u)'
      OBVIOUS
    <3>1. pc[u] = "extract" /\ batch'[u] = batch[u] /\ BatchAhead(u)
      BY <2>1, <2>2, <2>13 DEF OrderInv
    <3>2. r # s
      BY <1>0, <2>13, <3>1, ExtractAlone
    <3>3. ASSUME NEW i \in DOMAIN batch[u], NEW m, m = batch[u][i].no PROVE AllBefore(r, m)'
      <4>1. AllBefore(r, m)
        BY <3>1, <3>3 DEF BatchAhead
      <4> QED
        BY <2>8, <3>2, <4>1
    <3> QED
      BY <1>0, <3>1, <3>3 DEF BatchAhead, AllBefore
  <2> QED
    BY <2>9, <2>10, <2>11, <2>12, <2>13 DEF OrderInv
<1> QED
  BY <1>0, <1>1, <1>2, ExtractIs

\* The packet dispatched is the first of its session in the queue.
LEMMA DispatchOrder ==
    ASSUME IInv, OrderInv, DrainData, dataQueue # <<>>
    PROVE  OrderInv'
<1> SUFFICES ASSUME NEW first, first = Head(dataQueue), NEW r, r = first.session,
                    NEW no, no = first.no,
                    NEW k, k = Len(dispatched[r]) + 1
             PROVE  OrderInv'
  OBVIOUS
<1>0. Base /\ "logic" \in Threads /\ dataQueue \in Seq(Packets)
  BY Assumptions DEF IInv, Base, TypeOK
<1>1. /\ r \in Sessions /\ no \in Nat /\ dataQueue' = Tail(dataQueue) /\ first \in Packets
      /\ 1 \in DOMAIN dataQueue /\ dataQueue[1] = first
      /\ dispatched' = [dispatched EXCEPT ![r] = Append(@, no)]
      /\ dispatched[r] \in Seq(1 .. MaxPackets)
  BY <1>0, DrainDataIs, Assumptions
<1>2. /\ DOMAIN dispatched'[r] = DOMAIN dispatched[r] \cup {k} /\ k \notin DOMAIN dispatched[r]
      /\ \A i \in DOMAIN dispatched[r] : i < k /\ ~(k < i) /\ dispatched'[r][i] = dispatched[r][i]
      /\ dispatched'[r][k] = no /\ ~(k < k)
      /\ \A s \in Sessions : s # r => dispatched'[s] = dispatched[s]
  <2>1. /\ dispatched'[r] = Append(dispatched[r], no)
        /\ \A s \in Sessions : s # r => dispatched'[s] = dispatched[s]
    BY <1>0, <1>1 DEF Base, TypeOK
  <2> QED
    BY <1>1, <2>1, AppendGrows
<1>3. \A i \in DOMAIN dataQueue' :
          i \in Nat /\ i + 1 \in DOMAIN dataQueue /\ 1 < i + 1 /\ dataQueue'[i] = dataQueue[i + 1]
  BY <1>0, <1>1, TailShifts
<1>4. UNCHANGED <<conn, batch, received, owner, dropped>>
  BY DEF DrainData, kernel, hand
<1>5. Goto("logic", "dispatch")
  BY DEF DrainData
\* What is before a number is so still: the packet only changes its place.
<1>6. ASSUME NEW s \in Sessions, NEW m, AllBefore(s, m) PROVE AllBefore(s, m)'
  <2>1. \A i \in DOMAIN dispatched'[s] : dispatched'[s][i] < m
    BY <1>1, <1>2, <1>6 DEF AllBefore
  <2>2. \A i \in DOMAIN dataQueue' : dataQueue'[i].session = s => dataQueue'[i].no < m
    BY <1>3, <1>6 DEF AllBefore
  <2> QED
    BY <1>4, <1>6, <2>1, <2>2 DEF AllBefore
<1>7. \A i \in DOMAIN dispatched[r] : dispatched[r][i] < no
  BY <1>1 DEF OrderInv, QueueAfter
<1>8. DispatchSorted'
  BY <1>2, <1>7 DEF OrderInv, DispatchSorted
<1>9. QueueSorted'
  BY <1>3 DEF OrderInv, QueueSorted
<1>10. QueueAfter'
  <2>1. ASSUME NEW i \in DOMAIN dataQueue', NEW j \in DOMAIN dispatched'[dataQueue'[i].session]
        PROVE  dispatched'[dataQueue'[i].session][j] < dataQueue'[i].no
    <3> SUFFICES ASSUME NEW p, p = dataQueue'[i]
                 PROVE  dispatched'[p.session][j] < p.no
      OBVIOUS
    <3>1. i + 1 \in DOMAIN dataQueue /\ p = dataQueue[i + 1] /\ 1 < i + 1
      BY <1>3
    <3>2. p.session \in Sessions /\ \A l \in DOMAIN dispatched[p.session] : dispatched[p.session][l] < p.no
      BY <1>0, <3>1, QueuedPacket DEF OrderInv, QueueAfter
    <3>3. p.session = r => no < p.no
      BY <1>1, <3>1 DEF OrderInv, QueueSorted
    <3> QED
      BY <1>2, <2>1, <3>2, <3>3
  <2> QED
    BY <2>1 DEF QueueAfter
<1>11. DroppedApart'
  <2>1. ASSUME NEW p \in dropped, IsQueued(p)' PROVE FALSE
    <3>1. PICK i \in DOMAIN dataQueue' : dataQueue'[i] = p
      BY <2>1 DEF IsQueued
    <3>2. IsQueued(p)
      BY <1>3, <3>1 DEF IsQueued
    <3> QED
      BY <3>2 DEF OrderInv, DroppedApart
  <2>2. ASSUME NEW p \in dropped, IsDispatched(p.session, p.no)' PROVE FALSE
    <3>1. PICK i \in DOMAIN dispatched'[p.session] : dispatched'[p.session][i] = p.no
      BY <2>2 DEF IsDispatched
    <3>2. p \in Packets
      BY <1>0 DEF Base, TypeOK
    <3>3. ~IsQueued(p) /\ ~IsDispatched(p.session, p.no)
      BY DEF OrderInv, DroppedApart
    <3>4. p # first
      BY <1>1, <3>3 DEF IsQueued
    <3>5. ~(p.session = r /\ p.no = no)
      <4>1. ASSUME NEW q \in Packets, NEW o \in Packets, q.session = o.session, q.no = o.no
            PROVE  q = o
        BY <4>1 DEF Packets
      <4> QED
        BY <1>1, <3>2, <3>4, <4>1
    <3>6. p.session \in Sessions
      BY <3>2 DEF Packets
    <3> QED
      BY <1>2, <3>1, <3>3, <3>5, <3>6 DEF IsDispatched
  <2> QED
    BY <1>4, <2>1, <2>2 DEF DroppedApart
<1>12. NoneAhead'
  <2>1. ASSUME NEW s \in Sessions, NEW m, m = received[s] + 1 PROVE AllBefore(s, m)'
    BY <1>6, <2>1 DEF OrderInv, NoneAhead
  <2> QED
    BY <1>4, <2>1 DEF NoneAhead, AllBefore
<1>13. ASSUME NEW t \in Threads, pc'[t] = "extract" PROVE BatchAhead(t)'
  <2> SUFFICES ASSUME NEW s, s = owner[conn[t]] PROVE BatchAhead(t)'
    OBVIOUS
  <2>1. pc[t] = "extract"
    BY <1>0, <1>5, <1>13, GotoType DEF Steps
  <2>2. BatchAhead(t) /\ s \in Sessions
    BY <2>1, Extracting DEF OrderInv
  <2>3. ASSUME NEW i \in DOMAIN batch[t], NEW m, m = batch[t][i].no PROVE AllBefore(s, m)'
    BY <1>6, <2>2, <2>3 DEF BatchAhead
  <2> QED
    BY <1>4, <2>2, <2>3 DEF BatchAhead, AllBefore
<1> QED
  BY <1>8, <1>9, <1>10, <1>11, <1>12, <1>13 DEF OrderInv

LEMMA LogicOrder ==
    ASSUME IInv, OrderInv, \/ CheckEnds \/ DrainNew \/ DispatchEnds \/ DrainClose
                           \/ DrainData /\ dataQueue = <<>>
    PROVE  OrderInv'
<1>0. Base /\ "logic" \in Threads
  BY Assumptions DEF IInv
<1>1. UNCHANGED <<dataQueue, dispatched, dropped, received, batch, conn>>
  BY DEF CheckEnds, DrainNew, DrainData, DispatchEnds, DrainClose, queues, kernel, history, hand
<1>2. \/ pc' = pc \/ \E step \in Steps \ {"extract"} : Goto("logic", step)
  BY DEF CheckEnds, DrainNew, DrainData, DispatchEnds, DrainClose, Steps
<1>3. \A u \in Threads : pc'[u] = "extract" => pc[u] = "extract"
  <2>1. CASE pc' = pc
    BY <2>1
  <2>2. CASE \E step \in Steps \ {"extract"} : Goto("logic", step)
    <3>1. pc'["logic"] # "extract" /\ \A u \in Threads : u # "logic" => pc'[u] = pc[u]
      BY <1>0, <2>2, GotoType
    <3> QED
      BY <3>1
  <2> QED
    BY <1>2, <2>1, <2>2
<1>4. ASSUME NEW u \in Threads, pc[u] = "extract" PROVE owner'[conn[u]] = owner[conn[u]]
  <2>1. CASE owner' = owner
    BY <2>1
  <2>2. CASE DrainClose /\ closeConList # <<>>
    <3>1. owner' = [owner EXCEPT ![Head(closeConList)] = 0]
      BY <2>2 DEF DrainClose, DeleteConnection
    <3>2. 1 \in DOMAIN closeConList /\ closeConList[1] = Head(closeConList)
      <4>1. closeConList \in Seq(Conns)
        BY <1>0 DEF Base, TypeOK
      <4> QED
        BY <2>2, <4>1
    <3>3. Holders(closeConList[1]) = {}
      BY <3>2, Noticed
    <3>4. conn[u] # Head(closeConList) /\ conn[u] \in Conns
      BY <1>4, <3>2, <3>3, Extracting
    <3> QED
      BY <1>0, <3>1, <3>4 DEF Base, TypeOK
  <2>3. \/ owner' = owner
        \/ DrainClose /\ closeConList # <<>>
    BY DEF CheckEnds, DrainNew, DrainData, DispatchEnds, DrainClose, history
  <2> QED
    BY <2>1, <2>2, <2>3
<1> QED
  BY <1>1, <1>3, <1>4, OrderKept

LEMMA NextOrder ==
    ASSUME IInv, OrderInv, [Next]_vars, ~OwnCloses
    PROVE  OrderInv'
<1>1. CASE Accept \/ Connect
  BY <1>1, CreateOrder, Assumptions DEF Accept, Connect
<1>2. CASE ConnectEx \/ \E t \in Threads : Work(t)
  BY <1>2, WorkOrder, Assumptions
<1>3. CASE \E e \in EventThreads : Completion(e) \/ Extract(e)
  BY <1>3, CompletionOrder, ExtractOrder
<1>4. CASE Logic
  BY <1>4, LogicOrder, DispatchOrder DEF Logic
<1>5. CASE UNCHANGED vars
  <2>1. UNCHANGED <<dataQueue, dispatched, dropped, received, pc, conn, batch, owner>>
    BY <1>5 DEF vars, queues, hand, kernel, history
  <2> QED
    BY <2>1, OrderKept
<1> QED
  BY <1>1, <1>2, <1>3, <1>4, <1>5 DEF Next

InOrder == ownCloses = 0 => OrderInv

LEMMA InOrderNext == EngineInv /\ InOrder /\ [Next]_vars => InOrder'
<1> SUFFICES ASSUME EngineInv, InOrder, [Next]_vars, ownCloses' = 0 PROVE OrderInv'
  BY DEF InOrder
<1>1. ~OwnCloses
  <2> SUFFICES ASSUME OwnCloses PROVE FALSE
    OBVIOUS
  <2>1. ownCloses' > 0
    BY OwnCloseBase DEF OwnCloses, EngineInv, AInv
  <2> QED
    BY <2>1
<1>2. IInv /\ OrderInv
  BY <1>1, OwnClosesGrow DEF EngineInv, Untouched, InOrder
<1> QED
  BY <1>1, <1>2, NextOrder

\* No packet is lost but on a full queue, whatever the logic thread closes; and
\* as long as it has closed nothing by itself, the packets of a session are
\* dispatched in the order they were received, each at most once.
THEOREM EngineKeepsOrder == Spec => []PacketsInOrder
<1>1. Init => InOrder
  <2> SUFFICES ASSUME Init PROVE OrderInv
    BY DEF InOrder
  <2>1. /\ dataQueue = <<>> /\ dropped = {} /\ \A t \in Threads : pc[t] # "extract"
        /\ \A s \in Sessions : dispatched[s] = <<>> /\ received[s] = 0
    BY DEF Init
  <2>2. DispatchSorted /\ QueueSorted /\ QueueAfter /\ DroppedApart
    BY <2>1 DEF DispatchSorted, QueueSorted, QueueAfter, DroppedApart
  <2>3. NoneAhead
    BY <2>1 DEF NoneAhead, AllBefore
  <2> QED
    BY <2>1, <2>2, <2>3 DEF OrderInv
<1>2. ASSUME EngineInv, InOrder PROVE PacketsInOrder
  <2>0. Base
    BY <1>2 DEF EngineInv, AInv
  <2>1. ASSUME NEW s \in Sessions, NEW n \in 1 .. received[s]
        PROVE  LET packet == [session |-> s, no |-> n] IN
               \/ \E i \in DOMAIN dispatched[s] : dispatched[s][i] = n
               \/ packet \in dropped
               \/ \E i \in DOMAIN dataQueue : dataQueue[i] = packet
               \/ \E e \in EventThreads : \E i \in DOMAIN batch[e] : batch[e][i] = packet
    BY <1>2 DEF EngineInv, AInv, Accounted, Somewhere, IsDispatched, IsQueued, IsInBatch
  <2>2. ASSUME NEW s \in Sessions, ownCloses = 0, NEW i \in DOMAIN dispatched[s]
        PROVE  /\ dispatched[s][i] \in 1 .. received[s]
               /\ [session |-> s, no |-> dispatched[s][i]] \notin dropped
               /\ \A j \in DOMAIN dispatched[s] : i < j => dispatched[s][i] < dispatched[s][j]
    <3>1. OrderInv
      BY <1>2, <2>2 DEF InOrder
    <3>2. dispatched[s][i] \in 1 .. MaxPackets /\ dispatched[s][i] \in Nat /\ received[s] \in Nat
      <4>1. received \in [Sessions -> 0 .. MaxPackets]
        BY <2>0 DEF Base, TypeOK
      <4>2. received[s] \in Nat
        BY <4>1, Assumptions
      <4>3. dispatched[s][i] \in 1 .. MaxPackets
        BY <2>0, <2>2, DispatchedNumber
      <4> QED
        BY <4>2, <4>3, Assumptions
    <3>3. dispatched[s][i] < received[s] + 1
      BY <3>1 DEF OrderInv, NoneAhead, AllBefore
    <3>4. dispatched[s][i] \in 1 .. received[s]
      BY <3>2, <3>3, Assumptions
    <3>5. ASSUME NEW p, p = [session |-> s, no |-> dispatched[s][i]], p \in dropped PROVE FALSE
      <4>1. ~IsDispatched(p.session, p.no)
        BY <3>1, <3>5 DEF OrderInv, DroppedApart
      <4>2. p.session = s /\ p.no = dispatched[s][i]
        BY <3>5
      <4> QED
        BY <4>1, <4>2 DEF IsDispatched
    <3>6. \A j \in DOMAIN dispatched[s] : i < j => dispatched[s][i] < dispatched[s][j]
      BY <3>1 DEF OrderInv, DispatchSorted
    <3> QED
      BY <3>4, <3>5, <3>6
  <2> QED
    BY <2>1, <2>2 DEF PacketsInOrder
<1>3. EngineInv /\ InOrder /\ [Next]_vars => InOrder'
  BY InOrderNext
<1> QED
  BY <1>1, <1>2, <1>3, EngineInvariant, PTL DEF Spec
=============================================================================
