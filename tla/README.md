# GameProject2: specifications

TLA+ models of the servers of GameProject2 (`src/project`), checked by TLC and
for the most part proved with TLAPS: the lock-free queue, the connections, the
framing of packets, the send path with its buffers, the scenes of the game
server and the containers they use. The models follow the Windows build
(`WIN32`, I/O completion ports), the one the repository ships binaries of.
Assertions (`ASSERT`, `ASSERT_FAIELD`) only break into a debugger: in the models
the code goes on after them, as a release build does.

`PROJECT.json` lists the components, the runs, the source lines behind every
definition (`map`), the mistakes each property is known to catch (`mutants`),
the hazards of the code and the disagreements found (`findings`).

## 1. The system

A game consists of several server processes: LoginServer, ProxyServer,
WorldServer, GameServer, DBServer and StatisticsServer. Each links the same
engine (`Server/ServerEngine`, `Common`); between themselves and to the clients
they speak packets with a 28-byte header over TCP.

In every process three kinds of threads meet:

    listener thread --accept--> connection pool <--recycle-- logic thread
          |                                                      ^
          +---- m_NewConList ----------------------------------->|
    event threads ---- m_DataQueue, m_CloseConList ------------->|
      (completions of receives, sends, connects)

The logic thread runs `ServiceBase::Update` for ever: idle check, new
connections, packets, closed connections (which it recycles), timers. Everything
above the engine (command handlers, scenes, players) runs in that thread, except
DBServer's work thread. Nothing is persisted outside the database.

### Components

| Component | State | Operations | Hard part | Correct when | Status |
|---|---|---|---|---|---|
| Lock-free queue (`LockFreeQueue*.h`) | array, write/read/maximum-read index (UINT32) | push, pop, size | CAS interleavings, roll-over, copy before win | a bounded FIFO queue; nothing lost, doubled, overtaken; calls end | modelled, proved |
| Connections (`Connection`, `NetManager`, `ServiceBase`) | free list, socket, connected, handler; three queues; I/O in flight | accept, connect, receive, close, idle close, close by a failing send, Update, recycle | listener, event and logic threads on one connection; Close against reuse | free list sound; one custodian; closed once, recycled once; packets in order, none lost | modelled but for shutdown and epoll, proved |
| Packet framing (`ExtractBuffer`) | receive buffer, packet under construction | receive, extract | fragmentation, large packets | bytes conserved, packets cut where the peer cut them | modelled (completion port build), proved |
| Send path (`SendBuffer`, `DoSend`) | one overlapped per connection, sends in flight | compose, post, completion | overlapping sends | every buffer has one owner and is released once | modelled but for relays and epoll, proved |
| Data buffers (`DataBuffer.h`) | lists of used and free buffers, reference counts | alloc, release | release from several threads, double release | every buffer on exactly one list | one size class modelled, proved |
| AVL tree (`AVLTree.h`) | tree, pool of nodes, count | insert, delete, find | long sequences, exhaustion | a map; nodes accounted for; balanced | what the managers call is modelled |
| Scenes (`Scene`, `GridManager`, `Grid`, `WorldObject`, `PlayerObject`) | players, cells with linked lists, update list, statuses | enter, move, leave, tick | several players and changes between two ticks, edges of the map, what a new object's memory holds | lists consistent, objects freed once, no change lost, a tick tells those who see | modelled, proved |
| Scene manager, object pools, timers, blocking queue, world, proxy, login and database servers | - | - | - | - | not modelled: section 6 |
| Statistics server, client connector, path finder, wrappers, log, configuration, Lua, vendored code | - | - | - | - | not modelled: see `components` |

Interaction: event threads call `OnDataHandle`, `OnNewConnect` and
`OnCloseConnect` (callbacks of `IDataHandler`), which push on lock-free queues;
the logic thread pops them and calls the dispatcher of the process. Handlers
answer through `SendCmdToConnection`, which finds a connection by its number.

## 2. Modules

| Module | Models |
|---|---|
| `FifoQueue` | what the queue promises: a bounded FIFO queue whose calls take effect at one moment |
| `LockFreeQueue` | `push` and `pop`, one action per access to shared memory |
| `LockFreeQueueObserver` | the same with a history of what each call could have seen |
| `LockFreeQueue_proofs` | the proofs |
| `ConnectionPool` | what the engine promises: a connection is taken, closed once, given back |
| `NetEngine` | listener, event and logic threads on pooled connections, with the closes the logic thread makes by itself |

| `PacketFraming` | `HandleRecvEvent`, `DoReceive`, `ExtractBuffer` |
| `PacketFraming_proofs` | the proofs about it |
| `PacketFramingLarge` | the same with packets larger than the receive buffer |
| `NetEngine_proofs` | the proofs about `NetEngine`, and that it implements `ConnectionPool` |
| `SetInduction` | induction and recursion on numbers as facts about sets and functions, for the proofs |
| `LinkedList` | `PushFront` and `Unlink` on lists linked both ways, shared by cells and buffers |
| `LinkedList_proofs` | the proofs about it |
| `DataBuffer` | one size class of the pooled buffers: `AllocDataBuff`, `Release` |
| `SendPath` | a packet's buffer from composition to the release by its completion |
| `SendPath_proofs` | the proofs about it and the pool |
| `AVLTree` | `InsertAlloc`, `Delete`, `Find`, rotations, pool of nodes |
| `AVLTree_proofs` | the proofs about it |
| `GridManager` | the geometry of a scene: `GetIndexByPos`, `GetSurroundingGrids`, `CalDiffGrids` |
| `Scene` | commands and ticks of one scene, and which packets a tick sends to whom |
| `Scene_proofs` | the proofs about it and `GridManager` |
| `MC*` | what TLC needs to instantiate a module; `MCPools` runs `SendPath` and `AVLTree` side by side |

`NetEngine` and `SendPath` are two views of the same threads: the first abstracts
a packet to its session and number, the second a connection to the sends on it.
`SendPath` extends `DataBuffer`, which extends `LinkedList`; `Scene` extends
`GridManager` and `LinkedList`.

### LockFreeQueue

`writeIndex`, `readIndex`, `maximumReadIndex` and `theQueue` are the members;
`pc`, `currentWriteIndex`, `currentReadIndex` and `data` are where each thread is
and its locals; `accepted` and `popped` are the results of the last calls. Each
action is one read, one CAS or one copy. The indexes are kept as numbers of
increments of which the code sees the residue modulo 2^32 (`Word`): every
comparison the code makes is made on residues.

Two points deserve mention. `pop` copies the element *before* its CAS; if the
position has been lost meanwhile, the copy may be torn, so `PopCopy` yields any
value then. And a CAS cannot tell an index from the same index 2^32 operations
later: `Unlapped` states the assumption that no thread sleeps that long between
its read and its CAS. It is a conjunct of the CAS actions and the only
assumption about scheduling in the safety proofs.

Two things are bounds: `MaxPush` limits the pushes, and `StartIndex` (5, with
`Wrap` 6) lets the very first increment roll over.

### NetEngine

| Variable | Code |
|---|---|
| `freeRoot`, `next` | `m_pFreeConnRoot`, `m_pNext` |
| `socket`, `connected`, `handler` | `m_hSocket`, `m_bConnected`, `m_pDataHandler # NULL` |
| `newConList`, `dataQueue`, `closeConList` | the queues of `ServiceBase`, as FIFO queues (justified by `IsFifo`) that drop a push when full |
| `pc`, `conn`, `batch` | where a thread is, its connection, the packets `ExtractBuffer` has left |
| `io`, `open` | the kernel's side: I/O in flight, open socket handles |
| `running`, `dispatching`, `stopped` | the logic loop has started; a packet's handler runs; a NULL handler was called |
| `owner`, `dispatched`, `dropped`, `ownCloses` | history: which session a connection serves, what was dispatched and in which order, what found a full queue, how many connections the logic thread has closed by itself |

`CConnection::Close` is three actions (notify, shut, reset), for other threads
run between them. `DeleteConnection` and `CreateConnection` are one action each:
they hold `m_CritSecConnList`. A completion may come in any order and to any
event thread, also after its socket was shut: with the bytes that had arrived
before, or with 0 bytes.

Two closes are made by the logic thread although it does not hold the connection.
Every `Update` begins with `CheckConntionAvalible`, which closes what has been
silent for three seconds (`IdleClose`: any connection that is OK, in any order, for
nothing bounds the clock against the other steps). And a packet's handler may send
to any connection it knows by number, and `DoSend` closes it when `WSASend` fails
(`SendFails`). After such a close two threads are busy with the same session, the
connection may be linked on the free list twice, and `HandlerNeverNull` fails (see
the findings). Most properties of the engine therefore read `ownCloses = 0 => ...`:
they are what the code promises until the first such close, and the runs, which
make one, also show what still holds after it. `PacketsInOrder` in part,
`PacketsDispatched` and `ClosedIsRecycled` have no such condition.
`ConnectionPool` says the same with `misused`: after `Misuse` nothing is promised.

Modelling decisions: a packet is its session and number (`PacketFraming` covers
the bytes); `CheckConntionAvalible` reads slot 0 of `m_vtConnList`, which is
NULL, and the model goes on as if that were a connection that is not OK;
`CreateIoCompletionPort`, `ConnectEx`, `WSARecv` and `WSASend` may fail; outgoing
connections are made only before the logic loop starts, for only
`GameService::Init` calls `ConnectToOtherSvr`. A socket turned away by an empty
pool stays open for ever (`CreateConnection`); no property is about it.

### PacketFraming

A byte is its position in the stream and the stream is the list of packet ends.
A receive brings any number of bytes that fit in the room behind the unread
ones. `m_dwDataLen` and `m_pBufPos` are one variable, the sequence `unread`; the
memmove at the end of `ExtractBuffer` does not change it. One thread at a time is
inside a connection (`Custody`), so each turn of the loop is an action.

### DataBuffer and SendPath

| Variable | Code |
|---|---|
| `created`, `links` | the `CDataBuffer` objects made so far; `m_pNext`, `m_pPrev`, `m_pUsedList`, `m_pFreeList` |
| `refs` | `m_dwRefCount` |
| `composing`, `posting`, `queued` | the buffer of the logic thread's `CBufferHelper`; the connection whose `m_IoOverlapSend` `DoSend` has just cleared; buffers of received packets in `m_DataQueue` |
| `overlap` | `m_IoOverlapSend.pDataBuffer` of a connection |
| `inflight`, `releasing` | sends posted; the completion an event thread deals with and the buffer it read from `overlap` |
| `overlapped`, `stopped` | history; a NULL pointer was followed |

`AllocDataBuff` and `Release` hold the manager's lock and are one action.
`Release` trusts that the buffer is on the used list: `Reachable` says when that
goes well, `ReleaseStops` what happens otherwise. `DoSend` clears `m_IoOverlapSend`
and then fills it, so posting is two actions (`Prepare`, then `Post` or `PostFails`):
a completion of an earlier send that comes in between finds no command and loses its
buffer (`CompletedCleared`), or releases NULL (`CompletedNull`).

`Fixed` is the `m_WriteBuffer` of a scene. `SendCmdToConnection` with four arguments
copies its buffer; with two (`Scene.cpp:587`, `622`, `GameSvrMgr.cpp:57`) it hands it
over as it is (`ComposeFixed`). That buffer belongs to no pool: the completion of its
send follows its `m_pManager`, which is NULL (`DataBuffer.h:12-23`, and the assertion
at line 42), and the process ends. `OneOwner` says that this is the only reason to
stop while sends do not overlap.

Three facts of the code shape the module. `m_IsSending` is never set, so every
`SendBuffer` posts at once, the send list is empty whenever its lock is free, and
the branch of `DoSend` that joins buffers never runs. The buffer of a received
packet is never released after its dispatch (`Dispatch` leaves it used: the pool
only grows). And the two relays that give one buffer several owners
(`ProxyCmdHandler.cpp:344`, `LoginCmdHandler.cpp:215`) cannot be reached, for the
dispatchers of these servers are empty.

### AVLTree

A subtree is a record with `key`, `data`, `left`, `right` and `height`; the data
is stood for by the key it was stored under, so that a deletion which moves one
without the other shows. `m_pParent` is left out (only `MoveNext` reads it, and
nothing calls `MoveNext`), and so are the overloads no manager calls.

The recursive functions of the code follow one path down and come back along it.
`Path` and `calls` (in `DeleteInner`) are what the calls on the way down are made
with, `built` and `returns` what they return on the way up, as functions on the
numbers up to `Capacity`: a path has fewer nodes than the pool, and once the code
would stop, the rest of the function repeats. `DeleteInner` calls itself for the
least key on the right after copying that key; `Passed` makes that call, `Deleted`
the copy. That the functions are long enough is not assumed but proved
(`FindInnerFinds`, `InsertInnerGrew`, `DeleteInnerShrunk`). `DeleteInner`
returns FALSE when the node it removed was a leaf, and then nothing above is
rebalanced, so after deletions the tree may be out of balance; `Balanced` states
what stays true. Taking the last node of the pool writes through the NULL behind
it (`InsertStops`): the branch that makes more nodes is never reached.

### GridManager and Scene

| Variable | Code |
|---|---|
| `players` | `m_PlayerObjectMgr`: ID to object |
| `heap` | the `CPlayerObject`s that are allocated |
| `id`, `pos`, `synced`, `status`, `inScene` | `m_u64ObjectID`, `m_ObjectPos`, `m_UpdateObjPos`, `m_UpdateStatus`, `m_pOwnerScene # NULL` |
| `gridNext`, `gridPrev`, `head` | the links of `CWorldObject`, `m_pHead` of a cell |
| `updateList`, `updating` | `m_UpdateObjectMgr`; `HandleUpdateList` is in its loop |
| `stopped` | `vector::at` has thrown, and nothing catches |
| `sends` | the packets composed in the last step and the connections `SendCmdToConnection` was called with |
| `stale` | history: registered players made from memory that held `UT_Delete` |

`OnCmdCharEnterSceneReq`, `OnCmdPlayerMove` and `OnCmdLeaveGameReq` are one action
each, with all they call (`AddToMap`, `RemoveFromMap`, `SetUpdate`, the lists of
the cells). A tick is one action per object of the update list, in any order (the
code's order is that of addresses), and no command comes in between. An update
is split by the status the object has: `New`, `Delete`, moved within its cell,
moved to another, and the case that throws.

Modelling decisions:

* What a tick sends to whom is the packet each `SendXxx` composes and the
  connections it calls `SendCmdToConnection` with. The code composes into a
  `CBufferHelper` of its own and hands over `m_WriteBuffer`, which nothing writes
  (`Scene.cpp:186`, `247`, `284`, `331`, `390`, `587`, `622`), and leaks the helper's
  buffer: the bytes reach nobody. So there is no model of a client here, and no
  property of what clients see; `SendPath` has what becomes of `m_WriteBuffer`.
* Nothing calls `CSceneManager::OnUpdate`, so no tick ever comes in the program
  as it stands. The model lets ticks come at any time and claims no liveness.
* `m_UpdateStatus` of a new object is not initialised. `FreshStatus` is what it may
  hold; the run takes all four values and the theorems any. The memory of a freed
  object holds `UT_Delete`, `SetUpdate` only raises a status, and so a player that
  enters in it is deleted at the next tick while registered and linked. From then on
  every command and tick reads freed memory: the model ends there (`Dangling`), and
  `HeapSound`, `ChangesAreListed` and `ListsHoldThePlayers` name the case.
* A command for an ID that is not there, or an enter for one that is, changes
  nothing and has no action.

Things to know about the code that follow from the model: the last row of the
map can be entered, but its surroundings reach past the end of the vector, so
the server stops at the first tick that meets a player there (`LastRowStops`; z
of 950 and more on the map of `CSceneManager::CreateScene`).

`TellsWhoSees` says that a tick tells exactly those around the changed object what
is due to each. It counts where the others stand by now, as the code does, not where
they were last announced, and these things follow. Two players who come into sight
of each other in one tick (each from a cell the other did not see, to neighbouring
cells) are each sent an update and never an add; two who part in one tick are never
told to remove each other. A player who moves on and leaves before the tick is
removed from the cells around its last position only. One who leaves and enters
again before the tick is two objects with one ID, taken in the order of their
addresses: others, and the player itself, may be sent the removal after the add, and
the assertion at `Scene.cpp:324-327` that a removal does not reach its own ID fails.
One that enters and leaves between two ticks is removed for those around it although
it was never added. A player whose position `AddToMap` refused stays registered and,
once it moves, hangs in a cell without a scene: those who come later are told of it,
but nobody who was there before.

## 3. Runs

| Run | Question | Result |
|---|---|---|
| `queue` | is the queue a FIFO queue under every interleaving; is the invariant the proofs use true; why may calls fail | holds, 1.4 million states |
| `queue_live` | is every claim published and every element read | holds |
| `queue_refusal` | does push fail only when the queue is full (`LockFreeQueue.h:98`) | violated |
| `connections` | free list, custody, notices, order of packets, refinement of `ConnectionPool` | holds, 2.1 million states |
| `connections_live` | is every single packet dispatched; is every closed connection recycled | holds |
| `zero_bytes` | does a 0-byte receive mean that the peer closed (`NetManager.cpp:180`) | violated |
| `idle_close` | is a handler ever called when it is NULL | violated |
| `framing` | are packets rebuilt from every fragmentation | holds |
| `framing_large` | also those larger than the receive buffer | violated |
| `scene` | do cell lists, ownership and update list stay consistent; does a tick tell those who see | holds, 0.13 million states |
| `pools` | are the pools' lists ever broken; has a buffer one owner; is the tree a map | holds, 0.42 million states |
| `send_overlap` | is a reference count ever negative (`DataBuffer.h:47`) | violated |

Bounds. *Queue*: three cells (capacity two), two producers, two consumers, three
pushes, so the queue fills, the indexes roll over, every pair of calls races and
one producer waits for another's commit; two items, so that order is visible.
*Connections*: two connections, two sessions of two packets, so that a connection is
reused by the second session while the first is being closed; two event threads; one
close by the logic thread at any moment, of any connection; a data queue of one packet
(drops happen) and two notices (as many as connections; the code has 2^16 - 1 for a
few thousand). More sessions, connections and packets are covered by the theorems.
*Liveness of connections*: one connection, two sessions of one packet, one close by
the logic thread: the second session needs the recycled connection. An empty pool
occurs here.
*Framing*: header of two bytes, buffer of six, packets of two, three and five (a header
alone, one that fits twice, the largest that fits), four packets. *Scene*: two
players, three objects (a player who left and one who entered under the same ID
live side by side), a map of three rows and four columns of cells, of which the
code uses one row and three columns and a last row, around the origin, as the
code's map is (-1000 to 1000, `SceneManager.cpp:56`), for a new object has its
`m_UpdateObjPos` there; six places: two in one cell, its neighbour, a cell out of
sight of the first, one in the last row, one that `GetIndexByPos` refuses. Lists of one and two nodes occur; longer ones, more players and larger maps
are
covered by the theorems. *Pools*: four buffers, two connections, two
event threads, five sends, so that buffers are recycled, sends overlap or do not,
and the pool runs out; eight keys and as many nodes, so that trees of height
three with every rotation occur and the last node is asked for.

`CHECK_DEADLOCK` is off in `connections` and `connections_live`, where the process dies
of a NULL handler; in `framing`, where the stream ends; in `scene`, where the
server stops after `at()` has thrown and the model ends once a registered player is
freed; in `pools` and `send_overlap`, where it stops
at a NULL pointer or the bounded buffers are used up, for received ones are never
given back.

Fairness. `queue_live`: weak fairness of every step of a call, since threads
that are inside a call are scheduled, and of the consumer's calls, since
`GameService::Run` calls `Update` for ever; none for starting a push.
`connections_live`: weak fairness of each thread's own steps. Peers owe nothing:
there is no fairness for completions. The other modules have no liveness: nothing
schedules ticks, and a packet's buffer need not come back.

### What was found

* `queue_refusal`. `push` compares a write index with a read index read later; a
  push may be refused with room in the queue. `PushFailureHasCause` says what does
  hold: the queue was full during the call, or another producer moved the write
  index. `OnDataHandle` ignores the result, so a packet is lost.
* `zero_bytes`. `Close` tells the logic thread first and shuts the socket after.
  In between, the connection can be recycled and given the next client, whose
  socket `Close` then shuts.
* `idle_close`. The idle check closes a connection whose receive is still in
  flight; the aborted receive closes it a second time, after `Clear` has set the
  handler to NULL. A send that fails closes in the same way.
* `send_overlap`. Two sends on one connection share `m_IoOverlapSend`. If the
  second is posted before the first completes, both completions release the second
  buffer: its count becomes negative, and the first is never released. `OneOwner`
  says that this needs overlapping sends; `PoolSound` that even then the lists of
  the pool stay lists, or the server stops.
* `framing_large`. The length of a packet under construction is advanced by a
  `m_dwDataLen` that was just set to 0.

## 4. Proofs

`LockFreeQueue_proofs` proves, for every set of threads and items, every queue
size, every width of the indexes that the size divides and every starting index:

* `InductiveInvariant`: `Spec => []IInv`;
* `TypeCorrect`, `IndexesOrdered`, `CellsExclusive`: its consequences;
* `Linearizable`: `Spec => IsFifo`, that is, the queue implements `FifoQueue`;
* `RefusalsHaveACause` and `EmptyPopsHaveACause`, of the queue with its observer:
  a call fails only because the queue was full (empty) at a moment of it or another
  thread moved the index it compares during it.

From `QueueAssumption` (size over 1, smaller than and dividing the number of
values of an index: the power of two the header asks for; no thread both pushes
and pops inside one role) and from `Unlapped`.

`IndexOrder` is not inductive: that a claim does not lap the reader depends on
what the claiming thread read earlier. `PushSnapshots` says that what it read is
old but still good if its CAS succeeds, `PopSnapshots` the same of a pop (the
copied element is the stored one), `Claims` that each claimed, unpublished
position has one owner who finds its element in the cell. Equal residues mean
equal counts by `CasExact` (this is where `Unlapped` and `Wrap % QSize = 0` are
used) and different live positions lie in different cells by `CellsDiffer`. The
refinement maps the array to the sequence of published, unread cells:
`PushCommit` is the enqueue, the winning `PopCas` the dequeue, a failing call a
refusal, every other step a stutter. For the failing calls an invariant of the
observer says that a thread whose index is out of date has seen the race, and one
whose index is current while the queue is full (empty) has seen that; two indexes
of the same cell then are the same index or a whole queue apart.

`PacketFraming_proofs` proves, for every header size smaller than the buffer,
every set of packet sizes not under the header, every stream and every
fragmentation (`FramingAssumption`), when every packet is smaller than the receive
buffer (`SmallPackets`, the hypothesis of all three):

* `FramingInvariant`: `SmallPackets /\ Spec => []IInv`, which is `TypeOK`, `Conservation` and
  `Framed`;
* `AlwaysRoomToReceive`: `SmallPackets /\ Spec => []RoomToReceive`;
* `PacketsNeverWithheld`: `SmallPackets /\ Spec => []NothingWithheld`.

The lemma that carries them is `HeaderKnown`: because all bytes are there in
order (`Conservation`) and what was handed over ends where a packet ends
(`Framed`), the bytes at the front of the buffer are the header of packet
`packets + 1`, so `dwSize` is that packet's size. The two last theorems are not
part of the induction; they follow at each `Stop`. For a packet as large as
the buffer the code takes another branch, which `PacketFramingLarge` models and which
loses bytes: hence the hypothesis. That the ends of the packets
grow is stated in `Streams`, for deriving it needs an induction over the stream.

`SetInduction` is what proofs about lists and arrays rest on. The theorems of the
library about induction and recursion have operators for parameters, which the
provers cannot instantiate; here the statement about every number is a set that is
to hold all numbers (`AllUpTo`, from `LeastNatural`), and the steps of a recursion
are a function (`RecursionExists`). So what the recursive functions of the models
compute (the walk along a list, the merge of two arrays, a flattened sequence) can
be proved of all inputs, and so can what the recursive functions of the code do to a
tree.

`LinkedList_proofs` states what a chain is without recursion: each node on a list
has a `place`, a number that grows along it, and links are inverse to each other
(`Chained`). `PushFrontChains` and `UnlinkChains` say that the two operations keep
all lists of a record of links chained, for any nodes and any number of lists, and
`ChainedIsList` that the walk along a chained list meets exactly its nodes, once
each, and ends (`IsListOf`): the nodes it has met are the first ones by place, so
it cannot run in a circle and misses none. `SendPath_proofs` and `Scene_proofs`
cite all three.

`SendPath_proofs`, for any buffers, connections, event threads and number of
sends: `SendPathInvariant` (`Spec => []IInv`), `TypeCorrect`, `PoolStaysLinked` (both
lists of the pool are chains, whatever is released twice), `PoolStaysSound`
(`Spec => []PoolSound`, by `ChainedIsList`) and `BuffersHaveOneOwner` (`Spec => []OneOwner`). `OneOwner` is not inductive: it needs
that the used and the free list are chained and disjoint, that used buffers have
one reference and free ones none, and that while nothing has overlapped the one send in flight
of a connection is the one its `overlap` names.

`Scene_proofs`, first part, for a map of any size: `IndexOnMap` (a position has no cell
or one on the map below the first row), `SurroundingsAreNeighbours` (what
`GetSurroundingGrids` finds is what it is meant to find, with one row too many for
the last row), `SurroundingsSorted` (they ascend, which the merge of `CalDiffGrids`
relies on) and `LastRowOverruns` (an index is past the end exactly there). The
steps are about quotients and remainders, from `GridAssumption`. `MergeSplits`
says that the one-pass merge splits any two ascending arrays into what is in the
second only, the first only and both; its loop invariant (`Passed`) is that what
has been passed over has been put in its place, and what has not is greater.
`MovesGainAndLose` puts them together: a move gains, loses and keeps the cells it
should.

`Scene_proofs`, for any map, players, objects and places and whatever memory new
objects are made from: `SceneTypeCorrect`, `SceneInvariant`, with the consequences
`SceneHeapSound`, `SceneChangesAreListed` and `SceneLastRowStops`, and
`SceneCellsChained`. The inductive invariant joins `TypeOK`, who owns which
object, and what holds of each object on the heap given its status: `HeapSound`
alone is not inductive, for the tick that frees an object must know that a
registered player with the status `Delete` is in `stale`, and a move that it keeps
that status. `SceneCellsChained` says that, until a registered player is freed, the
lists of the cells link exactly the registered players that stand in them; with
`ChainedIsList` it gives `SceneListsHoldThePlayers` (`Spec => []ListsHoldThePlayers`).

`SceneTellsWhoSees` (`Spec => TellsWhoSees`) joins both parts. A tick walks the lists
of some cells; `NearHolds` says that it meets the registered players that stand in
them, by `SceneCellsChained`, `ChainedIsList` and what flattening sequences does
(`FlattenElements`). `NearSurroundings` and `NearDiff` say which players these are,
by `SurroundingsAreNeighbours` and `MovesGainAndLose`: those who see the object
(`Watchers`), have come into its sight, have gone out of it or stayed in it. `TickTells`
has one case per handler. An update within the cell is the case of a move whose two
cells are the same.

`AVLTree_proofs`, for any set of integer keys and any number of nodes
(`TreeAssumption`): `TreeFindsStored` (`TreeSpec => []FindsStored`),
`TreePoolAccounts` (`TreeSpec => []PoolAccounts`) and `TreeBalanced`
(`TreeSpec => []Balanced`). The invariant, `TreeInv`, is that `root` is a search tree of exactly the
IDs stored, that the nodes in it and the free ones make up the pool, and that one is
always free, which makes the pool larger than any path.

What a search tree is cannot be said by recursion over the tree. `Is(t, K, d, avl)`
says instead that there is a set of entries, each a subtree with its keys and its
depth, that contains `t` with `K` and `d` and with each entry the two of its children;
an entry knows that its node stands between the keys of its children, that its depth
is one more than the deeper child's and no more than the recorded height, and with
`avl` that the heights are exact and differ by one at most. The depth is less than the
number of keys, so it ends every argument along a path: the search for a key, the
least node on the right and the calls of `DeleteInner` each come to a lower tree with
every step (`PathSearches`, `FirstIsLeast`, `PassedIs`) and have stopped by
`Capacity`.

On the way back each call is a lemma about one node. `SingRotatedIs` and
`DoubleRotatedIs` say that the rotations keep keys and order and how deep their
results are. `GrewLeft` and `GrewRight` are an insertion under a node: in a balanced
tree the result is at most one deeper, and then by the side of the new key (`Grew`),
which is why comparing the new key with the child's, as the code does, picks the right
rotation. They hold without `avl` too: in a tree that deletions have unbalanced a
double rotation never meets NULL, because a new node that reached the top of a subtree
stands there alone or has two children. `DeletedShrunk` is a deletion under a node:
nothing but the key goes, one node is freed exactly if the key was there, and a call
that returns FALSE, after which the code does not rebalance, has not made the tree
deeper (`Shrunk`), so the heights recorded above it are still no less than the true
ones. `NodesCount` and `IsDepth` connect this to the levels of the tree by which the
properties count nodes and depths.

`NetEngine_proofs`, for any number of connections, event threads, sessions and
packets: `EngineInvariant`, and from it `EngineTypeCorrect`, `EngineCustody`,
`EngineFreeListSound`, `EngineNoticeFits`, `EngineHandlerThere`, `EngineIsPool`
(`Spec => IsPool`: the engine implements `ConnectionPool`) and `EngineKeepsOrder`
(`Spec => []PacketsInOrder`). The specification includes the closes of the logic thread;
what `ownCloses = 0` conditions in a property it conditions in the theorem, and
`EngineHandlerThere` (`Spec => [](ownCloses = 0 => HandlerNeverNull)`) says that the
`idle_close` run cannot do without such a close. The invariant `EngineInv` has two parts
accordingly: types and the whereabouts of every packet, always, and `IInv` while
`ownCloses = 0`.

From `NetEngineAssumption`: finitely many connections, at least one; room in the
queues of notices for as many (2^16 - 1 in the code). `Custody` counts, and
counting is not inductive; the invariant says instead (`Custodian`) that a
connection in use has one thread, *or* one I/O, *or* one notice, and nothing else.
That a step finds this needs: `HandsFull` (a thread holds a connection just when
its step needs one), `SocketsOwn` and `HandlersThere`, `SessionsDiffer` (no session is
served twice), `BatchesReceived` (a packet's number is positive), and `FreeChain`:
the free list is a sequence without repetition of exactly the connections that
serve nobody, so a connection taken is nobody's. `FreeChain` is the form of
`FreeListSound` an induction can use, and `EngineFreeListSound` derives the one from
the other: the walk meets the elements of the sequence in their order. `CloseNoticeFits` follows by counting: the
notices are an injection into the other connections. For the order of packets,
`OrderInv` says that the queued numbers of a session ascend, come after what was
dispatched, and before what the one thread that extracts (one by `Custodian`) has
left.

Only model-checked: liveness (`ClaimIsPublished`, `ClaimIsRead`,
`PacketsDispatched`, `ClosedIsRecycled`), which is out of the prover's reach; packets
larger than the receive buffer. Every safety property of the passing runs is a
theorem.

## 5. Plan

What the first plan named is done: send path, cells, scene, containers, the proofs
about connections, lists, pools, the tree and what a tick sends. Left, in this order:

1. *Closes from the logic thread*: what still holds after one (whose session a late
   packet belongs to, which connections stay usable) is worth stating once the code is
   repaired; now only the first half of `PacketsInOrder` and liveness survive it.
2. *Framing and recycling together*, for the reset of `m_dwDataLen` at the end of
   `Close` (`Connection.cpp:314`).
3. *Shutdown*: `CConnectionMgr::CloseAllConnection` and `CNetManager::Close` against
   the threads that still run.
4. *Sessions*: login, proxy, world and database round trips over `ConnectionPool`,
   when their dispatchers call them.

## 6. Not modelled

Handlers that no server reaches as the code stands; a model of them would take
steps the program cannot take:

* LoginServer and ProxyServer: `DispatchPacket` is empty, so no command handler
  runs. `ProxyCmdHandler.cpp:216` uses a variable, `u64ConnID`, that is not declared.
* WorldServer: `SendCmdToDBConnection` is a stub, so the answers its handlers wait
  for do not come; `CGameSvrMgr` returns constants.
* DBServer: its work thread calls the base class's handler, which is empty, and
  nothing calls `CDBProcManager`.
* Timers: nothing adds one. The blocking queue (`CommonMsgQueue`) and the object
  pool (`MemObjectPool`) are instantiated nowhere.
* The scene manager: it finds a scene by its number, and scenes share nothing. A
  second `CreateScene` of a number makes a scene that `insert` does not keep.

Outside the core: the epoll build; network shutdown; the blocking
`ConnectToOtherSvr`, which nobody calls; the bytes of a packet's fields; logging and
configuration; the statistics server, which keeps nothing; the client connector,
the test clients and the tools; the path finder, which no server calls; Lua; SQLite and MySQL. The vendored headers
and libraries are most of the lines under `src/project`.
