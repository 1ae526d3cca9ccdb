---------------------------- MODULE LockFreeQueue ----------------------------
(***************************************************************************)
(* ArrayLockFreeQueue<ELEM_T, Q_SIZE>                                      *)
(* (Common/Utility/LockFreeQueue.h, LockFreeQueueImpl.h): the circular     *)
(* array through which the network event threads hand packets and          *)
(* connection events to the logic thread, and command handlers hand        *)
(* messages to a work thread.                                              *)
(*                                                                         *)
(* One action is one access to shared memory, so every interleaving of     *)
(* pushes and pops is explored.  A thread's local variables are functions  *)
(* of the thread; pc[t] names the next access of t.                        *)
(*                                                                         *)
(* The three indexes are UINT32.  The model keeps the number of increments *)
(* each has received, and the code sees only its residue Word(c): every    *)
(* CAS compares words and every slot is computed from a word.              *)
(***************************************************************************)
EXTENDS Naturals

CONSTANTS
    Producers,   \* threads that push (network event threads)
    Consumers,   \* threads that pop (the logic thread)
    Items,       \* the elements pushed
    NoItem,      \* an array cell never written; "nothing popped"
    QSize,       \* Q_SIZE
    Wrap,        \* 2^32: the number of values of an UINT32 index
    StartIndex,  \* what the indexes have counted before the behaviour starts
    MaxPush      \* bound: number of successful pushes explored

ASSUME QueueAssumption ==
    /\ QSize \in Nat /\ QSize > 1
    /\ Wrap \in Nat /\ QSize < Wrap
    /\ Wrap % QSize = 0       \* LockFreeQueue.h:57: "It should be a power of 2"
    /\ StartIndex \in Nat /\ MaxPush \in Nat
    /\ NoItem \notin Items
    /\ Producers \cap Consumers = {}

VARIABLES
    writeIndex,        \* m_writeIndex
    readIndex,         \* m_readIndex
    maximumReadIndex,  \* m_maximumReadIndex
    theQueue,          \* m_theQueue
    pc,                \* the next shared access of a thread
    currentWriteIndex, \* local of push
    currentReadIndex,  \* local of push and of pop
    data,              \* a_data: the argument of push, the out parameter of pop
    accepted,          \* FALSE between a push that returned false and the next call
    popped             \* what the last pop delivered, until the next call; or NoItem

indexes == <<writeIndex, readIndex, maximumReadIndex>>
locals  == <<currentWriteIndex, currentReadIndex, data>>
results == <<accepted, popped>>
vars    == <<indexes, theQueue, pc, locals, results>>

Threads == Producers \cup Consumers
Cells   == 0 .. QSize - 1
Word(c) == c % Wrap
CountToIndex(c) == Word(c) % QSize

\* The element at position c of the order in which positions are claimed.
CellOf(c) == theQueue[CountToIndex(c)]

Init ==
    /\ writeIndex = StartIndex
    /\ readIndex = StartIndex
    /\ maximumReadIndex = StartIndex
    /\ theQueue = [i \in Cells |-> NoItem]
    /\ pc = [t \in Threads |-> "idle"]
    /\ currentWriteIndex = [t \in Threads |-> StartIndex]
    /\ currentReadIndex = [t \in Threads |-> StartIndex]
    /\ data = [t \in Threads |-> NoItem]
    /\ accepted = [p \in Producers |-> TRUE]
    /\ popped = [c \in Consumers |-> NoItem]

\* The index a thread sleeps on is compared again before it has gone once
\* round: no thread stays between its read and its CAS for 2^32 operations.
\* (The one assumption about scheduling: without it a CAS can succeed on an
\* index that has rolled over to the value read.)
Unlapped(current, inside, shared) ==
    \A t \in inside : shared + 1 - current[t] < Wrap

\* CAS(&shared, expected, expected + 1) succeeds.
CasIgnored(shared, expected) == TRUE
CasSucceeds(shared, expected) == Word(shared) = Word(expected)

At(step) == {t \in Threads : pc[t] \in step}
Goto(t, step) == pc' = [pc EXCEPT ![t] = step]

\* The call returns and its locals are gone.
Return(t) ==
    /\ Goto(t, "idle")
    /\ currentWriteIndex' = [currentWriteIndex EXCEPT ![t] = StartIndex]
    /\ currentReadIndex' = [currentReadIndex EXCEPT ![t] = StartIndex]
    /\ data' = [data EXCEPT ![t] = NoItem]

-----------------------------------------------------------------------------
(* push.  A definition named as a variant of the one that follows it (NoGap, *)
(* AtStart, Ignored, Unordered, ...) is a plausible mistake, which a property *)
(* refutes when it takes the place of the definition: see PROJECT.json.       *)

StartPush(p, x) ==
    /\ pc[p] = "idle"
    /\ writeIndex < StartIndex + MaxPush
    /\ Goto(p, "readWrite")
    /\ data' = [data EXCEPT ![p] = x]
    /\ accepted' = [accepted EXCEPT ![p] = TRUE]
    /\ UNCHANGED <<indexes, theQueue, currentWriteIndex, currentReadIndex, popped>>

PushReadWrite(p) ==
    /\ pc[p] = "readWrite"
    /\ Goto(p, "readRead")
    /\ currentWriteIndex' = [currentWriteIndex EXCEPT ![p] = writeIndex]
    /\ UNCHANGED <<indexes, theQueue, currentReadIndex, data, results>>

LooksFullNoGap(write, read) == write >= read + QSize
LooksFullAtStart(write, read) == CountToIndex(write) = CountToIndex(read)
LooksFull(write, read) == CountToIndex(write + 1) = CountToIndex(read)

PushReadRead(p) ==
    /\ pc[p] = "readRead"
    /\ \/ /\ LooksFull(currentWriteIndex[p], readIndex)
          /\ Return(p)
          /\ accepted' = [accepted EXCEPT ![p] = FALSE]
       \/ /\ ~LooksFull(currentWriteIndex[p], readIndex)
          /\ Goto(p, "casWrite")
          /\ currentReadIndex' = [currentReadIndex EXCEPT ![p] = readIndex]
          /\ UNCHANGED <<accepted, currentWriteIndex, data>>
    /\ UNCHANGED <<indexes, theQueue, popped>>

PushCas(p) ==
    /\ pc[p] = "casWrite"
    /\ \/ /\ CasSucceeds(writeIndex, currentWriteIndex[p])
          /\ Unlapped(currentWriteIndex, At({"readRead", "casWrite"}) \cap Producers, writeIndex)
          /\ writeIndex' = writeIndex + 1
          /\ Goto(p, "store")
       \/ /\ ~CasSucceeds(writeIndex, currentWriteIndex[p])
          /\ Goto(p, "readWrite")
          /\ UNCHANGED writeIndex
    /\ UNCHANGED <<readIndex, maximumReadIndex, theQueue, locals, results>>

PushStore(p) ==
    /\ pc[p] = "store"
    /\ theQueue' = [theQueue EXCEPT ![CountToIndex(currentWriteIndex[p])] = data[p]]
    /\ Goto(p, "commit")
    /\ UNCHANGED <<indexes, locals, results>>

PushCommitOffByOne(p) ==
    /\ pc[p] = "commit"
    /\ CasSucceeds(maximumReadIndex, currentWriteIndex[p] + 1)
    /\ maximumReadIndex' = maximumReadIndex + 1
    /\ Return(p)
    /\ UNCHANGED <<writeIndex, readIndex, theQueue, results>>

PushCommitUnordered(p) ==
    /\ pc[p] = "commit"
    /\ maximumReadIndex' = maximumReadIndex + 1
    /\ Return(p)
    /\ UNCHANGED <<writeIndex, readIndex, theQueue, results>>

\* A failing CAS yields the processor and tries again: it changes nothing.
PushCommit(p) ==
    /\ pc[p] = "commit"
    /\ CasSucceeds(maximumReadIndex, currentWriteIndex[p])
    /\ maximumReadIndex' = maximumReadIndex + 1
    /\ Return(p)
    /\ UNCHANGED <<writeIndex, readIndex, theQueue, results>>

-----------------------------------------------------------------------------
(* pop *)

StartPop(c) ==
    /\ pc[c] = "idle"
    /\ Goto(c, "popRead")
    /\ popped' = [popped EXCEPT ![c] = NoItem]
    /\ UNCHANGED <<indexes, theQueue, locals, accepted>>

PopReadRead(c) ==
    /\ pc[c] = "popRead"
    /\ Goto(c, "popMax")
    /\ currentReadIndex' = [currentReadIndex EXCEPT ![c] = readIndex]
    /\ UNCHANGED <<indexes, theQueue, currentWriteIndex, data, results>>

LooksEmptyAtLast(read, maximum) == CountToIndex(read + 1) = CountToIndex(maximum)
LooksEmpty(read, maximum) == CountToIndex(read) = CountToIndex(maximum)

PopReadMaximum(c) ==
    /\ pc[c] = "popMax"
    /\ \/ /\ LooksEmpty(currentReadIndex[c], maximumReadIndex)
          /\ Return(c)
       \/ /\ ~LooksEmpty(currentReadIndex[c], maximumReadIndex)
          /\ Goto(c, "copy")
          /\ UNCHANGED locals
    /\ UNCHANGED <<indexes, theQueue, results>>

\* The element is copied before the position is won.  The action is the end
\* of the copy: once the position is lost a producer may be writing the cell,
\* so the copy may be torn and is any value.
PopCopy(c) ==
    /\ pc[c] = "copy"
    /\ Goto(c, "casRead")
    /\ \E x \in Items \cup {NoItem} :
          /\ readIndex = currentReadIndex[c] => x = CellOf(readIndex)
          /\ data' = [data EXCEPT ![c] = x]
    /\ UNCHANGED <<indexes, theQueue, currentWriteIndex, currentReadIndex, results>>

PopCas(c) ==
    /\ pc[c] = "casRead"
    /\ \/ /\ CasSucceeds(readIndex, currentReadIndex[c])
          /\ Unlapped(currentReadIndex, At({"popMax", "copy", "casRead"}) \cap Consumers, readIndex)
          /\ readIndex' = readIndex + 1
          /\ popped' = [popped EXCEPT ![c] = data[c]]
          /\ Return(c)
       \/ /\ ~CasSucceeds(readIndex, currentReadIndex[c])
          /\ Goto(c, "popRead")
          /\ UNCHANGED <<readIndex, popped, locals>>
    /\ UNCHANGED <<writeIndex, maximumReadIndex, theQueue, accepted>>

-----------------------------------------------------------------------------
PushStep(p) == \/ PushReadWrite(p) \/ PushReadRead(p) \/ PushCas(p)
               \/ PushStore(p) \/ PushCommit(p)
PopStep(c)  == \/ PopReadRead(c) \/ PopReadMaximum(c) \/ PopCopy(c) \/ PopCas(c)

Next == \/ \E p \in Producers : \/ \E x \in Items : StartPush(p, x)
                                \/ PushStep(p)
        \/ \E c \in Consumers : StartPop(c) \/ PopStep(c)

\* A thread inside a call keeps running; the logic thread polls for ever
\* (ServiceBase::Update pops until the queue reports that it is empty).
Fairness == /\ \A p \in Producers : WF_vars(PushStep(p))
            /\ \A c \in Consumers : WF_vars(StartPop(c) \/ PopStep(c))

Spec == Init /\ [][Next]_vars
FairSpec == Spec /\ Fairness
-----------------------------------------------------------------------------
(* Properties *)

\* Every variable stays in its range.
TypeOK ==
    /\ writeIndex \in Nat /\ readIndex \in Nat /\ maximumReadIndex \in Nat
    /\ theQueue \in [Cells -> Items \cup {NoItem}]
    /\ pc \in [Threads -> {"idle", "readWrite", "readRead", "casWrite", "store", "commit",
                           "popRead", "popMax", "copy", "casRead"}]
    /\ currentWriteIndex \in [Threads -> Nat]
    /\ currentReadIndex \in [Threads -> Nat]
    /\ data \in [Threads -> Items \cup {NoItem}]
    /\ accepted \in [Producers -> BOOLEAN]
    /\ popped \in [Consumers -> Items \cup {NoItem}]

\* What is published was claimed, what is read was published, and never more
\* than QSize - 1 positions are claimed and unread: no claim laps the reader,
\* though push compares the claim with a read index that may be old.
IndexOrder ==
    /\ readIndex <= maximumReadIndex
    /\ maximumReadIndex <= writeIndex
    /\ writeIndex < readIndex + QSize

\* The cell a producer is writing is its own: no other producer is writing it
\* and no position a consumer can still win lies in it.
CellExclusive ==
    \A p \in Producers : pc[p] = "store" =>
        LET cell == CountToIndex(currentWriteIndex[p]) IN
        /\ \A q \in Producers \ {p} : pc[q] = "store" =>
               CountToIndex(currentWriteIndex[q]) # cell
        /\ \A c \in readIndex .. maximumReadIndex - 1 : CountToIndex(c) # cell

\* The parts of the inductive invariant, beside TypeOK and IndexOrder.

\* A claimed position is unpublished and has one owner, and an owner that has
\* stored its element still finds it there.
Claims ==
    \A p \in Producers :
        /\ pc[p] \in {"store", "commit"} =>
              /\ maximumReadIndex <= currentWriteIndex[p]
              /\ currentWriteIndex[p] < writeIndex
              /\ \A q \in Producers \ {p} : pc[q] \in {"store", "commit"} =>
                     currentWriteIndex[q] # currentWriteIndex[p]
        /\ pc[p] = "commit" => CellOf(currentWriteIndex[p]) = data[p]
        /\ pc[p] # "idle" => data[p] \in Items

\* What a push has read is old but not wrong: if its claim can still succeed,
\* the room it saw is still there.
PushSnapshots ==
    \A p \in Producers :
        /\ pc[p] \in {"readRead", "casWrite"} => currentWriteIndex[p] <= writeIndex
        /\ pc[p] = "casWrite" =>
              /\ currentReadIndex[p] <= readIndex
              /\ currentWriteIndex[p] < currentReadIndex[p] + QSize
              /\ ~LooksFull(currentWriteIndex[p], currentReadIndex[p])

\* If a pop can still win its position, the position is published and the
\* element it copied is the one stored there.
PopSnapshots ==
    \A c \in Consumers :
        /\ pc[c] \in {"popMax", "copy", "casRead"} => currentReadIndex[c] <= readIndex
        /\ pc[c] \in {"copy", "casRead"} /\ currentReadIndex[c] = readIndex =>
              readIndex < maximumReadIndex
        /\ pc[c] = "casRead" /\ currentReadIndex[c] = readIndex =>
              data[c] = CellOf(readIndex)

\* The inductive invariant, which the proofs use, checked here by TLC.
IInv == TypeOK /\ IndexOrder /\ Claims /\ PushSnapshots /\ PopSnapshots

\* Every push that has claimed a position is published: the commits, made in
\* the order of the claims, are never stuck behind a position nobody commits.
ClaimIsPublished == \A p \in Producers : pc[p] = "store" ~> pc[p] = "idle"

\* Every claimed position is read: no element is left in the array.
ClaimIsRead ==
    \A c \in StartIndex .. StartIndex + MaxPush - 1 :
        (writeIndex > c) ~> (readIndex > c)

\* The queue as its users see it: the published, unread cells in claim order.
Unread == [i \in 1 .. maximumReadIndex - readIndex |-> CellOf(readIndex + i - 1)]
Fifo == INSTANCE FifoQueue
          WITH queue <- Unread,
               Capacity <- QSize - 1,
               pushing <- [p \in Producers |-> IF pc[p] = "idle" THEN NoItem ELSE data[p]],
               popping <- [c \in Consumers |-> pc[c] # "idle"]

\* Every interleaving of pushes and pops is one of a bounded FIFO queue whose
\* calls take effect at one moment: nothing is lost, doubled or reordered.
IsFifo == Fifo!Spec
=============================================================================
