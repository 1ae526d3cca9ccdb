------------------------ MODULE LockFreeQueue_proofs ------------------------
(***************************************************************************)
(* Proofs about LockFreeQueue, for any number of threads, any queue size,  *)
(* any index width that is a multiple of it, and any number of pushes.     *)
(***************************************************************************)
EXTENDS LockFreeQueueObserver, Integers, Sequences, SequenceTheorems, TLAPS

-----------------------------------------------------------------------------
(* Remainders: what the cell of a position depends on. *)

\* Division with remainder.
LEMMA DivMod ==
    ASSUME NEW a \in Nat, NEW q \in Nat, q > 0
    PROVE  /\ (a % q) \in 0 .. q - 1
           /\ (a \div q) \in Nat
           /\ a = (q * (a \div q)) + (a % q)
  BY SMTT(20)

\* Different multiples of q are at least q apart.
LEMMA MultiplesApart ==
    ASSUME NEW x \in Int, NEW y \in Int, NEW q \in Nat, x < y
    PROVE  q * y - q * x >= q
  BY SMTT(20)

LEMMA TimesAssociative ==
    ASSUME NEW x \in Int, NEW y \in Int, NEW z \in Int
    PROVE  x * (y * z) = (x * y) * z
  BY SMTT(20)

\* The remainder is determined by the quotient equation.
LEMMA ModUnique ==
    ASSUME NEW q \in Nat, q > 0, NEW k \in Nat, NEW r \in 0 .. q - 1
    PROVE  ((q * k + r) % q) = r
  BY SMTT(20)

\* Numbers less than q apart have different remainders.
LEMMA ModDistinct ==
    ASSUME NEW a \in Nat, NEW b \in Nat, NEW q \in Nat, a < b, b < a + q
    PROVE  (a % q) # (b % q)
<1>1. SUFFICES ASSUME (a % q) = (b % q) PROVE FALSE
  OBVIOUS
<1> DEFINE da == a \div q
           db == b \div q
<1>2. a = (q * da) + (a % q) /\ b = (q * db) + (b % q) /\ da \in Nat /\ db \in Nat
  BY DivMod
<1> HIDE DEF da, db
<1>3. b - a = q * db - q * da
  BY <1>1, <1>2, DivMod
<1>4. CASE da < db
  BY <1>4, <1>3, <1>2, MultiplesApart
<1>5. CASE db <= da
  <2>1. db = da \/ db < da
    BY <1>5, <1>2
  <2>2. CASE db < da
    BY <2>2, <1>3, <1>2, MultiplesApart
  <2> QED BY <2>1, <2>2, <1>3, <1>2
<1> QED BY <1>4, <1>5, <1>2

\* Reducing modulo a multiple of q first changes nothing.
LEMMA ModMod ==
    ASSUME NEW a \in Nat, NEW q \in Nat, NEW w \in Nat, q > 0, w > 0, (w % q) = 0
    PROVE  ((a % w) % q) = (a % q)
<1> DEFINE k  == w \div q
           da == a \div w
           r  == a % w
           dr == r \div q
<1>1. w = q * k /\ k \in Nat
  BY DivMod
<1>2. a = (w * da) + r /\ da \in Nat /\ r \in Nat
  BY DivMod
<1>3. r = (q * dr) + (r % q) /\ dr \in Nat /\ (r % q) \in 0 .. q - 1
  BY DivMod, <1>2
<1> HIDE DEF k, da, r, dr
<1>4. a = (q * (k * da + dr)) + (r % q)
  <2>1. a = ((q * k) * da) + (q * dr) + (r % q)
    BY <1>1, <1>2, <1>3
  <2>2. (q * k) * da = q * (k * da)
    BY <1>1, <1>2, TimesAssociative
  <2> QED BY <2>1, <2>2, <1>1, <1>2, <1>3, SMTT(20)
<1>5. (k * da + dr) \in Nat
  BY <1>1, <1>2, <1>3
<1>6. (a % q) = (r % q)
  BY <1>4, <1>5, <1>3, ModUnique
<1> QED BY <1>6 DEF r

-----------------------------------------------------------------------------
(* Cells and words. *)

\* QueueAssumption without its divisibility.
LEMMA Sizes ==
    /\ QSize \in Nat /\ QSize > 1 /\ Wrap \in Nat /\ QSize < Wrap
    /\ StartIndex \in Nat /\ MaxPush \in Nat
    /\ NoItem \notin Items /\ Producers \cap Consumers = {}
  BY QueueAssumption

LEMMA CellRange ==
    ASSUME NEW c \in Nat
    PROVE  /\ CountToIndex(c) = (c % QSize)
           /\ CountToIndex(c) \in Cells
<1>1. CountToIndex(c) = (c % QSize)
  <2>1. QSize > 0 /\ Wrap > 0
    BY QueueAssumption
  <2>2. ((c % Wrap) % QSize) = (c % QSize)
    BY <2>1, ModMod, Sizes, QueueAssumption
  <2> QED BY <2>2 DEF CountToIndex, Word
<1> QED BY <1>1, DivMod, Sizes DEF Cells

\* Positions less than a lap apart have different cells.
LEMMA CellsDiffer ==
    ASSUME NEW a \in Nat, NEW b \in Nat, a < b, b < a + QSize
    PROVE  CountToIndex(a) # CountToIndex(b)
  BY CellRange, ModDistinct, Sizes

\* Positions a lap apart share their cell.
LEMMA CellsMeet ==
    ASSUME NEW a \in Nat
    PROVE  CountToIndex(a + QSize) = CountToIndex(a)
<1> DEFINE k == a \div QSize
<1>1. a = (QSize * k) + (a % QSize) /\ k \in Nat /\ (a % QSize) \in 0 .. QSize - 1
  BY DivMod, Sizes
<1> HIDE DEF k
<1>2. a + QSize = (QSize * (k + 1)) + (a % QSize)
  BY <1>1, Sizes, SMTT(20)
<1>3. ((a + QSize) % QSize) = (a % QSize)
  <2>1. k + 1 \in Nat /\ QSize > 0
    BY <1>1, Sizes
  <2>2. ((QSize * (k + 1) + (a % QSize)) % QSize) = (a % QSize)
    BY <2>1, <1>1, ModUnique, Sizes
  <2> QED BY <1>2, <2>2
<1> QED BY <1>3, CellRange, Sizes

\* A CAS on an index that has not gone once round since it was read succeeds
\* only if the index has not moved at all.
LEMMA CasExact ==
    ASSUME NEW shared \in Nat, NEW expected \in Nat,
           expected <= shared, shared < expected + Wrap,
           CasSucceeds(shared, expected)
    PROVE  shared = expected
<1>1. CASE expected < shared
  <2>1. (expected % Wrap) # (shared % Wrap)
    BY <1>1, ModDistinct, Sizes
  <2> QED BY <2>1 DEF CasSucceeds, Word
<1> QED BY <1>1

-----------------------------------------------------------------------------
(* The inductive invariant. *)

LEMMA InitIInv == Init => IInv
<1> SUFFICES ASSUME Init PROVE IInv
  OBVIOUS
<1> USE Sizes DEF Init
<1>1. TypeOK
  BY DEF TypeOK, Threads
<1>2. IndexOrder
  BY DEF IndexOrder
<1>3. Claims /\ PushSnapshots /\ PopSnapshots
  BY DEF Claims, PushSnapshots, PopSnapshots, Threads
<1> QED BY <1>1, <1>2, <1>3 DEF IInv

\* Starting a call, and the reads that only fill a local variable.
LEMMA StartPushInv ==
    ASSUME IInv, NEW p \in Producers, NEW x \in Items, StartPush(p, x)
    PROVE  IInv'
<1> USE DEF StartPush, Goto, indexes, results, IInv
<1>1. TypeOK'
  BY DEF TypeOK, Threads
<1>2. IndexOrder'
  BY DEF IndexOrder
<1>3. Claims'
  BY DEF Claims, TypeOK, Threads, CellOf
<1>4. PushSnapshots'
  BY DEF PushSnapshots, TypeOK, Threads
<1>5. PopSnapshots'
  BY Sizes DEF PopSnapshots, TypeOK, Threads, CellOf
<1> QED BY <1>1, <1>2, <1>3, <1>4, <1>5

LEMMA PushReadWriteInv ==
    ASSUME IInv, NEW p \in Producers, PushReadWrite(p)
    PROVE  IInv'
<1> USE DEF PushReadWrite, Goto, indexes, results, IInv
<1>1. TypeOK'
  BY DEF TypeOK, Threads
<1>2. IndexOrder'
  BY DEF IndexOrder
<1>3. Claims'
  BY DEF Claims, TypeOK, Threads, CellOf
<1>4. PushSnapshots'
  BY DEF PushSnapshots, TypeOK, Threads
<1>5. PopSnapshots'
  BY Sizes DEF PopSnapshots, TypeOK, Threads, CellOf
<1> QED BY <1>1, <1>2, <1>3, <1>4, <1>5

\* The room push sees when it reads the read index is room it can count on.
LEMMA PushReadReadInv ==
    ASSUME IInv, NEW p \in Producers, PushReadRead(p)
    PROVE  IInv'
<1> USE DEF PushReadRead, Goto, Return, indexes, results, IInv
<1>1. TypeOK'
  <2>1. CASE LooksFull(currentWriteIndex[p], readIndex)
    <3>1. /\ Return(p)
          /\ accepted' = [accepted EXCEPT ![p] = FALSE]
          /\ UNCHANGED <<indexes, theQueue, popped>>
      BY <2>1
    <3> HIDE DEF PushReadRead
    <3>2. accepted' \in [Producers -> BOOLEAN]
      BY <3>1 DEF TypeOK
    <3> QED BY <3>1, <3>2, Sizes DEF TypeOK, Threads
  <2>2. CASE ~LooksFull(currentWriteIndex[p], readIndex)
    BY <2>2, Sizes DEF TypeOK, Threads
  <2> QED BY <2>1, <2>2
<1>2. IndexOrder'
  BY DEF IndexOrder
<1>3. Claims'
  BY DEF Claims, TypeOK, Threads, CellOf
<1>4. PushSnapshots'
  <2>1. currentWriteIndex[p] < readIndex + QSize
    BY Sizes DEF PushSnapshots, IndexOrder, TypeOK, Threads
  <2> QED BY <2>1, Sizes DEF PushSnapshots, TypeOK, Threads
<1>5. PopSnapshots'
  BY Sizes DEF PopSnapshots, TypeOK, Threads, CellOf
<1> QED BY <1>1, <1>2, <1>3, <1>4, <1>5

\* A claim succeeds only on an index that has not moved, and then the room
\* seen before it is still there: the claim does not lap the reader.
LEMMA PushCasInv ==
    ASSUME IInv, NEW p \in Producers, PushCas(p)
    PROVE  IInv'
<1> USE DEF PushCas, Goto, locals, results, IInv
<1>1. TypeOK'
  BY DEF TypeOK, Threads
<1>2. CASE ~CasSucceeds(writeIndex, currentWriteIndex[p])
  <2>1. UNCHANGED writeIndex /\ pc' = [pc EXCEPT ![p] = "readWrite"]
    BY <1>2
  <2>2. IndexOrder'
    BY <2>1 DEF IndexOrder
  <2>3. Claims' /\ PushSnapshots' /\ PopSnapshots'
    BY <2>1, Sizes DEF Claims, PushSnapshots, PopSnapshots, TypeOK, Threads, CellOf
  <2> QED BY <1>1, <2>2, <2>3
<1>3. CASE CasSucceeds(writeIndex, currentWriteIndex[p])
  <2>1. /\ writeIndex' = writeIndex + 1
        /\ pc' = [pc EXCEPT ![p] = "store"]
        /\ writeIndex + 1 - currentWriteIndex[p] < Wrap
    BY <1>3 DEF Unlapped, At, Threads
  <2>2. /\ currentWriteIndex[p] \in Nat /\ currentReadIndex[p] \in Nat
        /\ writeIndex \in Nat /\ readIndex \in Nat /\ maximumReadIndex \in Nat
        /\ currentWriteIndex[p] <= writeIndex
        /\ currentReadIndex[p] <= readIndex
        /\ currentWriteIndex[p] < currentReadIndex[p] + QSize
        /\ ~LooksFull(currentWriteIndex[p], currentReadIndex[p])
    BY DEF PushSnapshots, TypeOK, Threads
  <2>3. writeIndex = currentWriteIndex[p]
    BY <1>3, <2>1, <2>2, CasExact, Sizes
  <2>4. writeIndex + 1 # currentReadIndex[p] + QSize
    BY <2>2, <2>3, CellsMeet DEF LooksFull
  <2>5. IndexOrder'
    <3>1. UNCHANGED <<readIndex, maximumReadIndex>> /\ IndexOrder
      OBVIOUS
    <3> HIDE DEF PushCas, IInv
    <3> QED BY <3>1, <2>1, <2>2, <2>3, <2>4, Sizes DEF IndexOrder
  <2>6. Claims'
    BY <2>1, <2>2, <2>3 DEF Claims, IndexOrder, TypeOK, Threads, CellOf
  <2>7. PushSnapshots'
    BY <2>1, <2>2 DEF PushSnapshots, TypeOK, Threads
  <2>8. PopSnapshots'
    BY <2>1, Sizes DEF PopSnapshots, TypeOK, Threads, CellOf
  <2> QED BY <1>1, <2>5, <2>6, <2>7, <2>8
<1> QED BY <1>2, <1>3

\* A store changes no cell that a consumer can still win, and no cell that
\* another producer has claimed.
LEMMA PushStoreInv ==
    ASSUME IInv, NEW p \in Producers, PushStore(p)
    PROVE  IInv'
<1> USE DEF PushStore, Goto, indexes, locals, results, IInv
<1> DEFINE mine == currentWriteIndex[p]
<1>1. TypeOK'
  BY DEF TypeOK, Threads
<1>2. IndexOrder'
  BY DEF IndexOrder
<1>3. /\ mine \in Nat /\ maximumReadIndex <= mine /\ mine < writeIndex
      /\ writeIndex \in Nat /\ readIndex \in Nat /\ maximumReadIndex \in Nat
      /\ readIndex <= maximumReadIndex /\ writeIndex < readIndex + QSize
      /\ data[p] \in Items
  BY DEF Claims, IndexOrder, TypeOK, Threads
<1>4. ASSUME NEW c \in Nat, readIndex <= c, c < writeIndex, c # mine
      PROVE  CellOf(c)' = CellOf(c)
  <2>1. CountToIndex(c) # CountToIndex(mine)
    BY <1>3, <1>4, CellsDiffer, Sizes
  <2> QED BY <2>1, CellRange, <1>4, <1>3 DEF CellOf, TypeOK
<1>5. CellOf(mine)' = data[p]
  BY <1>3, CellRange DEF CellOf, TypeOK
<1>6. Claims'
  <2> SUFFICES ASSUME NEW q \in Producers
               PROVE  /\ pc'[q] \in {"store", "commit"} =>
                            /\ maximumReadIndex' <= currentWriteIndex'[q]
                            /\ currentWriteIndex'[q] < writeIndex'
                            /\ \A r \in Producers \ {q} : pc'[r] \in {"store", "commit"} =>
                                   currentWriteIndex'[r] # currentWriteIndex'[q]
                      /\ pc'[q] = "commit" => CellOf(currentWriteIndex[q])' = data'[q]
                      /\ pc'[q] # "idle" => data'[q] \in Items
    BY DEF Claims
  <2>1. CASE q = p
    BY <2>1, <1>3, <1>5 DEF Claims, TypeOK, Threads
  <2>2. CASE q # p
    <3>1. ASSUME pc[q] = "commit"
          PROVE  CellOf(currentWriteIndex[q])' = data[q]
      <4>1. /\ currentWriteIndex[q] \in Nat /\ maximumReadIndex <= currentWriteIndex[q]
            /\ currentWriteIndex[q] < writeIndex /\ currentWriteIndex[q] # mine
        BY <2>2, <3>1 DEF Claims, TypeOK, Threads
      <4>2. CellOf(currentWriteIndex[q]) = data[q]
        BY <3>1 DEF Claims
      <4>3. CellOf(currentWriteIndex[q])' = theQueue'[CountToIndex(currentWriteIndex[q])]
        BY DEF CellOf
      <4> QED BY <4>1, <4>2, <4>3, <1>3, <1>4 DEF CellOf
    <3> QED BY <2>2, <3>1 DEF Claims, TypeOK, Threads
  <2> QED BY <2>1, <2>2
<1>7. PushSnapshots'
  BY DEF PushSnapshots, TypeOK, Threads
<1>8. PopSnapshots'
  <2>1. ASSUME NEW c \in Consumers, pc[c] = "casRead", currentReadIndex[c] = readIndex
        PROVE  CellOf(readIndex)' = CellOf(readIndex)
    BY <2>1, <1>3, <1>4 DEF PopSnapshots
  <2> QED BY <2>1, Sizes DEF PopSnapshots, TypeOK, Threads
<1> QED BY <1>1, <1>2, <1>6, <1>7, <1>8

\* Commits are made in the order of the claims: the committed position is the
\* owner's, and the next one has another owner.
LEMMA PushCommitInv ==
    ASSUME IInv, NEW p \in Producers, PushCommit(p)
    PROVE  IInv'
<1> USE DEF PushCommit, Goto, Return, results, IInv
<1>1. TypeOK'
  BY Sizes DEF TypeOK, Threads
<1>2. /\ currentWriteIndex[p] \in Nat /\ maximumReadIndex <= currentWriteIndex[p]
      /\ currentWriteIndex[p] < writeIndex
      /\ writeIndex \in Nat /\ readIndex \in Nat /\ maximumReadIndex \in Nat
      /\ readIndex <= maximumReadIndex /\ writeIndex < readIndex + QSize
  BY DEF Claims, IndexOrder, TypeOK, Threads
<1>3. currentWriteIndex[p] < maximumReadIndex + Wrap
  BY <1>2, Sizes
<1>4. maximumReadIndex = currentWriteIndex[p]
  <2>1. CasSucceeds(currentWriteIndex[p], maximumReadIndex)
    BY DEF CasSucceeds
  <2> QED BY <2>1, <1>2, <1>3, CasExact
<1>5. IndexOrder'
  BY <1>2, <1>4 DEF IndexOrder
<1>6. Claims'
  BY <1>2, <1>4 DEF Claims, TypeOK, Threads, CellOf
<1>7. PushSnapshots'
  BY DEF PushSnapshots, TypeOK, Threads
<1>8. PopSnapshots'
  BY <1>2, Sizes DEF PopSnapshots, TypeOK, Threads, CellOf
<1> QED BY <1>1, <1>5, <1>6, <1>7, <1>8

\* The pops.
LEMMA StartPopInv ==
    ASSUME IInv, NEW c \in Consumers, StartPop(c)
    PROVE  IInv'
<1> USE DEF StartPop, Goto, indexes, locals, IInv
<1>1. TypeOK'
  BY DEF TypeOK, Threads
<1>2. IndexOrder'
  BY DEF IndexOrder
<1>3. Claims' /\ PushSnapshots'
  BY Sizes DEF Claims, PushSnapshots, TypeOK, Threads, CellOf
<1>4. PopSnapshots'
  BY DEF PopSnapshots, TypeOK, Threads, CellOf
<1> QED BY <1>1, <1>2, <1>3, <1>4

LEMMA PopReadReadInv ==
    ASSUME IInv, NEW c \in Consumers, PopReadRead(c)
    PROVE  IInv'
<1> USE DEF PopReadRead, Goto, indexes, results, IInv
<1>1. TypeOK'
  BY DEF TypeOK, Threads
<1>2. IndexOrder'
  BY DEF IndexOrder
<1>3. Claims' /\ PushSnapshots'
  BY Sizes DEF Claims, PushSnapshots, TypeOK, Threads, CellOf
<1>4. PopSnapshots'
  BY DEF PopSnapshots, TypeOK, Threads, CellOf
<1> QED BY <1>1, <1>2, <1>3, <1>4

\* A pop that goes on has seen its position published.
LEMMA PopReadMaximumInv ==
    ASSUME IInv, NEW c \in Consumers, PopReadMaximum(c)
    PROVE  IInv'
<1> USE DEF PopReadMaximum, Goto, Return, indexes, results, IInv
<1>1. CASE LooksEmpty(currentReadIndex[c], maximumReadIndex)
  <2> USE DEF locals
  <2>1. TypeOK'
    BY <1>1, Sizes DEF TypeOK, Threads
  <2>2. IndexOrder'
    BY DEF IndexOrder
  <2>3. Claims' /\ PushSnapshots'
    BY <1>1, Sizes DEF Claims, PushSnapshots, TypeOK, Threads, CellOf
  <2>4. PopSnapshots'
    BY <1>1 DEF PopSnapshots, TypeOK, Threads, CellOf
  <2> QED BY <2>1, <2>2, <2>3, <2>4
<1>2. CASE ~LooksEmpty(currentReadIndex[c], maximumReadIndex)
  <2> USE DEF locals
  <2>1. TypeOK'
    BY <1>2 DEF TypeOK, Threads
  <2>2. IndexOrder'
    BY DEF IndexOrder
  <2>3. Claims' /\ PushSnapshots'
    BY <1>2, Sizes DEF Claims, PushSnapshots, TypeOK, Threads, CellOf
  <2>4. currentReadIndex[c] = readIndex => readIndex < maximumReadIndex
    BY <1>2 DEF LooksEmpty, IndexOrder, TypeOK
  <2>5. PopSnapshots'
    BY <1>2, <2>4 DEF PopSnapshots, TypeOK, Threads, CellOf
  <2> QED BY <2>1, <2>2, <2>3, <2>5
<1> QED BY <1>1, <1>2

LEMMA PopCopyInv ==
    ASSUME IInv, NEW c \in Consumers, PopCopy(c)
    PROVE  IInv'
<1> USE DEF PopCopy, Goto, indexes, results, IInv
<1>1. TypeOK'
  BY DEF TypeOK, Threads
<1>2. IndexOrder'
  BY DEF IndexOrder
<1>3. Claims' /\ PushSnapshots'
  BY Sizes DEF Claims, PushSnapshots, TypeOK, Threads, CellOf
<1>4. PopSnapshots'
  BY DEF PopSnapshots, TypeOK, Threads, CellOf
<1> QED BY <1>1, <1>2, <1>3, <1>4

\* The winner of a position was the only one to see it unread.
LEMMA PopCasInv ==
    ASSUME IInv, NEW c \in Consumers, PopCas(c)
    PROVE  IInv'
<1> USE DEF PopCas, Goto, Return, results, IInv
<1>1. CASE ~CasSucceeds(readIndex, currentReadIndex[c])
  <2>1. /\ UNCHANGED <<indexes, theQueue, locals, results>>
        /\ pc' = [pc EXCEPT ![c] = "popRead"]
    BY <1>1 DEF indexes
  <2> HIDE DEF PopCas
  <2> USE DEF indexes, locals
  <2>2. TypeOK'
    BY <2>1 DEF TypeOK, Threads
  <2>3. IndexOrder'
    BY <2>1 DEF IndexOrder
  <2>4. Claims' /\ PushSnapshots'
    BY <2>1, Sizes DEF Claims, PushSnapshots, TypeOK, Threads, CellOf
  <2>5. PopSnapshots'
    BY <2>1 DEF PopSnapshots, TypeOK, Threads, CellOf
  <2> QED BY <2>2, <2>3, <2>4, <2>5
<1>2. CASE CasSucceeds(readIndex, currentReadIndex[c])
  <2>1. /\ readIndex' = readIndex + 1
        /\ popped' = [popped EXCEPT ![c] = data[c]]
        /\ Return(c)
        /\ UNCHANGED <<writeIndex, maximumReadIndex, theQueue, accepted>>
        /\ readIndex + 1 - currentReadIndex[c] < Wrap
        /\ pc[c] = "casRead"
    BY <1>2 DEF Unlapped, At, Threads
  <2> HIDE DEF PopCas
  <2>2. /\ currentReadIndex[c] \in Nat /\ currentReadIndex[c] <= readIndex
        /\ readIndex \in Nat /\ maximumReadIndex \in Nat /\ writeIndex \in Nat
    BY <2>1 DEF PopSnapshots, TypeOK, Threads
  <2>3. readIndex = currentReadIndex[c]
    BY <1>2, <2>1, <2>2, CasExact, Sizes
  <2>4. readIndex < maximumReadIndex
    BY <2>1, <2>3 DEF PopSnapshots
  <2>5. TypeOK'
    BY <2>1, Sizes DEF TypeOK, Threads
  <2>6. IndexOrder'
    BY <2>1, <2>2, <2>4, Sizes DEF IndexOrder
  <2>7. Claims'
    BY <2>1, Sizes DEF Claims, TypeOK, Threads, CellOf
  <2>8. PushSnapshots'
    BY <2>1, <2>2, Sizes DEF PushSnapshots, TypeOK, Threads
  <2>9. PopSnapshots'
    BY <2>1, <2>2 DEF PopSnapshots, TypeOK, Threads, CellOf
  <2> QED BY <2>5, <2>6, <2>7, <2>8, <2>9
<1> QED BY <1>1, <1>2

LEMMA StepIInv == IInv /\ [Next]_vars => IInv'
<1> SUFFICES ASSUME IInv, [Next]_vars PROVE IInv'
  OBVIOUS
<1>1. CASE UNCHANGED vars
  BY <1>1 DEF vars, indexes, locals, results, IInv, TypeOK, IndexOrder, Claims,
              PushSnapshots, PopSnapshots, CellOf
<1>2. ASSUME NEW p \in Producers, NEW x \in Items, StartPush(p, x)
      PROVE  IInv'
  BY <1>2, StartPushInv
<1>3. ASSUME NEW p \in Producers, PushStep(p)
      PROVE  IInv'
  BY <1>3, PushReadWriteInv, PushReadReadInv, PushCasInv, PushStoreInv, PushCommitInv
     DEF PushStep
<1>4. ASSUME NEW c \in Consumers, StartPop(c) \/ PopStep(c)
      PROVE  IInv'
  BY <1>4, StartPopInv, PopReadReadInv, PopReadMaximumInv, PopCopyInv, PopCasInv
     DEF PopStep
<1> QED BY <1>1, <1>2, <1>3, <1>4 DEF Next

\* The inductive invariant holds in every reachable state.
THEOREM InductiveInvariant == Spec => []IInv
  BY InitIInv, StepIInv, PTL DEF Spec

-----------------------------------------------------------------------------
(* What follows from it. *)

\* Type correctness.
THEOREM TypeCorrect == Spec => []TypeOK
<1>1. IInv => TypeOK
  BY DEF IInv
<1> QED BY <1>1, InductiveInvariant, PTL

\* The indexes are ordered and no claim ever laps the reader.
THEOREM IndexesOrdered == Spec => []IndexOrder
<1>1. IInv => IndexOrder
  BY DEF IInv
<1> QED BY <1>1, InductiveInvariant, PTL

\* A producer writes only a cell that nobody else writes or may yet read.
THEOREM CellsExclusive == Spec => []CellExclusive
<1>1. IInv => CellExclusive
  <2> SUFFICES ASSUME IInv, NEW p \in Producers, pc[p] = "store"
               PROVE  LET cell == CountToIndex(currentWriteIndex[p]) IN
                      /\ \A q \in Producers \ {p} : pc[q] = "store" =>
                             CountToIndex(currentWriteIndex[q]) # cell
                      /\ \A c \in readIndex .. maximumReadIndex - 1 :
                             CountToIndex(c) # cell
    BY DEF CellExclusive
  <2>1. /\ readIndex \in Nat /\ maximumReadIndex \in Nat /\ writeIndex \in Nat
        /\ readIndex <= maximumReadIndex /\ writeIndex < readIndex + QSize
    BY DEF IInv, TypeOK, IndexOrder
  <2>2. ASSUME NEW q \in Producers, pc[q] = "store"
        PROVE  /\ currentWriteIndex[q] \in Nat
               /\ maximumReadIndex <= currentWriteIndex[q]
               /\ currentWriteIndex[q] < writeIndex
    BY <2>2 DEF IInv, TypeOK, Claims, Threads
  <2>3. ASSUME NEW q \in Producers \ {p}, pc[q] = "store"
        PROVE  CountToIndex(currentWriteIndex[q]) # CountToIndex(currentWriteIndex[p])
    <3>1. currentWriteIndex[q] # currentWriteIndex[p]
      BY <2>3 DEF IInv, Claims
    <3>2. currentWriteIndex[q] < currentWriteIndex[p] \/ currentWriteIndex[p] < currentWriteIndex[q]
      BY <3>1, <2>2, <2>3
    <3> QED BY <3>2, <2>1, <2>2, <2>3, CellsDiffer, Sizes
  <2>4. ASSUME NEW c \in readIndex .. maximumReadIndex - 1
        PROVE  CountToIndex(c) # CountToIndex(currentWriteIndex[p])
    BY <2>1, <2>2, <2>4, CellsDiffer, Sizes
  <2> QED BY <2>3, <2>4
<1> QED BY <1>1, InductiveInvariant, PTL

-----------------------------------------------------------------------------
(* The queue implements a bounded FIFO queue. *)

Pushing == [p \in Producers |-> IF pc[p] = "idle" THEN NoItem ELSE data[p]]
Popping == [c \in Consumers |-> pc[c] # "idle"]

\* The mapped queue, as a sequence.
LEMMA UnreadIsSeq ==
    ASSUME IInv
    PROVE  /\ maximumReadIndex - readIndex \in Nat
           /\ Unread \in Seq(Items \cup {NoItem})
           /\ Len(Unread) = maximumReadIndex - readIndex
           /\ \A i \in 1 .. maximumReadIndex - readIndex : Unread[i] = CellOf(readIndex + i - 1)
<1>1. readIndex \in Nat /\ maximumReadIndex \in Nat /\ readIndex <= maximumReadIndex
  BY DEF IInv, TypeOK, IndexOrder
<1>2. maximumReadIndex - readIndex \in Nat
  BY <1>1
<1>3. ASSUME NEW i \in 1 .. maximumReadIndex - readIndex
      PROVE  CellOf(readIndex + i - 1) \in Items \cup {NoItem}
  BY <1>1, <1>3, CellRange DEF IInv, TypeOK, CellOf
<1>4. Unread \in [1 .. maximumReadIndex - readIndex -> Items \cup {NoItem}]
  BY <1>3 DEF Unread
<1> QED BY <1>2, <1>4 DEF Unread

\* A step that leaves the indexes and the unread cells alone leaves the queue.
LEMMA SameUnread ==
    ASSUME IInv, UNCHANGED <<readIndex, maximumReadIndex>>,
           \A c \in readIndex .. maximumReadIndex - 1 : CellOf(c)' = CellOf(c)
    PROVE  Unread' = Unread
<1>1. readIndex \in Nat /\ maximumReadIndex \in Nat
  BY DEF IInv, TypeOK
<1>2. ASSUME NEW i \in 1 .. maximumReadIndex - readIndex
      PROVE  CellOf(readIndex + i - 1)' = CellOf(readIndex + i - 1)
  <2>1. readIndex + i - 1 \in readIndex .. maximumReadIndex - 1
    BY <1>1, <1>2
  <2> QED BY <2>1 DEF CellOf
<1> QED BY <1>2 DEF Unread

LEMMA InitRefines == Init => Fifo!Init
<1> SUFFICES ASSUME Init PROVE Fifo!Init
  OBVIOUS
<1>1. Unread = << >>
  BY Sizes DEF Init, Unread
<1>2. Pushing = [p \in Producers |-> NoItem] /\ Popping = [c \in Consumers |-> FALSE]
  BY DEF Init, Threads, Pushing, Popping
<1> QED BY <1>1, <1>2 DEF Init, Fifo!Init, Pushing, Popping

\* The steps that change nothing a user of the queue can see.
Hidden(t) == /\ UNCHANGED <<readIndex, maximumReadIndex, results>>
             /\ pc[t] # "idle" /\ pc'[t] # "idle"
             /\ \A u \in Threads \ {t} : pc'[u] = pc[u]
             /\ \A p \in Producers : data'[p] = data[p]
             /\ \A c \in readIndex .. maximumReadIndex - 1 : CellOf(c)' = CellOf(c)

LEMMA HiddenStutters ==
    ASSUME IInv, NEW t \in Threads, Hidden(t)
    PROVE  UNCHANGED Fifo!vars
<1>1. Unread' = Unread
  BY SameUnread DEF Hidden
<1>2. Pushing' = Pushing /\ Popping' = Popping
  BY DEF Hidden, Pushing, Popping, Threads
<1> QED BY <1>1, <1>2 DEF Fifo!vars, Hidden, results, Pushing, Popping

LEMMA PushHidden ==
    ASSUME IInv, NEW p \in Producers,
           \/ PushReadWrite(p)
           \/ PushReadRead(p) /\ pc'[p] # "idle"
           \/ PushCas(p)
           \/ PushStore(p)
    PROVE  Hidden(p)
<1> USE DEF Goto, indexes, locals, results, Threads, CellOf, Hidden
<1>1. CASE PushReadWrite(p)
  BY <1>1 DEF PushReadWrite, IInv, TypeOK
<1>2. CASE PushReadRead(p) /\ pc'[p] # "idle"
  BY <1>2 DEF PushReadRead, Return, IInv, TypeOK
<1>3. CASE PushCas(p)
  BY <1>3 DEF PushCas, IInv, TypeOK
<1>4. CASE PushStore(p)
  <2>1. /\ currentWriteIndex[p] \in Nat /\ readIndex \in Nat /\ maximumReadIndex \in Nat
        /\ readIndex <= maximumReadIndex /\ maximumReadIndex <= currentWriteIndex[p]
        /\ currentWriteIndex[p] < readIndex + QSize
    BY <1>4, Sizes DEF PushStore, IInv, TypeOK, IndexOrder, Claims
  <2>2. \A c \in readIndex .. maximumReadIndex - 1 : CountToIndex(c) # CountToIndex(currentWriteIndex[p])
    BY <2>1, CellsDiffer, Sizes
  <2>3. \A c \in readIndex .. maximumReadIndex - 1 :
           theQueue'[CountToIndex(c)] = theQueue[CountToIndex(c)]
    BY <2>1, <2>2, <1>4, CellRange DEF PushStore, IInv, TypeOK
  <2> QED BY <1>4, <2>3 DEF PushStore, IInv, TypeOK
<1> QED BY <1>1, <1>2, <1>3, <1>4

LEMMA PopHidden ==
    ASSUME IInv, NEW c \in Consumers,
           \/ PopReadRead(c)
           \/ PopReadMaximum(c) /\ pc'[c] # "idle"
           \/ PopCopy(c)
           \/ PopCas(c) /\ pc'[c] # "idle"
    PROVE  Hidden(c)
<1> USE Sizes DEF Goto, indexes, locals, results, Threads, CellOf, Hidden
<1>1. CASE PopReadRead(c)
  BY <1>1 DEF PopReadRead, IInv, TypeOK
<1>2. CASE PopReadMaximum(c) /\ pc'[c] # "idle"
  BY <1>2 DEF PopReadMaximum, Return, IInv, TypeOK
<1>3. CASE PopCopy(c)
  BY <1>3 DEF PopCopy, IInv, TypeOK
<1>4. CASE PopCas(c) /\ pc'[c] # "idle"
  BY <1>4 DEF PopCas, Return, IInv, TypeOK
<1> QED BY <1>1, <1>2, <1>3, <1>4

\* The steps that start, decide or end a call.
LEMMA StartPushRefines ==
    ASSUME IInv, NEW p \in Producers, NEW x \in Items, StartPush(p, x)
    PROVE  Fifo!CallPush(p, x)
<1> USE DEF StartPush, Goto, indexes, IInv, TypeOK, Threads
<1>1. Unread' = Unread
  BY SameUnread DEF CellOf
<1>2. Pushing[p] = NoItem /\ Pushing' = [Pushing EXCEPT ![p] = x]
  BY DEF Pushing
<1>3. Popping' = Popping
  BY Sizes DEF Popping
<1> QED BY <1>1, <1>2, <1>3 DEF Fifo!CallPush, Pushing, Popping

LEMMA RefuseRefines ==
    ASSUME IInv, NEW p \in Producers, PushReadRead(p), pc'[p] = "idle"
    PROVE  Fifo!Refuse(p)
<1> USE DEF PushReadRead, Goto, indexes, IInv, TypeOK, Threads
<1>1. accepted' = [accepted EXCEPT ![p] = FALSE] /\ Return(p) /\ popped' = popped
  OBVIOUS
<1>2. Unread' = Unread
  BY SameUnread DEF CellOf
<1>3. Pushing[p] # NoItem
  BY Sizes DEF Pushing, Claims
<1>4. Pushing' = [Pushing EXCEPT ![p] = NoItem]
  BY <1>1 DEF Pushing, Return
<1>5. Popping' = Popping
  BY <1>1, Sizes DEF Popping, Return
<1> QED BY <1>1, <1>2, <1>3, <1>4, <1>5 DEF Fifo!Refuse, Pushing, Popping

LEMMA CommitRefines ==
    ASSUME IInv, NEW p \in Producers, PushCommit(p)
    PROVE  Fifo!Enqueue(p)
<1> USE DEF PushCommit, Goto, Return, results, Threads
<1>1. /\ currentWriteIndex[p] \in Nat /\ maximumReadIndex <= currentWriteIndex[p]
      /\ currentWriteIndex[p] < writeIndex
      /\ writeIndex \in Nat /\ readIndex \in Nat /\ maximumReadIndex \in Nat
      /\ readIndex <= maximumReadIndex /\ writeIndex < readIndex + QSize
      /\ data[p] \in Items /\ CellOf(currentWriteIndex[p]) = data[p]
  BY DEF Claims, IndexOrder, TypeOK, IInv
<1>2. maximumReadIndex = currentWriteIndex[p]
  <2>1. CasSucceeds(currentWriteIndex[p], maximumReadIndex)
    BY DEF CasSucceeds
  <2>2. currentWriteIndex[p] < maximumReadIndex + Wrap
    BY <1>1, Sizes
  <2> QED BY <2>1, <2>2, <1>1, CasExact
<1>3. Len(Unread) < QSize - 1
  BY <1>1, <1>2, UnreadIsSeq, Sizes
<1>4. Pushing[p] = data[p] /\ data[p] # NoItem
  BY <1>1, Sizes DEF Pushing
<1>5. Unread' = Append(Unread, Pushing[p])
  <2> DEFINE n == maximumReadIndex - readIndex
  <2>1. Unread' = [i \in 1 .. n + 1 |-> CellOf(readIndex + i - 1)]
    BY <1>1 DEF Unread, CellOf
  <2>2. CellOf(readIndex + (n + 1) - 1) = Pushing[p]
    BY <1>1, <1>2, <1>4
  <2>3. Append(Unread, Pushing[p]) =
           [i \in 1 .. n + 1 |-> IF i = n + 1 THEN Pushing[p] ELSE Unread[i]]
    BY UnreadIsSeq
  <2>4. \A i \in 1 .. n + 1 :
          CellOf(readIndex + i - 1) = IF i = n + 1 THEN Pushing[p] ELSE Unread[i]
    <3> TAKE i \in 1 .. n + 1
    <3>1. CASE i = n + 1
      BY <3>1, <2>2
    <3>2. CASE i # n + 1
      <4>1. i \in 1 .. n
        BY <3>2, <1>1
      <4> QED BY <4>1, <3>2, UnreadIsSeq
    <3> QED BY <3>1, <3>2
  <2> HIDE DEF n
  <2> QED BY <2>1, <2>3, <2>4
<1>6. Pushing' = [Pushing EXCEPT ![p] = NoItem]
  BY DEF Pushing, IInv, TypeOK
<1>7. Popping' = Popping
  BY Sizes DEF Popping, IInv, TypeOK
<1> QED BY <1>3, <1>4, <1>5, <1>6, <1>7 DEF Fifo!Enqueue, Pushing, Popping

LEMMA StartPopRefines ==
    ASSUME IInv, NEW c \in Consumers, StartPop(c)
    PROVE  Fifo!CallPop(c)
<1> USE DEF StartPop, Goto, indexes, locals, IInv, TypeOK, Threads
<1>1. Unread' = Unread
  BY SameUnread DEF CellOf
<1>2. ~Popping[c] /\ Popping' = [Popping EXCEPT ![c] = TRUE]
  BY DEF Popping
<1>3. Pushing' = Pushing
  BY Sizes DEF Pushing
<1> QED BY <1>1, <1>2, <1>3 DEF Fifo!CallPop, Pushing, Popping

LEMMA NothingRefines ==
    ASSUME IInv, NEW c \in Consumers, PopReadMaximum(c), pc'[c] = "idle"
    PROVE  Fifo!FindNothing(c)
<1> USE DEF PopReadMaximum, Goto, indexes, IInv, TypeOK, Threads
<1>1. Return(c) /\ UNCHANGED <<indexes, theQueue, results>>
  OBVIOUS
<1>2. Unread' = Unread
  BY <1>1, SameUnread DEF CellOf
<1>3. Popping[c] /\ Popping' = [Popping EXCEPT ![c] = FALSE]
  BY <1>1 DEF Popping, Return
<1>4. Pushing' = Pushing
  BY <1>1, Sizes DEF Pushing, Return
<1> QED BY <1>1, <1>2, <1>3, <1>4 DEF Fifo!FindNothing, Pushing, Popping, results

LEMMA WinRefines ==
    ASSUME IInv, NEW c \in Consumers, PopCas(c), pc'[c] = "idle"
    PROVE  Fifo!Dequeue(c)
<1> USE DEF Goto, Threads
<1>1. /\ CasSucceeds(readIndex, currentReadIndex[c])
      /\ readIndex' = readIndex + 1
      /\ popped' = [popped EXCEPT ![c] = data[c]]
      /\ Return(c)
      /\ UNCHANGED <<writeIndex, maximumReadIndex, theQueue, accepted>>
      /\ readIndex + 1 - currentReadIndex[c] < Wrap
      /\ pc[c] = "casRead"
  BY DEF PopCas, Unlapped, At, IInv, TypeOK
<1>2. /\ currentReadIndex[c] \in Nat /\ currentReadIndex[c] <= readIndex
      /\ readIndex \in Nat /\ maximumReadIndex \in Nat
  BY <1>1 DEF IInv, PopSnapshots, TypeOK
<1>3. readIndex = currentReadIndex[c]
  BY <1>1, <1>2, CasExact, Sizes
<1>4. readIndex < maximumReadIndex /\ data[c] = CellOf(readIndex)
  BY <1>1, <1>3 DEF IInv, PopSnapshots
<1> DEFINE n == maximumReadIndex - readIndex
<1>5. Unread # << >> /\ Head(Unread) = data[c]
  <2>1. Len(Unread) > 0 /\ Unread[1] = CellOf(readIndex + 1 - 1)
    BY <1>2, <1>4, UnreadIsSeq
  <2> QED BY <2>1, <1>2, <1>4
<1>6. Unread' = Tail(Unread)
  <2>1. Unread' = [i \in 1 .. n - 1 |-> CellOf((readIndex + 1) + i - 1)]
    BY <1>1, <1>2 DEF Unread, CellOf
  <2>2. /\ Tail(Unread) \in Seq(Items \cup {NoItem}) /\ Len(Tail(Unread)) = n - 1
        /\ \A i \in 1 .. n - 1 : Tail(Unread)[i] = Unread[i + 1]
    BY <1>5, UnreadIsSeq
  <2>5. Tail(Unread) \in [1 .. n - 1 -> Items \cup {NoItem}]
    BY <2>2, LenProperties
  <2>3. \A i \in 1 .. n - 1 : CellOf((readIndex + 1) + i - 1) = Unread[i + 1]
    <3> TAKE i \in 1 .. n - 1
    <3>1. i + 1 \in 1 .. n /\ (readIndex + 1) + i - 1 = readIndex + (i + 1) - 1
      BY <1>2
    <3> QED BY <3>1, UnreadIsSeq
  <2> HIDE DEF n
  <2> QED BY <2>1, <2>2, <2>3, <2>5
<1>7. Popping[c] /\ Popping' = [Popping EXCEPT ![c] = FALSE]
  BY <1>1 DEF Popping, Return, IInv, TypeOK
<1>8. Pushing' = Pushing
  BY <1>1, Sizes DEF Pushing, Return, IInv, TypeOK
<1> QED BY <1>1, <1>5, <1>6, <1>7, <1>8 DEF Fifo!Dequeue, Pushing, Popping

LEMMA StepRefines == IInv /\ [Next]_vars => [Fifo!Next]_(Fifo!vars)
<1> SUFFICES ASSUME IInv, [Next]_vars PROVE Fifo!Next \/ UNCHANGED Fifo!vars
  OBVIOUS
<1>1. CASE UNCHANGED vars
  <2>1. Unread' = Unread /\ Pushing' = Pushing /\ Popping' = Popping
    BY <1>1 DEF vars, indexes, locals, results, Unread, CellOf, Pushing, Popping
  <2> QED BY <1>1, <2>1 DEF vars, results, Fifo!vars, Pushing, Popping
<1>2. ASSUME NEW p \in Producers, NEW x \in Items, StartPush(p, x)
      PROVE  Fifo!Next
  BY <1>2, StartPushRefines DEF Fifo!Next
<1>3. ASSUME NEW p \in Producers, PushStep(p)
      PROVE  Fifo!Next \/ UNCHANGED Fifo!vars
  <2>1. CASE PushCommit(p)
    BY <2>1, CommitRefines DEF Fifo!Next
  <2>2. CASE PushReadRead(p) /\ pc'[p] = "idle"
    BY <2>2, RefuseRefines DEF Fifo!Next
  <2>3. CASE ~PushCommit(p) /\ ~(PushReadRead(p) /\ pc'[p] = "idle")
    <3>1. Hidden(p)
      BY <1>3, <2>3, PushHidden DEF PushStep
    <3> QED BY <3>1, HiddenStutters DEF Threads
  <2> QED BY <2>1, <2>2, <2>3
<1>4. ASSUME NEW c \in Consumers, StartPop(c) \/ PopStep(c)
      PROVE  Fifo!Next \/ UNCHANGED Fifo!vars
  <2>1. CASE StartPop(c)
    BY <2>1, StartPopRefines DEF Fifo!Next
  <2>2. CASE PopReadMaximum(c) /\ pc'[c] = "idle"
    BY <2>2, NothingRefines DEF Fifo!Next
  <2>3. CASE PopCas(c) /\ pc'[c] = "idle"
    BY <2>3, WinRefines DEF Fifo!Next
  <2>4. CASE /\ ~StartPop(c)
             /\ ~(PopReadMaximum(c) /\ pc'[c] = "idle")
             /\ ~(PopCas(c) /\ pc'[c] = "idle")
    <3>1. Hidden(c)
      BY <1>4, <2>4, PopHidden DEF PopStep
    <3> QED BY <3>1, HiddenStutters DEF Threads
  <2> QED BY <2>1, <2>2, <2>3, <2>4
<1> QED BY <1>1, <1>2, <1>3, <1>4 DEF Next

\* Every behaviour of the lock-free queue is one of the bounded FIFO queue:
\* each call takes effect at one moment between its start and its return.
THEOREM Linearizable == Spec => IsFifo
<1>1. Spec => Fifo!Spec
  BY InitRefines, StepRefines, InductiveInvariant, PTL DEF Spec, Fifo!Spec
<1> QED BY <1>1 DEF IsFifo
-----------------------------------------------------------------------------
(* Why a call fails.  The observer only watches: what holds of the queue     *)
(* holds of the observed queue.                                              *)

\* A call that may still fail has seen the queue as it is now, and whoever
\* compares with a position that is no longer the current one was overtaken.
SeenInv ==
    /\ \A t \in Threads : Undecided(t) =>
          /\ IsFull => "full" \in seen[t]
          /\ IsEmpty => "empty" \in seen[t]
    /\ \A p \in Producers :
          pc[p] = "readRead" /\ currentWriteIndex[p] # writeIndex => "raced" \in seen[p]
    /\ \A c \in Consumers :
          pc[c] = "popMax" /\ currentReadIndex[c] # readIndex => "raced" \in seen[c]

\* The position a thread compares with is the current one when it is read,
\* and the thread keeps it.
LEMMA SnapshotsKept ==
    ASSUME TypeOK, Next
    PROVE  /\ \A p \in Producers : pc'[p] = "readRead" =>
                 \/ pc[p] = "readRead" /\ currentWriteIndex'[p] = currentWriteIndex[p]
                 \/ currentWriteIndex'[p] = writeIndex /\ writeIndex' = writeIndex
           /\ \A c \in Consumers : pc'[c] = "popMax" =>
                 \/ pc[c] = "popMax" /\ currentReadIndex'[c] = currentReadIndex[c]
                 \/ currentReadIndex'[c] = readIndex /\ readIndex' = readIndex
<1> DEFINE Kept(t) ==
        /\ t \in Producers /\ pc'[t] = "readRead" =>
              \/ pc[t] = "readRead" /\ currentWriteIndex'[t] = currentWriteIndex[t]
              \/ currentWriteIndex'[t] = writeIndex /\ writeIndex' = writeIndex
        /\ t \in Consumers /\ pc'[t] = "popMax" =>
              \/ pc[t] = "popMax" /\ currentReadIndex'[t] = currentReadIndex[t]
              \/ currentReadIndex'[t] = readIndex /\ readIndex' = readIndex
<1> USE Sizes DEF TypeOK, Threads, Goto, Return, locals, indexes, results
<1>1. ASSUME NEW p \in Producers, NEW x \in Items, StartPush(p, x), NEW t \in Threads PROVE Kept(t)
  BY <1>1 DEF StartPush
<1>2. ASSUME NEW p \in Producers, PushReadWrite(p), NEW t \in Threads PROVE Kept(t)
  BY <1>2 DEF PushReadWrite
<1>3. ASSUME NEW p \in Producers, PushReadRead(p), NEW t \in Threads PROVE Kept(t)
  BY <1>3 DEF PushReadRead
<1>4. ASSUME NEW p \in Producers, PushCas(p), NEW t \in Threads PROVE Kept(t)
  BY <1>4 DEF PushCas
<1>5. ASSUME NEW p \in Producers, PushStore(p) \/ PushCommit(p), NEW t \in Threads PROVE Kept(t)
  BY <1>5 DEF PushStore, PushCommit
<1>6. ASSUME NEW c \in Consumers, StartPop(c) \/ PopReadRead(c), NEW t \in Threads PROVE Kept(t)
  BY <1>6 DEF StartPop, PopReadRead
<1>7. ASSUME NEW c \in Consumers, PopReadMaximum(c) \/ PopCopy(c), NEW t \in Threads PROVE Kept(t)
  BY <1>7 DEF PopReadMaximum, PopCopy
<1>8. ASSUME NEW c \in Consumers, PopCas(c), NEW t \in Threads PROVE Kept(t)
  BY <1>8 DEF PopCas
<1>9. \A t \in Threads : Kept(t)
  <2> HIDE DEF Kept
  <2> QED BY <1>1, <1>2, <1>3, <1>4, <1>5, <1>6, <1>7, <1>8 DEF Next, PushStep, PopStep
<1> QED BY <1>9

LEMMA ObsInitSeen == ObsInit => SeenInv
  BY DEF ObsInit, Init, SeenInv, Undecided, Threads

LEMMA ObsNextSeen == TypeOK /\ SeenInv /\ [Next /\ Observe]_obsVars => SeenInv'
<1> SUFFICES ASSUME TypeOK, SeenInv, [Next /\ Observe]_obsVars PROVE SeenInv'
  OBVIOUS
<1>1. CASE UNCHANGED obsVars
  BY <1>1 DEF obsVars, vars, indexes, SeenInv, Undecided, IsFull, IsEmpty, locals
<1>2. CASE Next /\ Observe
  <2>1. ASSUME NEW t \in Threads
        PROVE  seen'[t] =
                 IF ~Undecided(t)' THEN {}
                 ELSE (IF Undecided(t) THEN seen[t] ELSE {})
                      \cup (IF IsFull' THEN {"full"} ELSE {})
                      \cup (IF IsEmpty' THEN {"empty"} ELSE {})
                      \cup (IF IF t \in Producers THEN writeIndex' # writeIndex
                                                ELSE readIndex' # readIndex
                            THEN {"raced"} ELSE {})
    BY <1>2 DEF Observe
  <2>2. ASSUME NEW t \in Threads, Undecided(t)'
        PROVE  (IsFull' => "full" \in seen'[t]) /\ (IsEmpty' => "empty" \in seen'[t])
    BY <2>1, <2>2
  <2>3. ASSUME NEW p \in Producers, pc'[p] = "readRead", currentWriteIndex'[p] # writeIndex'
        PROVE  "raced" \in seen'[p]
    <3>1. p \in Threads /\ Undecided(p)'
      BY <2>3 DEF Undecided, Threads
    <3>2. CASE writeIndex' # writeIndex
      BY <3>1, <3>2, <2>1
    <3>3. CASE writeIndex' = writeIndex
      <4>1. pc[p] = "readRead" /\ currentWriteIndex'[p] = currentWriteIndex[p]
        BY <1>2, <2>3, <3>3, SnapshotsKept
      <4>2. "raced" \in seen[p] /\ Undecided(p)
        BY <2>3, <3>3, <4>1 DEF SeenInv, Undecided
      <4> QED BY <3>1, <4>2, <2>1
    <3> QED BY <3>2, <3>3
  <2>4. ASSUME NEW c \in Consumers, pc'[c] = "popMax", currentReadIndex'[c] # readIndex'
        PROVE  "raced" \in seen'[c]
    <3>1. c \in Threads /\ c \notin Producers /\ Undecided(c)'
      BY <2>4, Sizes DEF Undecided, Threads
    <3>2. CASE readIndex' # readIndex
      BY <3>1, <3>2, <2>1
    <3>3. CASE readIndex' = readIndex
      <4>1. pc[c] = "popMax" /\ currentReadIndex'[c] = currentReadIndex[c]
        BY <1>2, <2>4, <3>3, SnapshotsKept
      <4>2. "raced" \in seen[c] /\ Undecided(c)
        BY <2>4, <3>3, <4>1 DEF SeenInv, Undecided
      <4> QED BY <3>1, <4>2, <2>1
    <3> QED BY <3>2, <3>3
  <2> QED BY <2>2, <2>3, <2>4 DEF SeenInv
<1> QED BY <1>1, <1>2

LEMMA ObservedQueue == ObsSpec => []IInv /\ []SeenInv
<1>1. ObsInit => IInv /\ SeenInv
  BY InitIInv, ObsInitSeen DEF ObsInit
<1>2. IInv /\ SeenInv /\ [Next /\ Observe]_obsVars => IInv' /\ SeenInv'
  <2>1. [Next /\ Observe]_obsVars => [Next]_vars
    BY DEF obsVars
  <2> QED BY <2>1, StepIInv, ObsNextSeen DEF IInv
<1> QED BY <1>1, <1>2, PTL DEF ObsSpec

\* A push that returns false either found the queue full during the call or
\* was overtaken by another producer (LockFreeQueueImpl.h:114-124).
THEOREM RefusalsHaveACause == ObsSpec => PushFailureHasCause
<1>1. ASSUME IInv, SeenInv, Next, NEW p \in Producers, Refused(p)
      PROVE  seen[p] \cap {"full", "raced"} # {}
  <2>1. p \in Threads /\ pc[p] = "readRead" /\ pc'[p] = "idle"
    BY <1>1 DEF Refused, Threads
  <2>2. PushReadRead(p) /\ LooksFull(currentWriteIndex[p], readIndex)
    <3>1. pc \in [Threads -> {"idle", "readWrite", "readRead", "casWrite", "store", "commit",
                              "popRead", "popMax", "copy", "casRead"}]
      BY <1>1 DEF IInv, TypeOK
    <3>2. Producers \subseteq Threads /\ Consumers \subseteq Threads /\ p \notin Consumers
      BY Sizes DEF Threads
    <3>3. ASSUME NEW q \in Producers, NEW x \in Items, StartPush(q, x) PROVE FALSE
      BY <3>1, <3>2, <3>3, <2>1 DEF StartPush, Goto
    <3>4. ASSUME NEW q \in Producers, PushStep(q)
          PROVE  PushReadRead(p) /\ LooksFull(currentWriteIndex[p], readIndex)
      BY <3>1, <3>2, <3>4, <2>1
         DEF PushStep, PushReadWrite, PushReadRead, PushCas, PushStore, PushCommit, Goto, Return
    <3>5. ASSUME NEW c \in Consumers, StartPop(c) \/ PopStep(c) PROVE FALSE
      BY <3>1, <3>2, <3>5, <2>1
         DEF StartPop, PopStep, PopReadRead, PopReadMaximum, PopCopy, PopCas, Goto, Return
    <3> QED BY <1>1, <3>3, <3>4, <3>5 DEF Next
  <2>3. CASE currentWriteIndex[p] # writeIndex
    BY <1>1, <2>1, <2>3 DEF SeenInv
  <2>4. CASE currentWriteIndex[p] = writeIndex
    <3>1. /\ writeIndex \in Nat /\ readIndex \in Nat /\ readIndex <= writeIndex
          /\ writeIndex < readIndex + QSize
      BY <1>1 DEF IInv, TypeOK, IndexOrder
    <3>2. CountToIndex(writeIndex + 1) = CountToIndex(readIndex)
      BY <2>2, <2>4 DEF LooksFull
    <3>3. ~(writeIndex + 1 < readIndex + QSize)
      BY <3>1, <3>2, CellsDiffer, Sizes
    <3>4. IsFull
      BY <3>1, <3>3, Sizes DEF IsFull
    <3> QED BY <1>1, <2>1, <3>4 DEF SeenInv, Undecided
  <2> QED BY <2>3, <2>4
<1>2. IInv /\ SeenInv /\ [Next /\ Observe]_obsVars =>
        [\A p \in Producers : Refused(p) => seen[p] \cap {"full", "raced"} # {}]_obsVars
  BY <1>1
<1> QED BY <1>2, ObservedQueue, PTL DEF ObsSpec, PushFailureHasCause

\* A pop that returns false either found the queue empty during the call or
\* was overtaken by another consumer (LockFreeQueueImpl.h:161-173).
THEOREM EmptyPopsHaveACause == ObsSpec => PopFailureHasCause
<1>1. ASSUME IInv, SeenInv, Next, NEW c \in Consumers, FoundNothing(c)
      PROVE  seen[c] \cap {"empty", "raced"} # {}
  <2>1. c \in Threads /\ pc[c] = "popMax" /\ pc'[c] = "idle"
    BY <1>1 DEF FoundNothing, Threads
  <2>2. LooksEmpty(currentReadIndex[c], maximumReadIndex)
    <3>1. pc \in [Threads -> {"idle", "readWrite", "readRead", "casWrite", "store", "commit",
                              "popRead", "popMax", "copy", "casRead"}]
      BY <1>1 DEF IInv, TypeOK
    <3>2. Producers \subseteq Threads /\ Consumers \subseteq Threads /\ c \notin Producers
      BY Sizes DEF Threads
    <3>3. ASSUME NEW q \in Producers, NEW x \in Items, StartPush(q, x) PROVE FALSE
      BY <3>1, <3>2, <3>3, <2>1 DEF StartPush, Goto
    <3>4. ASSUME NEW q \in Producers, PushStep(q) PROVE FALSE
      BY <3>1, <3>2, <3>4, <2>1
         DEF PushStep, PushReadWrite, PushReadRead, PushCas, PushStore, PushCommit, Goto, Return
    <3>5. ASSUME NEW d \in Consumers, StartPop(d) \/ PopStep(d)
          PROVE  LooksEmpty(currentReadIndex[c], maximumReadIndex)
      BY <3>1, <3>2, <3>5, <2>1
         DEF StartPop, PopStep, PopReadRead, PopReadMaximum, PopCopy, PopCas, Goto, Return
    <3> QED BY <1>1, <3>3, <3>4, <3>5 DEF Next
  <2>3. CASE currentReadIndex[c] # readIndex
    BY <1>1, <2>1, <2>3 DEF SeenInv
  <2>4. CASE currentReadIndex[c] = readIndex
    <3>1. /\ maximumReadIndex \in Nat /\ readIndex \in Nat /\ writeIndex \in Nat
          /\ readIndex <= maximumReadIndex /\ maximumReadIndex <= writeIndex
          /\ writeIndex < readIndex + QSize
      BY <1>1 DEF IInv, TypeOK, IndexOrder
    <3>2. CountToIndex(readIndex) = CountToIndex(maximumReadIndex)
      BY <2>2, <2>4 DEF LooksEmpty
    <3>3. ~(readIndex < maximumReadIndex)
      BY <3>1, <3>2, CellsDiffer, Sizes
    <3>4. IsEmpty
      BY <3>1, <3>3 DEF IsEmpty
    <3> QED BY <1>1, <2>1, <3>4 DEF SeenInv, Undecided
  <2> QED BY <2>3, <2>4
<1>2. IInv /\ SeenInv /\ [Next /\ Observe]_obsVars =>
        [\A c \in Consumers : FoundNothing(c) => seen[c] \cap {"empty", "raced"} # {}]_obsVars
  BY <1>1
<1> QED BY <1>2, ObservedQueue, PTL DEF ObsSpec, PopFailureHasCause
=============================================================================
