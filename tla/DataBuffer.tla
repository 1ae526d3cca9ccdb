----------------------------- MODULE DataBuffer -----------------------------
(***************************************************************************)
(* One size class of the pooled, reference-counted buffers in which every  *)
(* packet lives (Common/DataBuffer/DataBuffer.h).  A buffer is on the list *)
(* of the used or on that of the free; none is ever given back to the      *)
(* heap.  Both operations hold the manager's lock, so each is one step.    *)
(***************************************************************************)
EXTENDS LinkedList

CONSTANT Buffers  \* addresses of CDataBuffer; bound: how many new can make

Lists == {"used", "free"}

ASSUME BufferAssumption == IsFiniteSet(Buffers) /\ NULL \notin Buffers \cup Lists

VARIABLES created,  \* the buffers new has made
          links,    \* m_pNext, m_pPrev, m_pUsedList, m_pFreeList
          refs      \* m_dwRefCount

buffers == <<created, links, refs>>

BufferInit ==
    /\ created = {}
    /\ links = [next |-> [b \in Buffers |-> NULL], prev |-> [b \in Buffers |-> NULL],
                head |-> [h \in Lists |-> NULL]]
    /\ refs = [b \in Buffers |-> 0]

\* The first free buffer, or a new one if there is none.
AllocDataBuff(b) ==
    /\ IF links.head["free"] = NULL
       THEN /\ b \in Buffers \ created
            /\ created' = created \cup {b}
            /\ links' = PushFront(links, b, "used")
       ELSE /\ b = links.head["free"]
            /\ links' = PushFront(Unlink(links, b, "free"), b, "used")
            /\ UNCHANGED created
    /\ refs' = [refs EXCEPT ![b] = @ + 1]

\* Release takes a buffer for one of the used list without looking: it follows
\* the link to the one before, unless the buffer is the first of the used.
Reachable(b) == refs[b] > 1 \/ links.head["used"] = b \/ links.prev[b] # NULL

\* Variants named as in NetEngine.
ReleaseStillUsed(b) ==
    /\ Reachable(b)
    /\ refs' = [refs EXCEPT ![b] = @ - 1]
    /\ links' = IF refs[b] > 1 THEN links ELSE PushFront(links, b, "free")
    /\ UNCHANGED created

Release(b) ==
    /\ Reachable(b)
    /\ refs' = [refs EXCEPT ![b] = @ - 1]
    /\ links' = IF refs[b] > 1 THEN links
                ELSE PushFront(Unlink(links, b, "used"), b, "free")
    /\ UNCHANGED created

\* The link is NULL: the server stops here, the lock in hand.
ReleaseStops(b) ==
    /\ ~Reachable(b)
    /\ refs' = [refs EXCEPT ![b] = @ - 1]
    /\ UNCHANGED <<created, links>>
=============================================================================
