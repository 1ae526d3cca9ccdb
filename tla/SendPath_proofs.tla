--------------------------- MODULE SendPath_proofs ---------------------------
(***************************************************************************)
(* The buffers have one owner as long as sends do not overlap, and the     *)
(* pool's lists stay lists in any case, for every number of buffers,       *)
(* connections, event threads and sends.                                   *)
(***************************************************************************)
EXTENDS SendPath, LinkedList_proofs

\* The lists of the pool are lists, of the buffers that were created, and
\* while sends have not overlapped the used ones have one reference.
Pool(on, place) ==
    /\ Chained(links, on, place, Buffers, Lists)
    /\ \A b \in Buffers : on[b] = NULL <=> b \notin created
    /\ ~overlapped => \A b \in Buffers : refs[b] = IF on[b] = "used" THEN 1 ELSE 0

PoolLinked == \E on, place : Pool(on, place)

\* What the two uses of a connection's overlapped structure rely on.
SendsApart ==
    /\ \A t, u \in Threads : releasing[t] # NULL /\ releasing[u] # NULL /\ t # u
                                => releasing[t].io # releasing[u].io
    /\ ~overlapped => \A i, j \in inflight : /\ overlap[i.conn] = i.buf
                                             /\ i.conn = j.conn => i = j
                                             /\ i.conn # posting

IInv == TypeOK /\ PoolLinked /\ SendsApart /\ OneOwner

LEMMA Assumptions ==
    /\ NULL \notin Buffers /\ NULL \notin Lists /\ NULL \notin Threads /\ NULL \notin Conns
    /\ Fixed \notin Buffers /\ Fixed # NULL /\ MaxSends \in Nat
  BY BufferAssumption, SendAssumption
-----------------------------------------------------------------------------
(* The operations of the pool.                                               *)

\* A buffer that is allocated comes from outside the used list and goes there.
LEMMA AllocKeepsPool ==
    ASSUME NEW on, NEW place, Pool(on, place), NEW b \in Buffers, AllocDataBuff(b),
           overlapped' = overlapped, refs \in [Buffers -> Int]
    PROVE  /\ on[b] # "used"
           /\ \E place2 : Pool([on EXCEPT ![b] = "used"], place2)'
           /\ refs' = [refs EXCEPT ![b] = @ + 1]
<1> DEFINE on2 == [on EXCEPT ![b] = "used"]
<1>1. /\ Chained(links, on, place, Buffers, Lists)
      /\ on \in [Buffers -> Lists \cup {NULL}]
      /\ \A c \in Buffers : on[c] = NULL <=> c \notin created
  BY DEF Pool, Chained, Linked
<1>2. refs' = [refs EXCEPT ![b] = @ + 1]
  BY DEF AllocDataBuff
<1>3. "used" \in Lists /\ "free" \in Lists
  BY DEF Lists
<1>4. ASSUME on[b] # "used",
             NEW place2, Chained(links', on2, place2, Buffers, Lists),
             created' = created \cup {b}
      PROVE  Pool(on2, place2)'
  <2>1. \A c \in Buffers : on2[c] = NULL <=> c \notin created'
    BY <1>1, <1>3, <1>4, Assumptions
  <2>2. ~overlapped' => \A c \in Buffers : refs'[c] = IF on2[c] = "used" THEN 1 ELSE 0
    BY <1>1, <1>2, <1>4 DEF Pool
  <2> QED BY <2>1, <2>2, <1>4 DEF Pool
<1>5. CASE links.head["free"] = NULL
  <2>1. b \in Buffers \ created /\ links' = PushFront(links, b, "used") /\ created' = created \cup {b}
    BY <1>5 DEF AllocDataBuff
  <2>2. on[b] = NULL
    BY <2>1, <1>1
  <2>3. Chained(links', on2, PlaceInFront(links, place, b, "used"), Buffers, Lists)
    BY <2>1, <2>2, <1>1, <1>3, Assumptions, PushFrontChains
  <2> QED BY <2>1, <2>2, <2>3, <1>2, <1>3, <1>4, Assumptions
<1>6. CASE links.head["free"] # NULL
  <2> DEFINE l == Unlink(links, b, "free")
             on1 == [on EXCEPT ![b] = NULL]
  <2>1. b = links.head["free"] /\ links' = PushFront(l, b, "used") /\ created' = created
    BY <1>6 DEF AllocDataBuff
  <2>2. on[b] = "free"
    BY <2>1, <1>1, <1>3, <1>6 DEF Chained, Linked
  <2>3. Chained(l, on1, place, Buffers, Lists)
    BY <2>2, <1>1, <1>3, Assumptions, UnlinkChains
  <2>4. on1[b] = NULL /\ [on1 EXCEPT ![b] = "used"] = on2
    BY <1>1
  <2> HIDE DEF l, on1
  <2>5. Chained(PushFront(l, b, "used"), [on1 EXCEPT ![b] = "used"], PlaceInFront(l, place, b, "used"),
                Buffers, Lists)
    BY <2>3, <2>4, <1>3, Assumptions, PushFrontChains
  <2>6. Chained(links', on2, PlaceInFront(l, place, b, "used"), Buffers, Lists)
    BY <2>1, <2>4, <2>5
  <2>7. created' = created \cup {b}
    BY <2>1, <2>2, <1>1, <1>3, Assumptions
  <2> QED BY <2>2, <2>6, <2>7, <1>2, <1>3, <1>4, Assumptions
<1> QED BY <1>5, <1>6

\* A buffer with one reference is on the used list, where Release finds it.
LEMMA HeldIsReachable ==
    ASSUME NEW on, NEW place, Pool(on, place), NEW b \in Buffers, ~overlapped, refs[b] = 1
    PROVE  on[b] = "used" /\ Reachable(b)
  BY Assumptions DEF Pool, Reachable, Chained, Linked, Lists

LEMMA ReleaseKeepsPool ==
    ASSUME NEW on, NEW place, Pool(on, place), NEW b \in Buffers, Release(b),
           refs \in [Buffers -> Int], ~overlapped' => ~overlapped /\ refs[b] = 1
    PROVE  \E on2, place2 : Pool(on2, place2)'
<1>1. /\ Chained(links, on, place, Buffers, Lists)
      /\ on \in [Buffers -> Lists \cup {NULL}]
      /\ \A c \in Buffers : on[c] = NULL <=> c \notin created
  BY DEF Pool, Chained, Linked
<1>2. /\ refs' = [refs EXCEPT ![b] = @ - 1]
      /\ created' = created
      /\ Reachable(b)
      /\ "used" \in Lists /\ "free" \in Lists
  BY DEF Release, Lists
<1>3. CASE refs[b] > 1
  <2>1. links' = links /\ overlapped'
    BY <1>3 DEF Release
  <2>2. Pool(on, place)'
    BY <2>1, <1>1, <1>2 DEF Pool
  <2> QED BY <2>2
<1>4. CASE ~(refs[b] > 1)
  <2> DEFINE l == Unlink(links, b, "used")
             on1 == [on EXCEPT ![b] = NULL]
             on2 == [on EXCEPT ![b] = "free"]
  <2>1. links' = PushFront(l, b, "free")
    BY <1>4 DEF Release
  <2>2. \/ on[b] = "used"
        \/ links.head["used"] # b /\ links.prev[b] # NULL
    BY <1>1, <1>2, <1>4, Assumptions DEF Reachable, Chained, Linked
  <2>3. on[b] # NULL
    BY <2>2, <1>1, <1>2, Assumptions DEF Chained, Linked
  <2>4. Chained(l, on1, place, Buffers, Lists)
    BY <2>2, <1>1, <1>2, Assumptions, UnlinkChains
  <2>5. on1[b] = NULL /\ [on1 EXCEPT ![b] = "free"] = on2
    BY <1>1
  <2>6. \A c \in Buffers : on2[c] = IF c = b THEN "free" ELSE on[c]
    BY <1>1
  <2> HIDE DEF l, on1, on2
  <2>7. Chained(PushFront(l, b, "free"), [on1 EXCEPT ![b] = "free"], PlaceInFront(l, place, b, "free"),
                Buffers, Lists)
    BY <2>4, <2>5, <1>2, Assumptions, PushFrontChains
  <2>8. Chained(links', on2, PlaceInFront(l, place, b, "free"), Buffers, Lists)
    BY <2>1, <2>5, <2>7
  <2>9. \A c \in Buffers : on2[c] = NULL <=> c \notin created'
    BY <2>3, <2>6, <1>1, <1>2, Assumptions
  <2>10. ~overlapped' => \A c \in Buffers : refs'[c] = IF on2[c] = "used" THEN 1 ELSE 0
    BY <2>6, <1>2 DEF Pool
  <2>11. ASSUME NEW on3, NEW place3, on3 = on2, place3 = PlaceInFront(l, place, b, "free")
         PROVE  Pool(on3, place3)'
    BY <2>8, <2>9, <2>10, <2>11 DEF Pool
  <2> QED BY <2>11
<1> QED BY <1>3, <1>4

\* What the steps below need of an allocation,
LEMMA Allocated ==
    ASSUME IInv, NEW b \in Buffers, AllocDataBuff(b), overlapped' = overlapped
    PROVE  /\ PoolLinked'
           /\ created' \subseteq Buffers /\ ListType(links', Buffers, Lists)
           /\ refs' = [refs EXCEPT ![b] = @ + 1]
           /\ ~overlapped => refs[b] = 0
<1>1. PICK on, place : Pool(on, place)
  BY DEF IInv, PoolLinked
<1>2. refs \in [Buffers -> Int] /\ created \subseteq Buffers
  BY DEF IInv, TypeOK
<1>3. /\ on[b] # "used"
      /\ \E place2 : Pool([on EXCEPT ![b] = "used"], place2)'
      /\ refs' = [refs EXCEPT ![b] = @ + 1]
  BY <1>1, <1>2, AllocKeepsPool
<1>4. PICK place2 : Pool([on EXCEPT ![b] = "used"], place2)'
  BY <1>3
<1>5. created' \subseteq Buffers
  BY <1>2 DEF AllocDataBuff
<1>6. ~overlapped => refs[b] = 0
  BY <1>1, <1>3 DEF Pool
<1> QED BY <1>3, <1>4, <1>5, <1>6 DEF PoolLinked, Pool, Chained

\* and of a release.
LEMMA Released ==
    ASSUME IInv, NEW b \in Buffers, Release(b) \/ ReleaseStops(b),
           ~overlapped' => ~overlapped /\ refs[b] = 1
    PROVE  /\ PoolLinked'
           /\ created' \subseteq Buffers /\ ListType(links', Buffers, Lists)
           /\ refs' = [refs EXCEPT ![b] = @ - 1]
           /\ ~overlapped' => Reachable(b)
<1>1. PICK on, place : Pool(on, place)
  BY DEF IInv, PoolLinked
<1>2. refs \in [Buffers -> Int] /\ created \subseteq Buffers
  BY DEF IInv, TypeOK
<1>3. refs' = [refs EXCEPT ![b] = @ - 1] /\ created' = created
  BY DEF Release, ReleaseStops
<1>4. ~overlapped' => Reachable(b)
  BY <1>1, HeldIsReachable
<1>5. CASE Release(b)
  <2>1. PICK on2, place2 : Pool(on2, place2)'
    BY <1>1, <1>2, <1>5, ReleaseKeepsPool
  <2> QED BY <2>1, <1>2, <1>3, <1>4 DEF PoolLinked, Pool, Chained
<1>6. CASE ReleaseStops(b)
  <2>1. overlapped' /\ links' = links
    BY <1>4, <1>6 DEF ReleaseStops
  <2>2. Pool(on, place)'
    BY <2>1, <1>1, <1>3 DEF Pool
  <2> QED BY <2>2, <1>2, <1>3, <1>4 DEF PoolLinked, Pool, Chained
<1> QED BY <1>5, <1>6

\* Without either, the pool is as it was.
LEMMA PoolUnchanged ==
    ASSUME IInv, UNCHANGED buffers, overlapped => overlapped'
    PROVE  PoolLinked'
<1>1. PICK on, place : Pool(on, place)
  BY DEF IInv, PoolLinked
<1>2. Pool(on, place)'
  BY <1>1 DEF Pool, buffers
<1> QED BY <1>2 DEF PoolLinked
-----------------------------------------------------------------------------
(* The actions.                                                              *)

LEMMA InitIInv == Init => IInv
<1> SUFFICES ASSUME Init PROVE IInv
  OBVIOUS
<1>1. TypeOK /\ SendsApart /\ OneOwner
  <2>1. /\ created = {} /\ refs = [b \in Buffers |-> 0]
        /\ links = [next |-> [b \in Buffers |-> NULL], prev |-> [b \in Buffers |-> NULL],
                    head |-> [h \in Lists |-> NULL]]
        /\ composing = NULL /\ posting = NULL /\ queued = {}
        /\ overlap = [c \in Conns |-> NULL] /\ releasing = [t \in Threads |-> NULL]
        /\ sent = 0 /\ inflight = {} /\ ~overlapped /\ ~stopped
        /\ overlapped \in BOOLEAN /\ stopped \in BOOLEAN
    BY DEF Init, BufferInit
  <2>2. TypeOK
    BY <2>1 DEF TypeOK, MaybeBuffer
  <2> QED BY <2>1, <2>2, Assumptions DEF SendsApart, OneOwner
<1>2. Pool([b \in Buffers |-> NULL], [b \in Buffers |-> 0])
  <2>1. ListType(links, Buffers, Lists)
    BY DEF Init, BufferInit, ListType, Maybe
  <2>2. Linked(links, [b \in Buffers |-> NULL], Buffers, Lists)
    BY DEF Init, BufferInit, Linked
  <2>3. Ordered(links, [b \in Buffers |-> 0], Buffers)
    BY DEF Init, BufferInit, Ordered
  <2>4. \A b \in Buffers : refs[b] = 0 /\ b \notin created
    BY DEF Init, BufferInit
  <2>5. NULL # "used"
    BY Assumptions DEF Lists
  <2> QED BY <2>1, <2>2, <2>3, <2>4, <2>5 DEF Pool, Chained
<1> QED BY <1>1, <1>2 DEF IInv, PoolLinked

LEMMA ComposeStep == IInv /\ posting = NULL /\ Compose => IInv'
<1> SUFFICES ASSUME IInv, posting = NULL, Compose PROVE IInv'
  OBVIOUS
<1>1. PICK b \in Buffers : AllocDataBuff(b) /\ composing' = b
  BY DEF Compose
<1>2. /\ composing = NULL /\ ~stopped
      /\ UNCHANGED <<posting, queued, overlap, sent, inflight, releasing, overlapped, stopped>>
  BY DEF Compose, sends
<1>3. /\ PoolLinked'
      /\ created' \subseteq Buffers /\ ListType(links', Buffers, Lists)
      /\ refs' = [refs EXCEPT ![b] = @ + 1]
      /\ ~overlapped => refs[b] = 0
  BY <1>1, <1>2, Allocated
<1>4. TypeOK'
  BY <1>1, <1>2, <1>3 DEF IInv, TypeOK, MaybeBuffer, Sendable, ListType, Maybe
<1>5. SendsApart'
  BY <1>2 DEF IInv, SendsApart
<1>6. OneOwner'
  BY <1>1, <1>2, <1>3 DEF IInv, TypeOK, OneOwner, Sends, Sendable
<1> QED BY <1>3, <1>4, <1>5, <1>6 DEF IInv

LEMMA ComposeFixedStep == IInv /\ posting = NULL /\ ComposeFixed => IInv'
<1> SUFFICES ASSUME IInv, posting = NULL, ComposeFixed PROVE IInv'
  OBVIOUS
<1>1. /\ composing = NULL /\ composing' = Fixed /\ ~stopped
      /\ UNCHANGED <<buffers, posting, queued, overlap, sent, inflight, releasing, overlapped, stopped>>
  BY DEF ComposeFixed, sends
<1>2. PoolLinked'
  BY <1>1, PoolUnchanged
<1>3. TypeOK'
  BY <1>1 DEF IInv, TypeOK, Sendable, buffers
<1>4. SendsApart'
  BY <1>1 DEF IInv, SendsApart
<1>5. OneOwner'
  BY <1>1, Assumptions DEF IInv, TypeOK, OneOwner, Sends, Sendable, buffers
<1> QED BY <1>2, <1>3, <1>4, <1>5 DEF IInv

LEMMA ReceiveStep == ASSUME NEW t \in Threads PROVE IInv /\ Receive(t) => IInv'
<1> SUFFICES ASSUME IInv, Receive(t) PROVE IInv'
  OBVIOUS
<1>1. PICK b \in Buffers : AllocDataBuff(b) /\ queued' = queued \cup {b}
  BY DEF Receive
<1>2. UNCHANGED <<composing, posting, overlap, sent, inflight, releasing, overlapped, stopped>>
  BY DEF Receive, sends
<1>3. /\ PoolLinked'
      /\ created' \subseteq Buffers /\ ListType(links', Buffers, Lists)
      /\ refs' = [refs EXCEPT ![b] = @ + 1]
      /\ ~overlapped => refs[b] = 0
  BY <1>1, <1>2, Allocated
<1>4. TypeOK'
  BY <1>1, <1>2, <1>3 DEF IInv, TypeOK, MaybeBuffer, ListType, Maybe
<1>5. SendsApart'
  BY <1>2 DEF IInv, SendsApart
<1>6. OneOwner'
  BY <1>1, <1>2, <1>3, Assumptions DEF IInv, TypeOK, OneOwner, Sends, Sendable
<1> QED BY <1>3, <1>4, <1>5, <1>6 DEF IInv

\* A connection whose overlapped structure is cleared has no send in flight, or
\* sends overlap.
LEMMA PrepareStep == ASSUME NEW c \in Conns PROVE IInv /\ Prepare(c) => IInv'
<1> SUFFICES ASSUME IInv, Prepare(c) PROVE IInv'
  OBVIOUS
<1>1. /\ composing # NULL /\ posting = NULL /\ posting' = c /\ ~stopped
      /\ overlap' = [overlap EXCEPT ![c] = NULL]
      /\ overlapped' = (overlapped \/ \E io \in inflight : io.conn = c)
      /\ UNCHANGED <<buffers, composing, queued, sent, inflight, releasing, stopped>>
  BY DEF Prepare
<1>2. PoolLinked'
  BY <1>1, PoolUnchanged
<1>3. TypeOK'
  BY <1>1 DEF IInv, TypeOK, buffers
<1>4. /\ \A i \in inflight : i.conn \in Conns
      /\ \A d \in Conns : overlap'[d] = IF d = c THEN NULL ELSE overlap[d]
  BY <1>1 DEF IInv, TypeOK, Sends
<1>5. SendsApart'
  BY <1>1, <1>4 DEF IInv, SendsApart
<1>6. OneOwner'
  BY <1>1 DEF IInv, OneOwner, buffers
<1> QED BY <1>2, <1>3, <1>5, <1>6 DEF IInv

LEMMA PostStep == ASSUME NEW c \in Conns PROVE IInv /\ Post(c) => IInv'
<1> SUFFICES ASSUME IInv, Post(c) PROVE IInv'
  OBVIOUS
<1> DEFINE new == [conn |-> c, buf |-> composing, no |-> sent]
<1>1. /\ posting = c /\ posting' = NULL /\ composing' = NULL /\ ~stopped
      /\ overlap' = [overlap EXCEPT ![c] = composing]
      /\ sent' = sent + 1
      /\ overlapped' = overlapped
      /\ inflight' = inflight \cup {new}
      /\ UNCHANGED <<buffers, queued, releasing, stopped>>
  BY DEF Post, Submit
<1>2. PoolLinked'
  BY <1>1, PoolUnchanged
<1>3. composing \in Sendable /\ new \in Sends /\ new \notin inflight
  BY <1>1, Assumptions DEF IInv, TypeOK, Sendable, Sends
<1>4. TypeOK'
  BY <1>1, <1>3 DEF IInv, TypeOK, Sends, buffers
<1>5. /\ \A i \in inflight : i.conn \in Conns /\ i.buf \in Sendable
      /\ new.conn = c /\ new.buf = composing
      /\ \A d \in Conns : overlap'[d] = IF d = c THEN composing ELSE overlap[d]
      /\ refs' = refs
  BY <1>1 DEF IInv, TypeOK, Sends, buffers
<1> HIDE DEF new
<1>6. SendsApart'
  <2>1. ~overlapped' => \A i, j \in inflight' :
            overlap'[i.conn] = i.buf /\ (i.conn = j.conn => i = j) /\ i.conn # posting'
    BY <1>1, <1>5, Assumptions DEF IInv, SendsApart
  <2> QED BY <2>1, <1>1 DEF IInv, SendsApart
<1>7. OneOwner'
  <2>1. \A t \in Threads : releasing'[t] = releasing[t]
    BY <1>1
  <2> QED BY <2>1, <1>1, <1>3, <1>5, Assumptions DEF IInv, OneOwner, Sendable
<1> QED BY <1>2, <1>4, <1>6, <1>7 DEF IInv

LEMMA PostFailsStep == ASSUME NEW c \in Conns PROVE IInv /\ PostFails(c) => IInv'
<1> SUFFICES ASSUME IInv, PostFails(c) PROVE IInv'
  OBVIOUS
<1>1. /\ posting = c /\ posting' = NULL /\ composing' = NULL /\ ~stopped
      /\ overlap' = [overlap EXCEPT ![c] = composing]
      /\ sent' = sent + 1
      /\ overlapped' = overlapped
      /\ ReleaseBuffer(composing) \/ ReleaseBufferStops(composing)
      /\ stopped' = ~Releasable(composing)
      /\ UNCHANGED <<queued, releasing, inflight>>
  BY DEF PostFails, Submit
<1>2. composing \in Sendable
  BY <1>1, Assumptions DEF IInv, TypeOK, Sendable
<1>3. \A d \in Conns : overlap'[d] = IF d = c THEN composing ELSE overlap[d]
  BY <1>1 DEF IInv, TypeOK
<1>4. SendsApart'
  <2>1. \A i \in inflight : i.conn \in Conns
    BY DEF IInv, TypeOK, Sends
  <2> QED BY <2>1, <1>1, <1>3, Assumptions DEF IInv, SendsApart
<1>5. CASE composing = Fixed
  <2>1. UNCHANGED buffers /\ stopped'
    BY <1>1, <1>5 DEF ReleaseBuffer, ReleaseBufferStops, Releasable
  <2>2. PoolLinked'
    BY <2>1, <1>1, PoolUnchanged
  <2>3. TypeOK'
    BY <2>1, <1>1, <1>2 DEF IInv, TypeOK, Sends, buffers
  <2>4. \A i \in inflight : i.buf \in Sendable
    BY DEF IInv, TypeOK, Sends
  <2>5. overlap'[c] = Fixed /\ composing' \notin Buffers
    BY <1>1, <1>3, <1>5, Assumptions
  <2>6. OneOwner'
    BY <2>1, <2>4, <2>5, <1>1, Assumptions DEF IInv, OneOwner, Sendable, buffers
  <2> QED BY <2>2, <2>3, <2>6, <1>4 DEF IInv
<1>6. CASE composing \in Buffers
  <2>1. ~overlapped' => ~overlapped /\ refs[composing] = 1
    BY <1>1, <1>6 DEF IInv, OneOwner
  <2>2. /\ Release(composing) \/ ReleaseStops(composing)
        /\ stopped' = ~Reachable(composing)
    BY <1>1, <1>6, Assumptions DEF ReleaseBuffer, ReleaseBufferStops, Releasable
  <2>3. /\ PoolLinked'
        /\ created' \subseteq Buffers /\ ListType(links', Buffers, Lists)
        /\ refs' = [refs EXCEPT ![composing] = @ - 1]
        /\ ~overlapped' => Reachable(composing)
    BY <1>6, <2>1, <2>2, Released
  <2>4. TypeOK'
    <3>1. stopped' \in BOOLEAN
      BY <2>2
    <3>2. /\ inflight' \subseteq Sends /\ \A io \in inflight' : io.no < sent'
          /\ sent' \in Nat
      BY <1>1 DEF IInv, TypeOK, Sends
    <3>3. overlap' \in [Conns -> Sendable \cup {NULL}]
      BY <1>1, <1>2 DEF IInv, TypeOK
    <3>4. /\ posting' = NULL /\ composing' = NULL
          /\ UNCHANGED <<queued, releasing, inflight, overlapped>>
      BY <1>1
    <3>5. /\ created' \subseteq Buffers /\ refs' \in [Buffers -> Int]
          /\ links' \in [next : [Buffers -> MaybeBuffer], prev : [Buffers -> MaybeBuffer],
                         head : [Lists -> MaybeBuffer]]
      BY <1>6, <2>3 DEF IInv, TypeOK, MaybeBuffer, ListType, Maybe
    <3> QED BY <3>1, <3>2, <3>3, <3>4, <3>5 DEF IInv, TypeOK
  <2>5. OneOwner'
    <3>1. /\ \A i \in inflight : i.buf \in Sendable
          /\ \A b \in Buffers : b # composing => refs'[b] = refs[b]
          /\ queued \subseteq Buffers
      BY <1>6, <2>3 DEF IInv, TypeOK, Sends
    <3>2. CASE overlapped'
      BY <3>2 DEF OneOwner
    <3>3. CASE ~overlapped'
      <4>1. ~overlapped /\ ~stopped'
        BY <3>3, <1>1, <2>2, <2>3
      <4>2. \A i \in inflight' : i.buf = Fixed \/ (/\ i.buf # composing' /\ i.buf \notin queued'
                                                  /\ refs'[i.buf] = 1)
        BY <3>1, <4>1, <1>1, Assumptions DEF IInv, OneOwner, Sendable
      <4>3. \A b \in queued' : refs'[b] = 1
        BY <3>1, <4>1, <1>1, <1>6 DEF IInv, OneOwner
      <4> QED BY <4>1, <4>2, <4>3, <1>1, Assumptions DEF IInv, OneOwner
    <3> QED BY <3>2, <3>3
  <2> QED BY <2>3, <2>4, <2>5, <1>4 DEF IInv
<1> QED BY <1>2, <1>5, <1>6 DEF Sendable

LEMMA DispatchStep == IInv /\ Dispatch => IInv'
<1> SUFFICES ASSUME IInv, Dispatch PROVE IInv'
  OBVIOUS
<1>1. /\ queued' \subseteq queued
      /\ UNCHANGED <<buffers, composing, posting, overlap, sent, inflight, releasing, overlapped, stopped>>
  BY DEF Dispatch, sends
<1>2. PoolLinked'
  BY <1>1, PoolUnchanged
<1>3. TypeOK' /\ SendsApart' /\ OneOwner'
  BY <1>1 DEF IInv, TypeOK, SendsApart, OneOwner, buffers
<1> QED BY <1>2, <1>3 DEF IInv

LEMMA SendCompletedStep == ASSUME NEW t \in Threads PROVE IInv /\ SendCompleted(t) => IInv'
<1> SUFFICES ASSUME IInv, SendCompleted(t) PROVE IInv'
  OBVIOUS
<1>1. PICK io \in inflight : /\ \A u \in Threads : releasing[u] # NULL => releasing[u].io # io
                             /\ overlap[io.conn] # NULL
                             /\ releasing' = [releasing EXCEPT ![t] = [io |-> io, buf |-> overlap[io.conn]]]
  BY DEF SendCompleted, Completed, Waiting
<1>2. UNCHANGED <<buffers, composing, posting, queued, overlap, sent, inflight, overlapped, stopped>>
  BY DEF SendCompleted, logic
<1>3. io \in Sends /\ overlap[io.conn] \in Sendable
  BY <1>1 DEF IInv, TypeOK, Sends
<1>4. \A u \in Threads : releasing'[u] = IF u = t THEN [io |-> io, buf |-> overlap[io.conn]]
                                         ELSE releasing[u]
  BY <1>1 DEF IInv, TypeOK
<1>5. PoolLinked'
  BY <1>2, PoolUnchanged
<1>6. TypeOK'
  BY <1>1, <1>2, <1>3, <1>4 DEF IInv, TypeOK, buffers
<1>7. SendsApart'
  BY <1>1, <1>2, <1>4 DEF IInv, SendsApart
<1>8. OneOwner'
  BY <1>2, <1>4 DEF IInv, OneOwner, SendsApart, buffers
<1> QED BY <1>5, <1>6, <1>7, <1>8 DEF IInv

\* A cleared structure is met by a completion only if sends overlap.
LEMMA ClearedOverlaps ==
    ASSUME IInv, NEW io \in inflight, overlap[io.conn] = NULL
    PROVE  overlapped
  BY Assumptions DEF IInv, TypeOK, SendsApart, Sends, Sendable

LEMMA CompletedClearedStep ==
    ASSUME NEW t \in Threads PROVE IInv /\ CompletedCleared(t) => IInv'
<1> SUFFICES ASSUME IInv, CompletedCleared(t) PROVE IInv'
  OBVIOUS
<1>1. PICK io \in inflight : /\ \A u \in Threads : releasing[u] # NULL => releasing[u].io # io
                             /\ overlap[io.conn] = NULL
                             /\ inflight' = inflight \ {io}
  BY DEF CompletedCleared, Waiting
<1>2. UNCHANGED <<buffers, composing, posting, queued, overlap, sent, releasing, overlapped, stopped>>
  BY DEF CompletedCleared, logic
<1>3. overlapped
  BY <1>1, ClearedOverlaps
<1>4. PoolLinked'
  BY <1>2, PoolUnchanged
<1>5. TypeOK' /\ SendsApart' /\ OneOwner'
  BY <1>1, <1>2, <1>3 DEF IInv, TypeOK, SendsApart, OneOwner, buffers
<1> QED BY <1>4, <1>5 DEF IInv

LEMMA CompletedNullStep == ASSUME NEW t \in Threads PROVE IInv /\ CompletedNull(t) => IInv'
<1> SUFFICES ASSUME IInv, CompletedNull(t) PROVE IInv'
  OBVIOUS
<1>1. /\ \E io \in inflight : overlap[io.conn] = NULL
      /\ stopped' = TRUE
      /\ UNCHANGED <<buffers, composing, posting, queued, overlap, sent, inflight, releasing, overlapped>>
  BY DEF CompletedNull, Waiting, logic, sends
<1>2. overlapped
  BY <1>1, ClearedOverlaps
<1>3. PoolLinked'
  BY <1>1, PoolUnchanged
<1>4. TypeOK' /\ SendsApart' /\ OneOwner'
  BY <1>1, <1>2 DEF IInv, TypeOK, SendsApart, OneOwner, buffers
<1> QED BY <1>3, <1>4 DEF IInv

LEMMA ReleaseSentStep == ASSUME NEW t \in Threads PROVE IInv /\ ReleaseSent(t) => IInv'
<1> SUFFICES ASSUME IInv, ReleaseSent(t) PROVE IInv'
  OBVIOUS
<1> DEFINE b == releasing[t].buf
           io == releasing[t].io
<1>1. /\ releasing[t] # NULL
      /\ b # Fixed /\ Release(b)
      /\ inflight' = inflight \ {io}
      /\ releasing' = [releasing EXCEPT ![t] = NULL]
      /\ UNCHANGED <<composing, posting, queued, overlap, sent, overlapped, stopped>>
  BY DEF ReleaseSent, ReleaseBuffer, logic
<1>2. b \in Buffers /\ io \in inflight
  BY <1>1 DEF IInv, TypeOK, Sendable
<1>3. ~overlapped => b = io.buf /\ refs[b] = 1
  BY <1>1, <1>2 DEF IInv, OneOwner
<1>4. \A u \in Threads : releasing'[u] = IF u = t THEN NULL ELSE releasing[u]
  BY <1>1 DEF IInv, TypeOK
<1>5. \A u \in Threads : releasing'[u] # NULL => releasing'[u] = releasing[u] /\ releasing[u].io # io
  BY <1>1, <1>4 DEF IInv, SendsApart
<1> HIDE DEF b, io
<1>6. /\ PoolLinked'
      /\ created' \subseteq Buffers /\ ListType(links', Buffers, Lists)
      /\ refs' = [refs EXCEPT ![b] = @ - 1]
  BY <1>1, <1>2, <1>3, Released
<1>7. TypeOK'
  BY <1>1, <1>2, <1>4, <1>5, <1>6 DEF IInv, TypeOK, MaybeBuffer, ListType, Maybe
<1>8. SendsApart'
  BY <1>1, <1>4 DEF IInv, SendsApart
<1>9. OneOwner'
  BY <1>1, <1>2, <1>3, <1>5, <1>6 DEF IInv, TypeOK, OneOwner, Sends, Sendable
<1> QED BY <1>6, <1>7, <1>8, <1>9 DEF IInv

LEMMA ReleaseFailsStep == ASSUME NEW t \in Threads PROVE IInv /\ ReleaseFails(t) => IInv'
<1> SUFFICES ASSUME IInv, ReleaseFails(t) PROVE IInv'
  OBVIOUS
<1> DEFINE b == releasing[t].buf
           io == releasing[t].io
<1>1. /\ releasing[t] # NULL
      /\ ~Releasable(b) /\ ReleaseBufferStops(b)
      /\ stopped' = TRUE
      /\ UNCHANGED <<composing, posting, queued, overlap, sent, inflight, releasing, overlapped>>
  BY DEF ReleaseFails, logic, sends
<1>2. b \in Sendable /\ io \in inflight /\ io.conn \in Conns
  BY <1>1 DEF IInv, TypeOK, Sends
<1>3. ~overlapped => b = io.buf /\ (b # Fixed => refs[b] = 1) /\ overlap[io.conn] = io.buf
  BY <1>1, <1>2 DEF IInv, OneOwner, SendsApart
<1> HIDE DEF b, io
<1>4. CASE b = Fixed
  <2>1. UNCHANGED buffers
    BY <1>1, <1>4 DEF ReleaseBufferStops
  <2>2. PoolLinked'
    BY <2>1, <1>1, PoolUnchanged
  <2>3. TypeOK' /\ SendsApart'
    BY <2>1, <1>1 DEF IInv, TypeOK, SendsApart, buffers
  <2>4. OneOwner'
    BY <2>1, <1>1, <1>2, <1>3, <1>4 DEF IInv, OneOwner, buffers
  <2> QED BY <2>2, <2>3, <2>4 DEF IInv
<1>5. CASE b # Fixed
  <2>1. b \in Buffers /\ ReleaseStops(b) /\ ~Reachable(b)
    BY <1>1, <1>2, <1>5 DEF Sendable, Releasable, ReleaseBufferStops
  <2>2. /\ PoolLinked'
        /\ created' \subseteq Buffers /\ ListType(links', Buffers, Lists)
        /\ refs' = [refs EXCEPT ![b] = @ - 1]
        /\ ~overlapped' => Reachable(b)
    BY <2>1, <1>1, <1>3, <1>5, Released
  <2>3. overlapped
    BY <2>1, <2>2, <1>1
  <2>4. TypeOK' /\ SendsApart' /\ OneOwner'
    BY <1>1, <2>1, <2>2, <2>3 DEF IInv, TypeOK, SendsApart, OneOwner, MaybeBuffer, ListType, Maybe
  <2> QED BY <2>2, <2>4 DEF IInv
<1> QED BY <1>4, <1>5
-----------------------------------------------------------------------------
LEMMA NextIInv == IInv /\ [Next]_vars => IInv'
<1> SUFFICES ASSUME IInv, [Next]_vars PROVE IInv'
  OBVIOUS
<1>1. CASE UNCHANGED vars
  <2>1. PoolLinked'
    BY <1>1, PoolUnchanged DEF vars
  <2>2. TypeOK' /\ SendsApart' /\ OneOwner'
    BY <1>1 DEF IInv, TypeOK, SendsApart, OneOwner, vars, logic, sends, buffers
  <2> QED BY <2>1, <2>2 DEF IInv
<1>2. CASE Next
  BY <1>2, ComposeStep, ComposeFixedStep, DispatchStep, PrepareStep, PostStep, PostFailsStep,
     ReceiveStep, SendCompletedStep, CompletedClearedStep, CompletedNullStep, ReleaseSentStep,
     ReleaseFailsStep DEF Next, Logic, Event
<1> QED BY <1>1, <1>2

\* Every reachable state satisfies the inductive invariant.
THEOREM SendPathInvariant == Spec => []IInv
  BY InitIInv, NextIInv, PTL DEF Spec

\* TypeOK, for every number of buffers, connections and threads.
THEOREM TypeCorrect == Spec => []TypeOK
  BY SendPathInvariant, PTL DEF IInv

\* The lists of the pool are lists whatever is sent, received and released,
\* even twice (Release, DataBuffer.h:40-88).
THEOREM PoolStaysLinked == Spec => []PoolLinked
  BY SendPathInvariant, PTL DEF IInv

\* A walk along either list of the pool meets its buffers once each, whatever
\* is sent, received and released, and every buffer made is on one of them.
THEOREM PoolStaysSound == Spec => []PoolSound
<1>1. ASSUME PoolLinked, created \subseteq Buffers PROVE PoolSound
  <2>1. PICK on, place : Pool(on, place)
    BY <1>1 DEF PoolLinked
  <2>2. IsFiniteSet(Buffers) /\ NULL \notin Buffers /\ NULL \notin Lists
    BY BufferAssumption
  <2>3. \A h \in Lists : IsListOf(links, h, {b \in Buffers : on[b] = h})
    BY <2>1, <2>2, ChainedIsList DEF Pool
  <2> DEFINE used == {b \in Buffers : on[b] = "used"}
  <2>4. on \in [Buffers -> Lists \cup {NULL}]
    BY <2>1 DEF Pool, Chained, Linked
  <2>5. used \in SUBSET created /\ {b \in Buffers : on[b] = "free"} = created \ used
    BY <1>1, <2>1, <2>2, <2>4 DEF Pool, Lists
  <2>6. IsListOf(links, "used", used) /\ IsListOf(links, "free", created \ used)
    BY <2>3, <2>5 DEF Lists
  <2> HIDE DEF used
  <2> QED BY <2>5, <2>6 DEF PoolSound
<1>2. IInv => PoolSound
  BY <1>1 DEF IInv, TypeOK
<1> QED BY <1>2, SendPathInvariant, PTL

\* Each buffer in use has one owner and one reference as long as sends do not
\* overlap on a connection, which m_IsSending should ensure.
THEOREM BuffersHaveOneOwner == Spec => []OneOwner
  BY SendPathInvariant, PTL DEF IInv
=============================================================================
