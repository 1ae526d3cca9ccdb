-------------------------- MODULE LinkedList_proofs --------------------------
(***************************************************************************)
(* PushFront and Unlink keep lists lists, for every set of nodes and every *)
(* set of lists.                                                           *)
(***************************************************************************)
EXTENDS LinkedList, SetInduction, TLAPS

Maybe(N) == N \cup {NULL}

ListType(l, N, H) == l \in [next : [N -> Maybe(N)], prev : [N -> Maybe(N)], head : [H -> Maybe(N)]]

\* on says which list each node is on, if any.  A list begins at its head,
\* its nodes are linked both ways, and only its first node has none before it.
Linked(l, on, N, H) ==
    /\ on \in [N -> H \cup {NULL}]
    /\ \A h \in H : l.head[h] # NULL => on[l.head[h]] = h /\ l.prev[l.head[h]] = NULL
    /\ \A n \in N : l.next[n] # NULL => on[l.next[n]] = on[n] /\ l.prev[l.next[n]] = n
    /\ \A n \in N : l.prev[n] # NULL => on[l.prev[n]] = on[n] /\ l.next[l.prev[n]] = n
    /\ \A n \in N : on[n] # NULL /\ l.prev[n] = NULL => l.head[on[n]] = n
    /\ \A n \in N : on[n] = NULL => l.next[n] = NULL /\ l.prev[n] = NULL

\* The places of the nodes grow along a list: no list runs in a circle.
Ordered(l, place, N) ==
    /\ place \in [N -> Int]
    /\ \A n \in N : l.next[n] # NULL => place[n] < place[l.next[n]]

Chained(l, on, place, N, H) == ListType(l, N, H) /\ Linked(l, on, N, H) /\ Ordered(l, place, N)

\* Where n comes to stand when it is put first.
PlaceInFront(l, place, n, h) ==
    [place EXCEPT ![n] = IF l.head[h] = NULL THEN 0 ELSE place[l.head[h]] - 1]

\* The fields of the result, one by one.
LEMMA PushFrontLinks ==
    ASSUME NEW l, NEW N, NEW H, NEW n \in N, NEW h \in H, NULL \notin N, ListType(l, N, H)
    PROVE  LET p == PushFront(l, n, h) IN
           /\ ListType(p, N, H)
           /\ \A m \in N : p.next[m] = IF m = n THEN l.head[h] ELSE l.next[m]
           /\ \A m \in N : p.prev[m] = IF m = l.head[h] THEN n
                                       ELSE IF m = n THEN NULL ELSE l.prev[m]
           /\ \A k \in H : p.head[k] = IF k = h THEN n ELSE l.head[k]
  BY DEF PushFront, Put, ListType, Maybe

LEMMA UnlinkLinks ==
    ASSUME NEW l, NEW N, NEW H, NEW n \in N, NEW h \in H, NULL \notin N, ListType(l, N, H)
    PROVE  LET p == Unlink(l, n, h)
               before == IF l.head[h] = n THEN NULL ELSE l.prev[n]
           IN
           /\ ListType(p, N, H)
           /\ \A m \in N : p.next[m] = IF m = n THEN NULL
                                       ELSE IF m = before THEN l.next[n] ELSE l.next[m]
           /\ \A m \in N : p.prev[m] = IF m = n THEN NULL
                                       ELSE IF m = l.next[n] THEN before ELSE l.prev[m]
           /\ \A k \in H : p.head[k] = IF k = h /\ l.head[h] = n THEN l.next[n] ELSE l.head[k]
  BY DEF Unlink, Put, ListType, Maybe

\* A node that is on no list is the first of the list it is pushed on, and
\* all else stays on the list it was on.
THEOREM PushFrontChains ==
    ASSUME NEW l, NEW on, NEW place, NEW N, NEW H, NULL \notin N, NULL \notin H,
           Chained(l, on, place, N, H),
           NEW n \in N, NEW h \in H, on[n] = NULL
    PROVE  Chained(PushFront(l, n, h), [on EXCEPT ![n] = h], PlaceInFront(l, place, n, h), N, H)
<1> DEFINE p == PushFront(l, n, h)
           on2 == [on EXCEPT ![n] = h]
           place2 == PlaceInFront(l, place, n, h)
           first == l.head[h]
<1>1. /\ ListType(l, N, H)
      /\ Linked(l, on, N, H)
      /\ Ordered(l, place, N)
  BY DEF Chained
<1>2. /\ ListType(p, N, H)
      /\ \A m \in N : p.next[m] = IF m = n THEN first ELSE l.next[m]
      /\ \A m \in N : p.prev[m] = IF m = first THEN n ELSE IF m = n THEN NULL ELSE l.prev[m]
      /\ \A k \in H : p.head[k] = IF k = h THEN n ELSE l.head[k]
  BY <1>1, PushFrontLinks
<1>3. /\ on \in [N -> H \cup {NULL}]
      /\ \A m \in N : l.next[m] \in Maybe(N) /\ l.prev[m] \in Maybe(N)
      /\ \A k \in H : l.head[k] \in Maybe(N)
  BY <1>1 DEF Linked, ListType
<1>4. first # n /\ (first # NULL => first \in N /\ on[first] = h /\ l.prev[first] = NULL)
  BY <1>1, <1>3 DEF Linked, Maybe
<1>5. \A m \in N : on2[m] = IF m = n THEN h ELSE on[m]
  BY <1>3
<1>6. on2 \in [N -> H \cup {NULL}]
  BY <1>3
<1>7. l.next[n] = NULL /\ l.prev[n] = NULL
  BY <1>1 DEF Linked
<1>8. \A m \in N : l.next[m] # n /\ l.prev[m] # n
  BY <1>1, <1>3, <1>7 DEF Linked, Maybe
<1> HIDE DEF p, on2, first
<1>9. ASSUME NEW k \in H, p.head[k] # NULL
      PROVE  on2[p.head[k]] = k /\ p.prev[p.head[k]] = NULL
  <2>1. CASE k = h
    BY <2>1, <1>2, <1>4, <1>5
  <2>2. CASE k # h
    <3>1. p.head[k] = l.head[k] /\ l.head[k] \in N
      BY <2>2, <1>2, <1>3, <1>9 DEF Maybe
    <3>2. on[l.head[k]] = k /\ l.prev[l.head[k]] = NULL
      BY <1>1, <3>1, <1>9 DEF Linked
    <3>3. l.head[k] # n /\ l.head[k] # first
      BY <3>2, <2>2, <1>4, <3>1
    <3> QED BY <3>1, <3>2, <3>3, <1>2, <1>5
  <2> QED BY <2>1, <2>2
<1>10. ASSUME NEW m \in N, p.next[m] # NULL
       PROVE  on2[p.next[m]] = on2[m] /\ p.prev[p.next[m]] = m
  <2>1. CASE m = n
    BY <2>1, <1>2, <1>4, <1>5, <1>10
  <2>2. CASE m # n
    <3>1. p.next[m] = l.next[m] /\ l.next[m] \in N
      BY <2>2, <1>2, <1>3, <1>10 DEF Maybe
    <3>2. on[l.next[m]] = on[m] /\ l.prev[l.next[m]] = m
      BY <1>1, <3>1, <1>10 DEF Linked
    <3>3. l.next[m] # n /\ l.next[m] # first
      BY <3>2, <1>4, <1>8, <3>1
    <3> QED BY <3>1, <3>2, <3>3, <2>2, <1>2, <1>5
  <2> QED BY <2>1, <2>2
<1>11. ASSUME NEW m \in N, p.prev[m] # NULL
       PROVE  on2[p.prev[m]] = on2[m] /\ p.next[p.prev[m]] = m
  <2>1. CASE m = first
    BY <2>1, <1>2, <1>4, <1>5, <1>11
  <2>2. CASE m # first
    <3>1. m # n /\ p.prev[m] = l.prev[m] /\ l.prev[m] \in N
      BY <2>2, <1>2, <1>3, <1>11 DEF Maybe
    <3>2. on[l.prev[m]] = on[m] /\ l.next[l.prev[m]] = m
      BY <1>1, <3>1, <1>11 DEF Linked
    <3>3. l.prev[m] # n
      BY <1>8
    <3> QED BY <3>1, <3>2, <3>3, <1>2, <1>5
  <2> QED BY <2>1, <2>2
<1>12. ASSUME NEW m \in N, on2[m] # NULL, p.prev[m] = NULL
       PROVE  p.head[on2[m]] = m
  <2>1. CASE m = n
    BY <2>1, <1>2, <1>5
  <2>2. CASE m # n
    <3>1. m # first /\ l.prev[m] = NULL /\ on[m] # NULL /\ on2[m] = on[m]
      BY <2>2, <1>2, <1>5, <1>12
    <3>2. l.head[on[m]] = m /\ on[m] \in H
      BY <3>1, <1>1, <1>3 DEF Linked
    <3>3. on[m] # h
      BY <3>1, <3>2 DEF first
    <3> QED BY <3>1, <3>2, <3>3, <1>2
  <2> QED BY <2>1, <2>2
<1>13. ASSUME NEW m \in N, on2[m] = NULL
       PROVE  p.next[m] = NULL /\ p.prev[m] = NULL
  <2>1. m # n /\ on[m] = NULL
    BY <1>5, <1>13
  <2>2. m # first
    BY <2>1, <1>4
  <2> QED BY <2>1, <2>2, <1>1, <1>2 DEF Linked
<1>14. Linked(p, on2, N, H)
  BY <1>6, <1>9, <1>10, <1>11, <1>12, <1>13 DEF Linked
<1>15. Ordered(p, place2, N)
  <2>1. /\ place \in [N -> Int]
        /\ \A m \in N : l.next[m] # NULL => place[m] < place[l.next[m]]
    BY <1>1 DEF Ordered
  <2>2. /\ place2 \in [N -> Int]
        /\ \A m \in N : m # n => place2[m] = place[m]
        /\ first # NULL => place2[n] < place[first]
    BY <2>1, <1>4 DEF PlaceInFront, first
  <2> HIDE DEF place2
  <2>3. ASSUME NEW m \in N, p.next[m] # NULL
        PROVE  place2[m] < place2[p.next[m]]
    BY <2>1, <2>2, <2>3, <1>2, <1>3, <1>4, <1>8 DEF Maybe
  <2> QED BY <2>2, <2>3 DEF Ordered
<1> QED BY <1>2, <1>14, <1>15 DEF Chained, p, on2

\* A node leaves the list it is on; the list is named by h if the node is its
\* first, and found through the node before it otherwise.
THEOREM UnlinkChains ==
    ASSUME NEW l, NEW on, NEW place, NEW N, NEW H, NULL \notin N, NULL \notin H,
           Chained(l, on, place, N, H),
           NEW n \in N, NEW h \in H,
           \/ on[n] = h
           \/ l.head[h] # n /\ l.prev[n] # NULL
    PROVE  Chained(Unlink(l, n, h), [on EXCEPT ![n] = NULL], place, N, H)
<1> DEFINE p == Unlink(l, n, h)
           on2 == [on EXCEPT ![n] = NULL]
           before == IF l.head[h] = n THEN NULL ELSE l.prev[n]
           after == l.next[n]
<1>1. /\ ListType(l, N, H)
      /\ Linked(l, on, N, H)
      /\ Ordered(l, place, N)
  BY DEF Chained
<1>2. /\ ListType(p, N, H)
      /\ \A m \in N : p.next[m] = IF m = n THEN NULL ELSE IF m = before THEN after ELSE l.next[m]
      /\ \A m \in N : p.prev[m] = IF m = n THEN NULL ELSE IF m = after THEN before ELSE l.prev[m]
      /\ \A k \in H : p.head[k] = IF k = h /\ l.head[h] = n THEN after ELSE l.head[k]
  BY <1>1, UnlinkLinks
<1>3. /\ on \in [N -> H \cup {NULL}]
      /\ \A m \in N : l.next[m] \in Maybe(N) /\ l.prev[m] \in Maybe(N)
      /\ \A k \in H : l.head[k] \in Maybe(N)
  BY <1>1 DEF Linked, ListType
<1>4. /\ before \in Maybe(N) /\ after \in Maybe(N)
      /\ before = l.prev[n]
  BY <1>1, <1>3 DEF Linked, Maybe
<1>5. /\ before # NULL => before \in N /\ on[before] = on[n] /\ l.next[before] = n
      /\ after # NULL => after \in N /\ on[after] = on[n] /\ l.prev[after] = n
  BY <1>1, <1>3, <1>4 DEF Linked, Maybe
<1>6. on[n] # NULL /\ on[n] \in H
  BY <1>1, <1>3 DEF Linked
<1>7. before = NULL => on[n] = h /\ l.head[h] = n
  BY <1>1, <1>4, <1>6 DEF Linked
<1>8. \A m \in N : m # n => (l.next[m] = n <=> m = before) /\ (l.prev[m] = n <=> m = after)
  BY <1>1, <1>3, <1>4, <1>5 DEF Linked, Maybe
<1>9. before # n /\ after # n
  BY <1>1, <1>3, <1>4, <1>5 DEF Linked, Ordered, Maybe
<1>10. /\ \A m \in N : on2[m] = IF m = n THEN NULL ELSE on[m]
       /\ on2 \in [N -> H \cup {NULL}]
  BY <1>3
<1>11. \A k \in H : l.head[k] = n => k = on[n] /\ l.prev[n] = NULL
  BY <1>1 DEF Linked
<1> HIDE DEF p, on2, before, after
<1>12. ASSUME NEW k \in H, p.head[k] # NULL
       PROVE  on2[p.head[k]] = k /\ p.prev[p.head[k]] = NULL
  <2>1. CASE k = h /\ l.head[h] = n
    <3>1. p.head[k] = after /\ before = NULL /\ on[n] = k
      BY <2>1, <1>2, <1>4, <1>11
    <3> QED BY <3>1, <1>2, <1>5, <1>9, <1>10, <1>12
  <2>2. CASE ~(k = h /\ l.head[h] = n)
    <3>1. p.head[k] = l.head[k] /\ l.head[k] \in N
      BY <2>2, <1>2, <1>3, <1>12 DEF Maybe
    <3>2. on[l.head[k]] = k /\ l.prev[l.head[k]] = NULL
      BY <1>1, <3>1, <1>12 DEF Linked
    <3>3. l.head[k] # n
      BY <2>2, <3>2, <1>4, <1>7, <1>11
    <3>4. l.head[k] # after
      BY <3>1, <3>2, <1>5
    <3> QED BY <3>1, <3>2, <3>3, <3>4, <1>2, <1>10
  <2> QED BY <2>1, <2>2
<1>13. ASSUME NEW m \in N, p.next[m] # NULL
       PROVE  on2[p.next[m]] = on2[m] /\ p.prev[p.next[m]] = m
  <2>1. m # n
    BY <1>2, <1>13
  <2>2. CASE m = before
    BY <2>1, <2>2, <1>2, <1>5, <1>9, <1>10, <1>13
  <2>3. CASE m # before
    <3>1. p.next[m] = l.next[m] /\ l.next[m] \in N
      BY <2>1, <2>3, <1>2, <1>3, <1>13 DEF Maybe
    <3>2. on[l.next[m]] = on[m] /\ l.prev[l.next[m]] = m
      BY <1>1, <3>1, <1>13 DEF Linked
    <3>3. l.next[m] # n
      BY <2>1, <2>3, <1>8
    <3>4. l.next[m] # after
      BY <3>1, <3>2, <2>1, <1>5
    <3> QED BY <3>1, <3>2, <3>3, <3>4, <2>1, <1>2, <1>10
  <2> QED BY <2>2, <2>3
<1>14. ASSUME NEW m \in N, p.prev[m] # NULL
       PROVE  on2[p.prev[m]] = on2[m] /\ p.next[p.prev[m]] = m
  <2>1. m # n
    BY <1>2, <1>14
  <2>2. CASE m = after
    BY <2>1, <2>2, <1>2, <1>5, <1>9, <1>10, <1>14
  <2>3. CASE m # after
    <3>1. p.prev[m] = l.prev[m] /\ l.prev[m] \in N
      BY <2>1, <2>3, <1>2, <1>3, <1>14 DEF Maybe
    <3>2. on[l.prev[m]] = on[m] /\ l.next[l.prev[m]] = m
      BY <1>1, <3>1, <1>14 DEF Linked
    <3>3. l.prev[m] # n
      BY <2>1, <2>3, <1>8
    <3>4. l.prev[m] # before
      BY <3>1, <3>2, <2>1, <1>5
    <3> QED BY <3>1, <3>2, <3>3, <3>4, <2>1, <1>2, <1>10
  <2> QED BY <2>2, <2>3
<1>15. ASSUME NEW m \in N, on2[m] # NULL, p.prev[m] = NULL
       PROVE  p.head[on2[m]] = m
  <2>1. m # n /\ on2[m] = on[m] /\ on[m] \in H
    BY <1>3, <1>10, <1>15
  <2>2. CASE m = after
    BY <2>1, <2>2, <1>2, <1>5, <1>7, <1>15
  <2>3. CASE m # after
    <3>1. l.prev[m] = NULL /\ l.head[on[m]] = m
      BY <2>1, <2>3, <1>1, <1>2, <1>15 DEF Linked
    <3> QED BY <3>1, <2>1, <1>2
  <2> QED BY <2>2, <2>3
<1>16. ASSUME NEW m \in N, on2[m] = NULL
       PROVE  p.next[m] = NULL /\ p.prev[m] = NULL
  <2>1. CASE m = n
    BY <2>1, <1>2
  <2>2. CASE m # n
    <3>1. on[m] = NULL /\ l.next[m] = NULL /\ l.prev[m] = NULL
      BY <2>2, <1>1, <1>10, <1>16 DEF Linked
    <3>2. m # before /\ m # after
      BY <3>1, <1>5, <1>6
    <3> QED BY <3>1, <3>2, <2>2, <1>2
  <2> QED BY <2>1, <2>2
<1>17. Linked(p, on2, N, H)
  BY <1>10, <1>12, <1>13, <1>14, <1>15, <1>16 DEF Linked
<1>18. Ordered(p, place, N)
  <2>1. /\ place \in [N -> Int]
        /\ \A m \in N : l.next[m] # NULL => place[m] < place[l.next[m]]
    BY <1>1 DEF Ordered
  <2>2. ASSUME NEW m \in N, p.next[m] # NULL
        PROVE  place[m] < place[p.next[m]]
    <3>1. m # n
      BY <1>2, <2>2
    <3>2. CASE m = before
      <4>1. p.next[m] = after /\ after # NULL /\ l.next[m] = n /\ l.next[n] = after
        BY <3>1, <3>2, <1>2, <1>5, <2>2 DEF after
      <4>2. place[m] < place[n] /\ place[n] < place[after]
        BY <4>1, <2>1, <1>6, <1>3
      <4>3. place[m] \in Int /\ place[n] \in Int /\ place[after] \in Int
        BY <4>1, <2>1, <1>5
      <4> QED BY <4>1, <4>2, <4>3
    <3>3. CASE m # before
      BY <3>1, <3>3, <2>1, <2>2, <1>2
    <3> QED BY <3>2, <3>3
  <2> QED BY <2>1, <2>2 DEF Ordered
<1> QED BY <1>2, <1>17, <1>18 DEF Chained, p, on2

-----------------------------------------------------------------------------
(* What a walk along m_pNext finds: the recursive function of Listed.        *)

StepFrom(l, x) == IF x = NULL THEN NULL ELSE l.next[x]

IsWalk(walk, l, h, size) ==
    walk = [k \in 0 .. size |-> IF k = 0 THEN l.head[h] ELSE StepFrom(l, walk[k - 1])]

UpToNULL(walk, size) ==
    [k \in 1 .. Cardinality({j \in 1 .. size : walk[j - 1] # NULL}) |-> walk[k - 1]]

\* The walk of Listed exists, and Listed cuts it off at the first NULL.
LEMMA ListedWalks ==
    ASSUME NEW l, NEW N, NEW H, NULL \notin N, IsFiniteSet(N), ListType(l, N, H), NEW h \in H
    PROVE  \E walk \in [0 .. Cardinality(N) -> Maybe(N)] :
              /\ IsWalk(walk, l, h, Cardinality(N))
              /\ Listed(l, h) = UpToNULL(walk, Cardinality(N))
<1> DEFINE size == Cardinality(N)
           walk[k \in 0 .. size] ==
               IF k = 0 THEN l.head[h]
               ELSE IF walk[k - 1] = NULL THEN NULL ELSE l.next[walk[k - 1]]
           step == [k \in 1 .. size |-> [x \in Maybe(N) |-> StepFrom(l, x)]]
<1>1. size \in Nat /\ DOMAIN l.next = N /\ l.head[h] \in Maybe(N)
  BY FS_CardinalityType DEF ListType
<1>2. step \in [1 .. size -> [Maybe(N) -> Maybe(N)]]
  BY DEF ListType, Maybe, StepFrom
<1>3. PICK f \in [0 .. size -> Maybe(N)] : Iterates(f, size, l.head[h], step)
  <2> HIDE DEF step, size, walk
  <2> QED BY <1>1, <1>2, RecursionExists
<1>4. IsWalk(f, l, h, size)
  <2>1. ASSUME NEW k \in 1 .. size
        PROVE  f[k] = StepFrom(l, f[k - 1])
    <3>1. k - 1 \in 0 .. size
      BY <1>1
    <3>2. f[k - 1] \in Maybe(N)
      BY <3>1
    <3> QED BY <3>2, <1>3 DEF Iterates
  <2> HIDE DEF step
  <2>2. \A k \in 0 .. size :
            f[k] = IF k = 0 THEN l.head[h] ELSE StepFrom(l, f[k - 1])
    BY <1>1, <1>3, <2>1 DEF Iterates
  <2> QED BY <2>2 DEF IsWalk
<1>5. IsWalk(walk, l, h, size)
  BY <1>4 DEF IsWalk, StepFrom
<1>6. walk \in [0 .. size -> Maybe(N)]
  <2>1. \A k \in 0 .. size : walk[k] = IF k = 0 THEN l.head[h] ELSE StepFrom(l, walk[k - 1])
    <3> HIDE DEF walk
    <3> QED BY <1>5 DEF IsWalk
  <2> DEFINE S == {k \in 0 .. size : walk[k] \in Maybe(N)}
  <2> HIDE DEF walk
  <2>2. 0 \in S
    BY <1>1, <2>1
  <2>3. ASSUME NEW n \in 0 .. size - 1, n \in S PROVE n + 1 \in S
    <3>1. n + 1 \in 0 .. size /\ n + 1 # 0 /\ (n + 1) - 1 = n
      BY <1>1
    <3>2. walk[n + 1] = StepFrom(l, walk[n])
      BY <3>1, <2>1
    <3>3. StepFrom(l, walk[n]) \in Maybe(N)
      BY <2>3 DEF StepFrom, ListType, Maybe
    <3> QED BY <3>1, <3>2, <3>3
  <2>4. 0 .. size \subseteq S
    <3> HIDE DEF S, size
    <3> QED BY <1>1, <2>2, <2>3, AllUpTo
  <2>5. walk = [k \in 0 .. size |-> IF k = 0 THEN l.head[h] ELSE StepFrom(l, walk[k - 1])]
    BY <1>5 DEF IsWalk
  <2> QED BY <2>4, <2>5
<1>7. Listed(l, h) = UpToNULL(walk, size)
  BY <1>1 DEF Listed, UpToNULL
<1> HIDE DEF walk
<1> QED BY <1>5, <1>6, <1>7

\* The next node of a chained list: its step, its list and its place.
LEMMA ChainStep ==
    ASSUME NEW l, NEW on, NEW place, NEW N, NEW H, NULL \notin N, NULL \notin H,
           Chained(l, on, place, N, H), NEW n \in N, l.next[n] # NULL
    PROVE  /\ l.next[n] \in N /\ on[l.next[n]] = on[n] /\ l.prev[l.next[n]] = n
           /\ place[n] < place[l.next[n]] /\ place[n] \in Int /\ place[l.next[n]] \in Int
  BY DEF Chained, ListType, Linked, Ordered, Maybe

\* What a walk along a chained list meets, step by step: nodes of the list,
\* each linked to the one before it, at growing places, and NULL from some
\* step on.
LEMMA WalkMeetsTheList ==
    ASSUME NEW l, NEW on, NEW place, NEW N, NEW H, NULL \notin N, NULL \notin H,
           Chained(l, on, place, N, H), NEW h \in H, NEW size \in Nat,
           NEW walk \in [0 .. size -> Maybe(N)], IsWalk(walk, l, h, size)
    PROVE  /\ walk[0] = l.head[h]
           /\ \A k \in 1 .. size : walk[k] = StepFrom(l, walk[k - 1])
           /\ \A k \in 0 .. size : walk[k] # NULL => walk[k] \in N /\ on[walk[k]] = h
           /\ \A j, k \in 0 .. size : j < k /\ walk[k] # NULL =>
                  walk[j] # NULL /\ place[walk[j]] < place[walk[k]]
<1>1. /\ walk[0] = l.head[h]
      /\ \A k \in 1 .. size : walk[k] = StepFrom(l, walk[k - 1])
      /\ \A k \in 0 .. size : walk[k] \in Maybe(N)
  BY DEF IsWalk
<1>2. \A n \in N : place[n] \in Int
  BY DEF Chained, Ordered
<1>3. ASSUME NEW k \in 0 .. size - 1, walk[k + 1] # NULL
      PROVE  /\ walk[k] # NULL /\ walk[k] \in N /\ walk[k + 1] = l.next[walk[k]]
             /\ on[walk[k + 1]] = on[walk[k]] /\ place[walk[k]] < place[walk[k + 1]]
  <2>1. walk[k + 1] = StepFrom(l, walk[k])
    <3>1. k + 1 \in 1 .. size /\ (k + 1) - 1 = k
      OBVIOUS
    <3> QED BY <3>1, <1>1
  <2>2. walk[k] # NULL /\ walk[k] \in N /\ walk[k + 1] = l.next[walk[k]]
    BY <2>1, <1>1, <1>3 DEF StepFrom, Maybe
  <2> QED BY <2>2, <1>3, ChainStep
<1> DEFINE S == {k \in 0 .. size : walk[k] # NULL =>
                     /\ walk[k] \in N /\ on[walk[k]] = h
                     /\ \A j \in 0 .. k - 1 : walk[j] # NULL /\ place[walk[j]] < place[walk[k]]}
<1>4. 0 \in S
  BY <1>1 DEF Chained, Linked, Maybe
<1>5. ASSUME NEW k \in 0 .. size - 1, k \in S PROVE k + 1 \in S
  <2>1. SUFFICES ASSUME walk[k + 1] # NULL
                 PROVE  /\ walk[k + 1] \in N /\ on[walk[k + 1]] = h
                        /\ \A j \in 0 .. k : walk[j] # NULL /\ place[walk[j]] < place[walk[k + 1]]
    <3>1. k + 1 \in 0 .. size /\ (k + 1) - 1 = k
      OBVIOUS
    <3> QED BY <3>1
  <2>2. /\ walk[k] # NULL /\ walk[k] \in N
        /\ on[walk[k + 1]] = on[walk[k]] /\ place[walk[k]] < place[walk[k + 1]]
    BY <1>3, <2>1
  <2>3. walk[k + 1] \in N
    BY <2>1, <1>1 DEF Maybe
  <2>4. on[walk[k]] = h /\ \A j \in 0 .. k - 1 : walk[j] # NULL /\ place[walk[j]] < place[walk[k]]
    BY <1>5, <2>2
  <2>5. ASSUME NEW j \in 0 .. k
        PROVE  walk[j] # NULL /\ place[walk[j]] < place[walk[k + 1]]
    <3>1. CASE j = k
      BY <3>1, <2>2
    <3>2. CASE j # k
      <4>1. walk[j] # NULL /\ place[walk[j]] < place[walk[k]]
        BY <3>2, <2>4
      <4>2. walk[j] \in N
        BY <4>1, <1>1 DEF Maybe
      <4> QED BY <4>1, <4>2, <2>2, <2>3, <1>2
    <3> QED BY <3>1, <3>2
  <2> QED BY <2>2, <2>3, <2>4, <2>5
<1>6. 0 .. size \subseteq S
  <2> HIDE DEF S
  <2> QED BY <1>4, <1>5, AllUpTo
<1>7. ASSUME NEW k \in 0 .. size, walk[k] # NULL
      PROVE  /\ walk[k] \in N /\ on[walk[k]] = h
             /\ \A j \in 0 .. k - 1 : walk[j] # NULL /\ place[walk[j]] < place[walk[k]]
  BY <1>6, <1>7
<1>8. ASSUME NEW j \in 0 .. size, NEW k \in 0 .. size, j < k, walk[k] # NULL
      PROVE  walk[j] # NULL /\ place[walk[j]] < place[walk[k]]
  <2>1. j \in 0 .. k - 1
    BY <1>8
  <2> QED BY <2>1, <1>7, <1>8
<1> HIDE DEF S
<1> QED BY <1>1, <1>7, <1>8

\* A walk of at least as many steps as there are nodes ends, and it has been
\* to every node of the list.
LEMMA WalkEnds ==
    ASSUME NEW l, NEW on, NEW place, NEW N, NEW H, NULL \notin N, NULL \notin H,
           IsFiniteSet(N), Chained(l, on, place, N, H), NEW h \in H,
           NEW size \in Nat, Cardinality(N) <= size,
           NEW walk \in [0 .. size -> Maybe(N)], IsWalk(walk, l, h, size)
    PROVE  /\ walk[size] = NULL
           /\ \A n \in N : on[n] = h => \E k \in 0 .. size - 1 : walk[k] = n
<1>0. Cardinality(N) \in Nat
  BY FS_CardinalityType
<1>1. /\ walk[0] = l.head[h]
      /\ \A k \in 1 .. size : walk[k] = StepFrom(l, walk[k - 1])
      /\ \A k \in 0 .. size : walk[k] # NULL => walk[k] \in N /\ on[walk[k]] = h
      /\ \A j, k \in 0 .. size : j < k /\ walk[k] # NULL =>
             walk[j] # NULL /\ place[walk[j]] < place[walk[k]]
  BY WalkMeetsTheList
<1>2. place \in [N -> Int]
  BY DEF Chained, Ordered
<1>3. walk[size] = NULL
  <2> SUFFICES ASSUME walk[size] # NULL PROVE FALSE
    OBVIOUS
  <2>1. size \in 0 .. size
    BY <1>0
  <2>2. \A k \in 0 .. size : walk[k] # NULL
    BY <2>1, <1>0, <1>1
  <2>3. \A k \in 0 .. size : walk[k] \in N
    BY <2>2, <1>1
  <2>4. ASSUME NEW j \in 0 .. size, NEW k \in 0 .. size, walk[j] = walk[k]
        PROVE  j = k
    <3>1. place[walk[j]] \in Int
      BY <2>3, <1>2
    <3>2. CASE j < k
      BY <3>1, <3>2, <2>2, <2>4, <1>1
    <3>3. CASE k < j
      BY <3>1, <3>3, <2>2, <2>4, <1>1
    <3> QED BY <3>2, <3>3, <1>0
  <2>5. walk \in [0 .. size -> N]
    BY <2>3
  <2>6. IsFiniteSet(0 .. size) /\ Cardinality(0 .. size) = size + 1
    BY <1>0, FS_Interval
  <2>7. Cardinality(N) < Cardinality(0 .. size)
    BY <2>6, <1>0
  <2>8. \E j, k \in 0 .. size : j # k /\ walk[j] = walk[k]
    BY <2>5, <2>6, <2>7, FS_PigeonHole
  <2> QED BY <2>4, <2>8
<1> DEFINE U == {n \in N : on[n] = h /\ \A k \in 0 .. size - 1 : walk[k] # n}
<1>4. U = {}
  <2> SUFFICES ASSUME U # {} PROVE FALSE
    OBVIOUS
  <2>1. IsFiniteSet(U)
    BY FS_Subset
  <2> DEFINE rank == [n \in U |-> place[n]]
  <2>2. rank \in [U -> Int]
    BY <1>2
  <2>3. PICK u \in U : \A n \in U : rank[u] <= rank[n]
    <3> HIDE DEF U, rank
    <3> QED BY <2>1, <2>2, LeastOfFinite
  <2>4. u \in N /\ on[u] = h /\ \A n \in U : place[u] <= place[n]
    BY <2>3
  <2>5. CASE l.prev[u] = NULL
    <3>1. l.head[h] = u
      BY <2>4, <2>5 DEF Chained, Linked
    <3>2. size # 0
      BY <3>1, <1>1, <1>3, <2>4
    <3>3. 0 \in 0 .. size - 1
      BY <3>2, <1>0
    <3> QED BY <3>1, <3>3, <1>1
  <2>6. CASE l.prev[u] # NULL
    <3> DEFINE p == l.prev[u]
    <3>1. p \in N /\ on[p] = h /\ l.next[p] = u
      BY <2>4, <2>6 DEF Chained, Linked, ListType, Maybe
    <3>2. place[p] < place[u] /\ place[p] \in Int /\ place[u] \in Int
      BY <3>1, <2>4, <1>2 DEF Chained, Ordered
    <3>3. p \notin U
      <4> HIDE DEF p
      <4> QED BY <3>2, <2>4
    <3>4. PICK k \in 0 .. size - 1 : walk[k] = p
      <4> HIDE DEF p
      <4> QED BY <3>1, <3>3
    <3>5. k + 1 \in 1 .. size /\ (k + 1) - 1 = k
      BY <1>0
    <3>6. walk[k + 1] = u
      BY <3>1, <3>4, <3>5, <1>1 DEF StepFrom
    <3>7. k + 1 # size
      BY <3>6, <1>3, <2>4
    <3>8. k + 1 \in 0 .. size - 1
      BY <3>5, <3>7, <1>0
    <3> QED BY <3>6, <3>8
  <2> QED BY <2>5, <2>6
<1> QED BY <1>3, <1>4

\* The walk of a chained list, cut off at its end, is the list of the nodes
\* that are on it: IsListOf holds of every chained list.
THEOREM ChainedIsList ==
    ASSUME NEW l, NEW on, NEW place, NEW N, NEW H, NULL \notin N, NULL \notin H,
           IsFiniteSet(N), Chained(l, on, place, N, H), NEW h \in H
    PROVE  IsListOf(l, h, {n \in N : on[n] = h})
<1> DEFINE size == Cardinality(N)
           Met(walk) == {j \in 1 .. size : walk[j - 1] # NULL}
<1>1. size \in Nat
  BY FS_CardinalityType
<1>2. PICK walk \in [0 .. size -> Maybe(N)] :
          /\ IsWalk(walk, l, h, size)
          /\ Listed(l, h) = UpToNULL(walk, size)
  <2>1. ListType(l, N, H)
    BY DEF Chained
  <2> QED BY <2>1, ListedWalks
<1>3. /\ walk[0] = l.head[h]
      /\ \A k \in 1 .. size : walk[k] = StepFrom(l, walk[k - 1])
      /\ \A k \in 0 .. size : walk[k] # NULL => walk[k] \in N /\ on[walk[k]] = h
      /\ \A j, k \in 0 .. size : j < k /\ walk[k] # NULL =>
             walk[j] # NULL /\ place[walk[j]] < place[walk[k]]
  <2> HIDE DEF size
  <2> QED BY <1>1, <1>2, WalkMeetsTheList
<1>4. /\ walk[size] = NULL
      /\ \A n \in N : on[n] = h => \E k \in 0 .. size - 1 : walk[k] = n
  <2>1. Cardinality(N) <= size
    BY <1>1
  <2> HIDE DEF size
  <2> QED BY <1>1, <1>2, <2>1, WalkEnds
<1> HIDE DEF size
<1>5. PICK L \in 0 .. size : walk[L] = NULL /\ \A k \in 0 .. size : walk[k] = NULL => L <= k
  <2> DEFINE Z == {k \in 0 .. size : walk[k] = NULL}
  <2>1. Z \subseteq Nat /\ size \in Z
    BY <1>1, <1>4
  <2>2. \E m \in Z : \A k \in Z : m <= k
    <3> HIDE DEF Z
    <3> QED BY <2>1, LeastNatural
  <2>3. PICK m \in Z : \A k \in Z : m <= k
    BY <2>2
  <2>4. m \in 0 .. size /\ walk[m] = NULL /\ \A k \in 0 .. size : walk[k] = NULL => m <= k
    BY <2>3
  <2> QED BY <2>4
<1>6. Met(walk) = 1 .. L
  <2>1. ASSUME NEW j \in 1 .. L PROVE j \in Met(walk)
    <3>1. j \in 1 .. size /\ j - 1 \in 0 .. size /\ ~(L <= j - 1)
      BY <1>1
    <3> QED BY <3>1, <1>5
  <2>2. ASSUME NEW j \in Met(walk) PROVE j \in 1 .. L
    <3>1. j \in 1 .. size /\ j - 1 \in 0 .. size /\ walk[j - 1] # NULL
      BY <1>1
    <3>2. ~(L < j - 1)
      BY <3>1, <1>3, <1>5
    <3>3. L # j - 1
      BY <3>1, <1>5
    <3> QED BY <3>1, <3>2, <3>3
  <2> HIDE DEF Met
  <2> QED BY <2>1, <2>2
<1>7. Cardinality(Met(walk)) = L
  <2>1. 1 \in Int /\ L \in Int /\ L - 1 + 1 = L /\ 1 <= L + 1
    BY <1>1
  <2>2. Cardinality(1 .. L) = L
    BY <2>1, <1>1, FS_Interval
  <2> QED BY <2>2, <1>6
<1>8. Listed(l, h) = [k \in 1 .. L |-> walk[k - 1]]
  BY <1>2, <1>7 DEF UpToNULL
<1> HIDE DEF Met
<1> DEFINE s == [k \in 1 .. L |-> walk[k - 1]]
<1>9. ASSUME NEW i \in 1 .. L
      PROVE  /\ i - 1 \in 0 .. size /\ s[i] = walk[i - 1]
             /\ s[i] \in N /\ on[s[i]] = h
  <2>1. i - 1 \in 0 .. size /\ ~(L <= i - 1)
    BY <1>1
  <2>2. walk[i - 1] # NULL
    BY <2>1, <1>5
  <2> QED BY <2>1, <2>2, <1>3
<1>10. {s[i] : i \in DOMAIN s} = {n \in N : on[n] = h}
  <2>1. ASSUME NEW n \in N, on[n] = h PROVE \E i \in 1 .. L : s[i] = n
    <3>1. PICK k \in 0 .. size - 1 : walk[k] = n
      BY <1>4, <2>1
    <3>2. k \in 0 .. size /\ ~(L < k)
      BY <3>1, <1>1, <1>3, <1>5
    <3>3. k # L
      BY <3>1, <1>5
    <3>4. k + 1 \in 1 .. L /\ (k + 1) - 1 = k
      BY <3>2, <3>3
    <3> QED BY <3>1, <3>4
  <2> QED BY <2>1, <1>9
<1>11. ASSUME NEW i \in 1 .. L, NEW j \in 1 .. L, s[i] = s[j]
       PROVE  i = j
  <2>1. i - 1 \in 0 .. size /\ j - 1 \in 0 .. size /\ walk[i - 1] = walk[j - 1] /\ walk[i - 1] \in N
    BY <1>9, <1>11
  <2>2. place[walk[i - 1]] \in Int
    BY <2>1 DEF Chained, Ordered
  <2>3. ~(i - 1 < j - 1) /\ ~(j - 1 < i - 1)
    BY <2>1, <2>2, <1>3
  <2> QED BY <2>3
<1>12. ASSUME NEW i \in 1 .. L
       PROVE  l.prev[s[i]] = IF i = 1 THEN NULL ELSE s[i - 1]
  <2>1. CASE i = 1
    <3>1. s[i] = l.head[h] /\ s[i] \in N
      BY <2>1, <1>3, <1>9
    <3> QED BY <3>1, <2>1 DEF Chained, Linked
  <2>2. CASE i # 1
    <3>1. i - 1 \in 1 .. L /\ i - 1 \in 1 .. size /\ (i - 1) - 1 \in 0 .. size
      BY <2>2, <1>1
    <3>2. walk[i - 1] = StepFrom(l, walk[(i - 1) - 1])
      BY <3>1, <1>3
    <3>3. s[i] = walk[i - 1] /\ s[i] \in N /\ s[i - 1] = walk[(i - 1) - 1] /\ s[i - 1] \in N
      BY <3>1, <1>9
    <3>4. s[i] = l.next[s[i - 1]] /\ s[i] # NULL
      BY <3>2, <3>3 DEF StepFrom
    <3>5. l.prev[s[i]] = s[i - 1]
      BY <3>3, <3>4, ChainStep
    <3> QED BY <3>5, <2>2
  <2> QED BY <2>1, <2>2
<1>13. DOMAIN s = 1 .. L
  OBVIOUS
<1>14. s = Listed(l, h)
  BY <1>8
<1> HIDE DEF s
<1> QED BY <1>10, <1>11, <1>12, <1>13, <1>14 DEF IsListOf
=============================================================================
