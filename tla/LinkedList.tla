----------------------------- MODULE LinkedList -----------------------------
(***************************************************************************)
(* Lists linked both ways, as the code keeps them: the links are in the    *)
(* nodes, a list is its head, a node is on one list at most.  The objects  *)
(* of a cell (Server/GameServer/Grid.cpp) and the data buffers             *)
(* (Common/DataBuffer/DataBuffer.h) are linked this way.                   *)
(*                                                                         *)
(* l is a record of three functions: next and prev of the nodes, head of   *)
(* the lists.                                                              *)
(***************************************************************************)
EXTENDS Integers, Sequences, FiniteSets

CONSTANT NULL

\* A definition named as a variant of the one that follows it is a plausible
\* mistake, as in NetEngine.
PutAlways(f, x, y) == [z \in DOMAIN f \cup {x} |-> IF z = x THEN y ELSE f[z]]

\* f[x] becomes y, unless x is NULL.
Put(f, x, y) == IF x = NULL THEN f ELSE [f EXCEPT ![x] = y]

\* n becomes the first of list h.
PushFront(l, n, h) ==
    [next |-> [l.next EXCEPT ![n] = l.head[h]],
     prev |-> Put([l.prev EXCEPT ![n] = NULL], l.head[h], n),
     head |-> [l.head EXCEPT ![h] = n]]

UnlinkOneWay(l, n, h) ==
    [next |-> Put([l.next EXCEPT ![n] = NULL], l.prev[n], l.next[n]),
     prev |-> [l.prev EXCEPT ![n] = NULL],
     head |-> IF l.head[h] = n THEN [l.head EXCEPT ![h] = l.next[n]] ELSE l.head]

\* n leaves list h, which it is on.
Unlink(l, n, h) ==
    LET before == IF l.head[h] = n THEN NULL ELSE l.prev[n] IN
    [next |-> [Put(l.next, before, l.next[n]) EXCEPT ![n] = NULL],
     prev |-> [Put(l.prev, l.next[n], before) EXCEPT ![n] = NULL],
     head |-> IF l.head[h] = n THEN [l.head EXCEPT ![h] = l.next[n]] ELSE l.head]

\* The nodes of list h, first to last; no list is longer than there are nodes.
Listed(l, h) ==
    LET size == Cardinality(DOMAIN l.next)
        walk[k \in 0 .. size] ==
            IF k = 0 THEN l.head[h]
            ELSE IF walk[k - 1] = NULL THEN NULL ELSE l.next[walk[k - 1]]
    IN  [k \in 1 .. Cardinality({j \in 1 .. size : walk[j - 1] # NULL}) |-> walk[k - 1]]

\* The list h holds exactly the nodes of a set, once each, linked both ways.
IsListOf(l, h, nodes) ==
    LET s == Listed(l, h) IN
    /\ {s[i] : i \in DOMAIN s} = nodes
    /\ \A i, j \in DOMAIN s : s[i] = s[j] => i = j
    /\ \A i \in DOMAIN s : l.prev[s[i]] = IF i = 1 THEN NULL ELSE s[i - 1]
=============================================================================
