------------------------------- MODULE AVLTree -------------------------------
(***************************************************************************)
(* The map from an ID to a record that the managers of players, accounts   *)
(* and sessions are (Common/Utility/AVLTree.h).  Nodes come from a pool    *)
(* that is a list of free ones.                                            *)
(*                                                                         *)
(* A subtree is a record; a node's record is stood for by the ID it was    *)
(* stored under.  m_pParent is left out: only MoveNext reads it, and       *)
(* nothing calls MoveNext.                                                 *)
(***************************************************************************)
EXTENDS Integers, FiniteSets

CONSTANTS Keys,
          Capacity  \* nodes that AllocBufferNode makes (1024)

ASSUME TreeAssumption == Keys \subseteq Int /\ Capacity \in Nat \ {0}

VARIABLES
    root,
    count,    \* m_nCount
    free,     \* length of the list at m_pFreeHead
    exhausted, \* a NULL pointer was followed
    stored,   \* history: the IDs inserted and not deleted
    deleted   \* history: something was deleted

nodes == <<root, count, free, exhausted, stored, deleted>>

\* GetHeight of NULL is -1.
Nil == [height |-> -1]

\* The height is computed again from those its children have recorded.
Refresh(t) ==
    [t EXCEPT !.height = 1 + IF t.left.height > t.right.height
                             THEN t.left.height ELSE t.right.height]

Node(k) == [key |-> k, data |-> k, left |-> Nil, right |-> Nil, height |-> 0]

TreeInit ==
    /\ root = Nil /\ count = 0 /\ free = Capacity /\ exhausted = FALSE
    /\ stored = {} /\ deleted = FALSE

\* The left child comes up.
SingRotateLeft(t) ==
    Refresh([t.left EXCEPT !.right = Refresh([t EXCEPT !.left = t.left.right])])

SingRotateRight(t) ==
    Refresh([t.right EXCEPT !.left = Refresh([t EXCEPT !.right = t.right.left])])

DoubleRotateLR(t) == SingRotateLeft([t EXCEPT !.left = SingRotateRight(@)])
DoubleRotateRL(t) == SingRotateRight([t EXCEPT !.right = SingRotateLeft(@)])

LeftHeavy(t) == t.left.height - t.right.height >= 2
RightHeavy(t) == t.right.height - t.left.height >= 2

\* Variants named as in NetEngine.
InsertedLeftSingle(t, k) == IF LeftHeavy(t) THEN SingRotateLeft(t) ELSE t

\* After k was inserted below t on the left.
InsertedLeft(t, k) ==
    IF ~LeftHeavy(t) THEN t
    ELSE IF k < t.left.key THEN SingRotateLeft(t) ELSE DoubleRotateLR(t)

InsertedRight(t, k) ==
    IF ~RightHeavy(t) THEN t
    ELSE IF k > t.right.key THEN SingRotateRight(t) ELSE DoubleRotateRL(t)

\* A recursive function of the code follows one path through the tree.  Its
\* calls on the way down and what they return on the way up are functions on
\* the numbers up to Capacity: no path has as many nodes.

\* What the search for k looks at after t; it stops at k and at NULL.
Below(t, k) == IF t = Nil \/ t.key = k THEN t ELSE IF k < t.key THEN t.left ELSE t.right

Path(t, k) ==
    LET path[i \in 0 .. Capacity] == IF i = 0 THEN t ELSE Below(path[i - 1], k) IN path

FindInner(t, k) == Path(t, k)[Capacity]

\* What the call for t leaves there, below being what the one it makes left.
Inserted(t, k, below) ==
    IF t = Nil THEN Node(k)
    ELSE IF k < t.key THEN Refresh(InsertedLeft([t EXCEPT !.left = below], k))
    ELSE Refresh(InsertedRight([t EXCEPT !.right = below], k))

\* k is not in t.
InsertInner(t, k) ==
    LET path == Path(t, k)
        built[j \in 0 .. Capacity] ==
            Inserted(path[Capacity - j], k, IF j = 0 THEN Nil ELSE built[j - 1])
    IN  built[Capacity]

Leftward(t) == IF t.left = Nil THEN t ELSE t.left

First(t) ==
    LET path[i \in 0 .. Capacity] == IF i = 0 THEN t ELSE Leftward(path[i - 1]) IN path[Capacity]

DeletedLeft(t) ==
    IF ~RightHeavy(t) THEN t
    ELSE IF t.right.left.height > t.right.right.height THEN DoubleRotateRL(t)
    ELSE SingRotateRight(t)

DeletedRight(t) ==
    IF ~LeftHeavy(t) THEN t
    ELSE IF t.left.right.height > t.left.left.height THEN DoubleRotateLR(t)
    ELSE SingRotateLeft(t)

SplicedLeft(t) == t.left

\* What takes the place of a node with one child or none.
Spliced(t) == IF t.left = Nil THEN t.right ELSE t.left

ReplacedKeyOnly(t, s) == [t EXCEPT !.key = s.key]

\* The key and the data of its successor, whose node goes instead.
Replaced(t, s) == [t EXCEPT !.key = s.key, !.data = s.data]

\* The subtree and the key of the call that the one for k makes for itself, if
\* it makes one.
Passed(c) ==
    LET t == c.tree IN
    IF t = Nil THEN c
    ELSE IF c.key < t.key THEN [tree |-> t.left, key |-> c.key]
    ELSE IF c.key > t.key THEN [tree |-> t.right, key |-> c.key]
    ELSE IF t.left # Nil /\ t.right # Nil THEN [tree |-> t.right, key |-> First(t.right).key]
    ELSE c

NotThere == [tree |-> Nil, freed |-> 0, ok |-> FALSE]

\* The subtree that is left, how many nodes were freed, and what is returned.
\* It is FALSE when the key is not there, and also when the node had no
\* children; then nothing above it is rebalanced.
Deleted(t, k, below) ==
    LET after(u, v) ==  \* u before, v after rebalancing
            [below EXCEPT !.tree = IF below.ok THEN Refresh(v) ELSE u]
        left == [t EXCEPT !.left = below.tree]
        right == [t EXCEPT !.right = below.tree]
        both == [Replaced(t, First(t.right)) EXCEPT !.right = below.tree]
    IN  IF t = Nil THEN NotThere
        ELSE IF k < t.key THEN after(left, DeletedLeft(left))
        ELSE IF k > t.key THEN after(right, DeletedRight(right))
        ELSE IF t.left # Nil /\ t.right # Nil THEN after(both, DeletedRight(both))
        ELSE [tree |-> IF Spliced(t) = Nil THEN Nil ELSE Refresh(Spliced(t)),
              freed |-> 1, ok |-> Spliced(t) # Nil]

DeleteInner(t, k) ==
    LET calls[i \in 0 .. Capacity] ==
            IF i = 0 THEN [tree |-> t, key |-> k] ELSE Passed(calls[i - 1])
        returns[j \in 0 .. Capacity] ==
            Deleted(calls[Capacity - j].tree, calls[Capacity - j].key,
                    IF j = 0 THEN NotThere ELSE returns[j - 1])
    IN  returns[Capacity]

\* AllocNode leaves the list empty and then writes to its first node: the
\* branch that makes more nodes is never reached.
InsertStops ==
    /\ ~exhausted
    /\ free = 1
    /\ exhausted' = TRUE
    /\ UNCHANGED <<root, count, free, stored, deleted>>

\* (For an ID that is there the node goes back and nothing changes.)
InsertAlloc(k) ==
    /\ ~exhausted
    /\ free > 1
    /\ FindInner(root, k) = Nil
    /\ root' = InsertInner(root, k)
    /\ count' = count + 1 /\ free' = free - 1
    /\ stored' = stored \cup {k}
    /\ UNCHANGED <<exhausted, deleted>>

UncountedIfTrue(r) == IF r.ok THEN count - 1 ELSE count

Uncounted(r) == count - r.freed

Delete(k) ==
    LET r == DeleteInner(root, k) IN
    /\ ~exhausted
    /\ root' = r.tree
    /\ count' = Uncounted(r) /\ free' = free + r.freed
    /\ stored' = stored \ {k}
    /\ deleted' = (deleted \/ r.freed > 0)
    /\ UNCHANGED exhausted

TreeNext == InsertStops \/ \E k \in Keys : InsertAlloc(k) \/ Delete(k)

TreeSpec == TreeInit /\ [][TreeNext]_nodes
-----------------------------------------------------------------------------
(* Properties *)

\* The nodes of t that are i steps below it.
Level(t) ==
    LET level[i \in 0 .. Capacity] ==
            IF i = 0 THEN {t} \ {Nil}
            ELSE (UNION {{u.left, u.right} : u \in level[i - 1]}) \ {Nil}
    IN  level

NodesOf(t) == UNION {Level(t)[i] : i \in 0 .. Capacity}

\* -1 for NULL, as GetHeight has it.
Depth(t) == Cardinality({i \in 0 .. Capacity : Level(t)[i] # {}}) - 1

\* After any sequence of insertions and deletions Find finds what is stored,
\* with the record that was stored with it, and nothing else.
FindsStored ==
    \A k \in Keys : IF k \in stored THEN FindInner(root, k) # Nil /\ FindInner(root, k).data = k
                    ELSE FindInner(root, k) = Nil

\* Every node of the pool is in the tree or on the free list, m_nCount counts
\* those in the tree, and the free list keeps at least one.
PoolAccounts ==
    /\ count = Cardinality(stored) /\ count = Cardinality(NodesOf(root))
    /\ count + free = Capacity
    /\ free > 0

\* Until something is deleted the tree is an AVL tree and its heights are the
\* true ones.  A deletion may leave it unbalanced and heights too large; no
\* height is ever too small.
Balanced ==
    \A t \in NodesOf(root) :
        /\ Depth(t) <= t.height
        /\ ~deleted => Depth(t) = t.height /\ Depth(t.left) - Depth(t.right) \in -1 .. 1
=============================================================================
