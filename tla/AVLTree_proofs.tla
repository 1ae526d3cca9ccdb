--------------------------- MODULE AVLTree_proofs ---------------------------
(***************************************************************************)
(* The map finds what is stored in it, its nodes are all accounted for,    *)
(* and it is an AVL tree until something is deleted: for every set of keys *)
(* and every number of nodes.                                              *)
(*                                                                         *)
(* A subtree is known by what it is made of (Is): its keys, in the order   *)
(* of a search tree, its true depth, and, while nothing was deleted, the   *)
(* balance of every node.  What the operations do is then told by the keys *)
(* and the depth of their results.                                         *)
(***************************************************************************)
EXTENDS AVLTree, SetInduction, TLAPS

Higher(m, n) == IF m > n THEN m ELSE n

Tree(k, l, r, h) == [key |-> k, data |-> k, left |-> l, right |-> r, height |-> h]

\* A node over l and r that knows its height.
Refreshed(k, l, r) == Tree(k, l, r, 1 + Higher(l.height, r.height))

-----------------------------------------------------------------------------
(* Search trees *)

\* An entry is a subtree with its keys and its depth.
NilEntry == [tree |-> Nil, keys |-> {}, depth |-> -1]

EntryType(x) ==
    /\ x.keys \subseteq Keys
    /\ IsFiniteSet(x.keys)
    /\ x.depth \in Nat \cup {-1}
    /\ x.depth < Cardinality(x.keys)

\* The keys, depths and height that a node may have over its children.
Fits(k, h, Kl, dl, Kr, dr, avl) ==
    /\ \A a \in Kl : a < k
    /\ \A b \in Kr : k < b
    /\ 1 + Higher(dl, dr) <= h
    /\ avl => h = 1 + Higher(dl, dr) /\ dl - dr \in -1 .. 1

Joins(x, k, h, l, r, avl) ==
    /\ x.tree = Tree(k, l.tree, r.tree, h)
    /\ x.keys = l.keys \cup {k} \cup r.keys
    /\ x.depth = 1 + Higher(l.depth, r.depth)
    /\ Fits(k, h, l.keys, l.depth, r.keys, r.depth, avl)

\* C has, with each entry, those of the children.
Supported(C, avl) ==
    \A x \in C :
        /\ EntryType(x)
        /\ x = NilEntry \/ \E k \in Keys, h \in Int, l \in C, r \in C : Joins(x, k, h, l, r, avl)

\* t is a search tree of the keys K and of depth d, and its heights are no
\* less than the depths; with avl it is balanced and they are the depths.
Is(t, K, d, avl) ==
    \E C : Supported(C, avl) /\ \E x \in C : x.tree = t /\ x.keys = K /\ x.depth = d

\* t is a node over l and r.
IsOver(t, K, d, avl, k, h, l, Kl, dl, r, Kr, dr) ==
    /\ k \in Keys /\ h \in Int
    /\ t = Tree(k, l, r, h)
    /\ K = Kl \cup {k} \cup Kr
    /\ d = 1 + Higher(dl, dr)
    /\ Is(l, Kl, dl, avl) /\ Is(r, Kr, dr, avl)
    /\ Fits(k, h, Kl, dl, Kr, dr, avl)

LEMMA TreeIsNotNil ==
    ASSUME NEW k, NEW l, NEW r, NEW h
    PROVE  Tree(k, l, r, h) # Nil
<1>1. "key" \in DOMAIN Tree(k, l, r, h)
  BY DEF Tree
<1>2. "key" \notin DOMAIN Nil
  BY DEF Nil
<1> QED BY <1>1, <1>2

LEMMA TreeParts ==
    ASSUME NEW k, NEW l, NEW r, NEW h
    PROVE  LET t == Tree(k, l, r, h) IN
           t.key = k /\ t.data = k /\ t.left = l /\ t.right = r /\ t.height = h
  BY DEF Tree

LEMMA NilIs ==
    ASSUME NEW avl PROVE Is(Nil, {}, -1, avl)
<1> DEFINE C == {NilEntry}
<1>1. EntryType(NilEntry)
  BY FS_EmptySet DEF EntryType, NilEntry
<1>2. Supported(C, avl)
  BY <1>1 DEF Supported
<1>3. NilEntry.tree = Nil /\ NilEntry.keys = {} /\ NilEntry.depth = -1
  BY DEF NilEntry
<1> QED BY <1>2, <1>3 DEF Is

\* A node over two search trees is one.
LEMMA TreeIs ==
    ASSUME NEW avl, NEW k \in Keys, NEW h \in Int,
           NEW l, NEW Kl, NEW dl, Is(l, Kl, dl, avl),
           NEW r, NEW Kr, NEW dr, Is(r, Kr, dr, avl),
           Fits(k, h, Kl, dl, Kr, dr, avl)
    PROVE  Is(Tree(k, l, r, h), Kl \cup {k} \cup Kr, 1 + Higher(dl, dr), avl)
<1>1. PICK A : Supported(A, avl) /\ \E x \in A : x.tree = l /\ x.keys = Kl /\ x.depth = dl
  BY DEF Is
<1>2. PICK x \in A : x.tree = l /\ x.keys = Kl /\ x.depth = dl
  BY <1>1
<1>3. PICK B : Supported(B, avl) /\ \E y \in B : y.tree = r /\ y.keys = Kr /\ y.depth = dr
  BY DEF Is
<1>4. PICK y \in B : y.tree = r /\ y.keys = Kr /\ y.depth = dr
  BY <1>3
<1> DEFINE z == [tree |-> Tree(k, l, r, h), keys |-> Kl \cup {k} \cup Kr,
                 depth |-> 1 + Higher(dl, dr)]
           C == A \cup B \cup {z}
<1>5. z.tree = Tree(k, l, r, h) /\ z.keys = Kl \cup {k} \cup Kr /\ z.depth = 1 + Higher(dl, dr)
  OBVIOUS
<1>6. EntryType(x) /\ EntryType(y)
  BY <1>1, <1>2, <1>3, <1>4 DEF Supported
<1>7. EntryType(z)
  <2>1. IsFiniteSet(Kl) /\ IsFiniteSet(Kr) /\ Kl \subseteq Keys /\ Kr \subseteq Keys
    BY <1>2, <1>4, <1>6 DEF EntryType
  <2>2. dl \in Nat \cup {-1} /\ dr \in Nat \cup {-1}
    BY <1>2, <1>4, <1>6 DEF EntryType
  <2>3. k \in Int /\ k \notin Kl /\ k \notin Kr
    BY TreeAssumption DEF Fits
  <2>4. /\ IsFiniteSet(Kl \cup {k}) /\ Cardinality(Kl \cup {k}) = Cardinality(Kl) + 1
        /\ IsFiniteSet(Kr \cup {k}) /\ Cardinality(Kr \cup {k}) = Cardinality(Kr) + 1
    BY <2>1, <2>3, FS_AddElement
  <2>5. IsFiniteSet(Kl \cup {k} \cup Kr)
    BY <2>1, <2>4, FS_Union
  <2>6. /\ Cardinality(Kl \cup {k}) <= Cardinality(Kl \cup {k} \cup Kr)
        /\ Cardinality(Kr \cup {k}) <= Cardinality(Kl \cup {k} \cup Kr)
    <3>1. Kl \cup {k} \subseteq Kl \cup {k} \cup Kr /\ Kr \cup {k} \subseteq Kl \cup {k} \cup Kr
      OBVIOUS
    <3> QED BY <3>1, <2>5, FS_Subset
  <2>7. dl < Cardinality(Kl) /\ dr < Cardinality(Kr)
    BY <1>2, <1>4, <1>6 DEF EntryType
  <2>8. /\ Cardinality(Kl) \in Nat /\ Cardinality(Kr) \in Nat
        /\ Cardinality(Kl \cup {k} \cup Kr) \in Nat
    BY <2>1, <2>5, FS_CardinalityType
  <2>9. /\ 1 + Higher(dl, dr) \in Nat \cup {-1}
        /\ 1 + Higher(dl, dr) < Cardinality(Kl \cup {k} \cup Kr)
    BY <2>2, <2>4, <2>6, <2>7, <2>8 DEF Higher
  <2>10. Kl \cup {k} \cup Kr \subseteq Keys
    BY <2>1
  <2> HIDE DEF z
  <2> QED BY <1>5, <2>5, <2>9, <2>10 DEF EntryType
<1>8. Joins(z, k, h, x, y, avl)
  <2> HIDE DEF z
  <2> QED BY <1>2, <1>4, <1>5 DEF Joins
<1>9. Supported(C, avl)
  <2> SUFFICES ASSUME NEW c \in C
               PROVE  /\ EntryType(c)
                      /\ \/ c = NilEntry
                         \/ \E m \in Keys, g \in Int, v \in C, w \in C : Joins(c, m, g, v, w, avl)
    BY DEF Supported
  <2>1. CASE c \in A
    BY <2>1, <1>1 DEF Supported
  <2>2. CASE c \in B
    BY <2>2, <1>3 DEF Supported
  <2>3. CASE c = z
    BY <2>3, <1>7, <1>8
  <2> HIDE DEF z
  <2> QED BY <2>1, <2>2, <2>3
<1>10. z \in C
  OBVIOUS
<1> HIDE DEF z, C
<1> QED BY <1>5, <1>9, <1>10 DEF Is

LEMMA IsType ==
    ASSUME NEW t, NEW K, NEW d, NEW avl, Is(t, K, d, avl)
    PROVE  /\ K \subseteq Keys /\ IsFiniteSet(K)
           /\ d \in Nat \cup {-1} /\ Cardinality(K) \in Nat /\ d < Cardinality(K)
  BY FS_CardinalityType DEF Is, Supported, EntryType

LEMMA IsCases ==
    ASSUME NEW t, NEW K, NEW d, NEW avl, Is(t, K, d, avl)
    PROVE  \/ t = Nil /\ K = {} /\ d = -1
           \/ /\ t # Nil
              /\ \E k, h, l, Kl, dl, r, Kr, dr :
                    IsOver(t, K, d, avl, k, h, l, Kl, dl, r, Kr, dr)
<1>1. PICK C : Supported(C, avl) /\ \E x \in C : x.tree = t /\ x.keys = K /\ x.depth = d
  BY DEF Is
<1>2. PICK x \in C : x.tree = t /\ x.keys = K /\ x.depth = d
  BY <1>1
<1>3. CASE x = NilEntry
  BY <1>2, <1>3 DEF NilEntry
<1>4. CASE x # NilEntry
  <2>1. PICK k \in Keys, h \in Int, l \in C, r \in C : Joins(x, k, h, l, r, avl)
    BY <1>1, <1>2, <1>4 DEF Supported
  <2>2. Is(l.tree, l.keys, l.depth, avl) /\ Is(r.tree, r.keys, r.depth, avl)
    BY <1>1 DEF Is
  <2>3. IsOver(t, K, d, avl, k, h, l.tree, l.keys, l.depth, r.tree, r.keys, r.depth)
    BY <1>2, <2>1, <2>2 DEF IsOver, Joins
  <2>4. t # Nil
    BY <2>3, TreeIsNotNil DEF IsOver
  <2> QED BY <2>3, <2>4
<1> QED BY <1>3, <1>4

LEMMA IsNilIfNegative ==
    ASSUME NEW t, NEW K, NEW d, NEW avl, Is(t, K, d, avl), d < 0
    PROVE  t = Nil
<1>1. SUFFICES ASSUME t # Nil PROVE FALSE
  OBVIOUS
<1>2. PICK k, h, l, Kl, dl, r, Kr, dr : IsOver(t, K, d, avl, k, h, l, Kl, dl, r, Kr, dr)
  BY <1>1, IsCases
<1>3. d = 1 + Higher(dl, dr) /\ dl \in Nat \cup {-1} /\ dr \in Nat \cup {-1}
  BY <1>2, IsType DEF IsOver
<1> QED BY <1>3 DEF Higher

\* A balanced tree is a tree.
LEMMA IsWeaker ==
    ASSUME NEW t, NEW K, NEW d, NEW avl, Is(t, K, d, avl)
    PROVE  Is(t, K, d, FALSE)
<1>1. PICK C : Supported(C, avl) /\ \E x \in C : x.tree = t /\ x.keys = K /\ x.depth = d
  BY DEF Is
<1>2. \A x, k, h, l, r : Joins(x, k, h, l, r, avl) => Joins(x, k, h, l, r, FALSE)
  BY DEF Joins, Fits
<1>3. Supported(C, FALSE)
  BY <1>1, <1>2 DEF Supported
<1> QED BY <1>1, <1>3 DEF Is

LEMMA IsHeight ==
    ASSUME NEW t, NEW K, NEW d, NEW avl, Is(t, K, d, avl)
    PROVE  t.height \in Nat \cup {-1} /\ d <= t.height /\ (avl => t.height = d)
<1>1. CASE t = Nil
  <2>1. d = -1
    BY <1>1, IsCases
  <2> QED BY <1>1, <2>1 DEF Nil
<1>2. CASE t # Nil
  <2>1. PICK k, h, l, Kl, dl, r, Kr, dr :
             IsOver(t, K, d, avl, k, h, l, Kl, dl, r, Kr, dr)
    BY <1>2, IsCases
  <2>2. t.height = h /\ h \in Int
    BY <2>1, TreeParts DEF IsOver
  <2>3. dl \in Nat \cup {-1} /\ dr \in Nat \cup {-1}
    BY <2>1, IsType DEF IsOver
  <2>4. d = 1 + Higher(dl, dr) /\ d <= h /\ (avl => h = d)
    BY <2>1 DEF IsOver, Fits
  <2> QED BY <2>2, <2>3, <2>4 DEF Higher
<1> QED BY <1>1, <1>2

-----------------------------------------------------------------------------
(* Rotations *)

LEMMA RefreshTree ==
    ASSUME NEW k, NEW l, NEW r, NEW h
    PROVE  Refresh(Tree(k, l, r, h)) = Refreshed(k, l, r)
  BY DEF Tree, Refresh, Refreshed, Higher

LEMMA EditLeft ==
    ASSUME NEW k, NEW l, NEW r, NEW h, NEW x
    PROVE  [Tree(k, l, r, h) EXCEPT !.left = x] = Tree(k, x, r, h)
  BY DEF Tree

LEMMA EditRight ==
    ASSUME NEW k, NEW l, NEW r, NEW h, NEW x
    PROVE  [Tree(k, l, r, h) EXCEPT !.right = x] = Tree(k, l, x, h)
  BY DEF Tree

LEMMA RefreshedParts ==
    ASSUME NEW k, NEW l, NEW r
    PROVE  LET t == Refreshed(k, l, r) IN
           /\ t.key = k /\ t.left = l /\ t.right = r /\ t # Nil
           /\ Refresh(t) = t
  BY TreeParts, RefreshTree, TreeIsNotNil DEF Refreshed

LEMMA SingRotations ==
    ASSUME NEW k, NEW h, NEW m, NEW g, NEW a, NEW b, NEW c
    PROVE  /\ SingRotateLeft(Tree(k, Tree(m, a, b, g), c, h)) = Refreshed(m, a, Refreshed(k, b, c))
           /\ SingRotateRight(Tree(k, a, Tree(m, b, c, g), h)) = Refreshed(m, Refreshed(k, a, b), c)
<1>1. SingRotateLeft(Tree(k, Tree(m, a, b, g), c, h)) = Refreshed(m, a, Refreshed(k, b, c))
  <2> DEFINE u == Tree(m, a, b, g)
             t == Tree(k, u, c, h)
             below == Refreshed(k, b, c)
  <2>1. t.left = u /\ u.right = b
    BY TreeParts
  <2>2. Refresh([t EXCEPT !.left = b]) = below
    <3> HIDE DEF u
    <3>1. [t EXCEPT !.left = b] = Tree(k, b, c, h)
      BY EditLeft
    <3> QED BY <3>1, RefreshTree
  <2>3. Refresh([u EXCEPT !.right = below]) = Refreshed(m, a, below)
    <3> HIDE DEF below
    <3> QED BY EditRight, RefreshTree
  <2> HIDE DEF u, t, below
  <2>4. SingRotateLeft(t) = Refreshed(m, a, below)
    BY <2>1, <2>2, <2>3 DEF SingRotateLeft
  <2> QED BY <2>4 DEF t, u, below
<1>2. SingRotateRight(Tree(k, a, Tree(m, b, c, g), h)) = Refreshed(m, Refreshed(k, a, b), c)
  <2> DEFINE u == Tree(m, b, c, g)
             t == Tree(k, a, u, h)
             below == Refreshed(k, a, b)
  <2>1. t.right = u /\ u.left = b
    BY TreeParts
  <2>2. Refresh([t EXCEPT !.right = b]) = below
    <3> HIDE DEF u
    <3>1. [t EXCEPT !.right = b] = Tree(k, a, b, h)
      BY EditRight
    <3> QED BY <3>1, RefreshTree
  <2>3. Refresh([u EXCEPT !.left = below]) = Refreshed(m, below, c)
    <3> HIDE DEF below
    <3> QED BY EditLeft, RefreshTree
  <2> HIDE DEF u, t, below
  <2>4. SingRotateRight(t) = Refreshed(m, below, c)
    BY <2>1, <2>2, <2>3 DEF SingRotateRight
  <2> QED BY <2>4 DEF t, u, below
<1> QED BY <1>1, <1>2

LEMMA DoubleRotations ==
    ASSUME NEW k, NEW h, NEW m, NEW g, NEW q, NEW f, NEW a, NEW b, NEW c, NEW d
    PROVE  /\ DoubleRotateLR(Tree(k, Tree(m, a, Tree(q, b, c, f), g), d, h))
              = Refreshed(q, Refreshed(m, a, b), Refreshed(k, c, d))
           /\ DoubleRotateRL(Tree(k, a, Tree(m, Tree(q, b, c, f), d, g), h))
              = Refreshed(q, Refreshed(k, a, b), Refreshed(m, c, d))
<1>1. DoubleRotateLR(Tree(k, Tree(m, a, Tree(q, b, c, f), g), d, h))
      = Refreshed(q, Refreshed(m, a, b), Refreshed(k, c, d))
  <2> DEFINE u == Tree(m, a, Tree(q, b, c, f), g)
             v == Refreshed(q, Refreshed(m, a, b), c)
             t == Tree(k, u, d, h)
  <2>1. t.left = u
    BY TreeParts
  <2>2. SingRotateRight(u) = v
    BY SingRotations
  <2>3. [t EXCEPT !.left = v] = Tree(k, v, d, h)
    <3> HIDE DEF u, v
    <3> QED BY EditLeft
  <2>4. SingRotateLeft(Tree(k, v, d, h)) = Refreshed(q, Refreshed(m, a, b), Refreshed(k, c, d))
    BY SingRotations DEF Refreshed
  <2> HIDE DEF u, v, t
  <2>5. DoubleRotateLR(t) = Refreshed(q, Refreshed(m, a, b), Refreshed(k, c, d))
    BY <2>1, <2>2, <2>3, <2>4 DEF DoubleRotateLR
  <2> QED BY <2>5 DEF t, u
<1>2. DoubleRotateRL(Tree(k, a, Tree(m, Tree(q, b, c, f), d, g), h))
      = Refreshed(q, Refreshed(k, a, b), Refreshed(m, c, d))
  <2> DEFINE u == Tree(m, Tree(q, b, c, f), d, g)
             v == Refreshed(q, b, Refreshed(m, c, d))
             t == Tree(k, a, u, h)
  <2>1. t.right = u
    BY TreeParts
  <2>2. SingRotateLeft(u) = v
    BY SingRotations
  <2>3. [t EXCEPT !.right = v] = Tree(k, a, v, h)
    <3> HIDE DEF u, v
    <3> QED BY EditRight
  <2>4. SingRotateRight(Tree(k, a, v, h)) = Refreshed(q, Refreshed(k, a, b), Refreshed(m, c, d))
    BY SingRotations DEF Refreshed
  <2> HIDE DEF u, v, t
  <2>5. DoubleRotateRL(t) = Refreshed(q, Refreshed(k, a, b), Refreshed(m, c, d))
    BY <2>1, <2>2, <2>3, <2>4 DEF DoubleRotateRL
  <2> QED BY <2>5 DEF t, u
<1> QED BY <1>1, <1>2

\* Refreshing a node over two search trees gives one.
LEMMA RefreshedIs ==
    ASSUME NEW avl, NEW k \in Keys,
           NEW l, NEW Kl, NEW dl, Is(l, Kl, dl, avl),
           NEW r, NEW Kr, NEW dr, Is(r, Kr, dr, avl),
           \A x \in Kl : x < k, \A y \in Kr : k < y,
           avl => dl - dr \in -1 .. 1
    PROVE  Is(Refreshed(k, l, r), Kl \cup {k} \cup Kr, 1 + Higher(dl, dr), avl)
<1>1. /\ l.height \in Nat \cup {-1} /\ dl <= l.height /\ (avl => l.height = dl)
      /\ r.height \in Nat \cup {-1} /\ dr <= r.height /\ (avl => r.height = dr)
  BY IsHeight
<1>2. dl \in Nat \cup {-1} /\ dr \in Nat \cup {-1}
  BY IsType
<1> DEFINE h == 1 + Higher(l.height, r.height)
<1>3. h \in Int /\ 1 + Higher(dl, dr) <= h /\ (avl => h = 1 + Higher(dl, dr))
  BY <1>1, <1>2 DEF Higher
<1> HIDE DEF h
<1>4. Fits(k, h, Kl, dl, Kr, dr, avl)
  BY <1>3 DEF Fits
<1>5. Is(Tree(k, l, r, h), Kl \cup {k} \cup Kr, 1 + Higher(dl, dr), avl)
  BY <1>3, <1>4, TreeIs
<1> QED BY <1>5 DEF Refreshed, h

\* The keys of m come between those of A and those of B.
Between(A, m, B) == (\A x \in A : x < m) /\ (\A y \in B : m < y)

LEMMA BetweenIsTransitive ==
    ASSUME NEW A \in SUBSET Keys, NEW B \in SUBSET Keys, NEW C \in SUBSET Keys,
           NEW m \in Keys, NEW k \in Keys, m < k, Between(A, m, B), Between(B, k, C)
    PROVE  Between(A, m, B \cup {k} \cup C) /\ Between(A \cup {m} \cup B, k, C)
  BY TreeAssumption DEF Between

\* Three search trees and the two keys between them, after one rotation: the
\* upper key is m for the left child that came up, k for the right.
LEMMA SingRotatedIs ==
    ASSUME NEW avl, NEW m \in Keys, NEW k \in Keys, m < k,
           NEW a, NEW Ka, NEW da, Is(a, Ka, da, avl),
           NEW b, NEW Kb, NEW db, Is(b, Kb, db, avl),
           NEW c, NEW Kc, NEW dc, Is(c, Kc, dc, avl),
           Between(Ka, m, Kb), Between(Kb, k, Kc)
    PROVE  /\ (avl => db - dc \in -1 .. 1 /\ da - (1 + Higher(db, dc)) \in -1 .. 1) =>
                 Is(Refreshed(m, a, Refreshed(k, b, c)), Ka \cup {m} \cup (Kb \cup {k} \cup Kc),
                    1 + Higher(da, 1 + Higher(db, dc)), avl)
           /\ (avl => da - db \in -1 .. 1 /\ (1 + Higher(da, db)) - dc \in -1 .. 1) =>
                 Is(Refreshed(k, Refreshed(m, a, b), c), (Ka \cup {m} \cup Kb) \cup {k} \cup Kc,
                    1 + Higher(1 + Higher(da, db), dc), avl)
<1>1. Ka \in SUBSET Keys /\ Kb \in SUBSET Keys /\ Kc \in SUBSET Keys
  BY IsType
<1>2. Between(Ka, m, Kb \cup {k} \cup Kc) /\ Between(Ka \cup {m} \cup Kb, k, Kc)
  BY <1>1, BetweenIsTransitive
<1>3. ASSUME avl => db - dc \in -1 .. 1 /\ da - (1 + Higher(db, dc)) \in -1 .. 1
      PROVE  Is(Refreshed(m, a, Refreshed(k, b, c)), Ka \cup {m} \cup (Kb \cup {k} \cup Kc),
                1 + Higher(da, 1 + Higher(db, dc)), avl)
  <2>1. Is(Refreshed(k, b, c), Kb \cup {k} \cup Kc, 1 + Higher(db, dc), avl)
    BY <1>3, RefreshedIs DEF Between
  <2> QED BY <1>2, <1>3, <2>1, RefreshedIs DEF Between
<1>4. ASSUME avl => da - db \in -1 .. 1 /\ (1 + Higher(da, db)) - dc \in -1 .. 1
      PROVE  Is(Refreshed(k, Refreshed(m, a, b), c), (Ka \cup {m} \cup Kb) \cup {k} \cup Kc,
                1 + Higher(1 + Higher(da, db), dc), avl)
  <2>1. Is(Refreshed(m, a, b), Ka \cup {m} \cup Kb, 1 + Higher(da, db), avl)
    BY <1>4, RefreshedIs DEF Between
  <2> QED BY <1>2, <1>4, <2>1, RefreshedIs DEF Between
<1> QED BY <1>3, <1>4

\* Four search trees and the three keys between them, after two rotations.
LEMMA DoubleRotatedIs ==
    ASSUME NEW avl, NEW m \in Keys, NEW q \in Keys, NEW k \in Keys, m < q, q < k,
           NEW a, NEW Ka, NEW da, Is(a, Ka, da, avl),
           NEW b, NEW Kb, NEW db, Is(b, Kb, db, avl),
           NEW c, NEW Kc, NEW dc, Is(c, Kc, dc, avl),
           NEW e, NEW Ke, NEW de, Is(e, Ke, de, avl),
           Between(Ka, m, Kb), Between(Kb, q, Kc), Between(Kc, k, Ke),
           avl => /\ da - db \in -1 .. 1 /\ dc - de \in -1 .. 1
                  /\ Higher(da, db) - Higher(dc, de) \in -1 .. 1
    PROVE  Is(Refreshed(q, Refreshed(m, a, b), Refreshed(k, c, e)),
              (Ka \cup {m} \cup Kb) \cup {q} \cup (Kc \cup {k} \cup Ke),
              2 + Higher(Higher(da, db), Higher(dc, de)), avl)
<1>1. /\ Ka \in SUBSET Keys /\ Kb \in SUBSET Keys /\ Kc \in SUBSET Keys /\ Ke \in SUBSET Keys
      /\ da \in Int /\ db \in Int /\ dc \in Int /\ de \in Int
  BY IsType
<1>2. Is(Refreshed(m, a, b), Ka \cup {m} \cup Kb, 1 + Higher(da, db), avl)
  BY RefreshedIs DEF Between
<1>3. Is(Refreshed(k, c, e), Kc \cup {k} \cup Ke, 1 + Higher(dc, de), avl)
  BY RefreshedIs DEF Between
<1>4. Between(Ka \cup {m} \cup Kb, q, Kc) /\ Between(Kb, q, Kc \cup {k} \cup Ke)
  BY <1>1, BetweenIsTransitive
<1>5. Between(Ka \cup {m} \cup Kb, q, Kc \cup {k} \cup Ke)
  BY <1>4 DEF Between
<1>6. avl => (1 + Higher(da, db)) - (1 + Higher(dc, de)) \in -1 .. 1
  BY <1>1 DEF Higher
<1>7. Is(Refreshed(q, Refreshed(m, a, b), Refreshed(k, c, e)),
         (Ka \cup {m} \cup Kb) \cup {q} \cup (Kc \cup {k} \cup Ke),
         1 + Higher(1 + Higher(da, db), 1 + Higher(dc, de)), avl)
  BY <1>2, <1>3, <1>5, <1>6, RefreshedIs DEF Between
<1>8. 1 + Higher(1 + Higher(da, db), 1 + Higher(dc, de))
        = 2 + Higher(Higher(da, db), Higher(dc, de))
  BY <1>1 DEF Higher
<1> QED BY <1>7, <1>8

-----------------------------------------------------------------------------
(* Insertion *)

TallerFor(u, k) ==
    \/ k < u.key /\ u.left.height = u.right.height + 1
    \/ u.key < k /\ u.right.height = u.left.height + 1

\* u is what is left of a tree of the keys K and of depth d when k was
\* inserted.  A balanced tree grows by one at most, then by the side of k.  If
\* k stands at the top, it is alone or has two children: a double rotation
\* never meets NULL, not even in a tree that deletions unbalanced.
GrewTo(u, K, d, k, avl, e) ==
    /\ Is(u, K \cup {k}, e, avl)
    /\ u.key = k => u = Node(k) \/ (u.left # Nil /\ u.right # Nil)
    /\ avl => e = d \/ (e = d + 1 /\ (d = -1 \/ TallerFor(u, k)))

Grew(u, K, d, k, avl) == \E e : GrewTo(u, K, d, k, avl, e)

LEMMA NodeGrew ==
    ASSUME NEW avl \in BOOLEAN, NEW k \in Keys
    PROVE  Grew(Node(k), {}, -1, k, avl)
<1>1. Node(k) = Tree(k, Nil, Nil, 0)
  BY DEF Node, Tree
<1>2. Fits(k, 0, {}, -1, {}, -1, avl)
  BY DEF Fits, Higher
<1>3. Is(Node(k), {k}, 0, avl)
  <2>1. Is(Tree(k, Nil, Nil, 0), {} \cup {k} \cup {}, 1 + Higher(-1, -1), avl)
    BY <1>2, NilIs, TreeIs
  <2>2. {} \cup {k} \cup {} = {k} /\ 1 + Higher(-1, -1) = 0
    BY DEF Higher
  <2> QED BY <1>1, <2>1, <2>2
<1>4. {} \cup {k} = {k}
  OBVIOUS
<1>5. GrewTo(Node(k), {}, -1, k, avl, 0)
  BY <1>3, <1>4 DEF GrewTo
<1> QED BY <1>5 DEF Grew

\* The left child grew.
LEMMA GrewLeft ==
    ASSUME NEW avl \in BOOLEAN, NEW t, NEW K, NEW d, NEW m, NEW h,
           NEW l, NEW Kl, NEW dl, NEW r, NEW Kr, NEW dr,
           IsOver(t, K, d, avl, m, h, l, Kl, dl, r, Kr, dr),
           NEW k \in Keys, k < m, NEW u, Grew(u, Kl, dl, k, avl)
    PROVE  Grew(Refresh(InsertedLeft([t EXCEPT !.left = u], k)), K, d, k, avl)
<1> DEFINE v == Tree(m, u, r, h)
           w == Refresh(InsertedLeft(v, k))
<1>1. [t EXCEPT !.left = u] = v
  BY EditLeft DEF IsOver
<1>2. PICK e : GrewTo(u, Kl, dl, k, avl, e)
  BY DEF Grew
<1>3. /\ m \in Keys /\ K = Kl \cup {m} \cup Kr /\ d = 1 + Higher(dl, dr)
      /\ Between(Kl, m, Kr) /\ (avl => dl - dr \in -1 .. 1)
      /\ Is(l, Kl, dl, avl) /\ Is(r, Kr, dr, avl)
  BY DEF IsOver, Fits, Between
<1>4. Is(u, Kl \cup {k}, e, avl) /\ (avl => e = dl \/ e = dl + 1)
  BY <1>2 DEF GrewTo
<1>5. /\ e \in Nat \cup {-1} /\ dl \in Nat \cup {-1} /\ dr \in Nat \cup {-1}
      /\ Kl \cup {k} \subseteq Keys /\ Kr \subseteq Keys
  BY <1>3, <1>4, IsType
<1>6. Between(Kl \cup {k}, m, Kr)
  BY <1>3 DEF Between
<1>7. /\ u.height \in Nat \cup {-1} /\ (avl => u.height = e)
      /\ r.height \in Nat \cup {-1} /\ (avl => r.height = dr)
  BY <1>3, <1>4, IsHeight
<1>8. k \in Int /\ m \in Int
  BY <1>3, TreeAssumption
<1>9. /\ LeftHeavy(v) <=> u.height - r.height >= 2
      /\ v.left = u
  BY TreeParts DEF LeftHeavy
<1>10. SUFFICES Grew(w, K, d, k, avl)
  BY <1>1
<1>11. CASE ~LeftHeavy(v)
  <2>1. w = Refreshed(m, u, r)
    BY <1>11, RefreshTree DEF InsertedLeft
  <2>2. w.key = m /\ w.left = u /\ w.right = r
    BY <2>1, RefreshedParts
  <2>3. avl => e - dr \in -1 .. 1
    BY <1>3, <1>4, <1>5, <1>7, <1>9, <1>11
  <2>4. Is(w, (Kl \cup {k}) \cup {m} \cup Kr, 1 + Higher(e, dr), avl)
    BY <1>3, <1>4, <1>6, <2>1, <2>3, RefreshedIs DEF Between
  <2>5. (Kl \cup {k}) \cup {m} \cup Kr = K \cup {k}
    BY <1>3
  <2>6. avl => \/ 1 + Higher(e, dr) = d
               \/ 1 + Higher(e, dr) = d + 1 /\ u.height = r.height + 1
    BY <1>3, <1>4, <1>5, <1>7, <2>3 DEF Higher
  <2>7. GrewTo(w, K, d, k, avl, 1 + Higher(e, dr))
    <3> HIDE DEF w
    <3>1. w.key # k
      BY <1>8, <2>2
    <3>2. avl /\ 1 + Higher(e, dr) # d => 1 + Higher(e, dr) = d + 1 /\ TallerFor(w, k)
      BY <1>8, <2>2, <2>6 DEF TallerFor
    <3> QED BY <2>4, <2>5, <3>1, <3>2 DEF GrewTo
  <2> QED BY <2>7 DEF Grew
<1>12. CASE LeftHeavy(v)
  <2>1. u.height >= 1
    BY <1>7, <1>9, <1>12
  <2>2. u # Nil
    BY <2>1 DEF Nil
  <2>3. PICK q, g, a, Ka, da, b, Kb, db :
             IsOver(u, Kl \cup {k}, e, avl, q, g, a, Ka, da, b, Kb, db)
    BY <1>4, <2>2, IsCases
  <2>4. /\ q \in Keys /\ Kl \cup {k} = Ka \cup {q} \cup Kb /\ e = 1 + Higher(da, db)
        /\ Between(Ka, q, Kb) /\ (avl => da - db \in -1 .. 1)
        /\ Is(a, Ka, da, avl) /\ Is(b, Kb, db, avl) /\ u = Tree(q, a, b, g)
    BY <2>3 DEF IsOver, Fits, Between
  <2>5. /\ u.key = q /\ u.left = a /\ u.right = b
        /\ q \in Int /\ q < m /\ Between(Kb, m, Kr)
    <3>1. u.key = q /\ u.left = a /\ u.right = b
      BY <2>4, TreeParts
    <3>2. q \in Kl \cup {k} /\ Kb \subseteq Kl \cup {k}
      BY <2>4
    <3>3. q < m /\ Between(Kb, m, Kr)
      BY <1>6, <3>2 DEF Between
    <3> QED BY <2>4, <3>1, <3>3, TreeAssumption
  <2>6. /\ da \in Nat \cup {-1} /\ db \in Nat \cup {-1}
        /\ a.height \in Nat \cup {-1} /\ (avl => a.height = da)
        /\ b.height \in Nat \cup {-1} /\ (avl => b.height = db)
        /\ Ka \subseteq Keys /\ Kb \subseteq Keys
    BY <2>4, IsType, IsHeight
  \* It had to grow, by the side of k.
  <2>7. avl => /\ e = dl + 1 /\ e = dr + 2 /\ d = dr + 2
               /\ \/ k < q /\ da = db + 1
                  \/ q < k /\ db = da + 1
    <3>1. avl => e = dl + 1 /\ e = dr + 2 /\ d = dr + 2 /\ dl # -1
      BY <1>3, <1>4, <1>5, <1>7, <1>9, <1>12 DEF Higher
    <3>2. avl => TallerFor(u, k)
      BY <1>2, <1>5, <3>1 DEF GrewTo
    <3> QED BY <2>5, <2>6, <3>1, <3>2 DEF TallerFor
  <2>8. CASE k < q
    <3>1. w = Refreshed(q, a, Refreshed(m, b, r))
      <4>1. InsertedLeft(v, k) = SingRotateLeft(v)
        BY <1>9, <1>12, <2>5, <2>8 DEF InsertedLeft
      <4>2. SingRotateLeft(v) = Refreshed(q, a, Refreshed(m, b, r))
        BY <2>4, SingRotations
      <4> QED BY <4>1, <4>2, RefreshedParts
    <3>2. avl => db - dr \in -1 .. 1 /\ da - (1 + Higher(db, dr)) \in -1 .. 1
      BY <1>5, <1>8, <2>4, <2>5, <2>6, <2>7, <2>8 DEF Higher
    <3>3. Is(w, Ka \cup {q} \cup (Kb \cup {m} \cup Kr), 1 + Higher(da, 1 + Higher(db, dr)), avl)
      <4> HIDE DEF w
      <4> QED BY <1>3, <2>4, <2>5, <3>1, <3>2, SingRotatedIs
    <3>4. Ka \cup {q} \cup (Kb \cup {m} \cup Kr) = K \cup {k}
      BY <1>3, <2>4
    <3>5. avl => 1 + Higher(da, 1 + Higher(db, dr)) = d
      BY <1>5, <1>8, <2>4, <2>5, <2>6, <2>7, <2>8 DEF Higher
    <3>6. w.key = q
      BY <3>1, RefreshedParts
    <3>7. GrewTo(w, K, d, k, avl, 1 + Higher(da, 1 + Higher(db, dr)))
      <4>1. q # k
        BY <1>8, <2>5, <2>8
      <4> HIDE DEF w
      <4> QED BY <3>3, <3>4, <3>5, <3>6, <4>1 DEF GrewTo
    <3> QED BY <3>7 DEF Grew
  <2>9. CASE ~(k < q)
    <3>1. b # Nil
      <4>1. CASE k = q
        <5>1. u # Node(k)
          BY <2>1 DEF Node
        <5> QED BY <1>2, <2>5, <4>1, <5>1 DEF GrewTo
      <4>2. CASE q < k
        <5>1. k \in Kb
          BY <1>8, <2>4, <2>5, <4>2 DEF Between
        <5> QED BY <2>4, <5>1, IsCases
      <4> QED BY <1>8, <2>5, <2>9, <4>1, <4>2
    <3>2. PICK s, f, b1, K1, d1, b2, K2, d2 :
               IsOver(b, Kb, db, avl, s, f, b1, K1, d1, b2, K2, d2)
      BY <2>4, <3>1, IsCases
    <3>3. /\ s \in Keys /\ Kb = K1 \cup {s} \cup K2 /\ db = 1 + Higher(d1, d2)
          /\ Between(K1, s, K2) /\ (avl => d1 - d2 \in -1 .. 1)
          /\ Is(b1, K1, d1, avl) /\ Is(b2, K2, d2, avl) /\ b = Tree(s, b1, b2, f)
      BY <3>2 DEF IsOver, Fits, Between
    <3>4. /\ d1 \in Nat \cup {-1} /\ d2 \in Nat \cup {-1}
          /\ K1 \subseteq Keys /\ K2 \subseteq Keys
      BY <3>3, IsType
    <3>5. /\ q < s /\ s < m
          /\ Between(Ka, q, K1) /\ Between(K2, m, Kr)
      BY <2>4, <2>5, <3>3 DEF Between
    <3>6. w = Refreshed(s, Refreshed(q, a, b1), Refreshed(m, b2, r))
      <4>1. InsertedLeft(v, k) = DoubleRotateLR(v)
        BY <1>9, <1>12, <2>5, <2>9 DEF InsertedLeft
      <4>2. DoubleRotateLR(v) = Refreshed(s, Refreshed(q, a, b1), Refreshed(m, b2, r))
        BY <2>4, <3>3, DoubleRotations
      <4> QED BY <4>1, <4>2, RefreshedParts
    <3>7. avl => /\ da - d1 \in -1 .. 1 /\ d2 - dr \in -1 .. 1
                 /\ Higher(da, d1) = dr /\ Higher(d2, dr) = dr
      <4>1. avl => db = da + 1 /\ dr = da
        <5>1. avl => db = da + 1 /\ e = dr + 2
          BY <1>8, <2>5, <2>7, <2>9
        <5>2. e = 1 + Higher(da, db)
          BY <2>4
        <5> QED BY <1>5, <2>6, <5>1, <5>2 DEF Higher
      <4>2. db = 1 + Higher(d1, d2) /\ (avl => d1 - d2 \in -1 .. 1)
        BY <3>3
      <4> QED BY <2>6, <3>4, <4>1, <4>2 DEF Higher
    <3>8. avl => Higher(da, d1) - Higher(d2, dr) \in -1 .. 1
      BY <1>5, <3>7
    <3>9. Is(w, (Ka \cup {q} \cup K1) \cup {s} \cup (K2 \cup {m} \cup Kr),
             2 + Higher(Higher(da, d1), Higher(d2, dr)), avl)
      BY <1>3, <2>4, <3>3, <3>5, <3>6, <3>7, <3>8, DoubleRotatedIs
    <3>10. (Ka \cup {q} \cup K1) \cup {s} \cup (K2 \cup {m} \cup Kr) = K \cup {k}
      BY <1>3, <2>4, <3>3
    <3>11. avl => 2 + Higher(Higher(da, d1), Higher(d2, dr)) = d
      BY <1>5, <2>7, <3>7 DEF Higher
    <3>12. w.left # Nil /\ w.right # Nil
      BY <3>6, RefreshedParts
    <3>13. GrewTo(w, K, d, k, avl, 2 + Higher(Higher(da, d1), Higher(d2, dr)))
      <4> HIDE DEF w
      <4> QED BY <3>9, <3>10, <3>11, <3>12 DEF GrewTo
    <3> QED BY <3>13 DEF Grew
  <2> QED BY <2>8, <2>9
<1> QED BY <1>11, <1>12

\* The right child grew.
LEMMA GrewRight ==
    ASSUME NEW avl \in BOOLEAN, NEW t, NEW K, NEW d, NEW m, NEW h,
           NEW l, NEW Kl, NEW dl, NEW r, NEW Kr, NEW dr,
           IsOver(t, K, d, avl, m, h, l, Kl, dl, r, Kr, dr),
           NEW k \in Keys, m < k, NEW u, Grew(u, Kr, dr, k, avl)
    PROVE  Grew(Refresh(InsertedRight([t EXCEPT !.right = u], k)), K, d, k, avl)
<1> DEFINE v == Tree(m, l, u, h)
           w == Refresh(InsertedRight(v, k))
<1>1. [t EXCEPT !.right = u] = v
  BY EditRight DEF IsOver
<1>2. PICK e : GrewTo(u, Kr, dr, k, avl, e)
  BY DEF Grew
<1>3. /\ m \in Keys /\ K = Kl \cup {m} \cup Kr /\ d = 1 + Higher(dl, dr)
      /\ Between(Kl, m, Kr) /\ (avl => dl - dr \in -1 .. 1)
      /\ Is(l, Kl, dl, avl) /\ Is(r, Kr, dr, avl)
  BY DEF IsOver, Fits, Between
<1>4. Is(u, Kr \cup {k}, e, avl) /\ (avl => e = dr \/ e = dr + 1)
  BY <1>2 DEF GrewTo
<1>5. /\ e \in Nat \cup {-1} /\ dl \in Nat \cup {-1} /\ dr \in Nat \cup {-1}
      /\ Kr \cup {k} \subseteq Keys /\ Kl \subseteq Keys
  BY <1>3, <1>4, IsType
<1>6. Between(Kl, m, Kr \cup {k})
  BY <1>3 DEF Between
<1>7. /\ u.height \in Nat \cup {-1} /\ (avl => u.height = e)
      /\ l.height \in Nat \cup {-1} /\ (avl => l.height = dl)
  BY <1>3, <1>4, IsHeight
<1>8. k \in Int /\ m \in Int
  BY <1>3, TreeAssumption
<1>9. /\ RightHeavy(v) <=> u.height - l.height >= 2
      /\ v.right = u
  BY TreeParts DEF RightHeavy
<1>10. SUFFICES Grew(w, K, d, k, avl)
  BY <1>1
<1>11. CASE ~RightHeavy(v)
  <2>1. w = Refreshed(m, l, u)
    BY <1>11, RefreshTree DEF InsertedRight
  <2>2. w.key = m /\ w.left = l /\ w.right = u
    BY <2>1, RefreshedParts
  <2>3. avl => dl - e \in -1 .. 1
    BY <1>3, <1>4, <1>5, <1>7, <1>9, <1>11
  <2>4. Is(w, Kl \cup {m} \cup (Kr \cup {k}), 1 + Higher(dl, e), avl)
    BY <1>3, <1>4, <1>6, <2>1, <2>3, RefreshedIs DEF Between
  <2>5. Kl \cup {m} \cup (Kr \cup {k}) = K \cup {k}
    BY <1>3
  <2>6. avl => \/ 1 + Higher(dl, e) = d
               \/ 1 + Higher(dl, e) = d + 1 /\ u.height = l.height + 1
    BY <1>3, <1>4, <1>5, <1>7, <2>3 DEF Higher
  <2>7. GrewTo(w, K, d, k, avl, 1 + Higher(dl, e))
    <3> HIDE DEF w
    <3>1. w.key # k
      BY <1>8, <2>2
    <3>2. avl /\ 1 + Higher(dl, e) # d => 1 + Higher(dl, e) = d + 1 /\ TallerFor(w, k)
      BY <1>8, <2>2, <2>6 DEF TallerFor
    <3> QED BY <2>4, <2>5, <3>1, <3>2 DEF GrewTo
  <2> QED BY <2>7 DEF Grew
<1>12. CASE RightHeavy(v)
  <2>1. u.height >= 1
    BY <1>7, <1>9, <1>12
  <2>2. u # Nil
    BY <2>1 DEF Nil
  <2>3. PICK q, g, a, Ka, da, b, Kb, db :
             IsOver(u, Kr \cup {k}, e, avl, q, g, a, Ka, da, b, Kb, db)
    BY <1>4, <2>2, IsCases
  <2>4. /\ q \in Keys /\ Kr \cup {k} = Ka \cup {q} \cup Kb /\ e = 1 + Higher(da, db)
        /\ Between(Ka, q, Kb) /\ (avl => da - db \in -1 .. 1)
        /\ Is(a, Ka, da, avl) /\ Is(b, Kb, db, avl) /\ u = Tree(q, a, b, g)
    BY <2>3 DEF IsOver, Fits, Between
  <2>5. /\ u.key = q /\ u.left = a /\ u.right = b
        /\ q \in Int /\ m < q /\ Between(Kl, m, Ka)
    <3>1. u.key = q /\ u.left = a /\ u.right = b
      BY <2>4, TreeParts
    <3>2. q \in Kr \cup {k} /\ Ka \subseteq Kr \cup {k}
      BY <2>4
    <3>3. m < q /\ Between(Kl, m, Ka)
      BY <1>6, <3>2 DEF Between
    <3> QED BY <2>4, <3>1, <3>3, TreeAssumption
  <2>6. /\ da \in Nat \cup {-1} /\ db \in Nat \cup {-1}
        /\ a.height \in Nat \cup {-1} /\ (avl => a.height = da)
        /\ b.height \in Nat \cup {-1} /\ (avl => b.height = db)
        /\ Ka \subseteq Keys /\ Kb \subseteq Keys
    BY <2>4, IsType, IsHeight
  <2>7. avl => /\ e = dr + 1 /\ e = dl + 2 /\ d = dl + 2
               /\ \/ k < q /\ da = db + 1
                  \/ q < k /\ db = da + 1
    <3>1. avl => e = dr + 1 /\ e = dl + 2 /\ d = dl + 2 /\ dr # -1
      BY <1>3, <1>4, <1>5, <1>7, <1>9, <1>12 DEF Higher
    <3>2. avl => TallerFor(u, k)
      BY <1>2, <1>5, <3>1 DEF GrewTo
    <3> QED BY <2>5, <2>6, <3>1, <3>2 DEF TallerFor
  <2>8. CASE q < k
    <3>1. w = Refreshed(q, Refreshed(m, l, a), b)
      <4>1. InsertedRight(v, k) = SingRotateRight(v)
        BY <1>9, <1>12, <2>5, <2>8 DEF InsertedRight
      <4>2. SingRotateRight(v) = Refreshed(q, Refreshed(m, l, a), b)
        BY <2>4, SingRotations
      <4> QED BY <4>1, <4>2, RefreshedParts
    <3>2. avl => dl - da \in -1 .. 1 /\ (1 + Higher(dl, da)) - db \in -1 .. 1
      BY <1>5, <1>8, <2>4, <2>5, <2>6, <2>7, <2>8 DEF Higher
    <3>3. Is(w, (Kl \cup {m} \cup Ka) \cup {q} \cup Kb, 1 + Higher(1 + Higher(dl, da), db), avl)
      <4> HIDE DEF w
      <4> QED BY <1>3, <2>4, <2>5, <3>1, <3>2, SingRotatedIs
    <3>4. (Kl \cup {m} \cup Ka) \cup {q} \cup Kb = K \cup {k}
      BY <1>3, <2>4
    <3>5. avl => 1 + Higher(1 + Higher(dl, da), db) = d
      BY <1>5, <1>8, <2>4, <2>5, <2>6, <2>7, <2>8 DEF Higher
    <3>6. w.key = q
      BY <3>1, RefreshedParts
    <3>7. GrewTo(w, K, d, k, avl, 1 + Higher(1 + Higher(dl, da), db))
      <4>1. q # k
        BY <1>8, <2>5, <2>8
      <4> HIDE DEF w
      <4> QED BY <3>3, <3>4, <3>5, <3>6, <4>1 DEF GrewTo
    <3> QED BY <3>7 DEF Grew
  <2>9. CASE ~(q < k)
    <3>1. a # Nil
      <4>1. CASE k = q
        <5>1. u # Node(k)
          BY <2>1 DEF Node
        <5> QED BY <1>2, <2>5, <4>1, <5>1 DEF GrewTo
      <4>2. CASE k < q
        <5>1. k \in Ka
          BY <1>8, <2>4, <2>5, <4>2 DEF Between
        <5> QED BY <2>4, <5>1, IsCases
      <4> QED BY <1>8, <2>5, <2>9, <4>1, <4>2
    <3>2. PICK s, f, a1, K1, d1, a2, K2, d2 :
               IsOver(a, Ka, da, avl, s, f, a1, K1, d1, a2, K2, d2)
      BY <2>4, <3>1, IsCases
    <3>3. /\ s \in Keys /\ Ka = K1 \cup {s} \cup K2 /\ da = 1 + Higher(d1, d2)
          /\ Between(K1, s, K2) /\ (avl => d1 - d2 \in -1 .. 1)
          /\ Is(a1, K1, d1, avl) /\ Is(a2, K2, d2, avl) /\ a = Tree(s, a1, a2, f)
      BY <3>2 DEF IsOver, Fits, Between
    <3>4. /\ d1 \in Nat \cup {-1} /\ d2 \in Nat \cup {-1}
          /\ K1 \subseteq Keys /\ K2 \subseteq Keys
      BY <3>3, IsType
    <3>5. /\ m < s /\ s < q
          /\ Between(Kl, m, K1) /\ Between(K2, q, Kb)
      BY <2>4, <2>5, <3>3 DEF Between
    <3>6. w = Refreshed(s, Refreshed(m, l, a1), Refreshed(q, a2, b))
      <4>1. InsertedRight(v, k) = DoubleRotateRL(v)
        BY <1>8, <1>9, <1>12, <2>5, <2>9 DEF InsertedRight
      <4>2. DoubleRotateRL(v) = Refreshed(s, Refreshed(m, l, a1), Refreshed(q, a2, b))
        BY <2>4, <3>3, DoubleRotations
      <4> QED BY <4>1, <4>2, RefreshedParts
    <3>7. avl => /\ dl - d1 \in -1 .. 1 /\ d2 - db \in -1 .. 1
                 /\ Higher(dl, d1) = dl /\ Higher(d2, db) = dl
      <4>1. avl => da = db + 1 /\ dl = db
        <5>1. avl => da = db + 1 /\ e = dl + 2
          BY <1>8, <2>5, <2>7, <2>9
        <5>2. e = 1 + Higher(da, db)
          BY <2>4
        <5> QED BY <1>5, <2>6, <5>1, <5>2 DEF Higher
      <4>2. da = 1 + Higher(d1, d2) /\ (avl => d1 - d2 \in -1 .. 1)
        BY <3>3
      <4> QED BY <2>6, <3>4, <4>1, <4>2 DEF Higher
    <3>8. avl => Higher(dl, d1) - Higher(d2, db) \in -1 .. 1
      BY <1>5, <3>7
    <3>9. Is(w, (Kl \cup {m} \cup K1) \cup {s} \cup (K2 \cup {q} \cup Kb),
             2 + Higher(Higher(dl, d1), Higher(d2, db)), avl)
      BY <1>3, <2>4, <3>3, <3>5, <3>6, <3>7, <3>8, DoubleRotatedIs
    <3>10. (Kl \cup {m} \cup K1) \cup {s} \cup (K2 \cup {q} \cup Kb) = K \cup {k}
      BY <1>3, <2>4, <3>3
    <3>11. avl => 2 + Higher(Higher(dl, d1), Higher(d2, db)) = d
      BY <1>5, <2>7, <3>7 DEF Higher
    <3>12. w.left # Nil /\ w.right # Nil
      BY <3>6, RefreshedParts
    <3>13. GrewTo(w, K, d, k, avl, 2 + Higher(Higher(dl, d1), Higher(d2, db)))
      <4> HIDE DEF w
      <4> QED BY <3>9, <3>10, <3>11, <3>12 DEF GrewTo
    <3> QED BY <3>13 DEF Grew
  <2> QED BY <2>8, <2>9
<1> QED BY <1>11, <1>12

\* What the call for t leaves there, when it is the one for a child that leaves
\* the tree below.
LEMMA InsertedGrew ==
    ASSUME NEW avl \in BOOLEAN, NEW t, NEW K, NEW d, NEW k \in Keys \ K,
           Is(t, K, d, avl), NEW below,
           \A L, c : Is(Below(t, k), L, c, avl) /\ k \notin L => Grew(below, L, c, k, avl)
    PROVE  Grew(Inserted(t, k, below), K, d, k, avl)
<1>1. CASE t = Nil
  <2>1. K = {} /\ d = -1
    BY <1>1, IsCases
  <2> QED BY <1>1, <2>1, NodeGrew DEF Inserted
<1>2. CASE t # Nil
  <2>1. PICK m, h, l, Kl, dl, r, Kr, dr : IsOver(t, K, d, avl, m, h, l, Kl, dl, r, Kr, dr)
    BY <1>2, IsCases
  <2>2. /\ t.key = m /\ t.left = l /\ t.right = r
    BY <2>1, TreeParts DEF IsOver
  <2>3. m \in Int /\ k \in Int /\ k # m /\ k \notin Kl /\ k \notin Kr
    BY <2>1, TreeAssumption DEF IsOver
  <2>4. Is(l, Kl, dl, avl) /\ Is(r, Kr, dr, avl)
    BY <2>1 DEF IsOver
  <2>5. CASE k < m
    <3>1. Grew(below, Kl, dl, k, avl)
      BY <1>2, <2>2, <2>3, <2>4, <2>5 DEF Below
    <3>2. Grew(Refresh(InsertedLeft([t EXCEPT !.left = below], k)), K, d, k, avl)
      BY <2>1, <2>5, <3>1, GrewLeft
    <3> QED BY <1>2, <2>2, <2>5, <3>2 DEF Inserted
  <2>6. CASE m < k
    <3>1. ~(k < m)
      BY <2>3, <2>6
    <3>2. Grew(below, Kr, dr, k, avl)
      BY <1>2, <2>2, <2>3, <2>4, <3>1 DEF Below
    <3>3. Grew(Refresh(InsertedRight([t EXCEPT !.right = below], k)), K, d, k, avl)
      BY <2>1, <2>6, <3>2, GrewRight
    <3> QED BY <1>2, <2>2, <3>1, <3>3 DEF Inserted
  <2> QED BY <2>3, <2>5, <2>6
<1> QED BY <1>1, <1>2

-----------------------------------------------------------------------------
(* Searches *)

LEMMA PathSteps ==
    ASSUME NEW t, NEW k
    PROVE  /\ Path(t, k)[0] = t
           /\ \A i \in 1 .. Capacity : Path(t, k)[i] = Below(Path(t, k)[i - 1], k)
<1> DEFINE Runs(f, n) == f = [i \in 0 .. n |-> IF i = 0 THEN t ELSE Below(f[i - 1], k)]
           S == {n \in 0 .. Capacity : \E f : Runs(f, n)}
<1>1. Capacity \in Nat
  BY TreeAssumption
<1>2. 0 \in S
  <2> DEFINE f == [i \in 0 .. 0 |-> t]
  <2>1. Runs(f, 0)
    OBVIOUS
  <2> HIDE DEF f, Runs
  <2> QED BY <1>1, <2>1
<1>3. ASSUME NEW n \in 0 .. Capacity - 1, n \in S PROVE n + 1 \in S
  <2>1. PICK f : Runs(f, n)
    BY <1>3
  <2> DEFINE g == [i \in 0 .. n + 1 |-> IF i = 0 THEN t ELSE Below(f[i - 1], k)]
  <2>2. ASSUME NEW i \in 0 .. n PROVE g[i] = f[i]
    <3>1. f[i] = IF i = 0 THEN t ELSE Below(f[i - 1], k)
      BY <2>1
    <3>2. i \in 0 .. n + 1
      BY <1>1
    <3>3. g[i] = IF i = 0 THEN t ELSE Below(f[i - 1], k)
      BY <3>2
    <3> QED BY <3>1, <3>3
  <2>3. ASSUME NEW i \in 0 .. n + 1
        PROVE  g[i] = IF i = 0 THEN t ELSE Below(g[i - 1], k)
    <3>1. i # 0 => i - 1 \in 0 .. n
      BY <1>1
    <3>2. i # 0 => g[i - 1] = f[i - 1]
      BY <2>2, <3>1
    <3>3. g[i] = IF i = 0 THEN t ELSE Below(f[i - 1], k)
      OBVIOUS
    <3> HIDE DEF g
    <3> QED BY <3>2, <3>3
  <2>4. g = [i \in 0 .. n + 1 |-> g[i]]
    OBVIOUS
  <2>5. Runs(g, n + 1)
    <3> HIDE DEF g
    <3> QED BY <2>3, <2>4
  <2> HIDE DEF g, Runs
  <2> QED BY <1>1, <2>5
<1>4. 0 .. Capacity \subseteq S
  <2> HIDE DEF S
  <2> QED BY <1>1, <1>2, <1>3, AllUpTo
<1>5. \E f : Runs(f, Capacity)
  BY <1>1, <1>4
<1>6. Runs(Path(t, k), Capacity)
  BY <1>5 DEF Path
<1> HIDE DEF S
<1> QED BY <1>1, <1>6

\* A step of a search: k is among the keys of the next tree if it is among
\* those of this one, and that tree is lower, unless the search stops.
LEMMA BelowIs ==
    ASSUME NEW avl, NEW k \in Keys, NEW t, NEW K, NEW d, Is(t, K, d, avl)
    PROVE  \/ (t = Nil \/ t.key = k) /\ Below(t, k) = t
           \/ \E L, c : /\ Is(Below(t, k), L, c, avl) /\ L \subseteq K
                        /\ (k \in L <=> k \in K) /\ c < d
<1>1. CASE t = Nil \/ t.key = k
  BY <1>1 DEF Below
<1>2. CASE t # Nil /\ t.key # k
  <2>1. PICK m, h, l, Kl, dl, r, Kr, dr : IsOver(t, K, d, avl, m, h, l, Kl, dl, r, Kr, dr)
    BY <1>2, IsCases
  <2>2. /\ t.key = m /\ t.left = l /\ t.right = r
    BY <2>1, TreeParts DEF IsOver
  <2>3. /\ m \in Int /\ k \in Int /\ k # m
        /\ Is(l, Kl, dl, avl) /\ Is(r, Kr, dr, avl)
        /\ K = Kl \cup {m} \cup Kr /\ Between(Kl, m, Kr) /\ d = 1 + Higher(dl, dr)
    BY <1>2, <2>1, <2>2, TreeAssumption DEF IsOver, Fits, Between
  <2>4. dl \in Int /\ dr \in Int /\ dl < d /\ dr < d /\ Kl \subseteq K /\ Kr \subseteq K
    BY <2>3, IsType DEF Higher
  <2>5. CASE k < m
    <3>1. Below(t, k) = l
      BY <1>2, <2>2, <2>5 DEF Below
    <3>2. k \in Kl <=> k \in K
      BY <2>3, <2>5 DEF Between
    <3> QED BY <2>3, <2>4, <3>1, <3>2
  <2>6. CASE m < k
    <3>1. Below(t, k) = r
      BY <1>2, <2>2, <2>3, <2>6 DEF Below
    <3>2. k \in Kr <=> k \in K
      BY <2>3, <2>6 DEF Between
    <3> QED BY <2>3, <2>4, <3>1, <3>2
  <2> QED BY <2>3, <2>5, <2>6
<1> QED BY <1>1, <1>2

\* What a search for k has come to after i steps.
Searching(t, K, d, avl, k, i) ==
    \E L, c : /\ Is(Path(t, k)[i], L, c, avl)
             /\ L \subseteq K /\ (k \in L <=> k \in K)
             /\ \/ Path(t, k)[i] = Nil \/ Path(t, k)[i].key = k
                \/ c <= d - i

LEMMA PathSearches ==
    ASSUME NEW avl, NEW k \in Keys, NEW t, NEW K, NEW d, Is(t, K, d, avl)
    PROVE  \A i \in 0 .. Capacity : Searching(t, K, d, avl, k, i)
<1> DEFINE S == {i \in 0 .. Capacity : Searching(t, K, d, avl, k, i)}
<1>1. Capacity \in Nat /\ d \in Int
  BY IsType, TreeAssumption
<1>2. 0 \in S
  BY <1>1, PathSteps DEF Searching
<1>3. ASSUME NEW i \in 0 .. Capacity - 1, i \in S PROVE i + 1 \in S
  <2> DEFINE u == Path(t, k)[i]
             v == Path(t, k)[i + 1]
  <2>1. v = Below(u, k)
    <3>1. i + 1 \in 1 .. Capacity /\ (i + 1) - 1 = i
      BY <1>1
    <3> QED BY <3>1, PathSteps
  <2>2. PICK L, c : /\ Is(u, L, c, avl) /\ L \subseteq K /\ (k \in L <=> k \in K)
                    /\ u = Nil \/ u.key = k \/ c <= d - i
    BY <1>3 DEF Searching
  <2> HIDE DEF u
  <2>3. CASE (u = Nil \/ u.key = k) /\ Below(u, k) = u
    <3>1. Searching(t, K, d, avl, k, i + 1)
      BY <2>1, <2>2, <2>3 DEF Searching
    <3> QED BY <1>1, <3>1
  <2>4. CASE ~((u = Nil \/ u.key = k) /\ Below(u, k) = u)
    <3>1. PICK M, e : /\ Is(Below(u, k), M, e, avl) /\ M \subseteq L
                      /\ (k \in M <=> k \in L) /\ e < c
      BY <2>2, <2>4, BelowIs
    <3>2. u # Nil /\ u.key # k
      BY <2>4 DEF Below
    <3>3. e <= d - (i + 1)
      BY <1>1, <2>2, <3>1, <3>2, IsType
    <3>4. Searching(t, K, d, avl, k, i + 1)
      BY <2>1, <2>2, <3>1, <3>3 DEF Searching
    <3> QED BY <1>1, <3>4
  <2> QED BY <2>3, <2>4
<1>4. 0 .. Capacity \subseteq S
  <2> HIDE DEF S
  <2> QED BY <1>1, <1>2, <1>3, AllUpTo
<1> QED BY <1>4

\* A search ends at k's node if k is there, and else at NULL.
LEMMA FindInnerFinds ==
    ASSUME NEW avl, NEW k \in Keys, NEW t, NEW K, NEW d, Is(t, K, d, avl),
           Cardinality(K) <= Capacity
    PROVE  /\ k \notin K => FindInner(t, k) = Nil
           /\ k \in K => /\ FindInner(t, k) # Nil
                         /\ FindInner(t, k).key = k /\ FindInner(t, k).data = k
<1> DEFINE u == FindInner(t, k)
<1>1. Capacity \in Nat /\ Capacity \in 0 .. Capacity
  BY TreeAssumption
<1>2. u = Path(t, k)[Capacity]
  BY DEF FindInner
<1>3. PICK L, c : /\ Is(u, L, c, avl) /\ (k \in L <=> k \in K)
                  /\ u = Nil \/ u.key = k \/ c <= d - Capacity
  BY <1>1, <1>2, PathSearches DEF Searching
<1> HIDE DEF u
<1>4. CASE u = Nil
  BY <1>3, <1>4, IsCases DEF u
<1>5. CASE u # Nil
  <2>1. PICK m, h, l, Kl, dl, r, Kr, dr : IsOver(u, L, c, avl, m, h, l, Kl, dl, r, Kr, dr)
    BY <1>3, <1>5, IsCases
  <2>2. u.key = m /\ u.data = m /\ m \in L
    BY <2>1, TreeParts DEF IsOver
  <2>3. c >= 0
    <3>1. c = 1 + Higher(dl, dr) /\ dl \in Nat \cup {-1} /\ dr \in Nat \cup {-1}
      BY <2>1, IsType DEF IsOver
    <3> QED BY <3>1 DEF Higher
  <2>4. d < Capacity /\ d \in Int /\ c \in Int
    BY <1>1, <1>3, IsType
  <2>5. u.key = k
    BY <1>1, <1>3, <1>5, <2>3, <2>4
  <2> QED BY <1>3, <1>5, <2>2, <2>5 DEF u
<1> QED BY <1>4, <1>5

LEMMA BuiltSteps ==
    ASSUME NEW t, NEW k
    PROVE  \E built :
             /\ InsertInner(t, k) = built[Capacity]
             /\ built[0] = Inserted(Path(t, k)[Capacity], k, Nil)
             /\ \A j \in 1 .. Capacity :
                    built[j] = Inserted(Path(t, k)[Capacity - j], k, built[j - 1])
<1> DEFINE Runs(f, n) ==
               f = [j \in 0 .. n |-> Inserted(Path(t, k)[Capacity - j], k,
                                              IF j = 0 THEN Nil ELSE f[j - 1])]
           S == {n \in 0 .. Capacity : \E f : Runs(f, n)}
<1>1. Capacity \in Nat
  BY TreeAssumption
<1>2. 0 \in S
  <2> DEFINE f == [j \in 0 .. 0 |-> Inserted(Path(t, k)[Capacity - j], k, Nil)]
  <2>1. Runs(f, 0)
    OBVIOUS
  <2> HIDE DEF f, Runs
  <2> QED BY <1>1, <2>1
<1>3. ASSUME NEW n \in 0 .. Capacity - 1, n \in S PROVE n + 1 \in S
  <2>1. PICK f : Runs(f, n)
    BY <1>3
  <2> DEFINE g == [j \in 0 .. n + 1 |-> Inserted(Path(t, k)[Capacity - j], k,
                                                 IF j = 0 THEN Nil ELSE f[j - 1])]
  <2>2. ASSUME NEW j \in 0 .. n PROVE g[j] = f[j]
    <3>1. f[j] = Inserted(Path(t, k)[Capacity - j], k, IF j = 0 THEN Nil ELSE f[j - 1])
      BY <2>1
    <3>2. j \in 0 .. n + 1
      BY <1>1
    <3>3. g[j] = Inserted(Path(t, k)[Capacity - j], k, IF j = 0 THEN Nil ELSE f[j - 1])
      BY <3>2
    <3> QED BY <3>1, <3>3
  <2>3. ASSUME NEW j \in 0 .. n + 1
        PROVE  g[j] = Inserted(Path(t, k)[Capacity - j], k,
                              IF j = 0 THEN Nil ELSE g[j - 1])
    <3>1. j # 0 => j - 1 \in 0 .. n
      BY <1>1
    <3>2. j # 0 => g[j - 1] = f[j - 1]
      BY <2>2, <3>1
    <3>3. g[j] = Inserted(Path(t, k)[Capacity - j], k, IF j = 0 THEN Nil ELSE f[j - 1])
      OBVIOUS
    <3> HIDE DEF g
    <3> QED BY <3>2, <3>3
  <2>4. g = [j \in 0 .. n + 1 |-> g[j]]
    OBVIOUS
  <2>5. Runs(g, n + 1)
    <3> HIDE DEF g
    <3> QED BY <2>3, <2>4
  <2> HIDE DEF g, Runs
  <2> QED BY <1>1, <2>5
<1>4. 0 .. Capacity \subseteq S
  <2> HIDE DEF S
  <2> QED BY <1>1, <1>2, <1>3, AllUpTo
<1>5. \E f : Runs(f, Capacity)
  BY <1>1, <1>4
<1> DEFINE built == CHOOSE f : Runs(f, Capacity)
<1>6. Runs(built, Capacity)
  BY <1>5
<1>7. InsertInner(t, k) = built[Capacity]
  BY DEF InsertInner
<1> HIDE DEF S, built
<1>8. /\ built[0] = Inserted(Path(t, k)[Capacity], k, Nil)
      /\ \A j \in 1 .. Capacity :
             built[j] = Inserted(Path(t, k)[Capacity - j], k, built[j - 1])
  BY <1>1, <1>6
<1> QED BY <1>7, <1>8

LEMMA InsertInnerGrew ==
    ASSUME NEW avl \in BOOLEAN, NEW t, NEW K, NEW d, Is(t, K, d, avl),
           NEW k \in Keys \ K, Cardinality(K) <= Capacity
    PROVE  Grew(InsertInner(t, k), K, d, k, avl)
<1>1. PICK built :
        /\ InsertInner(t, k) = built[Capacity]
        /\ built[0] = Inserted(Path(t, k)[Capacity], k, Nil)
        /\ \A j \in 1 .. Capacity :
               built[j] = Inserted(Path(t, k)[Capacity - j], k, built[j - 1])
  BY BuiltSteps
<1> DEFINE Grows(j) == \A L, c : Is(Path(t, k)[Capacity - j], L, c, avl) /\ k \notin L =>
                                    Grew(built[j], L, c, k, avl)
           S == {j \in 0 .. Capacity : Grows(j)}
<1>2. Capacity \in Nat /\ Capacity - 0 = Capacity /\ Capacity - Capacity = 0
  BY TreeAssumption
<1>3. 0 \in S
  <2>1. Path(t, k)[Capacity] = Nil
    BY FindInnerFinds DEF FindInner
  <2>2. built[0] = Node(k)
    BY <1>1, <2>1 DEF Inserted
  <2>3. \A L, c : Is(Nil, L, c, avl) => L = {} /\ c = -1
    BY IsCases
  <2>4. Grows(0)
    BY <1>2, <2>1, <2>2, <2>3, NodeGrew
  <2> HIDE DEF Grows
  <2> QED BY <1>2, <2>4
<1>4. ASSUME NEW j \in 0 .. Capacity - 1, j \in S PROVE j + 1 \in S
  <2> DEFINE i == Capacity - (j + 1)
             u == Path(t, k)[i]
  <2>1. /\ j + 1 \in 1 .. Capacity /\ (j + 1) - 1 = j
        /\ i + 1 \in 1 .. Capacity /\ (i + 1) - 1 = i /\ i + 1 = Capacity - j
    BY <1>2
  <2>2. Path(t, k)[Capacity - j] = Below(u, k)
    BY <2>1, PathSteps
  <2>3. built[j + 1] = Inserted(u, k, built[j])
    BY <1>1, <2>1
  <2>4. \A L, c : Is(Below(u, k), L, c, avl) /\ k \notin L => Grew(built[j], L, c, k, avl)
    BY <1>4, <2>2
  <2>5. ASSUME NEW L, NEW c, Is(u, L, c, avl), k \notin L
        PROVE  Grew(built[j + 1], L, c, k, avl)
    <3> HIDE DEF u
    <3> QED BY <2>3, <2>4, <2>5, InsertedGrew
  <2>6. Grows(j + 1)
    BY <2>5
  <2> HIDE DEF Grows
  <2> QED BY <1>2, <2>6
<1>5. 0 .. Capacity \subseteq S
  <2> HIDE DEF S
  <2> QED BY <1>2, <1>3, <1>4, AllUpTo
<1>6. Grows(Capacity)
  BY <1>2, <1>5
<1>7. Path(t, k)[0] = t
  BY PathSteps
<1> QED BY <1>1, <1>2, <1>6, <1>7

-----------------------------------------------------------------------------
(* Deletion *)

\* Rebalancing a node over two search trees, whatever their depths, gives a
\* search tree; the rotations meet no NULL.
LEMMA DeletedLeftIs ==
    ASSUME NEW m \in Keys, NEW h,
           NEW l, NEW Kl, NEW dl, Is(l, Kl, dl, FALSE),
           NEW r, NEW Kr, NEW dr, Is(r, Kr, dr, FALSE), Between(Kl, m, Kr)
    PROVE  \E e : Is(Refresh(DeletedLeft(Tree(m, l, r, h))), Kl \cup {m} \cup Kr, e, FALSE)
<1> DEFINE t == Tree(m, l, r, h)
           w == Refresh(DeletedLeft(t))
<1>1. t.left = l /\ t.right = r
  BY TreeParts
<1>2. l.height \in Nat \cup {-1} /\ r.height \in Nat \cup {-1}
  BY IsHeight
<1>3. CASE ~RightHeavy(t)
  <2>1. w = Refreshed(m, l, r)
    BY <1>3, RefreshTree DEF DeletedLeft
  <2>2. Is(Refreshed(m, l, r), Kl \cup {m} \cup Kr, 1 + Higher(dl, dr), FALSE)
    BY RefreshedIs DEF Between
  <2> QED BY <2>1, <2>2
<1>4. CASE RightHeavy(t)
  <2>1. r # Nil
    BY <1>1, <1>2, <1>4 DEF RightHeavy, Nil
  <2>2. PICK q, g, a, Ka, da, b, Kb, db : IsOver(r, Kr, dr, FALSE, q, g, a, Ka, da, b, Kb, db)
    BY <2>1, IsCases
  <2>3. /\ q \in Keys /\ Kr = Ka \cup {q} \cup Kb /\ Between(Ka, q, Kb)
        /\ Is(a, Ka, da, FALSE) /\ Is(b, Kb, db, FALSE) /\ r = Tree(q, a, b, g)
    BY <2>2 DEF IsOver, Fits, Between
  <2>4. r.left = a /\ r.right = b
    BY <2>3, TreeParts
  <2>5. m < q /\ Between(Kl, m, Ka)
    BY <2>3 DEF Between
  <2>6. CASE ~(a.height > b.height)
    <3>1. w = Refreshed(q, Refreshed(m, l, a), b)
      <4>1. DeletedLeft(t) = SingRotateRight(t)
        BY <1>1, <1>4, <2>4, <2>6 DEF DeletedLeft
      <4>2. SingRotateRight(t) = Refreshed(q, Refreshed(m, l, a), b)
        BY <2>3, SingRotations
      <4> QED BY <4>1, <4>2, RefreshedParts
    <3>2. Is(w, (Kl \cup {m} \cup Ka) \cup {q} \cup Kb, 1 + Higher(1 + Higher(dl, da), db), FALSE)
      <4> HIDE DEF w
      <4> QED BY <2>3, <2>5, <3>1, SingRotatedIs
    <3>3. (Kl \cup {m} \cup Ka) \cup {q} \cup Kb = Kl \cup {m} \cup Kr
      BY <2>3
    <3> QED BY <3>2, <3>3
  <2>7. CASE a.height > b.height
    <3>1. a # Nil
      <4>1. a.height \in Nat \cup {-1} /\ b.height \in Nat \cup {-1}
        BY <2>3, IsHeight
      <4> QED BY <2>7, <4>1 DEF Nil
    <3>2. PICK s, f, a1, K1, d1, a2, K2, d2 :
               IsOver(a, Ka, da, FALSE, s, f, a1, K1, d1, a2, K2, d2)
      BY <2>3, <3>1, IsCases
    <3>3. /\ s \in Keys /\ Ka = K1 \cup {s} \cup K2 /\ Between(K1, s, K2)
          /\ Is(a1, K1, d1, FALSE) /\ Is(a2, K2, d2, FALSE) /\ a = Tree(s, a1, a2, f)
      BY <3>2 DEF IsOver, Fits, Between
    <3>4. /\ m < s /\ s < q
          /\ Between(Kl, m, K1) /\ Between(K2, q, Kb)
      BY <2>3, <2>5, <3>3 DEF Between
    <3>5. w = Refreshed(s, Refreshed(m, l, a1), Refreshed(q, a2, b))
      <4>1. DeletedLeft(t) = DoubleRotateRL(t)
        BY <1>1, <1>4, <2>4, <2>7 DEF DeletedLeft
      <4>2. DoubleRotateRL(t) = Refreshed(s, Refreshed(m, l, a1), Refreshed(q, a2, b))
        BY <2>3, <3>3, DoubleRotations
      <4> QED BY <4>1, <4>2, RefreshedParts
    <3>6. Is(w, (Kl \cup {m} \cup K1) \cup {s} \cup (K2 \cup {q} \cup Kb),
             2 + Higher(Higher(dl, d1), Higher(d2, db)), FALSE)
      <4> HIDE DEF w
      <4> QED BY <2>3, <3>3, <3>4, <3>5, DoubleRotatedIs
    <3>7. (Kl \cup {m} \cup K1) \cup {s} \cup (K2 \cup {q} \cup Kb) = Kl \cup {m} \cup Kr
      BY <2>3, <3>3
    <3> QED BY <3>6, <3>7
  <2> QED BY <2>6, <2>7
<1> QED BY <1>3, <1>4

LEMMA DeletedRightIs ==
    ASSUME NEW m \in Keys, NEW h,
           NEW l, NEW Kl, NEW dl, Is(l, Kl, dl, FALSE),
           NEW r, NEW Kr, NEW dr, Is(r, Kr, dr, FALSE), Between(Kl, m, Kr)
    PROVE  \E e : Is(Refresh(DeletedRight(Tree(m, l, r, h))), Kl \cup {m} \cup Kr, e, FALSE)
<1> DEFINE t == Tree(m, l, r, h)
           w == Refresh(DeletedRight(t))
<1>1. t.left = l /\ t.right = r
  BY TreeParts
<1>2. l.height \in Nat \cup {-1} /\ r.height \in Nat \cup {-1}
  BY IsHeight
<1>3. CASE ~LeftHeavy(t)
  <2>1. w = Refreshed(m, l, r)
    BY <1>3, RefreshTree DEF DeletedRight
  <2>2. Is(Refreshed(m, l, r), Kl \cup {m} \cup Kr, 1 + Higher(dl, dr), FALSE)
    BY RefreshedIs DEF Between
  <2> QED BY <2>1, <2>2
<1>4. CASE LeftHeavy(t)
  <2>1. l # Nil
    BY <1>1, <1>2, <1>4 DEF LeftHeavy, Nil
  <2>2. PICK q, g, a, Ka, da, b, Kb, db : IsOver(l, Kl, dl, FALSE, q, g, a, Ka, da, b, Kb, db)
    BY <2>1, IsCases
  <2>3. /\ q \in Keys /\ Kl = Ka \cup {q} \cup Kb /\ Between(Ka, q, Kb)
        /\ Is(a, Ka, da, FALSE) /\ Is(b, Kb, db, FALSE) /\ l = Tree(q, a, b, g)
    BY <2>2 DEF IsOver, Fits, Between
  <2>4. l.left = a /\ l.right = b
    BY <2>3, TreeParts
  <2>5. q < m /\ Between(Kb, m, Kr)
    BY <2>3 DEF Between
  <2>6. CASE ~(b.height > a.height)
    <3>1. w = Refreshed(q, a, Refreshed(m, b, r))
      <4>1. DeletedRight(t) = SingRotateLeft(t)
        BY <1>1, <1>4, <2>4, <2>6 DEF DeletedRight
      <4>2. SingRotateLeft(t) = Refreshed(q, a, Refreshed(m, b, r))
        BY <2>3, SingRotations
      <4> QED BY <4>1, <4>2, RefreshedParts
    <3>2. Is(w, Ka \cup {q} \cup (Kb \cup {m} \cup Kr), 1 + Higher(da, 1 + Higher(db, dr)), FALSE)
      <4> HIDE DEF w
      <4> QED BY <2>3, <2>5, <3>1, SingRotatedIs
    <3>3. Ka \cup {q} \cup (Kb \cup {m} \cup Kr) = Kl \cup {m} \cup Kr
      BY <2>3
    <3> QED BY <3>2, <3>3
  <2>7. CASE b.height > a.height
    <3>1. b # Nil
      <4>1. a.height \in Nat \cup {-1} /\ b.height \in Nat \cup {-1}
        BY <2>3, IsHeight
      <4> QED BY <2>7, <4>1 DEF Nil
    <3>2. PICK s, f, b1, K1, d1, b2, K2, d2 :
               IsOver(b, Kb, db, FALSE, s, f, b1, K1, d1, b2, K2, d2)
      BY <2>3, <3>1, IsCases
    <3>3. /\ s \in Keys /\ Kb = K1 \cup {s} \cup K2 /\ Between(K1, s, K2)
          /\ Is(b1, K1, d1, FALSE) /\ Is(b2, K2, d2, FALSE) /\ b = Tree(s, b1, b2, f)
      BY <3>2 DEF IsOver, Fits, Between
    <3>4. /\ q < s /\ s < m
          /\ Between(Ka, q, K1) /\ Between(K2, m, Kr)
      BY <2>3, <2>5, <3>3 DEF Between
    <3>5. w = Refreshed(s, Refreshed(q, a, b1), Refreshed(m, b2, r))
      <4>1. DeletedRight(t) = DoubleRotateLR(t)
        BY <1>1, <1>4, <2>4, <2>7 DEF DeletedRight
      <4>2. DoubleRotateLR(t) = Refreshed(s, Refreshed(q, a, b1), Refreshed(m, b2, r))
        BY <2>3, <3>3, DoubleRotations
      <4> QED BY <4>1, <4>2, RefreshedParts
    <3>6. Is(w, (Ka \cup {q} \cup K1) \cup {s} \cup (K2 \cup {m} \cup Kr),
             2 + Higher(Higher(da, d1), Higher(d2, dr)), FALSE)
      <4> HIDE DEF w
      <4> QED BY <2>3, <3>3, <3>4, <3>5, DoubleRotatedIs
    <3>7. (Ka \cup {q} \cup K1) \cup {s} \cup (K2 \cup {m} \cup Kr) = Kl \cup {m} \cup Kr
      BY <2>3, <3>3
    <3> QED BY <3>6, <3>7
  <2> QED BY <2>6, <2>7
<1> QED BY <1>3, <1>4

LEMMA FirstSteps ==
    ASSUME NEW t
    PROVE  \E path : /\ First(t) = path[Capacity] /\ path[0] = t
                    /\ \A i \in 1 .. Capacity : path[i] = Leftward(path[i - 1])
<1> DEFINE Runs(f, n) == f = [i \in 0 .. n |-> IF i = 0 THEN t ELSE Leftward(f[i - 1])]
           S == {n \in 0 .. Capacity : \E f : Runs(f, n)}
<1>1. Capacity \in Nat
  BY TreeAssumption
<1>2. 0 \in S
  <2> DEFINE f == [i \in 0 .. 0 |-> t]
  <2>1. Runs(f, 0)
    OBVIOUS
  <2> HIDE DEF f, Runs
  <2> QED BY <1>1, <2>1
<1>3. ASSUME NEW n \in 0 .. Capacity - 1, n \in S PROVE n + 1 \in S
  <2>1. PICK f : Runs(f, n)
    BY <1>3
  <2> DEFINE g == [i \in 0 .. n + 1 |-> IF i = 0 THEN t ELSE Leftward(f[i - 1])]
  <2>2. ASSUME NEW i \in 0 .. n PROVE g[i] = f[i]
    <3>1. f[i] = IF i = 0 THEN t ELSE Leftward(f[i - 1])
      BY <2>1
    <3>2. i \in 0 .. n + 1
      BY <1>1
    <3>3. g[i] = IF i = 0 THEN t ELSE Leftward(f[i - 1])
      BY <3>2
    <3> QED BY <3>1, <3>3
  <2>3. ASSUME NEW i \in 0 .. n + 1
        PROVE  g[i] = IF i = 0 THEN t ELSE Leftward(g[i - 1])
    <3>1. i # 0 => i - 1 \in 0 .. n
      BY <1>1
    <3>2. i # 0 => g[i - 1] = f[i - 1]
      BY <2>2, <3>1
    <3>3. g[i] = IF i = 0 THEN t ELSE Leftward(f[i - 1])
      OBVIOUS
    <3> HIDE DEF g
    <3> QED BY <3>2, <3>3
  <2>4. g = [i \in 0 .. n + 1 |-> g[i]]
    OBVIOUS
  <2>5. Runs(g, n + 1)
    <3> HIDE DEF g
    <3> QED BY <2>3, <2>4
  <2> HIDE DEF g, Runs
  <2> QED BY <1>1, <2>5
<1>4. 0 .. Capacity \subseteq S
  <2> HIDE DEF S
  <2> QED BY <1>1, <1>2, <1>3, AllUpTo
<1>5. \E f : Runs(f, Capacity)
  BY <1>1, <1>4
<1> DEFINE path == CHOOSE f : Runs(f, Capacity)
<1>6. Runs(path, Capacity)
  BY <1>5
<1>7. First(t) = path[Capacity]
  BY DEF First
<1> HIDE DEF S, path
<1>8. path[0] = t /\ \A i \in 1 .. Capacity : path[i] = Leftward(path[i - 1])
  BY <1>1, <1>6
<1> QED BY <1>7, <1>8

\* u is a tree of the keys L and of depth c, which are below all other keys of K.
LeastOf(u, L, c, K) ==
    /\ u # Nil /\ Is(u, L, c, FALSE) /\ L \subseteq K
    /\ \A a \in L : \A b \in K \ L : a < b

\* First comes to the node of the least key.
LEMMA FirstIsLeast ==
    ASSUME NEW t, NEW K, NEW d, Is(t, K, d, FALSE), t # Nil,
           Cardinality(K) <= Capacity
    PROVE  LET s == First(t) IN
           s.key \in K /\ s.data = s.key /\ \A b \in K : s.key <= b
<1>1. PICK path : /\ First(t) = path[Capacity] /\ path[0] = t
                  /\ \A i \in 1 .. Capacity : path[i] = Leftward(path[i - 1])
  BY FirstSteps
<1> DEFINE Leads(i) == \E L, c : /\ LeastOf(path[i], L, c, K)
                                 /\ path[i].left = Nil \/ c <= d - i
           S == {i \in 0 .. Capacity : Leads(i)}
<1>2. Capacity \in Nat /\ d \in Int /\ d < Capacity /\ K \subseteq Int
  <2>1. K \subseteq Keys /\ d \in Nat \cup {-1} /\ Cardinality(K) \in Nat /\ d < Cardinality(K)
    BY IsType
  <2>2. Keys \subseteq Int /\ Capacity \in Nat
    BY TreeAssumption
  <2> QED BY <2>1, <2>2
<1>3. 0 \in S
  <2>1. LeastOf(path[0], K, d, K) /\ (path[0].left = Nil \/ d <= d - 0)
    <3>1. \A a \in K : \A b \in K \ K : a < b
      OBVIOUS
    <3>2. LeastOf(t, K, d, K)
      BY <3>1 DEF LeastOf
    <3>3. d <= d - 0
      BY <1>2
    <3> QED BY <1>1, <3>2, <3>3
  <2>2. Leads(0)
    BY <2>1
  <2> HIDE DEF Leads
  <2> QED BY <1>2, <2>2
<1>4. ASSUME NEW i \in 0 .. Capacity - 1, i \in S PROVE i + 1 \in S
  <2> DEFINE u == path[i]
             v == path[i + 1]
  <2>1. v = Leftward(u)
    <3>1. i + 1 \in 1 .. Capacity /\ (i + 1) - 1 = i
      BY <1>2
    <3> QED BY <1>1, <3>1
  <2>2. PICK L, c : LeastOf(u, L, c, K) /\ (u.left = Nil \/ c <= d - i)
    BY <1>4
  <2> HIDE DEF u
  <2>3. CASE u.left = Nil
    <3>1. v = u
      BY <2>1, <2>3 DEF Leftward
    <3>2. Leads(i + 1)
      BY <2>2, <2>3, <3>1
    <3> HIDE DEF Leads
    <3> QED BY <1>2, <3>2
  <2>4. CASE u.left # Nil
    <3>1. v = u.left
      BY <2>1, <2>4 DEF Leftward
    <3>2. PICK m, h, l, Kl, dl, r, Kr, dr : IsOver(u, L, c, FALSE, m, h, l, Kl, dl, r, Kr, dr)
      BY <2>2, IsCases DEF LeastOf
    <3>3. /\ u.left = l /\ Is(l, Kl, dl, FALSE) /\ L = Kl \cup {m} \cup Kr
          /\ Between(Kl, m, Kr) /\ c = 1 + Higher(dl, dr)
          /\ dl \in Nat \cup {-1} /\ dr \in Nat \cup {-1} /\ L \subseteq Int
      <4>1. u.left = l
        BY <3>2, TreeParts DEF IsOver
      <4>2. /\ Is(l, Kl, dl, FALSE) /\ Is(r, Kr, dr, FALSE) /\ L = Kl \cup {m} \cup Kr
            /\ Between(Kl, m, Kr) /\ c = 1 + Higher(dl, dr)
        BY <3>2 DEF IsOver, Fits, Between
      <4>3. dl \in Nat \cup {-1} /\ dr \in Nat \cup {-1}
        BY <4>2, IsType
      <4>4. L \subseteq Int
        BY <1>2, <2>2 DEF LeastOf
      <4> QED BY <4>1, <4>2, <4>3, <4>4
    <3>4. \A a \in Kl : \A b \in K \ Kl : a < b
      <4> SUFFICES ASSUME NEW a \in Kl, NEW b \in K \ Kl PROVE a < b
        OBVIOUS
      <4>1. b \in L => b = m \/ b \in Kr
        BY <3>3
      <4>2. a < m /\ a \in L
        BY <3>3 DEF Between
      <4>3. b \in Kr => m < b
        BY <3>3 DEF Between
      <4>4. b \notin L => a < b
        <5>1. \A x \in L : \A y \in K \ L : x < y
          BY <2>2 DEF LeastOf
        <5>2. b \in K
          OBVIOUS
        <5> QED BY <4>2, <5>1, <5>2
      <4>5. a \in Int /\ m \in Int /\ b \in Int
        BY <1>2, <3>3
      <4> QED BY <4>1, <4>2, <4>3, <4>4, <4>5
    <3>5. LeastOf(v, Kl, dl, K)
      BY <2>2, <2>4, <3>1, <3>3, <3>4 DEF LeastOf
    <3>6. dl <= d - (i + 1)
      BY <1>2, <2>2, <2>4, <3>3 DEF Higher
    <3>7. Leads(i + 1)
      BY <3>5, <3>6
    <3> HIDE DEF Leads
    <3> QED BY <1>2, <3>7
  <2> QED BY <2>3, <2>4
<1>5. 0 .. Capacity \subseteq S
  <2> HIDE DEF S
  <2> QED BY <1>2, <1>3, <1>4, AllUpTo
<1> DEFINE s == First(t)
<1>6. PICK L, c : LeastOf(s, L, c, K) /\ (s.left = Nil \/ c <= d - Capacity)
  <2>1. Leads(Capacity)
    BY <1>2, <1>5
  <2> QED BY <1>1, <2>1
<1> HIDE DEF s
<1>7. PICK m, h, l, Kl, dl, r, Kr, dr : IsOver(s, L, c, FALSE, m, h, l, Kl, dl, r, Kr, dr)
  BY <1>6, IsCases DEF LeastOf
<1>8. /\ s.key = m /\ s.data = m /\ s.left = l /\ Is(l, Kl, dl, FALSE)
      /\ L = Kl \cup {m} \cup Kr /\ Between(Kl, m, Kr) /\ c = 1 + Higher(dl, dr)
      /\ dl \in Nat \cup {-1} /\ dr \in Nat \cup {-1} /\ L \subseteq Int
  <2>1. s.key = m /\ s.data = m /\ s.left = l
    BY <1>7, TreeParts DEF IsOver
  <2>2. /\ Is(l, Kl, dl, FALSE) /\ Is(r, Kr, dr, FALSE) /\ L = Kl \cup {m} \cup Kr
        /\ Between(Kl, m, Kr) /\ c = 1 + Higher(dl, dr)
    BY <1>7 DEF IsOver, Fits, Between
  <2>3. dl \in Nat \cup {-1} /\ dr \in Nat \cup {-1}
    BY <2>2, IsType
  <2>4. L \subseteq Int
    BY <1>2, <1>6 DEF LeastOf
  <2> QED BY <2>1, <2>2, <2>3, <2>4
<1>9. l = Nil /\ Kl = {}
  <2>1. c >= 0
    BY <1>8 DEF Higher
  <2>2. l = Nil
    BY <1>2, <1>6, <1>8, <2>1
  <2> QED BY <1>8, <2>2, IsCases
<1>10. m \in K /\ \A b \in K : m <= b
  <2>1. m \in L /\ L \subseteq K
    BY <1>6, <1>8 DEF LeastOf
  <2>2. ASSUME NEW b \in K PROVE m <= b
    <3>1. CASE b \in L
      BY <1>8, <1>9, <2>2, <3>1, <1>2 DEF Between
    <3>2. CASE b \notin L
      BY <1>2, <1>6, <1>8, <2>1, <2>2, <3>2 DEF LeastOf
    <3> QED BY <3>1, <3>2
  <2> QED BY <2>1, <2>2
<1> QED BY <1>8, <1>10 DEF s

\* r is what deleting k from t, which has the keys K and the depth d, returns:
\* one node is freed if k was there, and if nothing above is to be rebalanced
\* the tree did not grow.
Shrunk(r, t, K, d, k) ==
    \E u, e : \E ok \in BOOLEAN :
        /\ r = [tree |-> u, freed |-> IF k \in K THEN 1 ELSE 0, ok |-> ok]
        /\ Is(u, K \ {k}, e, FALSE)
        /\ ~ok => e <= d
        /\ k \notin K => u = t /\ ~ok

Shrinks(r, t, k) ==
    \A K, d : Is(t, K, d, FALSE) /\ Cardinality(K) <= Capacity /\ k \in Keys =>
                 Shrunk(r, t, K, d, k)

\* The call makes none for itself.
Stops(t, k) == t = Nil \/ (k = t.key /\ (t.left = Nil \/ t.right = Nil))

Call(t, k) == [tree |-> t, key |-> k]

LEMMA RefreshIs ==
    ASSUME NEW t, NEW K, NEW d, Is(t, K, d, FALSE), t # Nil
    PROVE  \E e : Is(Refresh(t), K, e, FALSE)
<1>1. PICK k, h, l, Kl, dl, r, Kr, dr : IsOver(t, K, d, FALSE, k, h, l, Kl, dl, r, Kr, dr)
  BY IsCases
<1>2. /\ k \in Keys /\ t = Tree(k, l, r, h) /\ K = Kl \cup {k} \cup Kr
      /\ Is(l, Kl, dl, FALSE) /\ Is(r, Kr, dr, FALSE) /\ Between(Kl, k, Kr)
  BY <1>1 DEF IsOver, Fits, Between
<1>3. Is(Refreshed(k, l, r), K, 1 + Higher(dl, dr), FALSE)
  BY <1>2, RefreshedIs DEF Between
<1> QED BY <1>2, <1>3, RefreshTree

\* A node of which a child was replaced by a tree that is no higher.
LEMMA UnrefreshedIs ==
    ASSUME NEW k \in Keys, NEW h \in Int, NEW d \in Int, d <= h,
           NEW l, NEW Kl, NEW dl, Is(l, Kl, dl, FALSE),
           NEW r, NEW Kr, NEW dr, Is(r, Kr, dr, FALSE),
           Between(Kl, k, Kr), 1 + Higher(dl, dr) <= d
    PROVE  \E e : Is(Tree(k, l, r, h), Kl \cup {k} \cup Kr, e, FALSE) /\ e <= d
<1>1. dl \in Nat \cup {-1} /\ dr \in Nat \cup {-1}
  BY IsType
<1>2. 1 + Higher(dl, dr) <= h
  BY <1>1 DEF Higher
<1>3. Fits(k, h, Kl, dl, Kr, dr, FALSE)
  BY <1>2 DEF Fits, Between
<1> QED BY <1>3, TreeIs

\* What the call for t returns, when the one it makes for itself returns below.
LEMMA DeletedShrunk ==
    ASSUME NEW t, NEW K, NEW d, Is(t, K, d, FALSE), Cardinality(K) <= Capacity,
           NEW k \in Keys, NEW below,
           Stops(t, k) \/ Shrinks(below, Passed(Call(t, k)).tree, Passed(Call(t, k)).key)
    PROVE  Shrunk(Deleted(t, k, below), t, K, d, k)
<1>1. CASE t = Nil
  <2>1. K = {} /\ d = -1
    BY <1>1, IsCases
  <2>2. Deleted(t, k, below) = [tree |-> Nil, freed |-> 0, ok |-> FALSE]
    BY <1>1 DEF Deleted, NotThere
  <2>3. K \ {k} = {} /\ Is(Nil, {}, -1, FALSE)
    BY <2>1, NilIs
  <2>4. FALSE \in BOOLEAN /\ -1 <= d /\ k \notin K
    BY <2>1
  <2> QED BY <1>1, <2>2, <2>3, <2>4 DEF Shrunk
<1>2. CASE t # Nil
  <2>1. PICK m, h, l, Kl, dl, r, Kr, dr : IsOver(t, K, d, FALSE, m, h, l, Kl, dl, r, Kr, dr)
    BY <1>2, IsCases
  <2>2. /\ m \in Keys /\ h \in Int /\ t = Tree(m, l, r, h) /\ K = Kl \cup {m} \cup Kr
        /\ Is(l, Kl, dl, FALSE) /\ Is(r, Kr, dr, FALSE) /\ Between(Kl, m, Kr)
        /\ d = 1 + Higher(dl, dr) /\ d <= h
    BY <2>1 DEF IsOver, Fits, Between
  <2>3. t.key = m /\ t.left = l /\ t.right = r
    BY <2>2, TreeParts
  <2>4. dl \in Nat \cup {-1} /\ dr \in Nat \cup {-1} /\ d \in Nat \cup {-1}
    BY <2>2, IsType
  <2>5. Cardinality(Kl) <= Capacity /\ Cardinality(Kr) <= Capacity
    <3>1. IsFiniteSet(K) /\ Kl \subseteq K /\ Kr \subseteq K
      BY <2>2, IsType
    <3>2. /\ Cardinality(Kl) <= Cardinality(K) /\ Cardinality(Kr) <= Cardinality(K)
          /\ Cardinality(Kl) \in Nat /\ Cardinality(Kr) \in Nat /\ Cardinality(K) \in Nat
      BY <3>1, FS_Subset, FS_CardinalityType
    <3>3. Capacity \in Nat
      BY TreeAssumption
    <3> QED BY <3>2, <3>3
  <2>6. k \in Int /\ m \in Int /\ Kl \subseteq Int /\ Kr \subseteq Int
    <3>1. Kl \subseteq Keys /\ Kr \subseteq Keys
      BY <2>2, IsType
    <3> QED BY <2>2, <3>1, TreeAssumption
  <2>7. CASE k < m
    <3>1. ~Stops(t, k)
      BY <1>2, <2>3, <2>6, <2>7 DEF Stops
    <3>2. Passed(Call(t, k)).tree = l /\ Passed(Call(t, k)).key = k
      BY <1>2, <2>3, <2>7 DEF Passed, Call
    <3>3. Shrunk(below, l, Kl, dl, k)
      BY <2>2, <2>5, <3>1, <3>2 DEF Shrinks
    <3>4. PICK u, e : \E ok \in BOOLEAN :
               /\ below = [tree |-> u, freed |-> IF k \in Kl THEN 1 ELSE 0, ok |-> ok]
               /\ Is(u, Kl \ {k}, e, FALSE) /\ (~ok => e <= dl)
               /\ k \notin Kl => u = l /\ ~ok
      BY <3>3 DEF Shrunk
    <3>5. PICK ok \in BOOLEAN :
               /\ below = [tree |-> u, freed |-> IF k \in Kl THEN 1 ELSE 0, ok |-> ok]
               /\ Is(u, Kl \ {k}, e, FALSE) /\ (~ok => e <= dl)
               /\ k \notin Kl => u = l /\ ~ok
      BY <3>4
    <3>6. k \in Kl <=> k \in K
      BY <2>2, <2>6, <2>7 DEF Between
    <3> DEFINE v == Tree(m, u, r, h)
               w == IF ok THEN Refresh(DeletedLeft(v)) ELSE v
    <3>7. Deleted(t, k, below) = [tree |-> w, freed |-> IF k \in K THEN 1 ELSE 0, ok |-> ok]
      <4>1. below.tree = u /\ below.ok = ok
        BY <3>5
      <4>2. [t EXCEPT !.left = u] = v
        BY <2>2, EditLeft
      <4> HIDE DEF v
      <4>3. Deleted(t, k, below) = [below EXCEPT !.tree = w]
        BY <1>2, <2>3, <2>7, <4>1, <4>2 DEF Deleted
      <4> HIDE DEF w
      <4> QED BY <3>5, <3>6, <4>3
    <3>8. (Kl \ {k}) \cup {m} \cup Kr = K \ {k} /\ Between(Kl \ {k}, m, Kr)
      BY <2>2, <2>6, <2>7 DEF Between
    <3>9. \E f : Is(w, K \ {k}, f, FALSE) /\ (~ok => f <= d)
      <4>1. CASE ok
        <5>1. \E f : Is(Refresh(DeletedLeft(v)), (Kl \ {k}) \cup {m} \cup Kr, f, FALSE)
          BY <2>2, <3>5, <3>8, DeletedLeftIs
        <5>2. w = Refresh(DeletedLeft(v))
          BY <4>1
        <5> HIDE DEF v, w
        <5> QED BY <4>1, <5>1, <5>2, <3>8
      <4>2. CASE ~ok
        <5>1. 1 + Higher(e, dr) <= d /\ d \in Int
          <6>1. e \in Nat \cup {-1}
            BY <3>5, IsType
          <6> QED BY <2>2, <2>4, <3>5, <4>2, <6>1 DEF Higher
        <5>2. \E f : Is(v, (Kl \ {k}) \cup {m} \cup Kr, f, FALSE) /\ f <= d
          BY <2>2, <3>5, <3>8, <5>1, UnrefreshedIs
        <5>3. w = v
          BY <4>2
        <5> HIDE DEF v, w
        <5> QED BY <5>2, <5>3, <3>8
      <4> QED BY <4>1, <4>2
    <3>10. k \notin K => w = t /\ ~ok
      BY <2>2, <3>5, <3>6
    <3> HIDE DEF w
    <3> QED BY <3>7, <3>9, <3>10 DEF Shrunk
  <2>8. CASE m < k
    <3>1. ~Stops(t, k) /\ ~(k < m)
      BY <1>2, <2>3, <2>6, <2>8 DEF Stops
    <3>2. Passed(Call(t, k)).tree = r /\ Passed(Call(t, k)).key = k
      BY <1>2, <2>3, <2>8, <3>1 DEF Passed, Call
    <3>3. Shrunk(below, r, Kr, dr, k)
      BY <2>2, <2>5, <3>1, <3>2 DEF Shrinks
    <3>4. PICK u, e : \E ok \in BOOLEAN :
               /\ below = [tree |-> u, freed |-> IF k \in Kr THEN 1 ELSE 0, ok |-> ok]
               /\ Is(u, Kr \ {k}, e, FALSE) /\ (~ok => e <= dr)
               /\ k \notin Kr => u = r /\ ~ok
      BY <3>3 DEF Shrunk
    <3>5. PICK ok \in BOOLEAN :
               /\ below = [tree |-> u, freed |-> IF k \in Kr THEN 1 ELSE 0, ok |-> ok]
               /\ Is(u, Kr \ {k}, e, FALSE) /\ (~ok => e <= dr)
               /\ k \notin Kr => u = r /\ ~ok
      BY <3>4
    <3>6. k \in Kr <=> k \in K
      BY <2>2, <2>6, <2>8 DEF Between
    <3> DEFINE v == Tree(m, l, u, h)
               w == IF ok THEN Refresh(DeletedRight(v)) ELSE v
    <3>7. Deleted(t, k, below) = [tree |-> w, freed |-> IF k \in K THEN 1 ELSE 0, ok |-> ok]
      <4>1. below.tree = u /\ below.ok = ok
        BY <3>5
      <4>2. [t EXCEPT !.right = u] = v
        BY <2>2, EditRight
      <4> HIDE DEF v
      <4>3. Deleted(t, k, below) = [below EXCEPT !.tree = w]
        BY <1>2, <2>3, <2>8, <3>1, <4>1, <4>2 DEF Deleted
      <4> HIDE DEF w
      <4> QED BY <3>5, <3>6, <4>3
    <3>8. Kl \cup {m} \cup (Kr \ {k}) = K \ {k} /\ Between(Kl, m, Kr \ {k})
      BY <2>2, <2>6, <2>8 DEF Between
    <3>9. \E f : Is(w, K \ {k}, f, FALSE) /\ (~ok => f <= d)
      <4>1. CASE ok
        <5>1. \E f : Is(Refresh(DeletedRight(v)), Kl \cup {m} \cup (Kr \ {k}), f, FALSE)
          BY <2>2, <3>5, <3>8, DeletedRightIs
        <5>2. w = Refresh(DeletedRight(v))
          BY <4>1
        <5> HIDE DEF v, w
        <5> QED BY <4>1, <5>1, <5>2, <3>8
      <4>2. CASE ~ok
        <5>1. 1 + Higher(dl, e) <= d /\ d \in Int
          <6>1. e \in Nat \cup {-1}
            BY <3>5, IsType
          <6> QED BY <2>2, <2>4, <3>5, <4>2, <6>1 DEF Higher
        <5>2. \E f : Is(v, Kl \cup {m} \cup (Kr \ {k}), f, FALSE) /\ f <= d
          BY <2>2, <3>5, <3>8, <5>1, UnrefreshedIs
        <5>3. w = v
          BY <4>2
        <5> HIDE DEF v, w
        <5> QED BY <5>2, <5>3, <3>8
      <4> QED BY <4>1, <4>2
    <3>10. k \notin K => w = t /\ ~ok
      BY <2>2, <3>5, <3>6
    <3> HIDE DEF w
    <3> QED BY <3>7, <3>9, <3>10 DEF Shrunk
  \* The successor's key and data, and one node less on the right.
  <2>9. CASE k = m /\ l # Nil /\ r # Nil
    <3> DEFINE s == First(r)
    <3>1. ~Stops(t, k)
      BY <1>2, <2>3, <2>9 DEF Stops
    <3>2. Passed(Call(t, k)).tree = r /\ Passed(Call(t, k)).key = s.key
      BY <1>2, <2>3, <2>6, <2>9 DEF Passed, Call
    <3>3. s.key \in Kr /\ s.data = s.key /\ \A b \in Kr : s.key <= b
      BY <2>2, <2>5, <2>9, FirstIsLeast
    <3>4. s.key \in Keys /\ s.key \in Int
      BY <2>2, <2>6, <3>3, IsType
    <3>5. Shrunk(below, r, Kr, dr, s.key)
      BY <2>2, <2>5, <3>1, <3>2, <3>4 DEF Shrinks
    <3> HIDE DEF s
    <3>6. PICK u, e : \E ok \in BOOLEAN :
               /\ below = [tree |-> u, freed |-> IF s.key \in Kr THEN 1 ELSE 0, ok |-> ok]
               /\ Is(u, Kr \ {s.key}, e, FALSE) /\ (~ok => e <= dr)
      BY <3>5 DEF Shrunk
    <3>7. PICK ok \in BOOLEAN :
               /\ below = [tree |-> u, freed |-> 1, ok |-> ok]
               /\ Is(u, Kr \ {s.key}, e, FALSE) /\ (~ok => e <= dr)
      BY <3>3, <3>6
    <3> DEFINE v == Tree(s.key, l, u, h)
               w == IF ok THEN Refresh(DeletedRight(v)) ELSE v
    <3>8. Deleted(t, k, below) = [tree |-> w, freed |-> 1, ok |-> ok]
      <4>1. below.tree = u /\ below.ok = ok
        BY <3>7
      <4>2. [Replaced(t, s) EXCEPT !.right = u] = v
        <5>1. Replaced(t, s) = Tree(s.key, l, r, h)
          <6>1. Replaced(t, s) = [t EXCEPT !.key = s.key, !.data = s.key]
            BY <3>3 DEF Replaced
          <6> QED BY <2>2, <6>1 DEF Tree
        <5> QED BY <5>1, EditRight
      <4> HIDE DEF v
      <4>3. Deleted(t, k, below) = [below EXCEPT !.tree = w]
        BY <1>2, <2>3, <2>6, <2>9, <4>1, <4>2 DEF Deleted, s
      <4> HIDE DEF w
      <4> QED BY <3>7, <4>3
    <3>9. Kl \cup {s.key} \cup (Kr \ {s.key}) = K \ {k}
      BY <2>2, <2>6, <2>9, <3>3 DEF Between
    <3>10. Between(Kl, s.key, Kr \ {s.key})
      <4>1. m < s.key
        BY <2>2, <3>3 DEF Between
      <4>2. \A a \in Kl : a < s.key
        BY <2>2, <2>6, <3>4, <4>1 DEF Between
      <4>3. \A b \in Kr \ {s.key} : s.key < b
        BY <2>6, <3>3, <3>4
      <4> QED BY <4>2, <4>3 DEF Between
    <3>11. \E f : Is(w, K \ {k}, f, FALSE) /\ (~ok => f <= d)
      <4>1. CASE ok
        <5>1. \E f : Is(Refresh(DeletedRight(v)), Kl \cup {s.key} \cup (Kr \ {s.key}), f, FALSE)
          BY <2>2, <3>4, <3>7, <3>9, <3>10, DeletedRightIs
        <5>2. w = Refresh(DeletedRight(v))
          BY <4>1
        <5> HIDE DEF v, w
        <5> QED BY <4>1, <5>1, <5>2, <3>9
      <4>2. CASE ~ok
        <5>1. 1 + Higher(dl, e) <= d /\ d \in Int
          <6>1. e \in Nat \cup {-1}
            BY <3>7, IsType
          <6> QED BY <2>2, <2>4, <3>7, <4>2, <6>1 DEF Higher
        <5>2. \E f : Is(v, Kl \cup {s.key} \cup (Kr \ {s.key}), f, FALSE) /\ f <= d
          BY <2>2, <3>4, <3>7, <3>9, <3>10, <5>1, UnrefreshedIs
        <5>3. w = v
          BY <4>2
        <5> HIDE DEF v, w
        <5> QED BY <5>2, <5>3, <3>9
      <4> QED BY <4>1, <4>2
    <3>12. k \in K
      BY <2>2, <2>9
    <3> HIDE DEF w
    <3> QED BY <3>8, <3>11, <3>12 DEF Shrunk
  <2>10. CASE k = m /\ (l = Nil \/ r = Nil)
    <3> DEFINE x == Spliced(t)
    <3>1. \E Kx, dx : Is(x, Kx, dx, FALSE) /\ Kx = K \ {k}
      <4>1. CASE l = Nil
        <5>1. x = r /\ Kl = {}
          BY <2>2, <2>3, <4>1, IsCases DEF Spliced
        <5>2. Kr = K \ {k}
          BY <2>2, <2>6, <2>10, <5>1 DEF Between
        <5> QED BY <2>2, <5>1, <5>2
      <4>2. CASE l # Nil
        <5>1. x = l /\ Kr = {}
          BY <2>2, <2>3, <2>10, <4>2, IsCases DEF Spliced
        <5>2. Kl = K \ {k}
          BY <2>2, <2>6, <2>10, <5>1 DEF Between
        <5> QED BY <2>2, <5>1, <5>2
      <4> QED BY <4>1, <4>2
    <3>2. Deleted(t, k, below) = [tree |-> IF x = Nil THEN Nil ELSE Refresh(x),
                                  freed |-> 1, ok |-> x # Nil]
      BY <1>2, <2>3, <2>6, <2>10 DEF Deleted
    <3>3. k \in K
      BY <2>2, <2>10
    <3> HIDE DEF x
    <3>4. CASE x = Nil
      <4>1. Is(Nil, K \ {k}, -1, FALSE)
        BY <3>1, <3>4, IsCases
      <4>2. Deleted(t, k, below) = [tree |-> Nil, freed |-> 1, ok |-> FALSE]
        BY <3>2, <3>4
      <4>3. -1 <= d
        BY <2>4
      <4> QED BY <3>3, <4>1, <4>2, <4>3 DEF Shrunk
    <3>5. CASE x # Nil
      <4>1. \E e : Is(Refresh(x), K \ {k}, e, FALSE)
        BY <3>1, <3>5, RefreshIs
      <4>2. Deleted(t, k, below) = [tree |-> Refresh(x), freed |-> 1, ok |-> TRUE]
        BY <3>2, <3>5
      <4> QED BY <3>3, <4>1, <4>2 DEF Shrunk
    <3> QED BY <3>4, <3>5
  <2> QED BY <2>6, <2>7, <2>8, <2>9, <2>10
<1> QED BY <1>1, <1>2

LEMMA CallSteps ==
    ASSUME NEW t, NEW k
    PROVE  \E calls, returns :
             /\ DeleteInner(t, k) = returns[Capacity]
             /\ calls[0] = Call(t, k)
             /\ \A i \in 1 .. Capacity : calls[i] = Passed(calls[i - 1])
             /\ returns[0] = Deleted(calls[Capacity].tree, calls[Capacity].key, NotThere)
             /\ \A j \in 1 .. Capacity :
                    returns[j] = Deleted(calls[Capacity - j].tree, calls[Capacity - j].key,
                                         returns[j - 1])
<1>1. Capacity \in Nat
  BY TreeAssumption
<1> DEFINE Goes(f, n) == f = [i \in 0 .. n |-> IF i = 0 THEN Call(t, k) ELSE Passed(f[i - 1])]
           Down == {n \in 0 .. Capacity : \E f : Goes(f, n)}
<1>2. 0 \in Down
  <2> DEFINE f == [i \in 0 .. 0 |-> Call(t, k)]
  <2>1. Goes(f, 0)
    OBVIOUS
  <2> HIDE DEF f, Goes
  <2> QED BY <1>1, <2>1
<1>3. ASSUME NEW n \in 0 .. Capacity - 1, n \in Down PROVE n + 1 \in Down
  <2>1. PICK f : Goes(f, n)
    BY <1>3
  <2> DEFINE g == [i \in 0 .. n + 1 |-> IF i = 0 THEN Call(t, k) ELSE Passed(f[i - 1])]
  <2>2. \A i \in 0 .. n : g[i] = f[i]
    BY <2>1
  <2>3. ASSUME NEW i \in 0 .. n + 1
        PROVE  g[i] = IF i = 0 THEN Call(t, k) ELSE Passed(g[i - 1])
    <3>1. i # 0 => i - 1 \in 0 .. n
      BY <1>1
    <3>2. i # 0 => g[i - 1] = f[i - 1]
      BY <2>2, <3>1
    <3>3. g[i] = IF i = 0 THEN Call(t, k) ELSE Passed(f[i - 1])
      OBVIOUS
    <3> HIDE DEF g
    <3> QED BY <3>2, <3>3
  <2>4. g = [i \in 0 .. n + 1 |-> g[i]]
    OBVIOUS
  <2>5. Goes(g, n + 1)
    <3> HIDE DEF g
    <3> QED BY <2>3, <2>4
  <2> HIDE DEF g, Goes
  <2> QED BY <1>1, <2>5
<1>4. 0 .. Capacity \subseteq Down
  <2> HIDE DEF Down
  <2> QED BY <1>1, <1>2, <1>3, AllUpTo
<1>5. \E f : Goes(f, Capacity)
  BY <1>1, <1>4
<1> DEFINE calls == CHOOSE f : Goes(f, Capacity)
<1>6. Goes(calls, Capacity)
  BY <1>5
<1> HIDE DEF Down
<1>7. calls[0] = Call(t, k) /\ \A i \in 1 .. Capacity : calls[i] = Passed(calls[i - 1])
  <2> HIDE DEF calls
  <2> QED BY <1>1, <1>6
<1> DEFINE Runs(f, n) ==
               f = [j \in 0 .. n |-> Deleted(calls[Capacity - j].tree, calls[Capacity - j].key,
                                             IF j = 0 THEN NotThere ELSE f[j - 1])]
           S == {n \in 0 .. Capacity : \E f : Runs(f, n)}
<1>8. 0 \in S
  <2> DEFINE f == [j \in 0 .. 0 |-> Deleted(calls[Capacity - j].tree, calls[Capacity - j].key,
                                            NotThere)]
  <2> HIDE DEF calls
  <2>1. Runs(f, 0)
    OBVIOUS
  <2> HIDE DEF f, Runs
  <2> QED BY <1>1, <2>1
<1>9. ASSUME NEW n \in 0 .. Capacity - 1, n \in S PROVE n + 1 \in S
  <2> HIDE DEF calls
  <2>1. PICK f : Runs(f, n)
    BY <1>9
  <2> DEFINE g == [j \in 0 .. n + 1 |-> Deleted(calls[Capacity - j].tree, calls[Capacity - j].key,
                                                IF j = 0 THEN NotThere ELSE f[j - 1])]
  <2>2. \A j \in 0 .. n : g[j] = f[j]
    BY <2>1
  <2>3. ASSUME NEW j \in 0 .. n + 1
        PROVE  g[j] = Deleted(calls[Capacity - j].tree, calls[Capacity - j].key,
                              IF j = 0 THEN NotThere ELSE g[j - 1])
    <3>1. j # 0 => j - 1 \in 0 .. n
      BY <1>1
    <3>2. j # 0 => g[j - 1] = f[j - 1]
      BY <2>2, <3>1
    <3>3. g[j] = Deleted(calls[Capacity - j].tree, calls[Capacity - j].key,
                         IF j = 0 THEN NotThere ELSE f[j - 1])
      OBVIOUS
    <3> HIDE DEF g
    <3> QED BY <3>2, <3>3
  <2>4. g = [j \in 0 .. n + 1 |-> g[j]]
    OBVIOUS
  <2>5. Runs(g, n + 1)
    <3> HIDE DEF g
    <3> QED BY <2>3, <2>4
  <2> HIDE DEF g, Runs
  <2> QED BY <1>1, <2>5
<1>10. 0 .. Capacity \subseteq S
  <2> HIDE DEF S
  <2> QED BY <1>1, <1>8, <1>9, AllUpTo
<1>11. \E f : Runs(f, Capacity)
  <2> HIDE DEF Runs
  <2> QED BY <1>1, <1>10
<1> DEFINE returns == CHOOSE f : Runs(f, Capacity)
<1>12. Runs(returns, Capacity)
  BY <1>11
<1>13. DeleteInner(t, k) = returns[Capacity]
  BY DEF DeleteInner, Call
<1> HIDE DEF S, calls, returns
<1>14. /\ returns[0] = Deleted(calls[Capacity].tree, calls[Capacity].key, NotThere)
       /\ \A j \in 1 .. Capacity :
              returns[j] = Deleted(calls[Capacity - j].tree, calls[Capacity - j].key,
                                   returns[j - 1])
  BY <1>1, <1>12
<1> QED BY <1>7, <1>13, <1>14

LEMMA StopsPasses ==
    ASSUME NEW t, NEW k \in Keys, Stops(t, k)
    PROVE  Passed(Call(t, k)) = Call(t, k)
<1>1. Call(t, k).tree = t /\ Call(t, k).key = k /\ ~(k < k) /\ ~(k > k)
  BY TreeAssumption DEF Call
<1> QED BY <1>1 DEF Stops, Passed

\* A call stops, or makes one for a lower tree.
\* The call makes one for a lower tree.
Descends(t, k, d) ==
    \E u, q, L, c : /\ Passed(Call(t, k)) = Call(u, q) /\ q \in Keys
                    /\ Is(u, L, c, FALSE) /\ Cardinality(L) <= Capacity /\ c < d

LEMMA PassedIs ==
    ASSUME NEW t, NEW K, NEW d, Is(t, K, d, FALSE), Cardinality(K) <= Capacity,
           NEW k \in Keys
    PROVE  \/ Stops(t, k) /\ Passed(Call(t, k)) = Call(t, k)
           \/ Descends(t, k, d)
<1>1. Call(t, k).tree = t /\ Call(t, k).key = k
  BY DEF Call
<1>2. CASE t = Nil
  BY <1>1, <1>2 DEF Stops, Passed
<1>3. CASE t # Nil
  <2>1. PICK m, h, l, Kl, dl, r, Kr, dr : IsOver(t, K, d, FALSE, m, h, l, Kl, dl, r, Kr, dr)
    BY <1>3, IsCases
  <2>2. /\ m \in Keys /\ t = Tree(m, l, r, h) /\ K = Kl \cup {m} \cup Kr
        /\ Is(l, Kl, dl, FALSE) /\ Is(r, Kr, dr, FALSE) /\ d = 1 + Higher(dl, dr)
    BY <2>1 DEF IsOver
  <2>3. t.key = m /\ t.left = l /\ t.right = r
    BY <2>2, TreeParts
  <2>4. dl \in Nat \cup {-1} /\ dr \in Nat \cup {-1}
    BY <2>2, IsType
  <2>5. dl < d /\ dr < d
    BY <2>2, <2>4 DEF Higher
  <2>6. Cardinality(Kl) <= Capacity /\ Cardinality(Kr) <= Capacity
    <3>1. IsFiniteSet(K) /\ Kl \subseteq K /\ Kr \subseteq K
      BY <2>2, IsType
    <3>2. /\ Cardinality(Kl) <= Cardinality(K) /\ Cardinality(Kr) <= Cardinality(K)
          /\ Cardinality(Kl) \in Nat /\ Cardinality(Kr) \in Nat /\ Cardinality(K) \in Nat
      BY <3>1, FS_Subset, FS_CardinalityType
    <3>3. Capacity \in Nat
      BY TreeAssumption
    <3> QED BY <3>2, <3>3
  <2>7. k \in Int /\ m \in Int
    BY <2>2, TreeAssumption
  <2>8. CASE k < m
    <3>1. Passed(Call(t, k)) = Call(l, k)
      BY <1>1, <1>3, <2>3, <2>8 DEF Passed, Call
    <3> QED BY <2>2, <2>5, <2>6, <3>1 DEF Descends
  <2>9. CASE m < k
    <3>1. ~(k < m)
      BY <2>7, <2>9
    <3>2. Passed(Call(t, k)) = Call(r, k)
      BY <1>1, <1>3, <2>3, <2>9, <3>1 DEF Passed, Call
    <3> QED BY <2>2, <2>5, <2>6, <3>2 DEF Descends
  <2>10. CASE k = m /\ l # Nil /\ r # Nil
    <3>1. Passed(Call(t, k)) = Call(r, First(r).key)
      BY <1>1, <1>3, <2>3, <2>7, <2>10 DEF Passed, Call
    <3>2. First(r).key \in Kr
      BY <2>2, <2>6, <2>10, FirstIsLeast
    <3>3. First(r).key \in Keys
      BY <2>2, <3>2, IsType
    <3> QED BY <2>2, <2>5, <2>6, <3>1, <3>3 DEF Descends
  <2>11. CASE k = m /\ (l = Nil \/ r = Nil)
    <3>1. Stops(t, k)
      BY <2>3, <2>11 DEF Stops
    <3>2. Passed(Call(t, k)) = Call(t, k)
      BY <3>1, StopsPasses
    <3> QED BY <3>1, <3>2
  <2>12. k < m \/ m < k \/ k = m
    BY <2>7
  <2> QED BY <2>8, <2>9, <2>10, <2>11, <2>12
<1> QED BY <1>2, <1>3

\* Deletion takes the key out, and nothing else.
LEMMA DeleteInnerShrunk ==
    ASSUME NEW t, NEW K, NEW d, Is(t, K, d, FALSE), Cardinality(K) <= Capacity,
           NEW k \in Keys
    PROVE  Shrunk(DeleteInner(t, k), t, K, d, k)
<1>1. PICK calls, returns :
        /\ DeleteInner(t, k) = returns[Capacity]
        /\ calls[0] = Call(t, k)
        /\ \A i \in 1 .. Capacity : calls[i] = Passed(calls[i - 1])
        /\ returns[0] = Deleted(calls[Capacity].tree, calls[Capacity].key, NotThere)
        /\ \A j \in 1 .. Capacity :
               returns[j] = Deleted(calls[Capacity - j].tree, calls[Capacity - j].key,
                                    returns[j - 1])
  BY CallSteps
<1>2. /\ Capacity \in Nat /\ Capacity \in 0 .. Capacity
      /\ Capacity - 0 = Capacity /\ Capacity - Capacity = 0
  BY TreeAssumption
<1>3. d \in Int /\ d < Capacity
  <2>1. d \in Nat \cup {-1} /\ Cardinality(K) \in Nat /\ d < Cardinality(K)
    BY IsType
  <2> QED BY <1>2, <2>1
<1> DEFINE Falls(i) ==
               \E u, q, L, c :
                  /\ calls[i] = Call(u, q) /\ q \in Keys
                  /\ Is(u, L, c, FALSE) /\ Cardinality(L) <= Capacity
                  /\ Stops(u, q) \/ c <= d - i
           D == {i \in 0 .. Capacity : Falls(i)}
<1>4. 0 .. Capacity \subseteq D
  <2>1. 0 \in D
    <3>1. d <= d - 0
      BY <1>3
    <3>2. Falls(0)
      BY <1>1, <3>1
    <3> HIDE DEF Falls
    <3> QED BY <1>2, <3>2
  <2>2. ASSUME NEW i \in 0 .. Capacity - 1, i \in D PROVE i + 1 \in D
    <3>1. PICK u, q, L, c : /\ calls[i] = Call(u, q) /\ q \in Keys
                            /\ Is(u, L, c, FALSE) /\ Cardinality(L) <= Capacity
                            /\ Stops(u, q) \/ c <= d - i
      BY <2>2
    <3>2. calls[i + 1] = Passed(Call(u, q))
      <4>1. i + 1 \in 1 .. Capacity /\ (i + 1) - 1 = i
        BY <1>2
      <4> QED BY <1>1, <3>1, <4>1
    <3>3. CASE Stops(u, q) /\ Passed(Call(u, q)) = Call(u, q)
      <4>1. Falls(i + 1)
        BY <3>1, <3>2, <3>3
      <4> HIDE DEF Falls
      <4> QED BY <1>2, <4>1
    <3>4. CASE ~Stops(u, q) \/ Passed(Call(u, q)) # Call(u, q)
      <4>1. PICK v, p, M, e : /\ Passed(Call(u, q)) = Call(v, p) /\ p \in Keys
                              /\ Is(v, M, e, FALSE) /\ Cardinality(M) <= Capacity /\ e < c
        <5>1. Descends(u, q, c)
          BY <3>1, <3>4, PassedIs
        <5> QED BY <5>1 DEF Descends
      <4>2. ~Stops(u, q)
        BY <1>2, <3>1, <3>4, <4>1, StopsPasses
      <4>3. e <= d - (i + 1)
        <5>1. c \in Nat \cup {-1} /\ e \in Nat \cup {-1}
          BY <3>1, <4>1, IsType
        <5> QED BY <1>3, <3>1, <4>1, <4>2, <5>1
      <4>4. Falls(i + 1)
        BY <3>2, <4>1, <4>3
      <4> HIDE DEF Falls
      <4> QED BY <1>2, <4>4
    <3> QED BY <3>3, <3>4
  <2> HIDE DEF D
  <2> QED BY <1>2, <2>1, <2>2, AllUpTo
<1> DEFINE Comes(j) == Shrinks(returns[j], calls[Capacity - j].tree, calls[Capacity - j].key)
           S == {j \in 0 .. Capacity : Comes(j)}
<1>5. \A u, q : Call(u, q).tree = u /\ Call(u, q).key = q
  BY DEF Call
<1>6. 0 .. Capacity \subseteq S
  <2>1. 0 \in S
    <3>1. PICK u, q, L, c : /\ calls[Capacity] = Call(u, q) /\ q \in Keys
                            /\ Is(u, L, c, FALSE) /\ Cardinality(L) <= Capacity
                            /\ Stops(u, q) \/ c <= d - Capacity
      BY <1>2, <1>4
    <3>2. Stops(u, q)
      <4>1. CASE c <= d - Capacity
        <5>1. c < 0
          <6>1. c \in Nat \cup {-1}
            BY <3>1, IsType
          <6> QED BY <1>2, <1>3, <4>1, <6>1
        <5>2. u = Nil
          BY <3>1, <5>1, IsNilIfNegative
        <5> QED BY <5>2 DEF Stops
      <4> QED BY <3>1, <4>1
    <3>3. calls[Capacity].tree = u /\ calls[Capacity].key = q
      BY <1>5, <3>1
    <3>4. returns[0] = Deleted(u, q, NotThere)
      BY <1>1, <3>3
    <3>5. Shrinks(returns[0], u, q)
      BY <3>2, <3>4, DeletedShrunk DEF Shrinks
    <3>6. Comes(0)
      BY <1>2, <3>3, <3>5
    <3> HIDE DEF Comes
    <3> QED BY <1>2, <3>6
  <2>2. ASSUME NEW j \in 0 .. Capacity - 1, j \in S PROVE j + 1 \in S
    <3> DEFINE i == Capacity - (j + 1)
    <3>1. /\ j + 1 \in 1 .. Capacity /\ (j + 1) - 1 = j
          /\ i + 1 \in 1 .. Capacity /\ (i + 1) - 1 = i /\ i + 1 = Capacity - j
          /\ i \in 0 .. Capacity
      BY <1>2
    <3>2. PICK u, q : calls[i] = Call(u, q)
      <4>1. Falls(i)
        <5> HIDE DEF Falls
        <5> QED BY <1>4, <3>1
      <4> QED BY <4>1
    <3>3. calls[i].tree = u /\ calls[i].key = q
      BY <1>5, <3>2
    <3>4. calls[Capacity - j] = Passed(Call(u, q))
      BY <1>1, <3>1, <3>2
    <3>5. returns[j + 1] = Deleted(u, q, returns[j])
      BY <1>1, <3>1, <3>3
    <3>6. Shrinks(returns[j], Passed(Call(u, q)).tree, Passed(Call(u, q)).key)
      BY <2>2, <3>4
    <3>7. Shrinks(returns[j + 1], u, q)
      BY <3>5, <3>6, DeletedShrunk DEF Shrinks
    <3>8. Comes(j + 1)
      BY <3>3, <3>7
    <3> HIDE DEF Comes
    <3> QED BY <1>2, <3>8
  <2> HIDE DEF S
  <2> QED BY <1>2, <2>1, <2>2, AllUpTo
<1>7. Shrinks(DeleteInner(t, k), t, k)
  <2>1. Comes(Capacity)
    BY <1>2, <1>6
  <2> QED BY <1>1, <1>2, <1>5, <2>1
<1> QED BY <1>7 DEF Shrinks

-----------------------------------------------------------------------------
(* The nodes of a tree, level by level *)

Kids(S) == (UNION {{u.left, u.right} : u \in S}) \ {Nil}

LEMMA LevelSteps ==
    ASSUME NEW t
    PROVE  /\ Level(t)[0] = {t} \ {Nil}
           /\ \A i \in 1 .. Capacity : Level(t)[i] = Kids(Level(t)[i - 1])
<1> DEFINE Runs(f, n) == f = [i \in 0 .. n |-> IF i = 0 THEN {t} \ {Nil} ELSE Kids(f[i - 1])]
           S == {n \in 0 .. Capacity : \E f : Runs(f, n)}
<1>1. Capacity \in Nat
  BY TreeAssumption
<1>2. 0 \in S
  <2> DEFINE f == [i \in 0 .. 0 |-> {t} \ {Nil}]
  <2>1. Runs(f, 0)
    OBVIOUS
  <2> HIDE DEF f, Runs
  <2> QED BY <1>1, <2>1
<1>3. ASSUME NEW n \in 0 .. Capacity - 1, n \in S PROVE n + 1 \in S
  <2>1. PICK f : Runs(f, n)
    BY <1>3
  <2> DEFINE g == [i \in 0 .. n + 1 |-> IF i = 0 THEN {t} \ {Nil} ELSE Kids(f[i - 1])]
  <2>2. \A i \in 0 .. n : g[i] = f[i]
    <3>1. ASSUME NEW i \in 0 .. n PROVE g[i] = f[i]
      <4>1. f[i] = IF i = 0 THEN {t} \ {Nil} ELSE Kids(f[i - 1])
        BY <2>1
      <4>2. i \in 0 .. n + 1
        BY <1>1
      <4>3. g[i] = IF i = 0 THEN {t} \ {Nil} ELSE Kids(f[i - 1])
        BY <4>2
      <4> QED BY <4>1, <4>3
    <3> QED BY <3>1
  <2>3. ASSUME NEW i \in 0 .. n + 1
        PROVE  g[i] = IF i = 0 THEN {t} \ {Nil} ELSE Kids(g[i - 1])
    <3>1. i # 0 => i - 1 \in 0 .. n
      BY <1>1
    <3>2. i # 0 => g[i - 1] = f[i - 1]
      BY <2>2, <3>1
    <3>3. g[i] = IF i = 0 THEN {t} \ {Nil} ELSE Kids(f[i - 1])
      OBVIOUS
    <3> HIDE DEF g
    <3> QED BY <3>2, <3>3
  <2>4. g = [i \in 0 .. n + 1 |-> g[i]]
    OBVIOUS
  <2>5. Runs(g, n + 1)
    <3> HIDE DEF g
    <3> QED BY <2>3, <2>4
  <2> HIDE DEF g, Runs
  <2> QED BY <1>1, <2>5
<1>4. 0 .. Capacity \subseteq S
  <2> HIDE DEF S
  <2> QED BY <1>1, <1>2, <1>3, AllUpTo
<1>5. \E f : Runs(f, Capacity)
  <2> HIDE DEF Runs
  <2> QED BY <1>1, <1>4
<1>6. Level(t) = CHOOSE f : Runs(f, Capacity)
  BY DEF Level, Kids
<1>7. Runs(Level(t), Capacity)
  <2> HIDE DEF Runs
  <2> QED BY <1>5, <1>6
<1> HIDE DEF S
<1>8. ASSUME NEW i \in 0 .. Capacity
      PROVE  Level(t)[i] = IF i = 0 THEN {t} \ {Nil} ELSE Kids(Level(t)[i - 1])
  BY <1>7
<1>9. Level(t)[0] = {t} \ {Nil}
  BY <1>1, <1>8
<1>10. ASSUME NEW i \in 1 .. Capacity PROVE Level(t)[i] = Kids(Level(t)[i - 1])
  <2>1. i \in 0 .. Capacity /\ i # 0
    BY <1>1
  <2> QED BY <1>8, <2>1
<1> QED BY <1>9, <1>10

LEMMA LevelOfNil ==
    \A i \in 0 .. Capacity : Level(Nil)[i] = {}
<1> DEFINE S == {i \in 0 .. Capacity : Level(Nil)[i] = {}}
<1>1. Capacity \in Nat
  BY TreeAssumption
<1>2. 0 \in S
  BY <1>1, LevelSteps
<1>3. ASSUME NEW i \in 0 .. Capacity - 1, i \in S PROVE i + 1 \in S
  <2>1. i + 1 \in 1 .. Capacity /\ (i + 1) - 1 = i
    BY <1>1
  <2>2. Level(Nil)[i + 1] = Kids({})
    <3>1. Level(Nil)[i] = {}
      BY <1>3
    <3>2. Level(Nil)[i + 1] = Kids(Level(Nil)[(i + 1) - 1])
      BY <2>1, LevelSteps
    <3> QED BY <2>1, <3>1, <3>2
  <2>3. Kids({}) = {}
    BY DEF Kids
  <2> QED BY <1>1, <2>2, <2>3
<1>4. 0 .. Capacity \subseteq S
  <2> HIDE DEF S
  <2> QED BY <1>1, <1>2, <1>3, AllUpTo
<1> QED BY <1>4

\* A level of a node is made of the levels above it of the children.
LevelsJoin(t, l, r) ==
    \A i \in 0 .. Capacity - 1 : Level(t)[i + 1] = Level(l)[i] \cup Level(r)[i]

LEMMA LevelOfTree ==
    ASSUME NEW k, NEW l, NEW r, NEW h
    PROVE  LevelsJoin(Tree(k, l, r, h), l, r)
<1> DEFINE t == Tree(k, l, r, h)
           Joined(i) == Level(t)[i + 1] = Level(l)[i] \cup Level(r)[i]
           S == {i \in 0 .. Capacity - 1 : Joined(i)}
<1>1. Capacity \in Nat \ {0} /\ Capacity - 1 \in Nat
  BY TreeAssumption
<1>2. t # Nil /\ t.left = l /\ t.right = r
  BY TreeIsNotNil, TreeParts
<1> HIDE DEF t
<1>3. 0 \in S
  <2>1. Level(t)[0] = {t} /\ Level(l)[0] = {l} \ {Nil} /\ Level(r)[0] = {r} \ {Nil}
    BY <1>2, LevelSteps
  <2>2. Level(t)[0 + 1] = Kids({t})
    <3>1. 0 + 1 \in 1 .. Capacity /\ (0 + 1) - 1 = 0
      BY <1>1
    <3>2. Level(t)[0 + 1] = Kids(Level(t)[(0 + 1) - 1])
      BY <3>1, LevelSteps
    <3> QED BY <2>1, <3>1, <3>2
  <2>3. Kids({t}) = {l, r} \ {Nil}
    BY <1>2 DEF Kids
  <2>4. Joined(0)
    BY <2>1, <2>2, <2>3
  <2> HIDE DEF Joined
  <2> QED BY <1>1, <2>4
<1>4. ASSUME NEW i \in 0 .. (Capacity - 1) - 1, i \in S PROVE i + 1 \in S
  <2>1. /\ i + 1 \in 1 .. Capacity /\ (i + 1) - 1 = i /\ i + 1 \in 0 .. Capacity - 1
        /\ (i + 1) + 1 \in 1 .. Capacity /\ ((i + 1) + 1) - 1 = i + 1
    BY <1>1
  <2>2. Level(t)[(i + 1) + 1] = Kids(Level(t)[i + 1])
    BY <2>1, LevelSteps
  <2>3. Level(t)[i + 1] = Level(l)[i] \cup Level(r)[i]
    BY <1>4
  <2>4. Level(l)[i + 1] = Kids(Level(l)[i]) /\ Level(r)[i + 1] = Kids(Level(r)[i])
    BY <2>1, LevelSteps
  <2>5. \A A, B : Kids(A \cup B) = Kids(A) \cup Kids(B)
    BY DEF Kids
  <2>6. Joined(i + 1)
    BY <2>2, <2>3, <2>4, <2>5
  <2> HIDE DEF Joined
  <2> QED BY <2>1, <2>6
<1>5. 0 .. Capacity - 1 \subseteq S
  <2> HIDE DEF S
  <2> QED BY <1>1, <1>3, <1>4, AllUpTo
<1>6. LevelsJoin(t, l, r)
  BY <1>5 DEF LevelsJoin
<1> QED BY <1>6 DEF t

\* What the levels of a search tree hold: down to its depth and no further,
\* one node of each of its keys, and every one of them the top of a search tree.
Levelled(t, K, d, avl) ==
    /\ \A i \in 0 .. Capacity : Level(t)[i] # {} <=> i <= d
    /\ \A q \in K : \E x \in NodesOf(t) : x.key = q
    /\ \A x \in NodesOf(t) : x # Nil /\ x.key \in K /\ \E L, c : Is(x, L, c, avl) /\ c <= d
    /\ \A x, y \in NodesOf(t) : x.key = y.key => x = y

LEMMA LevelledNode ==
    ASSUME NEW t, NEW K, NEW d, NEW avl, d <= Capacity,
           NEW k, NEW h, NEW l, NEW Kl, NEW dl, NEW r, NEW Kr, NEW dr,
           Is(t, K, d, avl), IsOver(t, K, d, avl, k, h, l, Kl, dl, r, Kr, dr),
           Levelled(l, Kl, dl, avl), Levelled(r, Kr, dr, avl)
    PROVE  Levelled(t, K, d, avl)
<1>1. /\ k \in Int /\ t = Tree(k, l, r, h) /\ K = Kl \cup {k} \cup Kr
      /\ Between(Kl, k, Kr) /\ d = 1 + Higher(dl, dr)
      /\ Is(l, Kl, dl, avl) /\ Is(r, Kr, dr, avl)
  BY TreeAssumption DEF IsOver, Fits, Between
<1>2. t # Nil /\ t.key = k
  BY <1>1, TreeIsNotNil, TreeParts
<1>3. dl \in Nat \cup {-1} /\ dr \in Nat \cup {-1} /\ d \in Nat \cup {-1}
  BY <1>1, IsType
<1>4. Kl \subseteq Int /\ Kr \subseteq Int
  <2>1. Kl \subseteq Keys /\ Kr \subseteq Keys
    BY <1>1, IsType
  <2> QED BY <2>1, TreeAssumption
<1>5. Capacity \in Nat \ {0}
  BY TreeAssumption
<1>6. Level(t)[0] = {t}
  BY <1>2, LevelSteps
<1>7. \A i \in 0 .. Capacity - 1 : Level(t)[i + 1] = Level(l)[i] \cup Level(r)[i]
  <2>1. LevelsJoin(Tree(k, l, r, h), l, r)
    BY LevelOfTree
  <2> QED BY <1>1, <2>1 DEF LevelsJoin
<1>8. dl < d /\ dr < d /\ d >= 0 /\ (d = dl + 1 \/ d = dr + 1)
  BY <1>1, <1>3 DEF Higher
<1>9. Level(l)[Capacity] = {} /\ Level(r)[Capacity] = {}
  <2>1. Capacity \in 0 .. Capacity /\ ~(Capacity <= dl) /\ ~(Capacity <= dr)
    BY <1>3, <1>5, <1>8
  <2> QED BY <2>1 DEF Levelled
<1>10. NodesOf(t) = {t} \cup NodesOf(l) \cup NodesOf(r)
  <2>1. ASSUME NEW x \in NodesOf(t) PROVE x \in {t} \cup NodesOf(l) \cup NodesOf(r)
    <3>1. PICK i \in 0 .. Capacity : x \in Level(t)[i]
      BY <2>1 DEF NodesOf
    <3>2. CASE i = 0
      BY <1>6, <3>1, <3>2
    <3>3. CASE i # 0
      <4>1. i - 1 \in 0 .. Capacity - 1 /\ (i - 1) + 1 = i /\ i - 1 \in 0 .. Capacity
        BY <1>5, <3>3
      <4>2. x \in Level(l)[i - 1] \cup Level(r)[i - 1]
        BY <1>7, <3>1, <4>1
      <4> QED BY <4>1, <4>2 DEF NodesOf
    <3> QED BY <3>2, <3>3
  <2>2. ASSUME NEW x \in NodesOf(l) \cup NodesOf(r) PROVE x \in NodesOf(t)
    <3>1. PICK i \in 0 .. Capacity : x \in Level(l)[i] \cup Level(r)[i]
      BY <2>2 DEF NodesOf
    <3>2. i # Capacity
      BY <1>9, <3>1
    <3>3. i \in 0 .. Capacity - 1 /\ i + 1 \in 0 .. Capacity
      BY <1>5, <3>2
    <3>4. x \in Level(t)[i + 1]
      BY <1>7, <3>1, <3>3
    <3> QED BY <3>3, <3>4 DEF NodesOf
  <2>3. t \in NodesOf(t)
    <3>1. 0 \in 0 .. Capacity
      BY <1>5
    <3> QED BY <1>6, <3>1 DEF NodesOf
  <2> QED BY <2>1, <2>2, <2>3
<1>11. \A i \in 0 .. Capacity : Level(t)[i] # {} <=> i <= d
  <2> SUFFICES ASSUME NEW i \in 0 .. Capacity PROVE Level(t)[i] # {} <=> i <= d
    OBVIOUS
  <2>1. CASE i = 0
    BY <1>6, <1>8, <2>1
  <2>2. CASE i # 0
    <3>1. i - 1 \in 0 .. Capacity - 1 /\ (i - 1) + 1 = i /\ i - 1 \in 0 .. Capacity
      BY <1>5, <2>2
    <3>2. Level(t)[i] = Level(l)[i - 1] \cup Level(r)[i - 1]
      BY <1>7, <3>1
    <3>3. /\ Level(l)[i - 1] # {} <=> i - 1 <= dl
          /\ Level(r)[i - 1] # {} <=> i - 1 <= dr
      BY <3>1 DEF Levelled
    <3>4. i <= d <=> i - 1 <= dl \/ i - 1 <= dr
      BY <1>3, <1>8
    <3> QED BY <3>2, <3>3, <3>4
  <2> QED BY <2>1, <2>2
<1>12. /\ \A x \in NodesOf(l) : x # Nil /\ x.key \in Kl /\ \E L, c : Is(x, L, c, avl) /\ c <= dl
       /\ \A x \in NodesOf(r) : x # Nil /\ x.key \in Kr /\ \E L, c : Is(x, L, c, avl) /\ c <= dr
  BY DEF Levelled
<1>13. \A q \in K : \E x \in NodesOf(t) : x.key = q
  BY <1>1, <1>2, <1>10 DEF Levelled
<1>14. ASSUME NEW x \in NodesOf(t)
       PROVE  x # Nil /\ x.key \in K /\ \E L, c : Is(x, L, c, avl) /\ c <= d
  <2>1. CASE x = t
    BY <1>1, <1>2, <1>3, <2>1
  <2>2. CASE x \in NodesOf(l)
    <3>1. PICK L, c : Is(x, L, c, avl) /\ c <= dl
      BY <1>12, <2>2
    <3>2. c \in Nat \cup {-1}
      BY <3>1, IsType
    <3>3. c <= d
      BY <1>3, <1>8, <3>1, <3>2
    <3> QED BY <1>1, <1>12, <2>2, <3>1, <3>3
  <2>3. CASE x \in NodesOf(r)
    <3>1. PICK L, c : Is(x, L, c, avl) /\ c <= dr
      BY <1>12, <2>3
    <3>2. c \in Nat \cup {-1}
      BY <3>1, IsType
    <3>3. c <= d
      BY <1>3, <1>8, <3>1, <3>2
    <3> QED BY <1>1, <1>12, <2>3, <3>1, <3>3
  <2> QED BY <1>10, <2>1, <2>2, <2>3
<1>15. ASSUME NEW x \in NodesOf(t), NEW y \in NodesOf(t), x.key = y.key PROVE x = y
  <2>1. /\ \A z \in NodesOf(l) : z.key < k /\ z.key \in Int
        /\ \A z \in NodesOf(r) : k < z.key /\ z.key \in Int
    BY <1>1, <1>4, <1>12 DEF Between
  <2>2. /\ \A z, w \in NodesOf(l) : z.key = w.key => z = w
        /\ \A z, w \in NodesOf(r) : z.key = w.key => z = w
    BY DEF Levelled
  <2>3. CASE x = t
    BY <1>1, <1>2, <1>10, <1>15, <2>1, <2>3
  <2>4. CASE x \in NodesOf(l)
    BY <1>1, <1>2, <1>10, <1>15, <2>1, <2>2, <2>4
  <2>5. CASE x \in NodesOf(r)
    BY <1>1, <1>2, <1>10, <1>15, <2>1, <2>2, <2>5
  <2> QED BY <1>10, <2>3, <2>4, <2>5
<1> QED BY <1>11, <1>13, <1>14, <1>15 DEF Levelled

LEMMA LevelledNil ==
    ASSUME NEW avl
    PROVE  Levelled(Nil, {}, -1, avl)
<1>1. NodesOf(Nil) = {}
  BY LevelOfNil DEF NodesOf
<1> QED BY <1>1, LevelOfNil DEF Levelled

LEMMA IsLevelled ==
    ASSUME NEW t, NEW K, NEW d, NEW avl, Is(t, K, d, avl), d < Capacity
    PROVE  Levelled(t, K, d, avl)
<1> DEFINE Low(n) == \A u, L, c, a : Is(u, L, c, a) /\ c < n => Levelled(u, L, c, a)
           S == {n \in 0 .. Capacity : Low(n)}
<1>1. Capacity \in Nat
  BY TreeAssumption
<1>2. 0 \in S
  <2>1. ASSUME NEW u, NEW L, NEW c, NEW a, Is(u, L, c, a), c < 0 PROVE Levelled(u, L, c, a)
    <3>1. u = Nil
      BY <2>1, IsNilIfNegative
    <3>2. L = {} /\ c = -1
      BY <2>1, <3>1, IsCases
    <3> QED BY <3>1, <3>2, LevelledNil
  <2>2. Low(0)
    BY <2>1
  <2> HIDE DEF Low
  <2> QED BY <1>1, <2>2
<1>3. ASSUME NEW n \in 0 .. Capacity - 1, n \in S PROVE n + 1 \in S
  <2>1. Low(n)
    BY <1>3
  <2>2. ASSUME NEW u, NEW L, NEW c, NEW a, Is(u, L, c, a), c < n + 1 PROVE Levelled(u, L, c, a)
    <3>1. CASE u = Nil
      <4>1. L = {} /\ c = -1
        BY <2>2, <3>1, IsCases
      <4> QED BY <3>1, <4>1, LevelledNil
    <3>2. CASE u # Nil
      <4>1. PICK k, h, l, Kl, dl, r, Kr, dr : IsOver(u, L, c, a, k, h, l, Kl, dl, r, Kr, dr)
        BY <2>2, <3>2, IsCases
      <4>2. Is(l, Kl, dl, a) /\ Is(r, Kr, dr, a) /\ c = 1 + Higher(dl, dr)
        BY <4>1 DEF IsOver
      <4>3. dl \in Nat \cup {-1} /\ dr \in Nat \cup {-1}
        BY <4>2, IsType
      <4>4. dl < n /\ dr < n /\ c <= Capacity
        BY <1>1, <2>2, <4>2, <4>3 DEF Higher
      <4>5. Levelled(l, Kl, dl, a) /\ Levelled(r, Kr, dr, a)
        BY <2>1, <4>2, <4>4
      <4> QED BY <2>2, <4>1, <4>4, <4>5, LevelledNode
    <3> QED BY <3>1, <3>2
  <2>3. Low(n + 1)
    BY <2>2
  <2> HIDE DEF Low
  <2> QED BY <1>1, <2>3
<1>4. 0 .. Capacity \subseteq S
  <2> HIDE DEF S
  <2> QED BY <1>1, <1>2, <1>3, AllUpTo
<1>5. Low(Capacity)
  BY <1>1, <1>4
<1> QED BY <1>5

\* Depth is the depth.
LEMMA IsDepth ==
    ASSUME NEW t, NEW K, NEW d, NEW avl, Is(t, K, d, avl), d < Capacity
    PROVE  Depth(t) = d
<1>1. d \in Nat \cup {-1} /\ Capacity \in Nat
  BY IsType, TreeAssumption
<1>2. {i \in 0 .. Capacity : Level(t)[i] # {}} = 0 .. d
  <2>1. \A i \in 0 .. Capacity : Level(t)[i] # {} <=> i <= d
    BY IsLevelled DEF Levelled
  <2> QED BY <1>1, <2>1
<1>3. Cardinality(0 .. d) = d + 1
  BY <1>1, FS_Interval
<1>4. Depth(t) = (d + 1) - 1
  BY <1>2, <1>3, Zenon DEF Depth
<1> QED BY <1>1, <1>4

\* There are as many nodes as keys.
LEMMA NodesCount ==
    ASSUME NEW t, NEW K, NEW d, NEW avl, Is(t, K, d, avl), d < Capacity
    PROVE  Cardinality(NodesOf(t)) = Cardinality(K)
<1> DEFINE f == [x \in NodesOf(t) |-> x.key]
<1>1. /\ \A q \in K : \E x \in NodesOf(t) : x.key = q
      /\ \A x \in NodesOf(t) : x.key \in K
      /\ \A x, y \in NodesOf(t) : x.key = y.key => x = y
  BY IsLevelled DEF Levelled
<1>2. f \in Injection(NodesOf(t), K)
  BY <1>1 DEF Injection, IsInjective
<1>3. f \in Surjection(NodesOf(t), K)
  BY <1>1 DEF Surjection
<1>4. IsFiniteSet(K)
  BY IsType
<1> HIDE DEF f
<1> QED BY <1>2, <1>3, <1>4, FS_Injection

-----------------------------------------------------------------------------
(* The map *)

\* The inductive invariant.  With one node on the free list the tree has fewer
\* nodes than a search can pass, which is why every search ends.
TreeInv ==
    /\ deleted \in BOOLEAN
    /\ count = Cardinality(stored)
    /\ free \in Nat \ {0}
    /\ count + free = Capacity
    /\ \E d : Is(root, stored, d, ~deleted)

LEMMA TreeStarts == TreeInit => TreeInv
<1> SUFFICES ASSUME TreeInit PROVE TreeInv
  OBVIOUS
<1>1. /\ root = Nil /\ count = 0 /\ free = Capacity /\ stored = {} /\ deleted = FALSE
      /\ Capacity \in Nat \ {0}
  BY TreeAssumption DEF TreeInit
<1>2. Is(root, stored, -1, ~deleted)
  BY <1>1, NilIs
<1>3. Cardinality(stored) = 0
  BY <1>1, FS_EmptySet
<1>4. \E d : Is(root, stored, d, ~deleted)
  BY <1>2
<1>5. count = Cardinality(stored) /\ free \in Nat \ {0} /\ count + free = Capacity
  BY <1>1, <1>3
<1>6. deleted \in BOOLEAN
  BY <1>1
<1> QED BY <1>4, <1>5, <1>6, Zenon DEF TreeInv

\* What the invariant says of a state, for the steps and the properties.
LEMMA TreeFacts ==
    ASSUME TreeInv
    PROVE  \E d : /\ Is(root, stored, d, ~deleted) /\ (~deleted) \in BOOLEAN
                  /\ stored \subseteq Keys /\ IsFiniteSet(stored)
                  /\ Cardinality(stored) \in Nat /\ Cardinality(stored) < Capacity
                  /\ d \in Nat \cup {-1} /\ d < Capacity
<1>1. PICK d : Is(root, stored, d, ~deleted)
  BY DEF TreeInv
<1>2. /\ stored \subseteq Keys /\ IsFiniteSet(stored) /\ d \in Nat \cup {-1}
      /\ Cardinality(stored) \in Nat /\ d < Cardinality(stored)
  BY <1>1, IsType
<1>3. count = Cardinality(stored) /\ free \in Nat \ {0} /\ count + free = Capacity
  BY Zenon DEF TreeInv
<1>4. Cardinality(stored) < Capacity /\ d < Capacity
  BY <1>2, <1>3
<1>5. (~deleted) \in BOOLEAN
  <2>1. deleted \in BOOLEAN
    BY Zenon DEF TreeInv
  <2> QED BY <2>1
<1> QED BY <1>1, <1>2, <1>4, <1>5, Zenon

LEMMA TreeInserts ==
    ASSUME TreeInv, NEW k \in Keys, InsertAlloc(k)
    PROVE  TreeInv'
<1>1. PICK d : /\ Is(root, stored, d, ~deleted) /\ (~deleted) \in BOOLEAN
               /\ IsFiniteSet(stored)
               /\ Cardinality(stored) \in Nat /\ Cardinality(stored) < Capacity
  BY TreeFacts
<1>2. /\ free > 1 /\ FindInner(root, k) = Nil /\ root' = InsertInner(root, k)
      /\ count' = count + 1 /\ free' = free - 1 /\ stored' = stored \cup {k}
      /\ deleted' = deleted
  BY DEF InsertAlloc
<1>3. Cardinality(stored) <= Capacity
  BY <1>1, TreeAssumption
<1>4. k \notin stored
  BY <1>1, <1>2, <1>3, FindInnerFinds
<1>5. Grew(InsertInner(root, k), stored, d, k, ~deleted)
  <2>1. k \in Keys \ stored
    BY <1>4
  <2> QED BY <1>1, <1>3, <2>1, InsertInnerGrew
<1>6. \E e : Is(root', stored', e, ~deleted')
  BY <1>2, <1>5 DEF Grew, GrewTo
<1>7. Cardinality(stored') = Cardinality(stored) + 1
  BY <1>1, <1>2, <1>4, FS_AddElement
<1>8. count = Cardinality(stored) /\ free \in Nat \ {0} /\ count + free = Capacity
      /\ deleted \in BOOLEAN
  BY DEF TreeInv
<1>9. /\ deleted' \in BOOLEAN /\ count' = Cardinality(stored')
      /\ free' \in Nat \ {0} /\ count' + free' = Capacity
  BY <1>1, <1>2, <1>7, <1>8
<1> QED BY <1>6, <1>9 DEF TreeInv

LEMMA TreeDeletes ==
    ASSUME TreeInv, NEW k \in Keys, Delete(k)
    PROVE  TreeInv'
<1>1. PICK d : /\ Is(root, stored, d, ~deleted) /\ IsFiniteSet(stored)
               /\ Cardinality(stored) \in Nat /\ Cardinality(stored) < Capacity
  BY TreeFacts
<1> DEFINE r == DeleteInner(root, k)
<1>2. /\ root' = r.tree /\ count' = count - r.freed /\ free' = free + r.freed
      /\ stored' = stored \ {k} /\ deleted' = (deleted \/ r.freed > 0)
  BY DEF Delete, Uncounted
<1>3. Cardinality(stored) <= Capacity
  BY <1>1, TreeAssumption
<1>4. Is(root, stored, d, FALSE)
  BY <1>1, IsWeaker
<1>5. Shrunk(r, root, stored, d, k)
  BY <1>3, <1>4, DeleteInnerShrunk
<1> HIDE DEF r
<1>6. PICK u, e : \E ok \in BOOLEAN :
        /\ r = [tree |-> u, freed |-> IF k \in stored THEN 1 ELSE 0, ok |-> ok]
        /\ Is(u, stored \ {k}, e, FALSE)
        /\ k \notin stored => u = root
  BY <1>5 DEF Shrunk
<1>7. r.tree = u /\ r.freed = IF k \in stored THEN 1 ELSE 0
  BY <1>6
<1>8. count = Cardinality(stored) /\ free \in Nat \ {0} /\ count + free = Capacity
      /\ deleted \in BOOLEAN
  BY DEF TreeInv
<1>9. CASE k \in stored
  <2>1. r.freed = 1
    BY <1>7, <1>9
  <2>2. deleted' = TRUE
    <3>1. r.freed > 0
      BY <2>1
    <3> QED BY <1>2, <3>1, Zenon
  <2>3. Is(root', stored', e, ~deleted')
    BY <1>2, <1>6, <1>7, <2>2
  <2>4. Cardinality(stored') = Cardinality(stored) - 1
    BY <1>1, <1>2, <1>9, FS_RemoveElement
  <2>5. /\ count' = Cardinality(stored')
        /\ free' \in Nat \ {0} /\ count' + free' = Capacity
    BY <1>1, <1>2, <1>8, <2>1, <2>4
  <2>6. \E c : Is(root', stored', c, ~deleted')
    BY <2>3
  <2> QED BY <2>2, <2>5, <2>6 DEF TreeInv
<1>10. CASE k \notin stored
  <2>1. r.freed = 0 /\ root' = root /\ stored' = stored
    BY <1>2, <1>6, <1>7, <1>10
  <2>2. deleted' = deleted
    <3>1. ~(r.freed > 0)
      BY <2>1
    <3>2. deleted' = (deleted \/ r.freed > 0) /\ deleted \in BOOLEAN
      BY <1>2, <1>8
    <3> QED BY <3>1, <3>2, Zenon
  <2>3. \E c : Is(root', stored', c, ~deleted')
    BY <1>1, <2>1, <2>2
  <2>4. /\ count' = Cardinality(stored')
        /\ free' \in Nat \ {0} /\ count' + free' = Capacity
    <3>1. count' = count - 0 /\ free' = free + 0
      BY <1>2, <2>1
    <3>2. count \in Nat /\ free \in Nat
      BY <1>1, <1>8
    <3>3. count' = count /\ free' = free
      BY <3>1, <3>2
    <3> QED BY <1>8, <2>1, <3>3
  <2> QED BY <1>8, <2>2, <2>3, <2>4 DEF TreeInv
<1> QED BY <1>9, <1>10

LEMMA TreeInvariance == TreeSpec => []TreeInv
<1>1. TreeInit => TreeInv
  BY TreeStarts
<1>2. TreeInv /\ [TreeNext]_nodes => TreeInv'
  <2> SUFFICES ASSUME TreeInv, [TreeNext]_nodes PROVE TreeInv'
    OBVIOUS
  <2>1. CASE InsertStops
    BY <2>1 DEF InsertStops, TreeInv
  <2>2. ASSUME NEW k \in Keys, InsertAlloc(k) PROVE TreeInv'
    BY <2>2, TreeInserts
  <2>3. ASSUME NEW k \in Keys, Delete(k) PROVE TreeInv'
    BY <2>3, TreeDeletes
  <2>4. CASE UNCHANGED nodes
    BY <2>4 DEF nodes, TreeInv
  <2> QED BY <2>1, <2>2, <2>3, <2>4 DEF TreeNext
<1> QED BY <1>1, <1>2, PTL DEF TreeSpec

\* After any insertions and deletions, of whatever IDs in whatever order, Find
\* finds every record that is stored, under its own ID, and no other: no
\* rotation and no splice loses a node or misplaces one.
THEOREM TreeFindsStored == TreeSpec => []FindsStored
<1>1. TreeInv => FindsStored
  <2> SUFFICES ASSUME TreeInv, NEW k \in Keys
               PROVE  IF k \in stored
                      THEN FindInner(root, k) # Nil /\ FindInner(root, k).data = k
                      ELSE FindInner(root, k) = Nil
    BY DEF FindsStored
  <2>1. PICK d : /\ Is(root, stored, d, ~deleted)
                 /\ Cardinality(stored) \in Nat /\ Cardinality(stored) < Capacity
    BY TreeFacts
  <2>2. Cardinality(stored) <= Capacity
    BY <2>1, TreeAssumption
  <2> QED BY <2>1, <2>2, FindInnerFinds
<1>2. TreeSpec => []TreeInv
  BY TreeInvariance
<1> QED BY <1>1, <1>2, PTL

\* No node of the pool is lost or used twice: m_nCount is the number of IDs
\* stored and the number of nodes in the tree, the others are on the free
\* list, and one of them never leaves it.
THEOREM TreePoolAccounts == TreeSpec => []PoolAccounts
<1>1. TreeInv => PoolAccounts
  <2> SUFFICES ASSUME TreeInv PROVE PoolAccounts
    OBVIOUS
  <2>1. PICK d : Is(root, stored, d, ~deleted) /\ d < Capacity
    BY TreeFacts
  <2>2. Cardinality(NodesOf(root)) = Cardinality(stored)
    BY <2>1, NodesCount
  <2>3. /\ count = Cardinality(stored) /\ free \in Nat \ {0} /\ count + free = Capacity
    BY DEF TreeInv
  <2>4. free > 0
    BY <2>3
  <2> QED BY <2>2, <2>3, <2>4 DEF PoolAccounts
<1>2. TreeSpec => []TreeInv
  BY TreeInvariance
<1> QED BY <1>1, <1>2, PTL

\* A node's recorded height is never below its true one; and as long as nothing
\* was deleted it is the true one, and the children differ by one at most.
LEMMA IsBalanced ==
    ASSUME NEW t, NEW K, NEW d, NEW avl, Is(t, K, d, avl), d < Capacity, t # Nil
    PROVE  /\ Depth(t) <= t.height
           /\ avl => Depth(t) = t.height /\ Depth(t.left) - Depth(t.right) \in -1 .. 1
<1>1. Depth(t) = d
  BY IsDepth
<1>2. d <= t.height /\ (avl => t.height = d)
  BY IsHeight
<1>3. PICK k, h, l, Kl, dl, r, Kr, dr : IsOver(t, K, d, avl, k, h, l, Kl, dl, r, Kr, dr)
  BY IsCases
<1>4. /\ t = Tree(k, l, r, h) /\ d = 1 + Higher(dl, dr)
      /\ Is(l, Kl, dl, avl) /\ Is(r, Kr, dr, avl) /\ (avl => dl - dr \in -1 .. 1)
  BY <1>3 DEF IsOver, Fits
<1>5. t.left = l /\ t.right = r
  BY <1>4, TreeParts
<1>6. dl < Capacity /\ dr < Capacity
  <2>1. dl \in Nat \cup {-1} /\ dr \in Nat \cup {-1}
    BY <1>4, IsType
  <2>2. Capacity \in Nat
    BY TreeAssumption
  <2> QED BY <1>4, <2>1, <2>2 DEF Higher
<1>7. Depth(l) = dl /\ Depth(r) = dr
  BY <1>4, <1>6, IsDepth
<1> QED BY <1>1, <1>2, <1>4, <1>5, <1>7

\* Insertions alone keep the tree an AVL tree that knows its heights; deletions,
\* which do not rebalance above a leaf, may leave heights too large, but never
\* too small.
THEOREM TreeBalanced == TreeSpec => []Balanced
<1>1. TreeInv => Balanced
  <2> SUFFICES ASSUME TreeInv, NEW t \in NodesOf(root)
               PROVE  /\ Depth(t) <= t.height
                      /\ ~deleted => /\ Depth(t) = t.height
                                     /\ Depth(t.left) - Depth(t.right) \in -1 .. 1
    BY DEF Balanced
  <2>1. PICK d : Is(root, stored, d, ~deleted) /\ d \in Nat \cup {-1} /\ d < Capacity
    BY TreeFacts
  <2>2. Levelled(root, stored, d, ~deleted)
    BY <2>1, IsLevelled
  <2>3. t # Nil /\ \E L, c : Is(t, L, c, ~deleted) /\ c <= d
    BY <2>2 DEF Levelled
  <2>4. PICK L, c : Is(t, L, c, ~deleted) /\ c <= d
    BY <2>3
  <2>5. c < Capacity
    <3>1. c \in Nat \cup {-1} /\ Capacity \in Nat
      BY <2>4, IsType, TreeAssumption
    <3> QED BY <2>1, <2>4, <3>1
  <2> QED BY <2>3, <2>4, <2>5, IsBalanced
<1>2. TreeSpec => []TreeInv
  BY TreeInvariance
<1> QED BY <1>1, <1>2, PTL
=============================================================================
