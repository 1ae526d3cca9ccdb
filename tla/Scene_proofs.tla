---------------------------- MODULE Scene_proofs ----------------------------
(***************************************************************************)
(* What a scene keeps about its objects and the lists of its cells stays   *)
(* consistent, for every map, every number of players and objects and      *)
(* every sequence of commands and ticks, and a tick tells exactly those    *)
(* around a changed player.                                                *)
(***************************************************************************)
EXTENDS Scene, LinkedList_proofs

-----------------------------------------------------------------------------
(* The map: the cells around a cell, for maps and cells of every size *)

\* The cells GetIndexByPos yields.
OnMap(n) == n \in Nat /\ RowOf(n) \in 1 .. MaxRows - 1 /\ ColOf(n) \in 1 .. MaxCols - 1

LEMMA Sizes == MaxRows \in Nat \ {0} /\ MaxCols \in Nat \ {0}
  BY GridAssumption DEF MaxRows, MaxCols

\* Division by n, apart from the grid.
LEMMA DivideUnique ==
    ASSUME NEW n \in Nat \ {0}, NEW q \in Int, NEW r \in 0 .. n - 1
    PROVE  (q * n + r) \div n = q /\ (q * n + r) % n = r
  OBVIOUS

LEMMA DivideBack ==
    ASSUME NEW n \in Nat \ {0}, NEW m \in Int
    PROVE  /\ (m \div n) \in Int /\ (m % n) \in 0 .. n - 1
           /\ m = (m \div n) * n + (m % n)
  OBVIOUS

LEMMA MonotoneTimes ==
    ASSUME NEW n \in Nat, NEW a \in Int, NEW b \in Int, a <= b
    PROVE  a * n <= b * n
  OBVIOUS

\* A cell is its row and its column.
LEMMA RowAndColumn ==
    ASSUME NEW row \in Int, NEW col \in 0 .. MaxCols - 1
    PROVE  /\ row * MaxCols + col \in Int
           /\ RowOf(row * MaxCols + col) = row /\ ColOf(row * MaxCols + col) = col
  BY Sizes, DivideUnique DEF RowOf, ColOf

LEMMA CellBack ==
    ASSUME NEW n \in Int
    PROVE  /\ RowOf(n) \in Int /\ ColOf(n) \in 0 .. MaxCols - 1
           /\ n = RowOf(n) * MaxCols + ColOf(n)
  BY Sizes, DivideBack DEF RowOf, ColOf

\* Cells of a row before are before.
LEMMA RowsInOrder ==
    ASSUME NEW m \in Int, NEW n \in Int, RowOf(m) < RowOf(n)
    PROVE  m < n
<1> DEFINE c == MaxCols
           a == RowOf(m)
           b == RowOf(n)
<1>1. /\ c \in Nat \ {0} /\ a \in Int /\ b \in Int /\ ColOf(m) \in 0 .. c - 1 /\ ColOf(n) \in 0 .. c - 1
      /\ m = a * c + ColOf(m) /\ n = b * c + ColOf(n)
  BY Sizes, CellBack
<1>2. a + 1 <= b
  BY <1>1
<1> HIDE DEF c, a, b
<1>3. (a + 1) * c <= b * c
  BY <1>1, <1>2, MonotoneTimes
<1>4. (a + 1) * c = a * c + c /\ a * c \in Int /\ b * c \in Int
  BY <1>1
<1> QED
  BY <1>1, <1>3, <1>4

\* An index is in the vector if its row is.
LEMMA InVectorByRow ==
    ASSUME NEW n \in Int
    PROVE  n \in Cells <=> RowOf(n) \in 0 .. MaxRows - 1
<1> DEFINE c == MaxCols
           r == MaxRows
<1>1. /\ c \in Nat \ {0} /\ r \in Nat \ {0} /\ RowOf(n) \in Int
  BY Sizes, CellBack
<1>2. RowOf(0 * c + 0) = 0 /\ RowOf(r * c + 0) = r
  <2>1. 0 \in Int /\ r \in Int /\ 0 \in 0 .. MaxCols - 1
    BY <1>1
  <2> QED
    BY <2>1, RowAndColumn, Zenon
<1>3. 0 * c + 0 = 0 /\ r * c + 0 = r * c /\ r * c \in Int /\ ((-1) * c + (c - 1) = -1)
  BY <1>1
<1>4. RowOf(0) = 0 /\ RowOf(r * c) = r
  BY <1>2, <1>3
<1>5. CASE RowOf(n) \in 0 .. r - 1
  <2>1. n < r * c
    BY <1>1, <1>3, <1>4, <1>5, RowsInOrder
  <2>2. n >= 0
    <3>1. RowOf((-1) * c + (c - 1)) = -1
      <4>1. -1 \in Int /\ c - 1 \in 0 .. MaxCols - 1
        BY <1>1
      <4> QED
        BY <4>1, RowAndColumn, Zenon
    <3>2. RowOf(-1) = -1
      BY <3>1, <1>3
    <3>3. -1 < n
      BY <1>1, <1>5, <3>2, RowsInOrder
    <3> QED
      BY <3>3
  <2> QED
    BY <1>1, <1>3, <1>5, <2>1, <2>2 DEF Cells
<1>6. CASE RowOf(n) < 0
  <2>1. n < 0
    BY <1>1, <1>4, <1>6, RowsInOrder
  <2> QED
    BY <1>1, <1>3, <1>6, <2>1 DEF Cells
<1>7. CASE RowOf(n) >= r
  <2>1. n >= r * c
    <3>1. /\ n = RowOf(n) * c + ColOf(n) /\ ColOf(n) \in 0 .. c - 1
      BY CellBack
    <3>2. r * c <= RowOf(n) * c
      BY <1>1, <1>7, MonotoneTimes
    <3> QED
      BY <1>1, <1>3, <3>1, <3>2
  <2> QED
    BY <1>1, <1>3, <1>7, <2>1 DEF Cells
<1> QED
  BY <1>1, <1>5, <1>6, <1>7

\* GetIndexByPos finds a cell of the vector, never one of the first row or
\* column, or none.
THEOREM IndexOnMap ==
    ASSUME NEW at \in [x : Int, z : Int], GetIndexByPos(at) # -1
    PROVE  OnMap(GetIndexByPos(at)) /\ GetIndexByPos(at) \in Cells
<1> DEFINE row == (at.z - Top) \div CellSize + 1
           col == (at.x - Left) \div CellSize + 1
           n == row * MaxCols + col
<1>1. /\ at.z \in Top .. Bottom /\ at.x \in Left .. Right
      /\ row < MaxRows /\ col < MaxCols /\ GetIndexByPos(at) = n
  BY DEF GetIndexByPos
<1>2. row \in Int /\ col \in Int /\ row >= 1 /\ col >= 1
  BY <1>1, GridAssumption
<1> HIDE DEF row, col
<1>3. n \in Int /\ RowOf(n) = row /\ ColOf(n) = col
  <2>1. col \in 0 .. MaxCols - 1
    BY <1>1, <1>2, Sizes
  <2> QED
    BY <1>2, <2>1, RowAndColumn, Zenon
<1>4. n \in Cells
  BY <1>1, <1>2, <1>3, Sizes, InVectorByRow
<1> QED
  BY <1>1, <1>2, <1>3, <1>4, Sizes DEF OnMap, Cells
-----------------------------------------------------------------------------
LEMMA OneAway ==
    ASSUME NEW a \in Int, NEW b \in Int, a - b \in -1 .. 1
    PROVE  a - b + 1 \in 0 .. 2
  OBVIOUS

LEMMA WithinOne ==
    ASSUME NEW a \in Int, NEW b \in Int, NEW q \in 0 .. 2, a = b - 1 + q
    PROVE  a - b \in -1 .. 1
  OBVIOUS

Width(n) == IF ColOf(n) = MaxCols - 1 THEN 2 ELSE 3

LEMMA LastColumn ==
    ASSUME NEW n, OnMap(n)
    PROVE  (n + 1) % MaxCols = 0 <=> ColOf(n) = MaxCols - 1
<1> DEFINE c == MaxCols
           row == RowOf(n)
           col == ColOf(n)
<1>1. /\ c \in Nat \ {0} /\ row \in Int /\ col \in 1 .. c - 1 /\ n \in Int
      /\ n = row * c + col
  BY Sizes, CellBack DEF OnMap
<1>2. ASSUME col < c - 1 PROVE (n + 1) % c = col + 1
  <2>1. ColOf(row * c + (col + 1)) = col + 1
    BY <1>1, <1>2, RowAndColumn
  <2>2. row * c + (col + 1) = n + 1
    <3> HIDE DEF c, row, col
    <3> QED BY <1>1
  <2> QED
    BY <2>1, <2>2 DEF ColOf
<1>3. ASSUME col = c - 1 PROVE (n + 1) % c = 0
  <2>1. ColOf((row + 1) * c + 0) = 0
    BY <1>1, RowAndColumn
  <2>2. (row + 1) * c + 0 = n + 1
    <3> HIDE DEF c, row, col
    <3> QED BY <1>1, <1>3
  <2> QED
    BY <2>1, <2>2 DEF ColOf
<1> QED
  BY <1>1, <1>2, <1>3

\* What GetSurroundingGrids writes for a cell GetIndexByPos yields.
LEMMA Surroundings ==
    ASSUME NEW n, OnMap(n)
    PROVE  /\ GetSurroundingGrids(n) =
                  [i \in 1 .. 3 * Width(n) |->
                      (RowOf(n) - 1 + (i - 1) \div Width(n)) * MaxCols
                          + (ColOf(n) - 1 + ((i - 1) % Width(n)))]
           /\ RowOf(n) \in Nat /\ ColOf(n) \in Nat /\ Width(n) \in {2, 3}
           /\ ColOf(n) - 1 + (Width(n) - 1) < MaxCols
<1>1. /\ RowOf(n) \in Nat /\ ColOf(n) \in 1 .. MaxCols - 1 /\ MaxCols \in Nat
  BY Sizes DEF OnMap
<1>2. GetSurroundingGrids(n) =
         [i \in 1 .. 3 * Width(n) |->
             (RowOf(n) - 1 + (i - 1) \div Width(n)) * MaxCols + ColOf(n) + (-1) + ((i - 1) % Width(n))]
  BY <1>1, LastColumn DEF GetSurroundingGrids, Width
<1>3. ASSUME NEW i \in 1 .. 3 * Width(n)
      PROVE  (RowOf(n) - 1 + (i - 1) \div Width(n)) * MaxCols + ColOf(n) + (-1) + ((i - 1) % Width(n))
             = (RowOf(n) - 1 + (i - 1) \div Width(n)) * MaxCols + (ColOf(n) - 1 + ((i - 1) % Width(n)))
  <2> DEFINE q == (i - 1) \div Width(n)
             r == (i - 1) % Width(n)
  <2>1. q \in Int /\ r \in Int
    BY DEF Width
  <2> DEFINE row == (RowOf(n) - 1 + q) * MaxCols
  <2>2. row \in Int
    BY <1>1, <2>1
  <2> HIDE DEF q, r
  <2>3. row + ColOf(n) + (-1) + r = row + (ColOf(n) - 1 + r)
    <3> HIDE DEF row
    <3> QED BY <1>1, <2>1, <2>2
  <2> QED
    BY <2>3 DEF q, r
<1>4. Width(n) \in {2, 3} /\ ColOf(n) - 1 + (Width(n) - 1) < MaxCols
  BY <1>1 DEF Width
<1>5. GetSurroundingGrids(n) =
         [i \in 1 .. 3 * Width(n) |->
             (RowOf(n) - 1 + (i - 1) \div Width(n)) * MaxCols + (ColOf(n) - 1 + ((i - 1) % Width(n)))]
  BY <1>2, <1>3, Zenon
<1> QED
  BY <1>1, <1>4, <1>5

\* The cell at an index of the array.
LEMMA SurroundingCell ==
    ASSUME NEW n, OnMap(n), NEW i \in 1 .. 3 * Width(n)
    PROVE  LET m == GetSurroundingGrids(n)[i] IN
           /\ m \in Nat
           /\ RowOf(m) = RowOf(n) - 1 + (i - 1) \div Width(n)
           /\ ColOf(m) = ColOf(n) - 1 + ((i - 1) % Width(n))
           /\ (i - 1) \div Width(n) \in 0 .. 2
           /\ (i - 1) % Width(n) \in 0 .. 2
<1> DEFINE q == (i - 1) \div Width(n)
           r == (i - 1) % Width(n)
           m == GetSurroundingGrids(n)[i]
<1>1. q \in 0 .. 2 /\ r \in 0 .. Width(n) - 1
  BY DEF Width
<1>2. m = (RowOf(n) - 1 + q) * MaxCols + (ColOf(n) - 1 + r)
  BY Surroundings
<1> HIDE DEF q, r
<1>3. RowOf(n) - 1 + q \in Nat /\ ColOf(n) - 1 + r \in 0 .. MaxCols - 1
  <2>1. /\ RowOf(n) \in 1 .. MaxRows - 1 /\ ColOf(n) \in 1 .. MaxCols - 1
        /\ MaxRows \in Nat /\ MaxCols \in Nat /\ Width(n) \in {2, 3}
        /\ ColOf(n) - 1 + (Width(n) - 1) < MaxCols
    BY Surroundings, Sizes DEF OnMap
  <2> QED
    BY <1>1, <2>1
<1>4. m \in Int /\ RowOf(m) = RowOf(n) - 1 + q /\ ColOf(m) = ColOf(n) - 1 + r
  BY <1>2, <1>3, RowAndColumn
<1>5. m \in Nat
  BY <1>2, <1>3, Sizes
<1> QED
  BY <1>1, <1>4, <1>5, Surroundings, SMTT(30) DEF q, r

\* GetSurroundingGrids yields the cells at most one row and one column away,
\* for every cell a player can stand in.
THEOREM SurroundingsAreNeighbours ==
    ASSUME NEW n, OnMap(n)
    PROVE  {GetSurroundingGrids(n)[i] : i \in DOMAIN GetSurroundingGrids(n)}
           = {m \in Nat : InSight(m, n)}
<1> DEFINE G == GetSurroundingGrids(n)
           w == Width(n)
<1>1. DOMAIN G = 1 .. 3 * w /\ w \in {2, 3} /\ RowOf(n) \in Nat /\ ColOf(n) \in Nat
  BY Surroundings
<1>2. ASSUME NEW i \in 1 .. 3 * w PROVE G[i] \in Nat /\ InSight(G[i], n)
  <2>1. /\ G[i] \in Nat
        /\ RowOf(G[i]) = RowOf(n) - 1 + (i - 1) \div w /\ ColOf(G[i]) = ColOf(n) - 1 + ((i - 1) % w)
        /\ (i - 1) \div w \in 0 .. 2 /\ (i - 1) % w \in 0 .. 2
    BY SurroundingCell
  <2> DEFINE q == (i - 1) \div w
             r == (i - 1) % w
  <2>2. /\ G[i] \in Nat /\ RowOf(G[i]) = RowOf(n) - 1 + q /\ ColOf(G[i]) = ColOf(n) - 1 + r
        /\ q \in 0 .. 2 /\ r \in 0 .. 2
    BY <2>1
  <2> HIDE DEF G, w, q, r
  <2>3. RowOf(G[i]) - RowOf(n) \in -1 .. 1 /\ ColOf(G[i]) - ColOf(n) \in -1 .. 1
    <3>1. RowOf(G[i]) \in Int /\ ColOf(G[i]) \in Int /\ RowOf(n) \in Int /\ ColOf(n) \in Int
      BY <1>1, <2>2
    <3>2. RowOf(G[i]) - RowOf(n) \in -1 .. 1
      BY <2>2, <3>1, WithinOne, Zenon
    <3>3. ColOf(G[i]) - ColOf(n) \in -1 .. 1
      BY <2>2, <3>1, WithinOne, Zenon
    <3> QED
      BY <3>2, <3>3
  <2> QED
    BY <2>2, <2>3 DEF InSight
<1>3. ASSUME NEW m \in Nat, InSight(m, n) PROVE \E i \in 1 .. 3 * w : G[i] = m
  <2> DEFINE a == RowOf(m) - RowOf(n) + 1
             b == ColOf(m) - ColOf(n) + 1
             i == a * w + b + 1
  <2>1. /\ RowOf(m) \in Int /\ ColOf(m) \in 0 .. MaxCols - 1 /\ MaxCols \in Nat
        /\ m = RowOf(m) * MaxCols + ColOf(m)
    BY CellBack, Sizes
  <2>2. a \in 0 .. 2 /\ b \in 0 .. w - 1
    <3>1. RowOf(m) - RowOf(n) \in -1 .. 1 /\ ColOf(m) - ColOf(n) \in -1 .. 1
      BY <1>3 DEF InSight
    <3>2. w = IF ColOf(n) = MaxCols - 1 THEN 2 ELSE 3
      BY DEF Width
    <3> HIDE DEF w
    <3>3. a \in 0 .. 2 /\ b \in 0 .. 2 /\ ColOf(m) \in Int /\ ColOf(n) \in Int
      <4>1. RowOf(m) \in Int /\ RowOf(n) \in Int /\ ColOf(m) \in Int /\ ColOf(n) \in Int
        BY <1>1, <2>1
      <4>2. a \in 0 .. 2
        BY <3>1, <4>1, OneAway
      <4>3. b \in 0 .. 2
        BY <3>1, <4>1, OneAway
      <4> QED
        BY <4>1, <4>2, <4>3
    <3>4. ColOf(n) = MaxCols - 1 => b <= 1
      BY <2>1, <3>3
    <3> HIDE DEF a, b
    <3> QED
      BY <3>2, <3>3, <3>4
  <2>3. /\ i \in 1 .. 3 * w /\ (i - 1) \div w = a /\ (i - 1) % w = b
    <3> HIDE DEF a, b, w
    <3> QED BY <1>1, <2>2
  <2>4. G[i] = (RowOf(n) - 1 + a) * MaxCols + (ColOf(n) - 1 + b)
    <3>1. \A k \in 1 .. 3 * w : G[k] = (RowOf(n) - 1 + (k - 1) \div w) * MaxCols
                                        + (ColOf(n) - 1 + ((k - 1) % w))
      BY Surroundings
    <3> HIDE DEF G, a, b, i, w
    <3> QED
      BY <2>3, <3>1
  <2>5. RowOf(n) - 1 + a = RowOf(m) /\ ColOf(n) - 1 + b = ColOf(m)
    BY <1>1, <2>1
  <2> QED
    BY <2>1, <2>3, <2>4, <2>5
<1> QED
  BY <1>1, <1>2, <1>3

\* The array is sorted, as the single pass of CalDiffGrids needs it.
THEOREM SurroundingsSorted ==
    ASSUME NEW n, OnMap(n),
           NEW i \in DOMAIN GetSurroundingGrids(n), NEW j \in DOMAIN GetSurroundingGrids(n), i < j
    PROVE  GetSurroundingGrids(n)[i] < GetSurroundingGrids(n)[j]
<1> DEFINE G == GetSurroundingGrids(n)
           w == Width(n)
<1>1. i \in 1 .. 3 * w /\ j \in 1 .. 3 * w /\ w \in {2, 3} /\ RowOf(n) \in Nat /\ ColOf(n) \in Nat
  BY Surroundings
<1>2. /\ G[i] \in Int /\ G[j] \in Int
      /\ RowOf(G[i]) = RowOf(n) - 1 + (i - 1) \div w /\ RowOf(G[j]) = RowOf(n) - 1 + (j - 1) \div w
      /\ ColOf(G[i]) = ColOf(n) - 1 + ((i - 1) % w) /\ ColOf(G[j]) = ColOf(n) - 1 + ((j - 1) % w)
  BY <1>1, SurroundingCell
<1> HIDE DEF G, w
<1>3. CASE (i - 1) \div w < (j - 1) \div w
  BY <1>1, <1>2, <1>3, RowsInOrder DEF G
<1>4. CASE (i - 1) \div w = (j - 1) \div w /\ (i - 1) % w < (j - 1) % w
  <2>1. RowOf(G[i]) = RowOf(G[j]) /\ ColOf(G[i]) < ColOf(G[j])
    BY <1>1, <1>2, <1>4
  <2>2. /\ G[i] = RowOf(G[i]) * MaxCols + ColOf(G[i]) /\ G[j] = RowOf(G[j]) * MaxCols + ColOf(G[j])
        /\ RowOf(G[i]) \in Int /\ ColOf(G[i]) \in Int /\ ColOf(G[j]) \in Int
    <3>1. ASSUME NEW m \in Int
          PROVE  m = RowOf(m) * MaxCols + ColOf(m) /\ RowOf(m) \in Int /\ ColOf(m) \in Int
      BY CellBack, Sizes
    <3> QED
      BY <1>2, <3>1
  <2>3. RowOf(G[i]) * MaxCols \in Int
    BY <2>2, Sizes
  <2> QED
    BY <2>1, <2>2, <2>3 DEF G
<1>5. \/ (i - 1) \div w < (j - 1) \div w
      \/ (i - 1) \div w = (j - 1) \div w /\ (i - 1) % w < (j - 1) % w
  BY <1>1
<1> QED
  BY <1>3, <1>4, <1>5

\* Exactly the cells of the last row have surroundings outside the vector.
THEOREM LastRowOverruns ==
    ASSUME NEW n, OnMap(n)
    PROVE  (\A i \in DOMAIN GetSurroundingGrids(n) : GetSurroundingGrids(n)[i] \in Cells)
           <=> RowOf(n) < MaxRows - 1
<1> DEFINE G == GetSurroundingGrids(n)
           w == Width(n)
<1>1. DOMAIN G = 1 .. 3 * w /\ w \in {2, 3} /\ RowOf(n) \in 1 .. MaxRows - 1 /\ MaxRows \in Nat
  BY Surroundings, Sizes DEF OnMap
<1>2. ASSUME NEW i \in 1 .. 3 * w
      PROVE  G[i] \in Cells <=> RowOf(n) - 1 + (i - 1) \div w \in 0 .. MaxRows - 1
  <2>1. /\ G[i] \in Int
        /\ RowOf(G[i]) = RowOf(n) - 1 + (i - 1) \div w
    BY SurroundingCell
  <2>2. G[i] \in Cells <=> RowOf(G[i]) \in 0 .. MaxRows - 1
    BY <2>1, InVectorByRow
  <2> HIDE DEF G, w
  <2> QED
    BY <2>1, <2>2
<1> HIDE DEF G, w
<1>3. ASSUME RowOf(n) < MaxRows - 1, NEW i \in 1 .. 3 * w PROVE G[i] \in Cells
  <2>1. (i - 1) \div w \in 0 .. 2
    BY <1>1
  <2>2. RowOf(n) - 1 + (i - 1) \div w \in 0 .. MaxRows - 1
    BY <1>1, <1>3, <2>1
  <2> QED
    BY <1>2, <2>2
<1>4. ASSUME ~(RowOf(n) < MaxRows - 1) PROVE \E i \in 1 .. 3 * w : G[i] \notin Cells
  <2>1. 3 * w \in 1 .. 3 * w /\ (3 * w - 1) \div w = 2
    BY <1>1
  <2>2. G[3 * w] \notin Cells
    BY <1>1, <1>2, <1>4, <2>1
  <2> QED
    BY <2>1, <2>2
<1> QED
  BY <1>1, <1>3, <1>4 DEF G

\* The array holds whole numbers.
LEMMA SurroundingsSequence ==
    ASSUME NEW n, OnMap(n)
    PROVE  GetSurroundingGrids(n) \in Seq(Int)
<1>1. \A i \in 1 .. 3 * Width(n) : GetSurroundingGrids(n)[i] \in Int
  BY SurroundingCell
<1>2. DOMAIN GetSurroundingGrids(n) = 1 .. 3 * Width(n) /\ 3 * Width(n) \in Nat
  BY Surroundings
<1>3. GetSurroundingGrids(n) = [i \in 1 .. 3 * Width(n) |-> GetSurroundingGrids(n)[i]]
  BY Surroundings
<1> QED
  BY <1>1, <1>2, <1>3
-----------------------------------------------------------------------------
(* The pass of CalDiffGrids over two arrays.                                 *)

Elements(s) == {s[i] : i \in DOMAIN s}

Ascending(s) == \A i, j \in DOMAIN s : i < j => s[i] < s[j]

\* The first n of an array.
Firsts(s, n) == {s[i] : i \in 1 .. n}

Records(s, d) == [i : 0 .. Len(s), j : 0 .. Len(d),
                  inc : Seq(Int), dec : Seq(Int), stay : Seq(Int)]

\* The first i of one array and j of the other are below the rest of the other.
Apart(s, d, i, j) ==
    \A a \in 1 .. Len(s), b \in 1 .. Len(d) :
       /\ a <= i /\ b > j => s[a] < d[b]
       /\ a > i /\ b <= j => d[b] < s[a]

\* After k rounds: what has been passed is sorted into the three, and lower
\* than all that has not.
Passed(s, d, k, r) ==
    /\ r \in Records(s, d)
    /\ r.i + r.j >= k \/ (r.i = Len(s) /\ r.j = Len(d))
    /\ Apart(s, d, r.i, r.j)
    /\ Elements(r.inc) = Firsts(d, r.j) \ Firsts(s, r.i)
    /\ Elements(r.dec) = Firsts(s, r.i) \ Firsts(d, r.j)
    /\ Elements(r.stay) = Firsts(s, r.i) \cap Firsts(d, r.j)

LEMMA AppendElements ==
    ASSUME NEW q \in Seq(Int), NEW x \in Int
    PROVE  Append(q, x) \in Seq(Int) /\ Elements(Append(q, x)) = Elements(q) \cup {x}
<1>1. /\ Append(q, x) \in Seq(Int) /\ DOMAIN Append(q, x) = DOMAIN q \cup {Len(q) + 1}
      /\ \A i \in DOMAIN q : Append(q, x)[i] = q[i]
      /\ Append(q, x)[Len(q) + 1] = x
  OBVIOUS
<1> QED BY <1>1 DEF Elements

LEMMA NextOfFirsts ==
    ASSUME NEW s, NEW n \in Nat
    PROVE  Firsts(s, n + 1) = Firsts(s, n) \cup {s[n + 1]}
<1>1. 1 .. n + 1 = (1 .. n) \cup {n + 1}
  OBVIOUS
<1> QED BY <1>1 DEF Firsts

LEMMA RecordsKept ==
    ASSUME NEW A, NEW B, NEW C, NEW r \in [i : A, j : B, inc : C, dec : C, stay : C],
           NEW i \in A, NEW j \in B, NEW q \in C
    PROVE  /\ [r EXCEPT !.i = i, !.j = j, !.stay = q] \in [i : A, j : B, inc : C, dec : C, stay : C]
           /\ [r EXCEPT !.i = i, !.dec = q] \in [i : A, j : B, inc : C, dec : C, stay : C]
           /\ [r EXCEPT !.j = j, !.inc = q] \in [i : A, j : B, inc : C, dec : C, stay : C]
  OBVIOUS

\* A round that goes on brings the end nearer.
LEMMA OneMore ==
    ASSUME NEW k \in Nat, NEW m \in Nat, NEW n \in Nat, NEW i \in 0 .. m, NEW j \in 0 .. n,
           i + j >= k \/ (i = m /\ j = n),
           NEW a \in 0 .. m, NEW b \in 0 .. n, a + b > i + j
    PROVE  a + b >= k + 1
  OBVIOUS

\* The four cases of a round.
Finished(s, d, r, q) == r.i = Len(s) /\ r.j = Len(d) /\ q = r
Both(s, d, r, q) ==
    /\ r.i < Len(s) /\ r.j < Len(d) /\ s[r.i + 1] = d[r.j + 1]
    /\ q.i = r.i + 1 /\ q.j = r.j + 1
    /\ q.inc = r.inc /\ q.dec = r.dec /\ q.stay = Append(r.stay, s[r.i + 1])
FirstOnly(s, d, r, q) ==
    /\ r.i < Len(s) /\ (r.j = Len(d) \/ s[r.i + 1] < d[r.j + 1])
    /\ q.i = r.i + 1 /\ q.j = r.j
    /\ q.inc = r.inc /\ q.dec = Append(r.dec, s[r.i + 1]) /\ q.stay = r.stay
SecondOnly(s, d, r, q) ==
    /\ r.j < Len(d) /\ (r.i = Len(s) \/ d[r.j + 1] < s[r.i + 1])
    /\ q.i = r.i /\ q.j = r.j + 1
    /\ q.inc = Append(r.inc, d[r.j + 1]) /\ q.dec = r.dec /\ q.stay = r.stay

LEMMA RoundCases ==
    ASSUME NEW s \in Seq(Int), NEW d \in Seq(Int), NEW r \in Records(s, d)
    PROVE  LET q == Round(s, d, r) IN
           /\ q \in Records(s, d)
           /\ Finished(s, d, r, q) \/ Both(s, d, r, q) \/ FirstOnly(s, d, r, q) \/ SecondOnly(s, d, r, q)
<1> DEFINE x == s[r.i + 1]
           y == d[r.j + 1]
           q == Round(s, d, r)
<1>1. /\ r.i \in 0 .. Len(s) /\ r.j \in 0 .. Len(d) /\ Len(s) \in Nat /\ Len(d) \in Nat
      /\ r.inc \in Seq(Int) /\ r.dec \in Seq(Int) /\ r.stay \in Seq(Int)
      /\ r.i < Len(s) => x \in Int /\ r.i + 1 \in 0 .. Len(s)
      /\ r.j < Len(d) => y \in Int /\ r.j + 1 \in 0 .. Len(d)
  <2>1. /\ r.i \in 0 .. Len(s) /\ r.j \in 0 .. Len(d)
        /\ r.inc \in Seq(Int) /\ r.dec \in Seq(Int) /\ r.stay \in Seq(Int)
    BY DEF Records
  <2> DEFINE i == r.i
             j == r.j
  <2>2. i \in 0 .. Len(s) /\ j \in 0 .. Len(d)
    BY <2>1
  <2> HIDE DEF i, j
  <2>3. /\ Len(s) \in Nat /\ Len(d) \in Nat
        /\ i < Len(s) => s[i + 1] \in Int /\ i + 1 \in 0 .. Len(s)
        /\ j < Len(d) => d[j + 1] \in Int /\ j + 1 \in 0 .. Len(d)
    BY <2>2
  <2> QED BY <2>1, <2>3 DEF i, j
<1>6. CASE r.i = Len(s) /\ r.j = Len(d)
  BY <1>1, <1>6, SMTT(30) DEF Round, Finished
<1>3. CASE r.i < Len(s) /\ r.j < Len(d) /\ x = y
  <2>1. q = [r EXCEPT !.i = r.i + 1, !.j = r.j + 1, !.stay = Append(r.stay, x)]
    BY <1>1, <1>3, SMTT(30) DEF Round
  <2>2. Append(r.stay, x) \in Seq(Int)
    BY <1>1, <1>3, AppendElements
  <2> HIDE DEF q
  <2>3. q \in Records(s, d)
    BY <1>1, <1>3, <2>1, <2>2, RecordsKept DEF Records
  <2>4. Both(s, d, r, q)
    BY <1>3, <2>1 DEF Both, Records
  <2> QED BY <2>3, <2>4 DEF q
<1>4. CASE r.i < Len(s) /\ (r.j = Len(d) \/ (r.j < Len(d) /\ x < y))
  <2>1. q = [r EXCEPT !.i = r.i + 1, !.dec = Append(r.dec, x)]
    <3>1. CASE r.j = Len(d)
      BY <1>1, <1>4, <3>1, SMTT(30) DEF Round
    <3>2. CASE r.j < Len(d) /\ x < y
      BY <1>1, <1>4, <3>2, SMTT(30) DEF Round
    <3> QED BY <1>4, <3>1, <3>2
  <2>2. Append(r.dec, x) \in Seq(Int)
    BY <1>1, <1>4, AppendElements
  <2> HIDE DEF q
  <2>3. q \in Records(s, d)
    BY <1>1, <1>4, <2>1, <2>2, RecordsKept DEF Records
  <2>4. FirstOnly(s, d, r, q)
    BY <1>4, <2>1 DEF FirstOnly, Records
  <2> QED BY <2>3, <2>4 DEF q
<1>5. CASE r.j < Len(d) /\ (r.i = Len(s) \/ (r.i < Len(s) /\ y < x))
  <2>1. q = [r EXCEPT !.j = r.j + 1, !.inc = Append(r.inc, y)]
    <3>1. CASE r.i = Len(s)
      BY <1>1, <1>5, <3>1, SMTT(30) DEF Round
    <3>2. CASE r.i < Len(s) /\ y < x
      BY <1>1, <1>5, <3>2, SMTT(30) DEF Round
    <3> QED BY <1>5, <3>1, <3>2
  <2>2. Append(r.inc, y) \in Seq(Int)
    BY <1>1, <1>5, AppendElements
  <2> HIDE DEF q
  <2>3. q \in Records(s, d)
    BY <1>1, <1>5, <2>1, <2>2, RecordsKept DEF Records
  <2>4. SecondOnly(s, d, r, q)
    BY <1>5, <2>1 DEF SecondOnly, Records
  <2> QED BY <2>3, <2>4 DEF q
<1>7. \/ r.i = Len(s) /\ r.j = Len(d)
      \/ r.i < Len(s) /\ r.j < Len(d) /\ x = y
      \/ r.i < Len(s) /\ (r.j = Len(d) \/ (r.j < Len(d) /\ x < y))
      \/ r.j < Len(d) /\ (r.i = Len(s) \/ (r.i < Len(s) /\ y < x))
  <2>1. r.i < Len(s) \/ r.i = Len(s)
    BY <1>1
  <2>2. r.j < Len(d) \/ r.j = Len(d)
    BY <1>1
  <2>3. x \in Int /\ y \in Int => x = y \/ x < y \/ y < x
    OBVIOUS
  <2> QED BY <1>1, <2>1, <2>2, <2>3
<1> QED
  BY <1>3, <1>4, <1>5, <1>6, <1>7

\* A cell that comes next is none of those passed.
LEMMA NextIsNew ==
    ASSUME NEW s \in Seq(Int), Ascending(s), NEW i \in Nat, i < Len(s)
    PROVE  /\ i + 1 \in 1 .. Len(s) /\ s[i + 1] \in Int /\ s[i + 1] \notin Firsts(s, i)
           /\ Firsts(s, i + 1) = Firsts(s, i) \cup {s[i + 1]}
<1>1. i + 1 \in 1 .. Len(s) /\ \A a \in 1 .. i : a \in 1 .. Len(s) /\ a < i + 1
  OBVIOUS
<1>2. \A a \in 1 .. i : s[a] < s[i + 1] /\ s[a] \in Int
  BY <1>1 DEF Ascending
<1>3. s[i + 1] \in Int /\ s[i + 1] \notin Firsts(s, i)
  BY <1>1, <1>2 DEF Firsts
<1> QED BY <1>1, <1>3, NextOfFirsts

LEMMA ApartFirst ==
    ASSUME NEW s \in Seq(Int), NEW d \in Seq(Int), Ascending(d),
           NEW i \in Nat, i < Len(s), NEW j \in 0 .. Len(d),
           j = Len(d) \/ s[i + 1] < d[j + 1], Apart(s, d, i, j)
    PROVE  Apart(s, d, i + 1, j) /\ s[i + 1] \notin Firsts(d, j)
<1>1. i + 1 \in 1 .. Len(s) /\ s[i + 1] \in Int /\ Len(d) \in Nat
  OBVIOUS
<1>2. ASSUME NEW b \in 1 .. Len(d)
      PROVE  d[b] \in Int /\ (b > j => s[i + 1] < d[b]) /\ (b <= j => d[b] < s[i + 1])
  <2>1. d[b] \in Int /\ (b <= j => d[b] < s[i + 1])
    BY <1>1 DEF Apart
  <2>2. ASSUME b > j PROVE s[i + 1] < d[b]
    <3>1. j + 1 \in 1 .. Len(d) /\ d[j + 1] \in Int /\ s[i + 1] < d[j + 1]
      BY <2>2
    <3>2. b = j + 1 \/ d[j + 1] < d[b]
      <4>1. b = j + 1 \/ j + 1 < b
        BY <2>2
      <4> QED BY <3>1, <4>1 DEF Ascending
    <3> QED BY <1>1, <2>1, <3>1, <3>2, SMTT(30)
  <2> QED BY <2>1, <2>2
<1>3. Apart(s, d, i + 1, j)
  <2> SUFFICES ASSUME NEW a \in 1 .. Len(s), NEW b \in 1 .. Len(d)
               PROVE  /\ a <= i + 1 /\ b > j => s[a] < d[b]
                      /\ a > i + 1 /\ b <= j => d[b] < s[a]
    BY DEF Apart
  <2>1. a <= i \/ a = i + 1 \/ a > i + 1
    OBVIOUS
  <2> QED BY <1>2, <2>1 DEF Apart
<1>4. s[i + 1] \notin Firsts(d, j)
  <2>1. ASSUME NEW b \in 1 .. j PROVE d[b] # s[i + 1]
    <3>1. b \in 1 .. Len(d) /\ b <= j
      BY <1>1
    <3>2. d[b] \in Int /\ d[b] < s[i + 1]
      BY <1>2, <3>1
    <3> QED BY <1>1, <3>2
  <2> QED BY <2>1 DEF Firsts
<1> QED BY <1>3, <1>4

LEMMA ApartTurned ==
    ASSUME NEW s, NEW d, NEW i, NEW j
    PROVE  Apart(s, d, i, j) <=> Apart(d, s, j, i)
  BY DEF Apart

LEMMA ApartBoth ==
    ASSUME NEW s \in Seq(Int), NEW d \in Seq(Int), Ascending(s), Ascending(d),
           NEW i \in Nat, i < Len(s), NEW j \in Nat, j < Len(d), s[i + 1] = d[j + 1],
           Apart(s, d, i, j)
    PROVE  Apart(s, d, i + 1, j + 1)
<1>1. i + 1 \in 1 .. Len(s) /\ j + 1 \in 1 .. Len(d) /\ s[i + 1] \in Int
  OBVIOUS
<1> SUFFICES ASSUME NEW a \in 1 .. Len(s), NEW b \in 1 .. Len(d)
             PROVE  /\ a <= i + 1 /\ b > j + 1 => s[a] < d[b]
                    /\ a > i + 1 /\ b <= j + 1 => d[b] < s[a]
  BY DEF Apart
<1>2. s[a] \in Int /\ d[b] \in Int
  OBVIOUS
<1>3. (b > j + 1 => d[j + 1] < d[b]) /\ (a > i + 1 => s[i + 1] < s[a])
  <2>1. b > j + 1 => d[j + 1] < d[b]
    BY <1>1 DEF Ascending
  <2>2. a > i + 1 => s[i + 1] < s[a]
    BY <1>1 DEF Ascending
  <2> QED BY <2>1, <2>2
<1>4. ASSUME a <= i + 1, b > j + 1 PROVE s[a] < d[b]
  <2>1. a <= i \/ a = i + 1
    BY <1>4
  <2> QED BY <1>3, <1>4, <2>1, SMTT(30) DEF Apart
<1>5. ASSUME a > i + 1, b <= j + 1 PROVE d[b] < s[a]
  <2>1. b <= j \/ b = j + 1
    BY <1>5
  <2> QED BY <1>3, <1>5, <2>1, SMTT(30) DEF Apart
<1> QED BY <1>4, <1>5

LEMMA RoundPasses ==
    ASSUME NEW s \in Seq(Int), NEW d \in Seq(Int), Ascending(s), Ascending(d),
           NEW k \in Nat, NEW r, Passed(s, d, k, r)
    PROVE  Passed(s, d, k + 1, Round(s, d, r))
<1> DEFINE q == Round(s, d, r)
           S == Firsts(s, r.i)
           D == Firsts(d, r.j)
           x == s[r.i + 1]
           y == d[r.j + 1]
<1>1. /\ r \in Records(s, d) /\ q \in Records(s, d)
      /\ Finished(s, d, r, q) \/ Both(s, d, r, q) \/ FirstOnly(s, d, r, q) \/ SecondOnly(s, d, r, q)
  BY RoundCases DEF Passed
<1>2. /\ r.i \in Nat /\ r.i <= Len(s) /\ r.j \in Nat /\ r.j <= Len(d)
      /\ Len(s) \in Nat /\ Len(d) \in Nat
      /\ r.inc \in Seq(Int) /\ r.dec \in Seq(Int) /\ r.stay \in Seq(Int)
  BY <1>1 DEF Records
<1>3. /\ r.i + r.j >= k \/ (r.i = Len(s) /\ r.j = Len(d))
      /\ Apart(s, d, r.i, r.j)
      /\ Elements(r.inc) = D \ S /\ Elements(r.dec) = S \ D /\ Elements(r.stay) = S \cap D
  BY DEF Passed
<1>10. ASSUME q.i + q.j > r.i + r.j PROVE q.i + q.j >= k + 1
  <2>1. q.i \in 0 .. Len(s) /\ q.j \in 0 .. Len(d) /\ r.i \in 0 .. Len(s) /\ r.j \in 0 .. Len(d)
    BY <1>1 DEF Records
  <2> HIDE DEF q
  <2> QED BY <1>10, <1>2, <1>3, <2>1, OneMore
<1>4. r.i < Len(s) => x \in Int /\ x \notin S /\ Firsts(s, r.i + 1) = S \cup {x}
  BY <1>2, NextIsNew
<1>5. r.j < Len(d) => y \in Int /\ y \notin D /\ Firsts(d, r.j + 1) = D \cup {y}
  BY <1>2, NextIsNew
<1> HIDE DEF q, S, D, x, y
<1>6. CASE Finished(s, d, r, q)
  <2>1. q = r /\ r.i = Len(s) /\ r.j = Len(d)
    BY <1>6 DEF Finished
  <2> QED BY <1>1, <1>3, <2>1 DEF Passed, S, D, q
<1>7. CASE Both(s, d, r, q)
  <2>1. /\ r.i < Len(s) /\ r.j < Len(d) /\ x = y /\ q.i = r.i + 1 /\ q.j = r.j + 1
        /\ q.inc = r.inc /\ q.dec = r.dec /\ q.stay = Append(r.stay, x)
    BY <1>7 DEF Both, x, y
  <2>2. Apart(s, d, q.i, q.j)
    <3>1. Apart(s, d, r.i + 1, r.j + 1)
      BY <1>2, <1>3, <2>1, ApartBoth DEF x, y
    <3> QED BY <2>1, <3>1
  <2>3. Elements(q.stay) = Elements(r.stay) \cup {x}
    BY <1>2, <1>4, <2>1, AppendElements
  <2>4. /\ Elements(q.inc) = Firsts(d, q.j) \ Firsts(s, q.i)
        /\ Elements(q.dec) = Firsts(s, q.i) \ Firsts(d, q.j)
        /\ Elements(q.stay) = Firsts(s, q.i) \cap Firsts(d, q.j)
    BY <1>3, <1>4, <1>5, <2>1, <2>3
  <2>5. q.i + q.j >= k + 1
    <3>1. q.i + q.j > r.i + r.j
      BY <1>2, <2>1, SMTT(30)
    <3> QED BY <1>10, <3>1
  <2> QED BY <1>1, <2>2, <2>4, <2>5 DEF Passed, q
<1>8. CASE FirstOnly(s, d, r, q)
  <2>1. /\ r.i < Len(s) /\ (r.j = Len(d) \/ x < y) /\ q.i = r.i + 1 /\ q.j = r.j
        /\ q.inc = r.inc /\ q.dec = Append(r.dec, x) /\ q.stay = r.stay
    BY <1>8 DEF FirstOnly, x, y
  <2>2. Apart(s, d, q.i, q.j) /\ x \notin D
    <3>1. r.j \in 0 .. Len(d)
      BY <1>2
    <3>2. Apart(s, d, r.i + 1, r.j) /\ x \notin D
      BY <1>2, <1>3, <2>1, <3>1, ApartFirst DEF x, y, D
    <3> QED BY <2>1, <3>2
  <2>3. Elements(q.dec) = Elements(r.dec) \cup {x}
    BY <1>2, <1>4, <2>1, AppendElements
  <2>4. Firsts(s, q.i) = S \cup {x} /\ Firsts(d, q.j) = D
    BY <1>4, <2>1 DEF D
  <2>5. /\ Elements(q.inc) = Firsts(d, q.j) \ Firsts(s, q.i)
        /\ Elements(q.dec) = Firsts(s, q.i) \ Firsts(d, q.j)
        /\ Elements(q.stay) = Firsts(s, q.i) \cap Firsts(d, q.j)
    BY <1>3, <2>1, <2>2, <2>3, <2>4
  <2>6. q.i + q.j >= k + 1
    <3>1. q.i + q.j > r.i + r.j
      BY <1>2, <2>1
    <3> QED BY <1>10, <3>1
  <2> QED BY <1>1, <2>2, <2>5, <2>6 DEF Passed, q
<1>9. CASE SecondOnly(s, d, r, q)
  <2>1. /\ r.j < Len(d) /\ (r.i = Len(s) \/ y < x) /\ q.i = r.i /\ q.j = r.j + 1
        /\ q.inc = Append(r.inc, y) /\ q.dec = r.dec /\ q.stay = r.stay
    BY <1>9 DEF SecondOnly, x, y
  <2>2. Apart(d, s, r.j, r.i)
    BY <1>3, ApartTurned
  <2>3. Apart(d, s, q.j, q.i) /\ y \notin S
    <3>1. r.i \in 0 .. Len(s)
      BY <1>2
    <3>2. Apart(d, s, r.j + 1, r.i) /\ y \notin S
      BY <1>2, <2>1, <2>2, <3>1, ApartFirst DEF x, y, S
    <3> QED BY <2>1, <3>2
  <2>4. Apart(s, d, q.i, q.j)
    BY <2>3, ApartTurned
  <2>5. Elements(q.inc) = Elements(r.inc) \cup {y}
    BY <1>2, <1>5, <2>1, AppendElements
  <2>6. Firsts(s, q.i) = S /\ Firsts(d, q.j) = D \cup {y}
    BY <1>5, <2>1 DEF S
  <2>7. /\ Elements(q.inc) = Firsts(d, q.j) \ Firsts(s, q.i)
        /\ Elements(q.dec) = Firsts(s, q.i) \ Firsts(d, q.j)
        /\ Elements(q.stay) = Firsts(s, q.i) \cap Firsts(d, q.j)
    BY <1>3, <2>1, <2>3, <2>5, <2>6
  <2>8. q.i + q.j >= k + 1
    <3>1. q.i + q.j > r.i + r.j
      BY <1>2, <2>1
    <3> QED BY <1>10, <3>1
  <2> QED BY <1>1, <2>4, <2>7, <2>8 DEF Passed, q
<1> QED BY <1>1, <1>6, <1>7, <1>8, <1>9

\* The rounds of Merge, one after the other.
IsPass(rounds, s, d) ==
    rounds = [k \in 0 .. Len(s) + Len(d) |->
                 IF k = 0 THEN [i |-> 0, j |-> 0, inc |-> <<>>, dec |-> <<>>, stay |-> <<>>]
                 ELSE Round(s, d, rounds[k - 1])]

LEMMA MergePasses ==
    ASSUME NEW s \in Seq(Int), NEW d \in Seq(Int)
    PROVE  \E rounds : IsPass(rounds, s, d) /\ Merge(s, d) = rounds[Len(s) + Len(d)]
<1> DEFINE size == Len(s) + Len(d)
           V == Records(s, d)
           first == [i |-> 0, j |-> 0, inc |-> <<>>, dec |-> <<>>, stay |-> <<>>]
           step == [k \in 1 .. size |-> [r \in V |-> Round(s, d, r)]]
           rounds[k \in 0 .. size] == IF k = 0 THEN first ELSE Round(s, d, rounds[k - 1])
<1>1. size \in Nat
  OBVIOUS
<1>2. first \in V
  BY DEF Records
<1>3. step \in [1 .. size -> [V -> V]]
  BY RoundCases
<1>4. PICK f \in [0 .. size -> V] : Iterates(f, size, first, step)
  <2> HIDE DEF size, V, first, step, rounds
  <2> QED BY <1>1, <1>2, <1>3, RecursionExists
<1>5. IsPass(f, s, d)
  <2>1. ASSUME NEW k \in 1 .. size PROVE f[k] = Round(s, d, f[k - 1])
    <3>1. k - 1 \in 0 .. size
      BY <1>1
    <3>2. f[k - 1] \in V
      BY <3>1
    <3> QED BY <3>2, <1>4 DEF Iterates
  <2> HIDE DEF step, V
  <2>2. \A k \in 0 .. size : f[k] = IF k = 0 THEN first ELSE Round(s, d, f[k - 1])
    BY <1>1, <1>4, <2>1 DEF Iterates
  <2> QED BY <2>2 DEF IsPass
<1>6. IsPass(rounds, s, d)
  BY <1>5 DEF IsPass
<1>7. Merge(s, d) = rounds[size]
  BY DEF Merge
<1> HIDE DEF rounds
<1> QED BY <1>6, <1>7

\* CalDiffGrids tells apart which cells are in the second array only, in the
\* first only and in both, when the two ascend (GridManager.cpp:117-163).
THEOREM MergeSplits ==
    ASSUME NEW s \in Seq(Int), NEW d \in Seq(Int), Ascending(s), Ascending(d)
    PROVE  LET diff == Merge(s, d) IN
           /\ diff.inc \in Seq(Int) /\ diff.dec \in Seq(Int) /\ diff.stay \in Seq(Int)
           /\ Elements(diff.inc) = Elements(d) \ Elements(s)
           /\ Elements(diff.dec) = Elements(s) \ Elements(d)
           /\ Elements(diff.stay) = Elements(s) \cap Elements(d)
<1> DEFINE size == Len(s) + Len(d)
           first == [i |-> 0, j |-> 0, inc |-> <<>>, dec |-> <<>>, stay |-> <<>>]
<1>1. PICK rounds : IsPass(rounds, s, d) /\ Merge(s, d) = rounds[size]
  BY MergePasses
<1> DEFINE S == {k \in 0 .. size : Passed(s, d, k, rounds[k])}
<1>2. size \in Nat /\ Len(s) \in Nat /\ Len(d) \in Nat
  OBVIOUS
<1>3. \A k \in 0 .. size : rounds[k] = IF k = 0 THEN first ELSE Round(s, d, rounds[k - 1])
  BY <1>1 DEF IsPass
<1>4. 0 \in S
  <2>1. rounds[0] = first /\ 0 \in 0 .. size
    BY <1>2, <1>3
  <2>2. first \in Records(s, d)
    BY DEF Records
  <2>3. Apart(s, d, 0, 0) /\ Firsts(s, 0) = {} /\ Firsts(d, 0) = {} /\ Elements(<<>>) = {}
    BY DEF Apart, Firsts, Elements
  <2>4. Passed(s, d, 0, first)
    BY <2>2, <2>3 DEF Passed
  <2> HIDE DEF first
  <2> QED BY <2>1, <2>4
<1>5. ASSUME NEW n \in 0 .. size - 1, n \in S PROVE n + 1 \in S
  <2>1. n + 1 \in 0 .. size /\ n + 1 # 0 /\ (n + 1) - 1 = n /\ n \in Nat
    BY <1>2
  <2>2. rounds[n + 1] = Round(s, d, rounds[n])
    BY <2>1, <1>3
  <2>3. Passed(s, d, n + 1, Round(s, d, rounds[n]))
    BY <1>5, <2>1, RoundPasses
  <2> QED BY <2>1, <2>2, <2>3
<1>6. Passed(s, d, size, Merge(s, d))
  <2>1. 0 .. size \subseteq S
    <3> HIDE DEF S, size
    <3> QED BY <1>2, <1>4, <1>5, AllUpTo
  <2>2. size \in 0 .. size
    BY <1>2
  <2> HIDE DEF size
  <2> QED BY <1>1, <2>1, <2>2
<1> DEFINE diff == Merge(s, d)
<1>7. diff.i = Len(s) /\ diff.j = Len(d)
  <2>1. diff.i \in 0 .. Len(s) /\ diff.j \in 0 .. Len(d)
    BY <1>6 DEF Passed, Records
  <2>2. diff.i + diff.j >= size \/ (diff.i = Len(s) /\ diff.j = Len(d))
    BY <1>6 DEF Passed
  <2> HIDE DEF diff
  <2> QED BY <1>2, <2>1, <2>2
<1>8. Firsts(s, Len(s)) = Elements(s) /\ Firsts(d, Len(d)) = Elements(d)
  BY DEF Firsts, Elements
<1>9. diff.inc \in Seq(Int) /\ diff.dec \in Seq(Int) /\ diff.stay \in Seq(Int)
  BY <1>6 DEF Passed, Records
<1> QED BY <1>6, <1>7, <1>8, <1>9 DEF Passed

\* A move gains the cells around its end that are not around its start, loses
\* those around its start only, and keeps those around both, for every two
\* cells a player can stand in.
THEOREM MovesGainAndLose ==
    ASSUME NEW src, OnMap(src), NEW dst, OnMap(dst)
    PROVE  LET diff == CalDiffGrids(src, dst) IN
           /\ diff.inc \in Seq(Int) /\ diff.dec \in Seq(Int) /\ diff.stay \in Seq(Int)
           /\ Elements(diff.inc) = {m \in Nat : InSight(m, dst) /\ ~InSight(m, src)}
           /\ Elements(diff.dec) = {m \in Nat : InSight(m, src) /\ ~InSight(m, dst)}
           /\ Elements(diff.stay) = {m \in Nat : InSight(m, src) /\ InSight(m, dst)}
<1> DEFINE s == GetSurroundingGrids(src)
           d == GetSurroundingGrids(dst)
<1>1. s \in Seq(Int) /\ d \in Seq(Int)
  BY SurroundingsSequence
<1>2. Ascending(s) /\ Ascending(d)
  BY SurroundingsSorted DEF Ascending
<1>3. Elements(s) = {m \in Nat : InSight(m, src)} /\ Elements(d) = {m \in Nat : InSight(m, dst)}
  BY SurroundingsAreNeighbours DEF Elements
<1> DEFINE diff == Merge(s, d)
<1> HIDE DEF s, d
<1>4. /\ diff.inc \in Seq(Int) /\ diff.dec \in Seq(Int) /\ diff.stay \in Seq(Int)
      /\ Elements(diff.inc) = Elements(d) \ Elements(s)
      /\ Elements(diff.dec) = Elements(s) \ Elements(d)
      /\ Elements(diff.stay) = Elements(s) \cap Elements(d)
  BY <1>1, <1>2, MergeSplits
<1>5. CalDiffGrids(src, dst) = diff
  BY DEF CalDiffGrids, s, d
<1> HIDE DEF diff
<1> QED BY <1>3, <1>4, <1>5

-----------------------------------------------------------------------------
(* The scene *)

LEMMA Assumptions ==
    /\ NULL \notin Objects /\ NULL \notin Cells
    /\ Places \subseteq [x : Int, z : Int]
    /\ FreshStatus \subseteq {"None", "Update", "New", "Delete"}
  BY SceneAssumption

LEMMA OnCells ==
    ASSUME NEW at \in Positions, GetIndexByPos(at) # -1
    PROVE  OnMap(GetIndexByPos(at)) /\ GetIndexByPos(at) \in Cells
  BY Assumptions, IndexOnMap DEF Positions, Origin

Status == {"None", "Update", "New", "Delete"}

LEMMA SetUpdateStatus ==
    ASSUME NEW o \in Objects, NEW s \in {"Update", "New", "Delete"}, NEW old \in Status,
           status \in [Objects -> Status], SetUpdate(o, s, old)
    PROVE  /\ status' \in [Objects -> Status]
           /\ \A q \in Objects : q # o => status'[q] = status[q]
           /\ updateList' = updateList \cup {o}
           /\ status'[o] = IF \/ old = "None"
                              \/ old = "Update" /\ s # "Update"
                              \/ old = "New" /\ s = "Delete"
                           THEN s ELSE old
  BY DEF SetUpdate, Rank, Status
-----------------------------------------------------------------------------
(* Types.                                                                  *)

LEMMA LinksType == TypeOK => ListType(Links, Objects, Cells)
  BY DEF TypeOK, Links, ListType, Maybe, MaybeObject

LEMMA LinksTyped ==
    ASSUME NEW l, ListType(l, Objects, Cells), LinksAre(l)
    PROVE  /\ gridNext' \in [Objects -> MaybeObject] /\ gridPrev' \in [Objects -> MaybeObject]
           /\ head' \in [Cells -> MaybeObject]
  BY DEF LinksAre, ListType, Maybe, MaybeObject

LEMMA MovedType ==
    ASSUME TypeOK, NEW o \in Objects, NEW dst \in Cells
    PROVE  ListType(MovedLinks(o, dst), Objects, Cells)
<1>1. ListType(Links, Objects, Cells)
  BY LinksType
<1>2. CASE IndexOf(o) = dst
  BY <1>1, <1>2 DEF MovedLinks
<1>3. CASE IndexOf(o) # dst /\ IndexOf(o) = -1
  BY <1>1, <1>3, PushFrontLinks, Assumptions DEF MovedLinks
<1>4. CASE IndexOf(o) # dst /\ IndexOf(o) # -1
  <2>1. IndexOf(o) \in Cells
    BY <1>4, OnCells DEF TypeOK, IndexOf
  <2>2. ListType(Unlink(Links, o, IndexOf(o)), Objects, Cells)
    BY <1>1, <2>1, UnlinkLinks, Assumptions
  <2>3. ListType(PushFront(Unlink(Links, o, IndexOf(o)), o, dst), Objects, Cells)
    BY <2>2, PushFrontLinks, Assumptions
  <2> QED
    BY <1>4, <2>3 DEF MovedLinks
<1> QED
  BY <1>2, <1>3, <1>4

LEMMA TypeInit == Init => TypeOK
  BY DEF Init, TypeOK, MaybeObject, Positions

LEMMA DiscardType ==
    ASSUME TypeOK, NEW o \in Objects, Discard(o)
    PROVE  /\ heap' \subseteq Objects /\ id' \in [Objects -> Players \cup {NULL}]
           /\ pos' \in [Objects -> Positions] /\ synced' \in [Objects -> Positions]
           /\ status' \in [Objects -> Status] /\ inScene' \in [Objects -> BOOLEAN]
  BY DEF TypeOK, Discard, Positions, Status

LEMMA EnterType ==
    ASSUME TypeOK, NEW p \in Players, NEW at \in Places, OnCmdCharEnterSceneReq(p, at)
    PROVE  TypeOK'
<1>1. PICK o \in Objects \ heap, s \in FreshStatus :
          /\ heap' = heap \cup {o}
          /\ id' = [id EXCEPT ![o] = p]
          /\ pos' = [pos EXCEPT ![o] = at]
          /\ synced' = [synced EXCEPT ![o] = Origin]
          /\ players' = [players EXCEPT ![p] = o]
          /\ \/ /\ GetIndexByPos(at) = -1
                /\ status' = [status EXCEPT ![o] = "None"]
                /\ inScene' = [inScene EXCEPT ![o] = FALSE]
                /\ sends' = {}
                /\ stale' = stale \ {o}
                /\ UNCHANGED <<grids, updateList>>
             \/ /\ GetIndexByPos(at) # -1
                /\ LinksAre(PushFront(Links, o, GetIndexByPos(at)))
                /\ inScene' = [inScene EXCEPT ![o] = TRUE]
                /\ SetUpdate(o, "New", s)
                /\ sends' = {Packet(p, "enter", {p})}
                /\ stale' = IF s = "Delete" THEN stale \cup {o} ELSE stale \ {o}
  BY DEF OnCmdCharEnterSceneReq
<1>2. /\ heap' \subseteq Objects /\ id' \in [Objects -> Players \cup {NULL}]
      /\ pos' \in [Objects -> Positions] /\ synced' \in [Objects -> Positions]
      /\ players' \in [Players -> MaybeObject]
      /\ inScene' \in [Objects -> BOOLEAN]
      /\ updating' \in BOOLEAN /\ stopped' \in BOOLEAN
  BY <1>1 DEF TypeOK, MaybeObject, Positions, OnCmdCharEnterSceneReq
<1>3. status' \in [Objects -> Status] /\ updateList' \subseteq Objects
  <2>1. s \in Status /\ status \in [Objects -> Status]
    BY Assumptions DEF TypeOK, Status
  <2>2. CASE SetUpdate(o, "New", s)
    BY <1>1, <2>1, <2>2, SetUpdateStatus DEF TypeOK
  <2>3. CASE status' = [status EXCEPT ![o] = "None"] /\ UNCHANGED <<grids, updateList>>
    BY <1>1, <2>1, <2>3 DEF TypeOK, Status
  <2> QED
    BY <1>1, <2>2, <2>3
<1>4. /\ gridNext' \in [Objects -> MaybeObject] /\ gridPrev' \in [Objects -> MaybeObject]
      /\ head' \in [Cells -> MaybeObject]
  <2>1. CASE UNCHANGED <<grids, updateList>>
    BY <2>1 DEF TypeOK, grids
  <2>2. CASE GetIndexByPos(at) # -1 /\ LinksAre(PushFront(Links, o, GetIndexByPos(at)))
    <3>1. GetIndexByPos(at) \in Cells
      BY <2>2, OnCells DEF Positions
    <3>2. ListType(PushFront(Links, o, GetIndexByPos(at)), Objects, Cells)
      BY <3>1, LinksType, PushFrontLinks, Assumptions
    <3> QED
      BY <2>2, <3>2, LinksTyped
  <2> QED
    BY <1>1, <2>1, <2>2
<1>5. stale' \subseteq Objects
  BY <1>1 DEF TypeOK
<1>6. \A m \in sends' : m.what \in {"enter", "add", "update", "remove"}
  BY <1>1 DEF Packet
<1> QED
  BY <1>2, <1>3, <1>4, <1>5, <1>6 DEF TypeOK, Status

LEMMA MoveType ==
    ASSUME TypeOK, NEW p \in Players, NEW to \in Places, OnCmdPlayerMove(p, to)
    PROVE  TypeOK'
<1> DEFINE o == players[p]
<1>1. /\ o \in Objects /\ GetIndexByPos(to) # -1
      /\ LinksAre(MovedLinks(o, GetIndexByPos(to)))
      /\ pos' = [pos EXCEPT ![o] = to]
      /\ IF inScene[o] THEN SetUpdate(o, "Update", status[o]) ELSE UNCHANGED <<status, updateList>>
      /\ sends' = {}
      /\ UNCHANGED <<players, heap, id, synced, inScene, updating, stopped, stale>>
  BY DEF OnCmdPlayerMove, TypeOK, MaybeObject
<1>2. GetIndexByPos(to) \in Cells
  BY <1>1, OnCells DEF Positions
<1>3. /\ gridNext' \in [Objects -> MaybeObject] /\ gridPrev' \in [Objects -> MaybeObject]
      /\ head' \in [Cells -> MaybeObject]
  BY <1>1, <1>2, MovedType, LinksTyped
<1>4. status' \in [Objects -> Status] /\ updateList' \subseteq Objects
  <2>1. CASE inScene[o]
    BY <1>1, <2>1, SetUpdateStatus DEF TypeOK, Status
  <2>2. CASE ~inScene[o]
    BY <1>1, <2>2 DEF TypeOK, Status
  <2> QED
    BY <2>1, <2>2
<1>5. pos' \in [Objects -> Positions]
  BY <1>1 DEF TypeOK, Positions
<1> QED
  BY <1>1, <1>3, <1>4, <1>5 DEF TypeOK, Status

LEMMA LeaveType ==
    ASSUME TypeOK, NEW p \in Players, OnCmdLeaveGameReq(p)
    PROVE  TypeOK'
<1> DEFINE o == players[p]
<1>1. /\ o \in Objects
      /\ IF IndexOf(o) = -1 THEN UNCHANGED grids
         ELSE LinksAre(Unlink(Links, o, IndexOf(o)))
      /\ players' = [players EXCEPT ![p] = NULL]
      /\ IF inScene[o]
         THEN SetUpdate(o, "Delete", status[o]) /\ UNCHANGED <<heap, id, pos, synced, inScene>>
         ELSE Discard(o) /\ UNCHANGED updateList
      /\ sends' = {} /\ stale' = stale \ {o}
      /\ UNCHANGED <<updating, stopped>>
  BY DEF OnCmdLeaveGameReq, TypeOK, MaybeObject
<1>2. /\ gridNext' \in [Objects -> MaybeObject] /\ gridPrev' \in [Objects -> MaybeObject]
      /\ head' \in [Cells -> MaybeObject]
  <2>1. CASE IndexOf(o) = -1
    BY <1>1, <2>1 DEF TypeOK, grids
  <2>2. CASE IndexOf(o) # -1
    <3>1. IndexOf(o) \in Cells
      BY <1>1, <2>2, OnCells DEF TypeOK, IndexOf
    <3>2. ListType(Unlink(Links, o, IndexOf(o)), Objects, Cells)
      BY <1>1, <3>1, LinksType, UnlinkLinks, Assumptions
    <3> QED
      BY <1>1, <2>2, <3>2, LinksTyped
  <2> QED
    BY <2>1, <2>2
<1>3. /\ heap' \subseteq Objects /\ id' \in [Objects -> Players \cup {NULL}]
      /\ pos' \in [Objects -> Positions] /\ synced' \in [Objects -> Positions]
      /\ status' \in [Objects -> Status] /\ inScene' \in [Objects -> BOOLEAN]
      /\ updateList' \subseteq Objects
  <2>1. CASE inScene[o]
    <3>1. status' \in [Objects -> Status] /\ updateList' = updateList \cup {o}
      BY <1>1, <2>1, SetUpdateStatus DEF TypeOK, Status
    <3> QED
      BY <1>1, <2>1, <3>1 DEF TypeOK
  <2>2. CASE ~inScene[o]
    BY <1>1, <2>2, DiscardType DEF TypeOK
  <2> QED
    BY <2>1, <2>2
<1> QED
  BY <1>1, <1>2, <1>3 DEF TypeOK, Status, MaybeObject

LEMMA PacketsKnown ==
    ASSUME NEW o, NEW os, NEW what
    PROVE  /\ \A m \in ToEach(os, what, o) : m.what = what
           /\ \A m \in ToOne(o, what, os) : m.what = what
  BY DEF ToEach, ToOne, Packet

LEMMA TickType ==
    ASSUME TypeOK, NEW o \in Objects, HandleUpdateObject(o)
    PROVE  TypeOK'
<1>1. /\ updateList' \subseteq Objects /\ updating' \in BOOLEAN
      /\ UNCHANGED <<players, grids>>
  BY DEF HandleUpdateObject, HandleUpdateNew, HandleUpdateDelete, HandleUpdateInCell,
         HandleUpdateMoved, HandleUpdateThrows, Take, TypeOK
<1>2. stopped' \in BOOLEAN /\ stale' \subseteq Objects
  BY DEF HandleUpdateObject, HandleUpdateNew, HandleUpdateDelete, HandleUpdateInCell,
         HandleUpdateMoved, HandleUpdateThrows, Take, TypeOK
<1>5. \A m \in sends' : m.what \in {"enter", "add", "update", "remove"}
  BY PacketsKnown DEF HandleUpdateObject, HandleUpdateNew, HandleUpdateDelete,
         HandleUpdateInCell, HandleUpdateMoved, HandleUpdateThrows, SendNewObjectToGrids,
         SendNewGridsToObject, SendUpdateObjectToMyself, SendUpdateObjectToGrids,
         SendRemoveObjectToGrids, SendRemoveGridsToPlayer
<1>3. CASE HandleUpdateDelete(o)
  BY <1>1, <1>2, <1>3, <1>5, DiscardType DEF HandleUpdateDelete, TypeOK, Status, grids
<1>4. CASE ~HandleUpdateDelete(o)
  <2>1. /\ UNCHANGED <<heap, id, pos, inScene>>
        /\ synced' \in [Objects -> Positions]
        /\ status' \in [Objects -> Status]
    BY <1>4 DEF HandleUpdateObject, HandleUpdateNew, HandleUpdateInCell,
                HandleUpdateMoved, HandleUpdateThrows, TypeOK, Status, object
  <2> QED
    BY <1>1, <1>2, <1>5, <2>1 DEF TypeOK, Status, grids
<1> QED
  BY <1>3, <1>4

LEMMA TypeNext == TypeOK /\ [Next]_vars => TypeOK'
<1> SUFFICES ASSUME TypeOK, [Next]_vars PROVE TypeOK'
  OBVIOUS
<1>1. CASE Commands
  BY <1>1, EnterType, MoveType, LeaveType DEF Commands
<1>2. CASE \E o \in Objects : HandleUpdateObject(o)
  BY <1>2, TickType
<1>3. CASE UNCHANGED vars
  BY <1>3 DEF vars, object, grids, TypeOK
<1> QED
  BY <1>1, <1>2, <1>3 DEF Next

\* TypeOK, for every map, player and object.
THEOREM SceneTypeCorrect == Spec => []TypeOK
  BY TypeInit, TypeNext, PTL DEF Spec
-----------------------------------------------------------------------------
(* The life of an object.                                                  *)

\* What is known of an object on the heap while the server runs.
ObjectSound(o) ==
    /\ o \notin Registered => o \in updateList /\ status[o] = "Delete"
    /\ o \in Registered => (status[o] = "Delete" => o \in stale)
    /\ inScene[o] /\ (pos[o] # synced[o] \/ status[o] \in {"New", "Delete"}) => o \in updateList
    /\ o \in updateList => inScene[o] /\ status[o] # "None"
    /\ inScene[o] => IndexOf(o) # -1
    /\ inScene[o] /\ status[o] \in {"None", "Update"} =>
           /\ GetIndexByPos(synced[o]) # -1
           /\ RowOf(GetIndexByPos(synced[o])) < MaxRows - 1

\* Players are registered under their own IDs, with objects of the heap or
\* ones made from memory that held UT_Delete.
Owners ==
    /\ \A p \in Players : players[p] # NULL =>
           IF players[p] \in heap THEN id[players[p]] = p ELSE players[p] \in stale
    /\ updateList \subseteq heap

IInv ==
    /\ TypeOK
    /\ Owners
    /\ ~stopped => \A o \in heap : ObjectSound(o)
    /\ LastRowStops

LEMMA InitIInv == Init => IInv
<1> SUFFICES ASSUME Init PROVE IInv
  OBVIOUS
<1>1. TypeOK
  BY TypeInit
<1>2. heap = {} /\ updateList = {} /\ stopped = FALSE /\ \A p \in Players : players[p] = NULL
  BY DEF Init
<1> QED
  BY <1>1, <1>2 DEF IInv, Owners, LastRowStops

\* As long as no registered player has been freed.
LEMMA RegisteredOnHeap ==
    ASSUME TypeOK, Owners, ~Dangling
    PROVE  /\ Registered \subseteq heap
           /\ \A p \in Players : players[p] # NULL => players[p] \in heap /\ id[players[p]] = p
  BY DEF TypeOK, Owners, Registered, Dangling

\* An object a step leaves alone stays sound.
LEMMA KeptSound ==
    ASSUME NEW o \in heap, ObjectSound(o),
           pos'[o] = pos[o], synced'[o] = synced[o], status'[o] = status[o], inScene'[o] = inScene[o],
           o \in updateList' <=> o \in updateList,
           o \in Registered' <=> o \in Registered,
           o \in stale' <=> o \in stale
    PROVE  ObjectSound(o)'
  BY DEF ObjectSound, IndexOf

LEMMA RunningInv ==
    ASSUME TypeOK', Owners', stopped' = FALSE, \A o \in heap' : ObjectSound(o)'
    PROVE  IInv'
  BY DEF IInv, LastRowStops, ObjectSound

LEMMA EnterIInv ==
    ASSUME IInv, NEW p \in Players, NEW at \in Places, OnCmdCharEnterSceneReq(p, at)
    PROVE  IInv'
<1>1. PICK o \in Objects \ heap, s \in FreshStatus :
          /\ heap' = heap \cup {o}
          /\ id' = [id EXCEPT ![o] = p]
          /\ pos' = [pos EXCEPT ![o] = at]
          /\ synced' = [synced EXCEPT ![o] = Origin]
          /\ players' = [players EXCEPT ![p] = o]
          /\ \/ /\ GetIndexByPos(at) = -1
                /\ status' = [status EXCEPT ![o] = "None"]
                /\ inScene' = [inScene EXCEPT ![o] = FALSE]
                /\ sends' = {}
                /\ stale' = stale \ {o}
                /\ UNCHANGED <<grids, updateList>>
             \/ /\ GetIndexByPos(at) # -1
                /\ LinksAre(PushFront(Links, o, GetIndexByPos(at)))
                /\ inScene' = [inScene EXCEPT ![o] = TRUE]
                /\ SetUpdate(o, "New", s)
                /\ sends' = {Packet(p, "enter", {p})}
                /\ stale' = IF s = "Delete" THEN stale \cup {o} ELSE stale \ {o}
  BY DEF OnCmdCharEnterSceneReq
<1>2. /\ TypeOK /\ Owners /\ stopped = FALSE /\ stopped' = FALSE /\ players[p] = NULL
      /\ ~Dangling /\ \A q \in heap : ObjectSound(q)
  BY DEF IInv, OnCmdCharEnterSceneReq, Command, TypeOK
<1>3. TypeOK'
  BY <1>2, EnterType
<1>4. /\ o \notin Registered /\ o \notin updateList /\ o # NULL
      /\ Registered' = Registered \cup {o}
  BY <1>1, <1>2, RegisteredOnHeap, Assumptions DEF Registered, TypeOK, Owners
<1>5. /\ \A q \in Objects : q # o => status'[q] = status[q]
      /\ \/ /\ GetIndexByPos(at) = -1 /\ inScene'[o] = FALSE /\ status'[o] = "None"
            /\ updateList' = updateList
         \/ /\ GetIndexByPos(at) # -1 /\ inScene'[o] = TRUE
            /\ status'[o] = "New" \/ (status'[o] = "Delete" /\ o \in stale')
            /\ updateList' = updateList \cup {o}
  <2>1. s \in Status /\ status \in [Objects -> Status] /\ o \in Objects
        /\ inScene \in [Objects -> BOOLEAN]
    BY <1>2, Assumptions DEF TypeOK, Status
  <2>2. CASE /\ GetIndexByPos(at) # -1 /\ SetUpdate(o, "New", s)
             /\ inScene' = [inScene EXCEPT ![o] = TRUE]
             /\ stale' = IF s = "Delete" THEN stale \cup {o} ELSE stale \ {o}
    BY <2>1, <2>2, SetUpdateStatus DEF Status
  <2>3. CASE /\ GetIndexByPos(at) = -1
             /\ status' = [status EXCEPT ![o] = "None"]
             /\ inScene' = [inScene EXCEPT ![o] = FALSE]
             /\ UNCHANGED <<grids, updateList>>
    BY <2>1, <2>3
  <2> QED
    BY <1>1, <2>2, <2>3
<1>6. Owners'
  BY <1>1, <1>2, <1>4, <1>5, RegisteredOnHeap DEF Owners, TypeOK
<1>7. ASSUME NEW q \in heap PROVE ObjectSound(q)'
  <2>1. /\ q \in Objects /\ q # o /\ (q \in stale' <=> q \in stale)
        /\ pos'[q] = pos[q] /\ synced'[q] = synced[q] /\ inScene'[q] = inScene[q]
    BY <1>1, <1>2 DEF TypeOK
  <2> QED
    BY <1>2, <1>4, <1>5, <2>1, KeptSound
<1>8. ObjectSound(o)'
  <2>1. pos'[o] = at
    BY <1>1, <1>2 DEF TypeOK
  <2> QED
    BY <1>4, <1>5, <2>1 DEF ObjectSound, IndexOf
<1> QED
  BY <1>1, <1>2, <1>3, <1>6, <1>7, <1>8, RunningInv

LEMMA MoveIInv ==
    ASSUME IInv, NEW p \in Players, NEW to \in Places, OnCmdPlayerMove(p, to)
    PROVE  IInv'
<1> SUFFICES ASSUME NEW o, o = players[p] PROVE IInv'
  OBVIOUS
<1>1. /\ o \in Objects /\ o # NULL /\ GetIndexByPos(to) # -1
      /\ pos' = [pos EXCEPT ![o] = to]
      /\ IF inScene[o] THEN SetUpdate(o, "Update", status[o]) ELSE UNCHANGED <<status, updateList>>
      /\ UNCHANGED <<players, heap, id, synced, inScene, stopped, stale>>
  BY DEF OnCmdPlayerMove, IInv, TypeOK, MaybeObject
<1>2. /\ TypeOK /\ Owners /\ stopped = FALSE /\ o \in heap /\ Registered' = Registered
      /\ \A q \in heap : ObjectSound(q)
  BY <1>1, RegisteredOnHeap DEF IInv, OnCmdPlayerMove, Command, TypeOK, Registered
<1>3. TypeOK'
  BY <1>2, MoveType
<1>4. o \in Registered
  BY <1>1 DEF Registered
<1>5. /\ \A q \in Objects : q # o => status'[q] = status[q]
      /\ ~inScene[o] => status'[o] = status[o] /\ updateList' = updateList
      /\ inScene[o] => /\ updateList' = updateList \cup {o}
                       /\ status'[o] = IF status[o] = "None" THEN "Update" ELSE status[o]
  <2>1. status[o] \in Status /\ status \in [Objects -> Status]
    BY <1>1, <1>2 DEF TypeOK, Status
  <2>2. CASE inScene[o]
    BY <1>1, <2>1, <2>2, SetUpdateStatus
  <2>3. CASE ~inScene[o]
    BY <1>1, <2>3
  <2> QED
    BY <2>2, <2>3
<1>6. Owners'
  BY <1>1, <1>2, <1>5 DEF Owners
<1>7. ASSUME NEW q \in heap, q # o PROVE ObjectSound(q)'
  <2>1. /\ q \in Objects /\ pos'[q] = pos[q] /\ synced'[q] = synced[q]
        /\ inScene'[q] = inScene[q] /\ (q \in stale' <=> q \in stale)
    BY <1>1, <1>2, <1>7 DEF TypeOK
  <2> QED
    BY <1>2, <1>5, <1>7, <2>1, KeptSound
<1>8. ObjectSound(o)'
  <2>1. pos'[o] = to /\ synced'[o] = synced[o] /\ inScene'[o] = inScene[o] /\ ObjectSound(o)
    BY <1>1, <1>2 DEF TypeOK
  <2> QED
    BY <1>1, <1>2, <1>4, <1>5, <2>1 DEF ObjectSound, IndexOf
<1> QED
  BY <1>1, <1>2, <1>3, <1>6, <1>7, <1>8, RunningInv

LEMMA LeaveIInv ==
    ASSUME IInv, NEW p \in Players, OnCmdLeaveGameReq(p)
    PROVE  IInv'
<1> SUFFICES ASSUME NEW o, o = players[p] PROVE IInv'
  OBVIOUS
<1>1. /\ o \in Objects /\ o # NULL
      /\ players' = [players EXCEPT ![p] = NULL]
      /\ IF inScene[o]
         THEN SetUpdate(o, "Delete", status[o]) /\ UNCHANGED <<heap, id, pos, synced, inScene>>
         ELSE Discard(o) /\ UNCHANGED updateList
      /\ stale' = stale \ {o}
      /\ UNCHANGED stopped
  BY DEF OnCmdLeaveGameReq, IInv, TypeOK, MaybeObject
<1>2. /\ TypeOK /\ Owners /\ stopped = FALSE /\ o \in heap /\ ~Dangling
      /\ \A q \in heap : ObjectSound(q)
      /\ \A q \in Players : players[q] # NULL => players[q] \in heap /\ id[players[q]] = q
  BY <1>1, RegisteredOnHeap DEF IInv, OnCmdLeaveGameReq, Command, TypeOK
<1>3. TypeOK'
  BY <1>2, LeaveType
<1>4. o \in Registered /\ Registered' = Registered \ {o}
  <2>1. \A q \in Players : players[q] = o => q = p
    BY <1>1, <1>2
  <2> QED
    BY <1>1, <1>2, <2>1 DEF Registered, TypeOK
<1>5. CASE inScene[o]
  <2>1. /\ \A q \in Objects : q # o => status'[q] = status[q]
        /\ status'[o] = "Delete" /\ updateList' = updateList \cup {o}
    BY <1>1, <1>2, <1>5, SetUpdateStatus DEF TypeOK, Status
  <2>2. Owners'
    BY <1>1, <1>2, <1>5, <2>1 DEF Owners, TypeOK
  <2>3. ASSUME NEW q \in heap, q # o PROVE ObjectSound(q)'
    BY <1>1, <1>2, <1>4, <1>5, <2>1, <2>3, KeptSound DEF TypeOK
  <2>4. ObjectSound(o)'
    <3>1. ObjectSound(o) /\ pos'[o] = pos[o] /\ synced'[o] = synced[o] /\ inScene'[o] = inScene[o]
      BY <1>1, <1>2, <1>5
    <3> QED
      BY <1>4, <1>5, <2>1, <3>1 DEF ObjectSound, IndexOf
  <2> QED
    BY <1>1, <1>2, <1>3, <1>5, <2>2, <2>3, <2>4, RunningInv
<1>6. CASE ~inScene[o]
  <2>1. o \notin updateList
    BY <1>2, <1>6 DEF ObjectSound
  <2>2. /\ heap' = heap \ {o} /\ updateList' = updateList
        /\ \A q \in Objects : q # o => /\ id'[q] = id[q] /\ pos'[q] = pos[q] /\ synced'[q] = synced[q]
                                       /\ status'[q] = status[q] /\ inScene'[q] = inScene[q]
    BY <1>1, <1>2, <1>6 DEF Discard, TypeOK
  <2>3. Owners'
    <3>1. ASSUME NEW q \in Players, players'[q] # NULL
          PROVE  players'[q] \in heap' /\ id'[players'[q]] = q
      <4>1. /\ players'[q] = players[q] /\ players[q] # NULL /\ players[q] # o
            /\ players[q] \in Objects
        BY <1>1, <1>2, <3>1 DEF TypeOK, MaybeObject
      <4> QED
        BY <1>2, <2>2, <4>1
    <3>2. updateList' \subseteq heap'
      BY <1>2, <2>1, <2>2 DEF Owners
    <3> QED
      BY <3>1, <3>2 DEF Owners
  <2>4. ASSUME NEW q \in heap' PROVE ObjectSound(q)'
    <3>1. q \in heap /\ q # o /\ q \in Objects /\ (q \in stale' <=> q \in stale)
      BY <1>1, <1>2, <2>2 DEF TypeOK
    <3> QED
      BY <1>2, <1>4, <2>2, <3>1, KeptSound
  <2> QED
    BY <1>1, <1>2, <1>3, <2>3, <2>4, RunningInv
<1> QED
  BY <1>5, <1>6

\* What all handlers of a tick have in common.
LEMMA TickFrame ==
    ASSUME IInv, NEW o \in Objects, HandleUpdateObject(o)
    PROVE  /\ TypeOK /\ Owners /\ stopped = FALSE /\ LastRowStops
           /\ \A q \in heap : ObjectSound(q)
           /\ o \in heap /\ o \in updateList /\ updateList' = updateList \ {o}
           /\ players' = players /\ Registered' = Registered /\ stale' = stale /\ ~Dangling
           /\ \A p \in Players : players[p] # NULL => players[p] \in heap /\ id[players[p]] = p
           /\ TypeOK'
           /\ OnMap(IndexOf(o)) /\ ObjectSound(o) /\ inScene[o] /\ status[o] # "None"
<1>1. /\ stopped = FALSE /\ o \in updateList /\ updateList' = updateList \ {o}
      /\ players' = players /\ stale' = stale /\ ~Dangling
  BY DEF HandleUpdateObject, HandleUpdateNew, HandleUpdateDelete, HandleUpdateInCell,
         HandleUpdateMoved, HandleUpdateThrows, Take, IInv, TypeOK
<1>2. TypeOK'
  BY TickType DEF IInv
<1>3. o \in heap /\ ObjectSound(o)
  BY <1>1 DEF IInv, Owners
<1>4. inScene[o] /\ status[o] # "None" /\ IndexOf(o) # -1
  BY <1>1, <1>3 DEF ObjectSound
<1>5. OnMap(IndexOf(o))
  BY <1>4, OnCells DEF IInv, TypeOK, IndexOf
<1>6. \A p \in Players : players[p] # NULL => players[p] \in heap /\ id[players[p]] = p
  BY <1>1, RegisteredOnHeap DEF IInv
<1> QED
  BY <1>1, <1>2, <1>3, <1>4, <1>5, <1>6 DEF IInv, Registered

LEMMA ConcatInVector ==
    ASSUME NEW s \in Seq(Int), NEW t \in Seq(Int)
    PROVE  InVector(s \o t) <=> InVector(s) /\ InVector(t)
<1>1. ASSUME InVector(s \o t), NEW i \in DOMAIN s PROVE s[i] \in Cells
  <2>1. i \in DOMAIN (s \o t) /\ (s \o t)[i] = s[i]
    OBVIOUS
  <2> QED
    BY <1>1, <2>1 DEF InVector
<1>2. ASSUME InVector(s \o t), NEW i \in DOMAIN t PROVE t[i] \in Cells
  <2>1. Len(s) + i \in DOMAIN (s \o t) /\ (s \o t)[Len(s) + i] = t[i]
    OBVIOUS
  <2> QED
    BY <1>2, <2>1 DEF InVector
<1>3. ASSUME InVector(s), InVector(t), NEW i \in DOMAIN (s \o t) PROVE (s \o t)[i] \in Cells
  <2>1. CASE i <= Len(s)
    <3>1. i \in DOMAIN s /\ (s \o t)[i] = s[i]
      BY <2>1
    <3> QED
      BY <1>3, <3>1 DEF InVector
  <2>2. CASE i > Len(s)
    <3>1. i - Len(s) \in DOMAIN t /\ (s \o t)[i] = t[i - Len(s)]
      BY <2>2
    <3> QED
      BY <1>3, <3>1 DEF InVector
  <2> QED
    BY <2>1, <2>2
<1> QED
  BY <1>1, <1>2, <1>3 DEF InVector

\* The rows of the cells HandleUpdateObject looks into.
LEMMA TouchedRows ==
    ASSUME IInv, NEW o \in Objects, HandleUpdateObject(o)
    PROVE  InVector(Touched(o)) <=> RowOf(IndexOf(o)) < MaxRows - 1
<1> DEFINE src == GetSurroundingGrids(GetIndexByPos(synced[o]))
           dst == GetSurroundingGrids(IndexOf(o))
<1>1. /\ OnMap(IndexOf(o)) /\ ObjectSound(o) /\ inScene[o] /\ TypeOK
  BY TickFrame
<1>2. InVector(dst) <=> RowOf(IndexOf(o)) < MaxRows - 1
  BY <1>1, LastRowOverruns DEF InVector
<1>3. CASE status[o] # "Update"
  BY <1>2, <1>3 DEF Touched
<1>4. CASE status[o] = "Update"
  <2>1. /\ GetIndexByPos(synced[o]) # -1 /\ RowOf(GetIndexByPos(synced[o])) < MaxRows - 1
    BY <1>1, <1>4 DEF ObjectSound
  <2>2. OnMap(GetIndexByPos(synced[o]))
    BY <1>1, <2>1, OnCells DEF TypeOK
  <2>3. InVector(src)
    BY <2>1, <2>2, LastRowOverruns DEF InVector
  <2>4. Touched(o) = src \o dst
    BY <1>4 DEF Touched
  <2>5. src \in Seq(Int) /\ dst \in Seq(Int)
    BY <1>1, <2>2, SurroundingsSequence
  <2>6. InVector(src \o dst) <=> InVector(src) /\ InVector(dst)
    <3> HIDE DEF src, dst
    <3> QED
      BY <2>5, ConcatInVector
  <2> QED
    BY <1>2, <2>3, <2>4, <2>6
<1> QED
  BY <1>3, <1>4

LEMMA ThrowsIInv ==
    ASSUME IInv, NEW o \in Objects, HandleUpdateThrows(o)
    PROVE  IInv'
<1>1. HandleUpdateObject(o)
  BY DEF HandleUpdateObject
<1>2. /\ TypeOK /\ Owners /\ LastRowStops /\ TypeOK' /\ o \in heap /\ OnMap(IndexOf(o))
      /\ updateList' \subseteq updateList /\ players' = players /\ stale' = stale
  BY <1>1, TickFrame
<1>3. stopped' = TRUE /\ UNCHANGED <<heap, object>>
  BY DEF HandleUpdateThrows
<1>4. RowOf(IndexOf(o)) = MaxRows - 1
  <2>1. ~(RowOf(IndexOf(o)) < MaxRows - 1)
    BY <1>1, TouchedRows DEF HandleUpdateThrows
  <2> QED
    BY <1>2, <2>1, Sizes DEF OnMap
<1>5. Owners'
  BY <1>2, <1>3 DEF Owners, object
<1>6. LastRowStops'
  BY <1>2, <1>3, <1>4 DEF LastRowStops, object, IndexOf
<1> QED
  BY <1>2, <1>3, <1>5, <1>6 DEF IInv

LEMMA DeleteIInv ==
    ASSUME IInv, NEW o \in Objects, HandleUpdateDelete(o)
    PROVE  IInv'
<1>1. HandleUpdateObject(o)
  BY DEF HandleUpdateObject
<1>2. /\ TypeOK /\ Owners /\ stopped = FALSE /\ \A q \in heap : ObjectSound(q)
      /\ o \in heap /\ updateList' = updateList \ {o} /\ players' = players
      /\ Registered' = Registered /\ TypeOK' /\ stale' = stale
      /\ \A p \in Players : players[p] # NULL => players[p] \in heap /\ id[players[p]] = p
  BY <1>1, TickFrame
<1>3. o \in Registered => o \in stale
  BY <1>2 DEF HandleUpdateDelete, ObjectSound
<1>4. /\ heap' = heap \ {o} /\ stopped' = FALSE
      /\ \A q \in Objects : q # o => /\ id'[q] = id[q] /\ pos'[q] = pos[q] /\ synced'[q] = synced[q]
                                     /\ status'[q] = status[q] /\ inScene'[q] = inScene[q]
  BY <1>2 DEF HandleUpdateDelete, Discard, TypeOK
<1>5. Owners'
  <2>1. ASSUME NEW q \in Players, players[q] # NULL
        PROVE  players[q] \in Objects /\ (players[q] = o => o \in stale)
    BY <1>2, <1>3, <2>1 DEF Registered, TypeOK, MaybeObject
  <2> QED
    BY <1>2, <1>4, <2>1 DEF Owners
<1>6. ASSUME NEW q \in heap' PROVE ObjectSound(q)'
  BY <1>2, <1>4, <1>6, KeptSound DEF TypeOK
<1> QED
  BY <1>2, <1>4, <1>5, <1>6, RunningInv

\* The other handlers of a tick.
LEMMA SyncIInv ==
    ASSUME IInv, NEW o \in Objects,
           HandleUpdateNew(o) \/ HandleUpdateInCell(o) \/ HandleUpdateMoved(o)
    PROVE  IInv'
<1>1. HandleUpdateObject(o)
  BY DEF HandleUpdateObject
<1>2. /\ TypeOK /\ Owners /\ stopped = FALSE /\ \A q \in heap : ObjectSound(q)
      /\ o \in heap /\ updateList' = updateList \ {o} /\ players' = players
      /\ Registered' = Registered /\ TypeOK' /\ OnMap(IndexOf(o)) /\ ObjectSound(o)
      /\ stale' = stale
  BY <1>1, TickFrame
<1>3. /\ heap' = heap /\ id' = id /\ pos' = pos /\ inScene' = inScene /\ stopped' = FALSE
      /\ InVector(Touched(o)) /\ status[o] \in {"New", "Update"}
      /\ synced' = [synced EXCEPT ![o] = pos[o]]
      /\ \A q \in Objects : q # o => status'[q] = status[q]
      /\ status'[o] \in {"None", "Update"}
  BY <1>2 DEF HandleUpdateNew, HandleUpdateInCell, HandleUpdateMoved, TypeOK
<1>4. RowOf(IndexOf(o)) < MaxRows - 1 /\ IndexOf(o) # -1
  BY <1>1, <1>2, <1>3, TouchedRows DEF OnMap
<1>5. Owners'
  BY <1>2, <1>3 DEF Owners
<1>6. ASSUME NEW q \in heap, q # o PROVE ObjectSound(q)'
  BY <1>2, <1>3, <1>6, KeptSound DEF TypeOK
<1>7. ObjectSound(o)'
  <2>1. pos'[o] = pos[o] /\ synced'[o] = pos[o] /\ inScene'[o] = inScene[o] /\ o \notin updateList'
    BY <1>2, <1>3 DEF TypeOK
  <2> QED
    BY <1>2, <1>3, <1>4, <2>1 DEF ObjectSound, IndexOf
<1> QED
  BY <1>2, <1>3, <1>5, <1>6, <1>7, RunningInv

LEMMA NextIInv == IInv /\ [Next]_vars => IInv'
<1> SUFFICES ASSUME IInv, [Next]_vars PROVE IInv'
  OBVIOUS
<1>1. CASE Commands
  BY <1>1, EnterIInv, MoveIInv, LeaveIInv DEF Commands
<1>2. CASE \E o \in Objects : HandleUpdateObject(o)
  BY <1>2, ThrowsIInv, DeleteIInv, SyncIInv DEF HandleUpdateObject
<1>3. CASE UNCHANGED vars
  <2>1. TypeOK'
    BY <1>3, TypeNext DEF IInv
  <2> QED
    BY <1>3, <2>1 DEF IInv, vars, object, Owners, ObjectSound, LastRowStops, Registered, IndexOf
<1> QED
  BY <1>1, <1>2, <1>3 DEF Next

\* The inductive invariant of a scene's objects, from which the three theorems
\* below follow (TypeOK, Owners, ObjectSound of every object, LastRowStops).
THEOREM SceneInvariant == Spec => []IInv
<1>1. Init => IInv
  BY InitIInv
<1>2. IInv /\ [Next]_vars => IInv'
  BY NextIInv
<1> QED
  BY <1>1, <1>2, PTL DEF Spec

\* An object is freed once, and only when nothing refers to it any more unless
\* its memory held UT_Delete when the player was made.
THEOREM SceneHeapSound == Spec => []HeapSound
<1>1. Spec => []IInv
  BY SceneInvariant
<1>2. IInv => HeapSound
  BY DEF IInv, HeapSound, Owners, ObjectSound
<1> QED
  BY <1>1, <1>2, PTL

\* No change of an object is lost before a tick takes it out, whatever status
\* its memory held.
THEOREM SceneChangesAreListed == Spec => []ChangesAreListed
<1>1. Spec => []IInv
  BY SceneInvariant
<1>2. IInv => ChangesAreListed
  BY DEF IInv, ChangesAreListed, ObjectSound
<1> QED
  BY <1>1, <1>2, PTL

\* On a map of any size, nobody is announced in its last row, and the server
\* stops for nothing else.
THEOREM SceneLastRowStops == Spec => []LastRowStops
<1>1. Spec => []IInv
  BY SceneInvariant
<1>2. IInv => LastRowStops
  BY DEF IInv
<1> QED
  BY <1>1, <1>2, PTL
-----------------------------------------------------------------------------
(* The lists of the cells.                                                 *)

\* The cell whose list an object is on: a registered player's own.
On == [o \in Objects |-> IF o \in Registered /\ IndexOf(o) # -1 THEN IndexOf(o) ELSE NULL]

\* The objects of each cell are linked both ways from its head, in no circle;
\* no other object has links.
CellsChained == \E place : Chained(Links, On, place, Objects, Cells)

LEMMA ChainsKept ==
    ASSUME CellsChained, UNCHANGED grids, On' = On
    PROVE  CellsChained'
<1>1. Links' = Links
  BY DEF Links, grids
<1> QED
  BY <1>1 DEF CellsChained

LEMMA ChainsAre ==
    ASSUME NEW l, NEW on, NEW place, Chained(l, on, place, Objects, Cells), LinksAre(l), On' = on
    PROVE  CellsChained'
<1>1. Links' = l
  BY DEF Links, LinksAre, Chained, ListType
<1> QED
  BY <1>1 DEF CellsChained

LEMMA InitChained == Init => CellsChained
<1> SUFFICES ASSUME Init PROVE CellsChained
  OBVIOUS
<1>1. Registered = {}
  BY DEF Init, Registered
<1>2. On = [o \in Objects |-> NULL]
  BY <1>1 DEF On
<1>3. ListType(Links, Objects, Cells)
  BY LinksType, TypeInit
<1>4. Linked(Links, On, Objects, Cells)
  BY <1>2 DEF Init, Links, Linked
<1>5. Ordered(Links, [o \in Objects |-> 0], Objects)
  BY DEF Init, Links, Ordered
<1> QED
  BY <1>3, <1>4, <1>5 DEF CellsChained, Chained

LEMMA EnterChained ==
    ASSUME IInv, CellsChained, NEW p \in Players, NEW at \in Places, OnCmdCharEnterSceneReq(p, at)
    PROVE  CellsChained'
<1>1. PICK o \in Objects \ heap :
          /\ pos' = [pos EXCEPT ![o] = at]
          /\ players' = [players EXCEPT ![p] = o]
          /\ \/ GetIndexByPos(at) = -1 /\ UNCHANGED grids
             \/ /\ GetIndexByPos(at) # -1
                /\ LinksAre(PushFront(Links, o, GetIndexByPos(at)))
  BY DEF OnCmdCharEnterSceneReq
<1>2. players[p] = NULL /\ TypeOK /\ Owners /\ ~Dangling
  BY DEF IInv, OnCmdCharEnterSceneReq, Command
<1>3. o \notin Registered /\ Registered' = Registered \cup {o}
  BY <1>1, <1>2, RegisteredOnHeap, Assumptions DEF Registered, TypeOK
<1>4. /\ On[o] = NULL
      /\ On' = [On EXCEPT ![o] = IF GetIndexByPos(at) = -1 THEN NULL ELSE GetIndexByPos(at)]
  BY <1>1, <1>2, <1>3 DEF On, IndexOf, TypeOK
<1>5. CASE GetIndexByPos(at) = -1 /\ UNCHANGED grids
  <2>1. On' = On
    BY <1>4, <1>5 DEF On
  <2> QED
    BY <1>5, <2>1, ChainsKept
<1>6. CASE GetIndexByPos(at) # -1 /\ LinksAre(PushFront(Links, o, GetIndexByPos(at)))
  <2>1. GetIndexByPos(at) \in Cells
    BY <1>6, OnCells DEF Positions
  <2>2. PICK place : Chained(Links, On, place, Objects, Cells)
    BY DEF CellsChained
  <2>3. Chained(PushFront(Links, o, GetIndexByPos(at)), [On EXCEPT ![o] = GetIndexByPos(at)],
                PlaceInFront(Links, place, o, GetIndexByPos(at)), Objects, Cells)
    BY <1>4, <2>1, <2>2, PushFrontChains, Assumptions
  <2> QED
    BY <1>4, <1>6, <2>3, ChainsAre
<1> QED
  BY <1>1, <1>5, <1>6

LEMMA MoveChained ==
    ASSUME IInv, CellsChained, NEW p \in Players, NEW to \in Places, OnCmdPlayerMove(p, to)
    PROVE  CellsChained'
<1> SUFFICES ASSUME NEW o, o = players[p] PROVE CellsChained'
  OBVIOUS
<1> DEFINE dst == GetIndexByPos(to)
<1>1. /\ o \in Objects /\ dst # -1 /\ players' = players /\ pos' = [pos EXCEPT ![o] = to]
      /\ LinksAre(MovedLinks(o, dst)) /\ TypeOK /\ o \in Registered
  <2>1. /\ o # NULL /\ dst # -1 /\ players' = players /\ pos' = [pos EXCEPT ![o] = to]
        /\ LinksAre(MovedLinks(o, dst))
    BY DEF OnCmdPlayerMove
  <2>2. players \in [Players -> Objects \cup {NULL}] /\ TypeOK
    BY DEF IInv, TypeOK, MaybeObject
  <2>3. o \in Objects /\ o \in Registered
    BY <2>1, <2>2 DEF Registered
  <2> QED
    BY <2>1, <2>2, <2>3
<1>2. dst \in Cells
  BY <1>1, OnCells DEF Positions
<1>3. On' = [On EXCEPT ![o] = dst] /\ On[o] = IF IndexOf(o) = -1 THEN NULL ELSE IndexOf(o)
  <2>1. pos \in [Objects -> Positions] /\ Registered' = Registered
    BY <1>1 DEF TypeOK, Registered
  <2>2. /\ IndexOf(o)' = dst
        /\ \A q \in Objects : q # o => IndexOf(q)' = IndexOf(q)
    BY <1>1, <2>1 DEF IndexOf
  <2> HIDE DEF dst
  <2>3. On' = [On EXCEPT ![o] = dst]
    BY <1>1, <2>1, <2>2 DEF On
  <2> QED
    BY <1>1, <2>3 DEF On
<1>4. PICK place : Chained(Links, On, place, Objects, Cells)
  BY DEF CellsChained
<1> HIDE DEF dst
<1>5. CASE IndexOf(o) = dst
  <2>1. On' = On
    BY <1>1, <1>3, <1>5 DEF On
  <2>2. LinksAre(Links)
    BY <1>1, <1>5 DEF MovedLinks
  <2> QED
    BY <1>4, <2>1, <2>2, ChainsAre
<1>6. CASE IndexOf(o) # dst /\ IndexOf(o) = -1
  <2>1. Chained(PushFront(Links, o, dst), [On EXCEPT ![o] = dst],
                PlaceInFront(Links, place, o, dst), Objects, Cells)
    BY <1>1, <1>2, <1>3, <1>4, <1>6, PushFrontChains, Assumptions
  <2> QED
    BY <1>1, <1>3, <1>6, <2>1, ChainsAre DEF MovedLinks
<1>7. CASE IndexOf(o) # dst /\ IndexOf(o) # -1
  <2> DEFINE l == Unlink(Links, o, IndexOf(o))
             on == [On EXCEPT ![o] = NULL]
  <2>1. IndexOf(o) \in Cells
    BY <1>1, <1>7, OnCells DEF TypeOK, IndexOf
  <2>2. Chained(l, on, place, Objects, Cells)
    BY <1>1, <1>3, <1>4, <1>7, <2>1, UnlinkChains, Assumptions
  <2>3. on[o] = NULL /\ On' = [on EXCEPT ![o] = dst]
    BY <1>1, <1>3 DEF On
  <2> HIDE DEF l, on
  <2>4. Chained(PushFront(l, o, dst), [on EXCEPT ![o] = dst],
                PlaceInFront(l, place, o, dst), Objects, Cells)
    BY <1>1, <1>2, <2>2, <2>3, PushFrontChains, Assumptions
  <2>5. LinksAre(PushFront(l, o, dst))
    BY <1>1, <1>7 DEF MovedLinks, l
  <2> QED
    BY <2>3, <2>4, <2>5, ChainsAre
<1> QED
  BY <1>5, <1>6, <1>7

LEMMA LeaveChained ==
    ASSUME IInv, CellsChained, NEW p \in Players, OnCmdLeaveGameReq(p)
    PROVE  CellsChained'
<1> SUFFICES ASSUME NEW o, o = players[p] PROVE CellsChained'
  OBVIOUS
<1>1. /\ o \in Objects /\ o # NULL /\ players' = [players EXCEPT ![p] = NULL]
      /\ TypeOK /\ Owners /\ o \in Registered /\ ~Dangling
      /\ \A q \in Objects : q # o => pos'[q] = pos[q]
      /\ \/ IndexOf(o) = -1 /\ UNCHANGED grids
         \/ IndexOf(o) # -1 /\ LinksAre(Unlink(Links, o, IndexOf(o)))
  BY DEF OnCmdLeaveGameReq, Command, Discard, IInv, TypeOK, MaybeObject, Registered
<1>2. Registered' = Registered \ {o}
  <2>1. \A q \in Players : players[q] = o => q = p
    BY <1>1, RegisteredOnHeap
  <2> QED
    BY <1>1, <2>1 DEF Registered, TypeOK
<1>3. On' = [On EXCEPT ![o] = NULL] /\ On[o] = IF IndexOf(o) = -1 THEN NULL ELSE IndexOf(o)
  BY <1>1, <1>2 DEF On, IndexOf
<1>4. CASE IndexOf(o) = -1 /\ UNCHANGED grids
  <2>1. On' = On
    BY <1>1, <1>3, <1>4 DEF On
  <2> QED
    BY <1>4, <2>1, ChainsKept
<1>5. CASE IndexOf(o) # -1 /\ LinksAre(Unlink(Links, o, IndexOf(o)))
  <2>1. PICK place : Chained(Links, On, place, Objects, Cells)
    BY DEF CellsChained
  <2>2. IndexOf(o) \in Cells
    BY <1>1, <1>5, OnCells DEF TypeOK, IndexOf
  <2>3. Chained(Unlink(Links, o, IndexOf(o)), [On EXCEPT ![o] = NULL], place, Objects, Cells)
    BY <1>1, <1>3, <1>5, <2>1, <2>2, UnlinkChains, Assumptions
  <2> QED
    BY <1>3, <1>5, <2>3, ChainsAre
<1> QED
  BY <1>1, <1>4, <1>5

\* A tick unlinks nothing, and if it frees an object of a list the memory of
\* a registered player is gone.
LEMMA TickChained ==
    ASSUME IInv, CellsChained, NEW o \in Objects, HandleUpdateObject(o)
    PROVE  Dangling' \/ CellsChained'
<1>1. /\ TypeOK /\ Registered' = Registered /\ players' = players
      /\ o \in heap
  BY TickFrame
<1>2. UNCHANGED grids
  BY DEF HandleUpdateObject, HandleUpdateNew, HandleUpdateDelete, HandleUpdateInCell,
         HandleUpdateMoved, HandleUpdateThrows, Take
<1>3. CASE HandleUpdateDelete(o) /\ o \in Registered
  <2>1. heap' = heap \ {o}
    BY <1>3 DEF HandleUpdateDelete, Discard
  <2>2. PICK p \in Players : players[p] = o /\ o # NULL
    BY <1>3 DEF Registered
  <2> QED
    BY <1>1, <2>1, <2>2 DEF Dangling
<1>4. CASE ~(HandleUpdateDelete(o) /\ o \in Registered)
  <2>1. \A q \in Registered : pos'[q] = pos[q]
    <3>1. CASE pos' = pos
      BY <3>1
    <3>2. CASE HandleUpdateDelete(o)
      <4>1. o \notin Registered /\ Registered \subseteq Objects
        BY <1>1, <1>4, <3>2 DEF Registered, TypeOK, MaybeObject
      <4> QED
        BY <1>1, <3>2, <4>1 DEF HandleUpdateDelete, Discard, TypeOK
    <3> QED
      BY <3>1, <3>2 DEF HandleUpdateObject, HandleUpdateNew, HandleUpdateInCell,
                        HandleUpdateMoved, HandleUpdateThrows, object
  <2>2. On' = On
    BY <1>1, <2>1 DEF On, IndexOf
  <2> QED
    BY <1>2, <2>2, ChainsKept
<1> QED
  BY <1>3, <1>4

\* The lists are right as long as the memory of every player is there.
ListsChained == ~Dangling => CellsChained

LEMMA NextChained == IInv /\ ListsChained /\ [Next]_vars => ListsChained'
<1> SUFFICES ASSUME IInv, ListsChained, [Next]_vars PROVE ListsChained'
  OBVIOUS
<1>1. CASE Commands
  <2>1. ~Dangling
    BY <1>1 DEF Commands, OnCmdCharEnterSceneReq, OnCmdPlayerMove, OnCmdLeaveGameReq, Command
  <2>2. CellsChained
    BY <2>1 DEF ListsChained
  <2>3. CellsChained'
    BY <1>1, <2>2, EnterChained, MoveChained, LeaveChained DEF Commands
  <2> QED
    BY <2>3 DEF ListsChained
<1>2. CASE \E o \in Objects : HandleUpdateObject(o)
  <2>1. PICK o \in Objects : HandleUpdateObject(o)
    BY <1>2
  <2>2. CellsChained
    BY <2>1, TickFrame DEF ListsChained
  <2> QED
    BY <2>1, <2>2, TickChained DEF ListsChained
<1>3. CASE UNCHANGED vars
  <2>1. UNCHANGED grids /\ On' = On /\ (Dangling' <=> Dangling)
    BY <1>3 DEF vars, object, On, Registered, IndexOf, Dangling
  <2> QED
    BY <2>1, ChainsKept DEF ListsChained
<1> QED
  BY <1>1, <1>2, <1>3 DEF Next

\* Each cell's list links its players and nothing else, whatever they do, until
\* a registered player is freed.
THEOREM SceneCellsChained == Spec => []ListsChained
<1>1. Spec => []IInv
  BY SceneInvariant
<1>2. Init => ListsChained
  BY InitChained DEF ListsChained
<1>3. IInv /\ ListsChained /\ [Next]_vars => ListsChained'
  BY NextChained
<1> QED
  BY <1>1, <1>2, <1>3, PTL DEF Spec

LEMMA ChainedListsHold == TypeOK /\ CellsChained => ListsHoldThePlayers
<1> SUFFICES ASSUME TypeOK, CellsChained PROVE ListsHoldThePlayers
  OBVIOUS
<1>1. PICK place : Chained(Links, On, place, Objects, Cells)
  BY DEF CellsChained
<1>2. Registered \subseteq Objects
  BY DEF TypeOK, Registered, MaybeObject
<1>3. NULL \notin Objects /\ NULL \notin Cells /\ IsFiniteSet(Objects)
  BY SceneAssumption
<1>4. ASSUME NEW g \in Cells
      PROVE  IsListOf(Links, g, {o \in Registered : IndexOf(o) = g})
  <2>1. IsListOf(Links, g, {o \in Objects : On[o] = g})
    BY <1>1, <1>3, ChainedIsList
  <2>2. g # -1 /\ g # NULL
    BY <1>3, Sizes DEF Cells
  <2>3. {o \in Objects : On[o] = g} = {o \in Registered : IndexOf(o) = g}
    BY <1>2, <2>2 DEF On
  <2> QED BY <2>1, <2>3
<1>5. ASSUME NEW o \in Objects \ Registered
      PROVE  gridNext[o] = NULL /\ gridPrev[o] = NULL
  <2>1. On[o] = NULL
    BY DEF On
  <2> QED BY <1>1, <2>1 DEF Chained, Linked, Links
<1> QED BY <1>4, <1>5 DEF ListsHoldThePlayers

\* A walk along a cell's list meets the registered players that stand in the
\* cell, once each, and nobody else has links: a player is on the list that
\* its position names, whenever a command looks for it there.
THEOREM SceneListsHoldThePlayers == Spec => []ListsHoldThePlayers
<1>1. Spec => []TypeOK
  BY SceneTypeCorrect
<1>2. Spec => []ListsChained
  BY SceneCellsChained
<1>3. TypeOK /\ ListsChained => ListsHoldThePlayers
  BY ChainedListsHold DEF ListsChained, ListsHoldThePlayers
<1> QED
  BY <1>1, <1>2, <1>3, PTL
-----------------------------------------------------------------------------
(* What stands in a sequence of cells.                                     *)

LEMMA ConcatElements ==
    ASSUME NEW S, NEW s \in Seq(S), NEW t \in Seq(S)
    PROVE  s \o t \in Seq(S) /\ ToSet(s \o t) = ToSet(s) \cup ToSet(t)
<1>1. /\ s \o t \in Seq(S) /\ DOMAIN (s \o t) = 1 .. Len(s) + Len(t)
      /\ DOMAIN s = 1 .. Len(s) /\ DOMAIN t = 1 .. Len(t) /\ Len(s) \in Nat /\ Len(t) \in Nat
      /\ \A i \in DOMAIN s : (s \o t)[i] = s[i]
      /\ \A i \in DOMAIN t : (s \o t)[Len(s) + i] = t[i]
  OBVIOUS
<1> DEFINE u == s \o t
           m == Len(s)
           n == Len(t)
<1> HIDE DEF u, m, n
<1>2. /\ DOMAIN u = 1 .. m + n /\ DOMAIN s = 1 .. m /\ DOMAIN t = 1 .. n /\ m \in Nat /\ n \in Nat
      /\ \A i \in 1 .. m : u[i] = s[i]
      /\ \A i \in 1 .. n : u[m + i] = t[i]
  BY <1>1 DEF u, m, n
<1>3. ASSUME NEW i \in 1 .. m + n PROVE u[i] \in ToSet(s) \cup ToSet(t)
  <2>1. CASE i <= m
    <3>1. i \in 1 .. m
      BY <2>1, <1>2
    <3> QED BY <3>1, <1>2 DEF ToSet
  <2>2. CASE i > m
    <3>1. i - m \in 1 .. n /\ m + (i - m) = i
      BY <2>2, <1>2
    <3> QED BY <3>1, <1>2 DEF ToSet
  <2> QED BY <2>1, <2>2, <1>2
<1>4. ASSUME NEW i \in 1 .. m PROVE s[i] \in ToSet(u)
  <2>1. i \in 1 .. m + n
    BY <1>2
  <2> QED BY <2>1, <1>2 DEF ToSet
<1>5. ASSUME NEW i \in 1 .. n PROVE t[i] \in ToSet(u)
  <2>1. m + i \in 1 .. m + n
    BY <1>2
  <2> QED BY <2>1, <1>2 DEF ToSet
<1>6. ToSet(u) \subseteq ToSet(s) \cup ToSet(t)
  <2> SUFFICES ASSUME NEW i \in DOMAIN u PROVE u[i] \in ToSet(s) \cup ToSet(t)
    BY DEF ToSet
  <2> QED BY <1>2, <1>3
<1>7. ToSet(s) \subseteq ToSet(u)
  <2> SUFFICES ASSUME NEW i \in DOMAIN s PROVE s[i] \in ToSet(u)
    BY DEF ToSet
  <2> QED BY <1>2, <1>4
<1>8. ToSet(t) \subseteq ToSet(u)
  <2> SUFFICES ASSUME NEW i \in DOMAIN t PROVE t[i] \in ToSet(u)
    BY DEF ToSet
  <2> QED BY <1>2, <1>5
<1> QED BY <1>1, <1>6, <1>7, <1>8 DEF u

\* What FlattenSeq puts together, after its first k sequences and one more.
IsFlattening(f, seqs, n) ==
    f = [i \in 1 .. n |-> IF i = 1 THEN seqs[i] ELSE f[i - 1] \o seqs[i]]

LEMMA FlattensExist ==
    ASSUME NEW S, NEW n \in Nat, n # 0, NEW seqs \in [1 .. n -> Seq(S)]
    PROVE  \E f : IsFlattening(f, seqs, n)
<1> DEFINE V == Seq(S)
           step == [k \in 1 .. n - 1 |-> [x \in V |-> x \o seqs[k + 1]]]
<1>1. n - 1 \in Nat /\ 1 \in 1 .. n /\ seqs[1] \in V
  OBVIOUS
<1>2. step \in [1 .. n - 1 -> [V -> V]]
  <2>1. ASSUME NEW k \in 1 .. n - 1, NEW x \in V PROVE x \o seqs[k + 1] \in V
    <3>1. k + 1 \in 1 .. n
      OBVIOUS
    <3>2. seqs[k + 1] \in V
      BY <3>1
    <3> QED BY <3>2
  <2> HIDE DEF V
  <2> QED BY <2>1
<1>3. PICK f \in [0 .. n - 1 -> V] : Iterates(f, n - 1, seqs[1], step)
  <2> HIDE DEF step, V
  <2> QED BY <1>1, <1>2, RecursionExists
<1> DEFINE g == [i \in 1 .. n |-> f[i - 1]]
<1>4. ASSUME NEW i \in 1 .. n
      PROVE  g[i] = IF i = 1 THEN seqs[i] ELSE g[i - 1] \o seqs[i]
  <2>1. CASE i = 1
    BY <2>1, <1>3 DEF Iterates
  <2>2. CASE i # 1
    <3>1. i - 1 \in 1 .. n - 1 /\ i - 1 \in 1 .. n /\ (i - 1) + 1 = i /\ (i - 1) - 1 \in 0 .. n - 1
      BY <2>2
    <3>2. f[i - 1] = step[i - 1][f[(i - 1) - 1]] /\ f[(i - 1) - 1] \in V
      <4> HIDE DEF step, V
      <4> QED BY <3>1, <1>3 DEF Iterates
    <3>3. step[i - 1][f[(i - 1) - 1]] = f[(i - 1) - 1] \o seqs[i]
      <4> DEFINE j == i - 1
                 x == f[j - 1]
      <4>1. j \in 1 .. n - 1 /\ x \in V /\ j + 1 = i
        BY <3>1, <3>2
      <4> HIDE DEF j, x, V
      <4>2. step[j][x] = x \o seqs[j + 1]
        BY <4>1
      <4> HIDE DEF step
      <4> QED BY <4>1, <4>2 DEF j, x
    <3>4. g[i] = f[i - 1] /\ g[i - 1] = f[(i - 1) - 1]
      BY <3>1
    <3> HIDE DEF g, step, V
    <3> QED BY <2>2, <3>2, <3>3, <3>4
  <2> QED BY <2>1, <2>2
<1>5. DOMAIN g = 1 .. n /\ g = [i \in 1 .. n |-> g[i]]
  OBVIOUS
<1> HIDE DEF g
<1>6. IsFlattening(g, seqs, n)
  BY <1>4, <1>5 DEF IsFlattening
<1> QED BY <1>6

LEMMA FlattenIsLast ==
    ASSUME NEW n, n # 0, NEW seqs, Len(seqs) = n
    PROVE  LET flatten[i \in 1 .. n] == IF i = 1 THEN seqs[i] ELSE flatten[i - 1] \o seqs[i]
           IN  FlattenSeq(seqs) = flatten[n]
  BY DEF FlattenSeq

LEMMA FlattenElements ==
    ASSUME NEW S, NEW n \in Nat, NEW seqs \in [1 .. n -> Seq(S)]
    PROVE  /\ FlattenSeq(seqs) \in Seq(S)
           /\ ToSet(FlattenSeq(seqs)) = UNION {ToSet(seqs[i]) : i \in 1 .. n}
<1>1. Len(seqs) = n /\ seqs \in Seq(Seq(S))
  OBVIOUS
<1>2. CASE n = 0
  <2>1. FlattenSeq(seqs) = seqs /\ DOMAIN seqs = {}
    BY <1>1, <1>2 DEF FlattenSeq
  <2>2. seqs \in Seq(S)
    BY <1>1, <1>2, <2>1
  <2> QED BY <1>2, <2>1, <2>2 DEF ToSet
<1>3. CASE n # 0
  <2> DEFINE flatten[i \in 1 .. n] == IF i = 1 THEN seqs[i] ELSE flatten[i - 1] \o seqs[i]
             Good(i) == /\ flatten[i] \in Seq(S)
                        /\ ToSet(flatten[i]) = UNION {ToSet(seqs[j]) : j \in 1 .. i}
             G == {k \in 0 .. n - 1 : Good(k + 1)}
  <2>1. FlattenSeq(seqs) = flatten[n]
    BY <1>1, <1>3, FlattenIsLast
  <2>2. IsFlattening(flatten, seqs, n)
    <3>1. PICK f : IsFlattening(f, seqs, n)
      BY <1>3, FlattensExist
    <3> QED BY <3>1 DEF IsFlattening
  <2>3. \A i \in 1 .. n : flatten[i] = IF i = 1 THEN seqs[i] ELSE flatten[i - 1] \o seqs[i]
    <3> HIDE DEF flatten
    <3> QED BY <2>2 DEF IsFlattening
  <2> HIDE DEF flatten
  <2>4. 0 \in G
    <3>1. 1 \in 1 .. n /\ 0 \in 0 .. n - 1 /\ 0 + 1 = 1 /\ 1 .. 1 = {1}
      BY <1>3
    <3>2. flatten[1] = seqs[1] /\ seqs[1] \in Seq(S)
      BY <3>1, <2>3
    <3>3. Good(1)
      BY <3>1, <3>2
    <3> HIDE DEF Good
    <3> QED BY <3>1, <3>3
  <2>5. ASSUME NEW k \in 0 .. (n - 1) - 1, k \in G PROVE k + 1 \in G
    <3> DEFINE i == k + 1
    <3>1. /\ i \in 1 .. n /\ i + 1 \in 1 .. n /\ i + 1 # 1 /\ (i + 1) - 1 = i
          /\ k + 1 \in 0 .. n - 1 /\ 1 .. i + 1 = (1 .. i) \cup {i + 1}
      OBVIOUS
    <3>2. Good(i)
      <4> HIDE DEF Good
      <4> QED BY <2>5
    <3> HIDE DEF i
    <3>3. flatten[i + 1] = flatten[i] \o seqs[i + 1]
      <4> DEFINE m == i + 1
      <4>1. m \in 1 .. n /\ m # 1 /\ m - 1 = i
        BY <3>1
      <4> HIDE DEF m
      <4>2. flatten[m] = flatten[m - 1] \o seqs[m]
        BY <4>1, <2>3
      <4> QED BY <4>1, <4>2 DEF m
    <3>4. seqs[i + 1] \in Seq(S)
      BY <3>1
    <3>5. /\ flatten[i + 1] \in Seq(S)
          /\ ToSet(flatten[i + 1]) = ToSet(flatten[i]) \cup ToSet(seqs[i + 1])
      <4> DEFINE a == flatten[i]
                 b == seqs[i + 1]
      <4>1. a \in Seq(S) /\ b \in Seq(S)
        BY <3>2, <3>4
      <4> HIDE DEF a, b
      <4>2. a \o b \in Seq(S) /\ ToSet(a \o b) = ToSet(a) \cup ToSet(b)
        BY <4>1, ConcatElements
      <4> QED BY <4>2, <3>3 DEF a, b
    <3>6. UNION {ToSet(seqs[j]) : j \in 1 .. i + 1}
          = (UNION {ToSet(seqs[j]) : j \in 1 .. i}) \cup ToSet(seqs[i + 1])
      BY <3>1
    <3>7. Good(i + 1)
      BY <3>2, <3>5, <3>6
    <3> HIDE DEF Good
    <3> QED BY <3>1, <3>7 DEF i
  <2>6. 0 .. n - 1 \subseteq G
    <3>1. n - 1 \in Nat
      BY <1>3
    <3> HIDE DEF G
    <3> QED BY <3>1, <2>4, <2>5, AllUpTo
  <2>7. Good(n)
    <3>1. n - 1 \in 0 .. n - 1 /\ (n - 1) + 1 = n
      BY <1>3
    <3>2. Good((n - 1) + 1)
      <4> HIDE DEF Good
      <4> QED BY <3>1, <2>6
    <3> HIDE DEF Good
    <3> QED BY <3>1, <3>2
  <2> QED BY <2>1, <2>7
<1> QED BY <1>2, <1>3
-----------------------------------------------------------------------------
(* Who is told.                                                            *)

LEMMA ListedSequence ==
    ASSUME NEW l, NEW h, NEW S, IsFiniteSet(DOMAIN l.next),
           {Listed(l, h)[i] : i \in DOMAIN Listed(l, h)} \subseteq S
    PROVE  Listed(l, h) \in Seq(S)
<1> DEFINE size == Cardinality(DOMAIN l.next)
           walk[k \in 0 .. size] ==
               IF k = 0 THEN l.head[h]
               ELSE IF walk[k - 1] = NULL THEN NULL ELSE l.next[walk[k - 1]]
           met == {j \in 1 .. size : walk[j - 1] # NULL}
           s == [k \in 1 .. Cardinality(met) |-> walk[k - 1]]
<1>1. Listed(l, h) = s
  BY DEF Listed
<1>2. size \in Nat
  BY FS_CardinalityType
<1> HIDE DEF size
<1>3. IsFiniteSet(1 .. size)
  BY <1>2, FS_Interval
<1>4. Cardinality(met) \in Nat
  <2>1. IsFiniteSet(met)
    BY <1>3, FS_Subset
  <2> QED BY <2>1, FS_CardinalityType
<1> HIDE DEF walk, met
<1>5. \A k \in 1 .. Cardinality(met) : s[k] \in S
  BY <1>1
<1> DEFINE n == Cardinality(met)
<1>6. s \in [1 .. n -> S] /\ n \in Nat
  BY <1>4, <1>5
<1>7. s \in Seq(S)
  <2> HIDE DEF n, s
  <2> QED BY <1>6
<1> QED BY <1>1, <1>7

\* The objects of a sequence of cells are the registered players in them.
LEMMA NearHolds ==
    ASSUME TypeOK, CellsChained, ~Dangling, NEW gs \in Seq(Cells)
    PROVE  ToSet(Near(gs)) = {q \in Registered : IndexOf(q) \in Elements(gs)}
<1> DEFINE n == Len(gs)
           seqs == [i \in DOMAIN gs |-> Listed(Links, gs[i])]
           In(g) == {q \in Registered : IndexOf(q) = g}
<1>1. n \in Nat /\ DOMAIN gs = 1 .. n /\ \A i \in 1 .. n : gs[i] \in Cells
  OBVIOUS
<1>2. DOMAIN gridNext = Objects /\ IsFiniteSet(Objects)
  BY SceneAssumption DEF TypeOK
<1>3. ASSUME NEW g \in Cells
      PROVE  Listed(Links, g) \in Seq(Registered) /\ ToSet(Listed(Links, g)) = In(g)
  <2>1. IsListOf(Links, g, In(g))
    BY ChainedListsHold DEF ListsHoldThePlayers
  <2>2. {Listed(Links, g)[i] : i \in DOMAIN Listed(Links, g)} = In(g)
    BY <2>1 DEF IsListOf
  <2>3. IsFiniteSet(DOMAIN Links.next)
    BY <1>2 DEF Links
  <2>4. In(g) \subseteq Registered
    OBVIOUS
  <2> HIDE DEF In
  <2>5. Listed(Links, g) \in Seq(Registered)
    BY <2>2, <2>3, <2>4, ListedSequence
  <2> QED BY <2>2, <2>5 DEF ToSet
<1>4. seqs \in [1 .. n -> Seq(Registered)]
  BY <1>1, <1>3
<1>5. UNION {ToSet(seqs[i]) : i \in 1 .. n} = {q \in Registered : IndexOf(q) \in Elements(gs)}
  <2>1. \A i \in 1 .. n : ToSet(seqs[i]) = In(gs[i])
    BY <1>1, <1>3
  <2> HIDE DEF seqs, n
  <2> QED BY <1>1, <2>1 DEF Elements
<1>6. Near(gs) = FlattenSeq(seqs)
  BY DEF Near
<1> HIDE DEF seqs, n
<1> QED BY <1>1, <1>4, <1>5, <1>6, FlattenElements

LEMMA CellsOfRegistered ==
    ASSUME TypeOK, NEW q \in Registered
    PROVE  q \in Objects /\ (IndexOf(q) # -1 => IndexOf(q) \in Nat /\ OnMap(IndexOf(q)))
<1>1. q \in Objects
  BY DEF Registered, TypeOK, MaybeObject
<1>2. pos[q] \in Positions
  BY <1>1 DEF TypeOK
<1> QED BY <1>1, <1>2, OnCells DEF IndexOf, Cells

LEMMA SurroundingCells ==
    ASSUME NEW n, OnMap(n), InVector(GetSurroundingGrids(n))
    PROVE  /\ GetSurroundingGrids(n) \in Seq(Cells)
           /\ Elements(GetSurroundingGrids(n)) = {m \in Nat : InSight(m, n)}
           /\ {m \in Nat : InSight(m, n)} \subseteq Cells
<1> DEFINE G == GetSurroundingGrids(n)
<1>1. Elements(G) = {m \in Nat : InSight(m, n)}
  BY SurroundingsAreNeighbours DEF Elements
<1>2. G \in Seq(Int) /\ \A i \in DOMAIN G : G[i] \in Cells
  BY SurroundingsSequence DEF InVector
<1>3. G \in Seq(Cells) /\ Elements(G) \subseteq Cells
  <2> HIDE DEF G
  <2> QED BY <1>2 DEF Elements
<1> QED BY <1>1, <1>3

\* The players a change in cell n is sent to.
LEMMA NearSurroundings ==
    ASSUME TypeOK, CellsChained, ~Dangling, NEW n, OnMap(n), InVector(GetSurroundingGrids(n))
    PROVE  ToSet(Near(GetSurroundingGrids(n))) = Watchers(n)
<1> DEFINE G == GetSurroundingGrids(n)
<1>1. G \in Seq(Cells) /\ Elements(G) = {m \in Nat : InSight(m, n)}
  BY SurroundingCells
<1> HIDE DEF G
<1>2. ToSet(Near(G)) = {q \in Registered : IndexOf(q) \in Elements(G)}
  BY <1>1, NearHolds
<1>3. -1 \notin Nat
  OBVIOUS
<1>4. ToSet(Near(G)) = Watchers(n)
  BY <1>1, <1>2, <1>3, CellsOfRegistered DEF Watchers
<1> QED BY <1>4 DEF G

\* The players a move from one cell to another is sent to.
LEMMA NearDiff ==
    ASSUME TypeOK, CellsChained, ~Dangling, NEW src, OnMap(src), NEW dst, OnMap(dst),
           InVector(GetSurroundingGrids(src)), InVector(GetSurroundingGrids(dst))
    PROVE  LET diff == CalDiffGrids(src, dst) IN
           /\ ToSet(Near(diff.inc)) = Watchers(dst) \ Watchers(src)
           /\ ToSet(Near(diff.dec)) = Watchers(src) \ Watchers(dst)
           /\ ToSet(Near(diff.stay)) = Watchers(src) \cap Watchers(dst)
<1> DEFINE diff == CalDiffGrids(src, dst)
           inc == diff.inc
           dec == diff.dec
           stay == diff.stay
           A == {m \in Nat : InSight(m, src)}
           B == {m \in Nat : InSight(m, dst)}
<1>1. A \subseteq Cells /\ B \subseteq Cells
  BY SurroundingCells
<1>2. /\ inc \in Seq(Int) /\ dec \in Seq(Int) /\ stay \in Seq(Int)
      /\ Elements(inc) = {m \in Nat : InSight(m, dst) /\ ~InSight(m, src)}
      /\ Elements(dec) = {m \in Nat : InSight(m, src) /\ ~InSight(m, dst)}
      /\ Elements(stay) = {m \in Nat : InSight(m, src) /\ InSight(m, dst)}
  <2> HIDE DEF diff
  <2> QED BY MovesGainAndLose DEF diff
<1> HIDE DEF inc, dec, stay
<1>3. /\ Elements(inc) = B \ A /\ Elements(dec) = A \ B /\ Elements(stay) = A \cap B
  BY <1>2
<1>4. inc \in Seq(Cells) /\ dec \in Seq(Cells) /\ stay \in Seq(Cells)
  <2>1. ASSUME NEW s \in Seq(Int), Elements(s) \subseteq Cells PROVE s \in Seq(Cells)
    <3>1. \A i \in 1 .. Len(s) : s[i] \in Cells
      BY <2>1 DEF Elements
    <3> QED BY <3>1
  <2> HIDE DEF A, B
  <2> QED BY <1>1, <1>2, <1>3, <2>1
<1>5. \A q \in Registered : IndexOf(q) # -1 => IndexOf(q) \in Nat
  BY CellsOfRegistered
<1>6. -1 \notin Nat
  OBVIOUS
<1>7. /\ {q \in Registered : IndexOf(q) \in A} = Watchers(src)
      /\ {q \in Registered : IndexOf(q) \in B} = Watchers(dst)
  BY <1>5, <1>6 DEF Watchers
<1> HIDE DEF A, B
<1>8. /\ ToSet(Near(inc)) = {q \in Registered : IndexOf(q) \in B \ A}
      /\ ToSet(Near(dec)) = {q \in Registered : IndexOf(q) \in A \ B}
      /\ ToSet(Near(stay)) = {q \in Registered : IndexOf(q) \in A \cap B}
  BY <1>3, <1>4, NearHolds
<1>9. /\ ToSet(Near(inc)) = Watchers(dst) \ Watchers(src)
      /\ ToSet(Near(dec)) = Watchers(src) \ Watchers(dst)
      /\ ToSet(Near(stay)) = Watchers(src) \cap Watchers(dst)
  BY <1>7, <1>8
<1> QED BY <1>9 DEF inc, dec, stay
\* The objects a tick sends, and to whom, are registered.
LEMMA TickNear ==
    ASSUME IInv, CellsChained, NEW o \in Objects, HandleUpdateObject(o), InVector(Touched(o))
    PROVE  LET dst == GetSurroundingGrids(IndexOf(o))
               diff == CalDiffGrids(GetIndexByPos(synced[o]), IndexOf(o))
           IN
           /\ OnMap(IndexOf(o)) /\ ToSet(Near(dst)) = Watchers(IndexOf(o))
           /\ status[o] = "Update" =>
                  LET src == GetIndexByPos(synced[o]) IN
                  /\ OnMap(src)
                  /\ ToSet(Near(diff.inc)) = Watchers(IndexOf(o)) \ Watchers(src)
                  /\ ToSet(Near(diff.dec)) = Watchers(src) \ Watchers(IndexOf(o))
                  /\ ToSet(Near(diff.stay)) = Watchers(src) \cap Watchers(IndexOf(o))
<1> DEFINE at == IndexOf(o)
           src == GetIndexByPos(synced[o])
           diff == CalDiffGrids(src, at)
<1>1. IInv /\ CellsChained
  OBVIOUS
<1>2. /\ OnMap(at) /\ ObjectSound(o) /\ inScene[o] /\ TypeOK /\ ~Dangling
  BY <1>1, TickFrame
<1>3. InVector(GetSurroundingGrids(at))
  <2>1. RowOf(at) < MaxRows - 1
    BY <1>1, TouchedRows
  <2> HIDE DEF at
  <2> QED BY <1>2, <2>1, LastRowOverruns DEF InVector
<1>4. ASSUME status[o] = "Update"
      PROVE  OnMap(src) /\ InVector(GetSurroundingGrids(src))
  <2>1. src # -1 /\ RowOf(src) < MaxRows - 1
    BY <1>2, <1>4 DEF ObjectSound
  <2>2. OnMap(src)
    BY <1>2, <2>1, OnCells DEF TypeOK
  <2> HIDE DEF src
  <2> QED BY <2>1, <2>2, LastRowOverruns DEF InVector
<1>5. ToSet(Near(GetSurroundingGrids(at))) = Watchers(at)
  <2> HIDE DEF at
  <2> QED BY <1>1, <1>2, <1>3, NearSurroundings
<1>6. ASSUME status[o] = "Update"
      PROVE  /\ OnMap(src)
             /\ ToSet(Near(diff.inc)) = Watchers(at) \ Watchers(src)
             /\ ToSet(Near(diff.dec)) = Watchers(src) \ Watchers(at)
             /\ ToSet(Near(diff.stay)) = Watchers(src) \cap Watchers(at)
  <2>1. OnMap(src) /\ InVector(GetSurroundingGrids(src))
    BY <1>4, <1>6
  <2> HIDE DEF at, src
  <2> QED BY <1>1, <1>2, <1>3, <2>1, NearDiff
<1> QED BY <1>2, <1>5, <1>6

\* What a tick that does not throw sends.
LEMMA TickTells ==
    ASSUME IInv, CellsChained, NEW o \in Objects, HandleUpdateObject(o), ~stopped'
    PROVE  sends' = Due(o)
<1> DEFINE at == IndexOf(o)
           src == GetIndexByPos(synced[o])
           dst == GetSurroundingGrids(at)
           diff == CalDiffGrids(src, at)
           But(os) == {q \in os : id[q] # id[o]}
<1>1. InVector(Touched(o))
  BY DEF HandleUpdateObject, HandleUpdateNew, HandleUpdateDelete, HandleUpdateInCell,
         HandleUpdateMoved, HandleUpdateThrows
<1>2. ToSet(Near(dst)) = Watchers(at)
  BY <1>1, TickNear
<1>3. status[o] = "Update" =>
          /\ ToSet(Near(diff.inc)) = Watchers(at) \ Watchers(src)
          /\ ToSet(Near(diff.dec)) = Watchers(src) \ Watchers(at)
          /\ ToSet(Near(diff.stay)) = Watchers(src) \cap Watchers(at)
  BY <1>1, TickNear
<1>4. CASE HandleUpdateNew(o)
  <2>1. Others(dst, o) = But(Watchers(at))
    BY <1>2 DEF Others, InGrids
  <2>2. sends' = ToEach(But(Watchers(at)), "add", o) \cup ToOne(o, "add", But(Watchers(at)))
    BY <1>4, <2>1 DEF HandleUpdateNew, SendNewObjectToGrids, SendNewGridsToObject
  <2>3. status[o] = "New"
    BY <1>4 DEF HandleUpdateNew
  <2> QED
    BY <2>2, <2>3 DEF Due
<1>5. CASE HandleUpdateDelete(o)
  <2>1. sends' = ToEach(Watchers(at), "remove", o) /\ status[o] = "Delete"
    BY <1>2, <1>5 DEF HandleUpdateDelete, SendRemoveObjectToGrids, InGrids
  <2> QED
    BY <2>1 DEF Due
<1>6. CASE HandleUpdateInCell(o)
  <2>1. status[o] = "Update" /\ src = at
    BY <1>6 DEF HandleUpdateInCell
  <2>2. Others(dst, o) = But(Watchers(at))
    BY <1>2 DEF Others, InGrids
  <2>3. sends' = ToOne(o, "update", {o}) \cup ToEach(But(Watchers(at)), "update", o)
    BY <1>6, <2>2 DEF HandleUpdateInCell, SendUpdateObjectToMyself, SendUpdateObjectToGrids
  <2>4. \A what : ToEach({}, what, o) = {} /\ ToOne(o, what, {}) = {}
    BY DEF ToEach, ToOne
  <2> DEFINE w == Watchers(at)
  <2>5. /\ But(w \cap w) = But(w) /\ But(w \ w) = {} /\ w \ w = {}
    OBVIOUS
  <2>6. Due(o) = ToOne(o, "update", {o}) \cup ToEach(But(w \cap w), "update", o)
                 \cup ToEach(But(w \ w), "add", o) \cup ToOne(o, "add", But(w \ w))
                 \cup ToEach(w \ w, "remove", o) \cup ToOne(o, "remove", w \ w)
    BY <2>1 DEF Due
  <2> HIDE DEF w, But
  <2>7. Due(o) = ToOne(o, "update", {o}) \cup ToEach(But(w), "update", o)
    BY <2>4, <2>5, <2>6
  <2> QED
    BY <2>3, <2>7 DEF w
<1>7. CASE HandleUpdateMoved(o)
  <2>1. status[o] = "Update"
    BY <1>7 DEF HandleUpdateMoved
  <2> DEFINE new == Watchers(at)
             old == Watchers(src)
  <2>2. /\ InGrids(diff.inc) = new \ old /\ InGrids(diff.dec) = old \ new
        /\ InGrids(diff.stay) = new \cap old
    BY <1>3, <2>1 DEF InGrids
  <2>3. Others(diff.inc, o) = But(new \ old) /\ Others(diff.stay, o) = But(new \cap old)
    BY <2>2 DEF Others
  <2>4. sends' = SendUpdateObjectToMyself(o) \cup SendUpdateObjectToGrids(o, diff.stay)
                 \cup SendNewObjectToGrids(o, diff.inc) \cup SendNewGridsToObject(diff.inc, o)
                 \cup SendRemoveObjectToGrids(o, diff.dec)
                 \cup SendRemoveGridsToPlayer(diff.dec, o)
    BY <1>7 DEF HandleUpdateMoved
  <2>5. Due(o) = ToOne(o, "update", {o}) \cup ToEach(But(new \cap old), "update", o)
                 \cup ToEach(But(new \ old), "add", o) \cup ToOne(o, "add", But(new \ old))
                 \cup ToEach(old \ new, "remove", o) \cup ToOne(o, "remove", old \ new)
    BY <2>1 DEF Due
  <2> HIDE DEF new, old, But, diff
  <2> QED
    BY <2>2, <2>3, <2>4, <2>5 DEF SendUpdateObjectToMyself, SendUpdateObjectToGrids,
       SendNewObjectToGrids, SendNewGridsToObject, SendRemoveObjectToGrids,
       SendRemoveGridsToPlayer
<1>8. CASE HandleUpdateThrows(o)
  BY <1>8 DEF HandleUpdateThrows
<1> QED
  BY <1>4, <1>5, <1>6, <1>7, <1>8 DEF HandleUpdateObject

LEMMA StepTells ==
    ASSUME IInv, ListsChained, [Next]_vars, NEW o \in updateList \ updateList', ~stopped'
    PROVE  sends' = Due(o)
<1>1. o \in Objects
  BY DEF IInv, TypeOK
<1>2. CASE Commands
  <2>1. updateList \subseteq updateList'
    BY <1>2 DEF Commands, OnCmdCharEnterSceneReq, OnCmdPlayerMove, OnCmdLeaveGameReq, SetUpdate
  <2> QED
    BY <2>1
<1>3. CASE \E q \in Objects : HandleUpdateObject(q)
  <2>1. PICK q \in Objects : HandleUpdateObject(q)
    BY <1>3
  <2>2. updateList' = updateList \ {q} /\ ~Dangling
    BY <2>1, TickFrame
  <2>3. q = o /\ CellsChained
    BY <2>2 DEF ListsChained
  <2> QED
    BY <2>1, <2>3, TickTells
<1>4. CASE UNCHANGED vars
  BY <1>4 DEF vars
<1> QED
  BY <1>2, <1>3, <1>4 DEF Next

\* Whatever the players have done, a tick sends to exactly those who see the
\* object it takes, or saw it where it was last sent out from, what is due to
\* each: on every map, from the cells' lists as the commands have left them.
THEOREM SceneTellsWhoSees == Spec => TellsWhoSees
<1>1. Spec => []IInv
  BY SceneInvariant
<1>2. Spec => []ListsChained
  BY SceneCellsChained
<1> DEFINE Tells == \A o \in updateList \ updateList' : ~stopped' => sends' = Due(o)
<1>3. IInv /\ ListsChained /\ [Next]_vars => [Tells]_vars
  BY StepTells
<1>4. Spec => [][Tells]_vars
  <2> HIDE DEF Tells
  <2> QED
    BY <1>1, <1>2, <1>3, PTL DEF Spec
<1> QED
  BY <1>4 DEF TellsWhoSees
=============================================================================
