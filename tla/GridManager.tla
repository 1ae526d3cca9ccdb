----------------------------- MODULE GridManager -----------------------------
(***************************************************************************)
(* The geometry of a scene (Server/GameServer/GridManager.cpp): the map    *)
(* is cut into square cells, kept row by row in one vector, and what       *)
(* happens in a cell concerns the players of that cell and of those        *)
(* around it.                                                              *)
(*                                                                         *)
(* A position has whole coordinates; an array that ends with -1 is the     *)
(* sequence of what stands before the first -1.                            *)
(***************************************************************************)
EXTENDS Integers, Sequences

CONSTANTS Left, Right, Top, Bottom,  \* the edges of the map
          CellSize

ASSUME GridAssumption ==
    /\ Left \in Int /\ Right \in Int /\ Left <= Right
    /\ Top \in Int /\ Bottom \in Int /\ Top <= Bottom
    /\ CellSize \in Nat \ {0}

MaxRows == (Bottom - Top) \div CellSize + 1
MaxCols == (Right - Left) \div CellSize + 1

\* The cells of the vector, and -1 for a place off the map.
Cells == 0 .. MaxRows * MaxCols - 1

RowOf(n) == n \div MaxCols
ColOf(n) == n % MaxCols

\* Variants named as in NetEngine.
GetIndexByPosFromZero(pos) ==
    IF pos.z \in Top .. Bottom /\ pos.x \in Left .. Right
    THEN ((pos.z - Top) \div CellSize) * MaxCols + (pos.x - Left) \div CellSize
    ELSE -1

\* Rows and columns are counted from 1 here, although the vector starts with
\* row 0 and column 0.
GetIndexByPos(pos) ==
    LET row == (pos.z - Top) \div CellSize + 1
        col == (pos.x - Left) \div CellSize + 1
    IN  IF /\ pos.z \in Top .. Bottom /\ pos.x \in Left .. Right
           /\ row < MaxRows /\ col < MaxCols
        THEN row * MaxCols + col
        ELSE -1

\* Three rows of the cell itself and its neighbours: the first column has none
\* on its left and the last none on its right, but the last row has one below.
GetSurroundingGrids(n) ==
    LET first == IF ColOf(n) = 0 THEN 0 ELSE -1
        width == IF ColOf(n) = 0 \/ (n + 1) % MaxCols = 0 THEN 2 ELSE 3
    IN  [i \in 1 .. 3 * width |->
            (RowOf(n) - 1 + (i - 1) \div width) * MaxCols + ColOf(n) + first + ((i - 1) % width)]

\* A round of CalDiffGrids, after i cells of one array and j of the other: the
\* lower of the next two is in one of them only.
Round(s, d, r) ==
    LET atS == r.i + 1
        atD == r.j + 1
    IN  CASE atS > Len(s) /\ atD > Len(d) -> r
          [] atS <= Len(s) /\ atD <= Len(d) /\ s[atS] = d[atD] ->
                 [r EXCEPT !.i = atS, !.j = atD, !.stay = Append(@, s[atS])]
          [] atS <= Len(s) /\ (atD > Len(d) \/ s[atS] < d[atD]) ->
                 [r EXCEPT !.i = atS, !.dec = Append(@, s[atS])]
          [] atD <= Len(d) /\ (atS > Len(s) \/ d[atD] < s[atS]) ->
                 [r EXCEPT !.j = atD, !.inc = Append(@, d[atD])]

\* One pass over two sorted arrays of cells tells which are in the second
\* only, in the first only, and in both.
Merge(s, d) ==
    LET size == Len(s) + Len(d)
        rounds[k \in 0 .. size] ==
            IF k = 0 THEN [i |-> 0, j |-> 0, inc |-> <<>>, dec |-> <<>>, stay |-> <<>>]
            ELSE Round(s, d, rounds[k - 1])
    IN  rounds[size]

CalDiffGridsSwapped(src, dst) == Merge(GetSurroundingGrids(dst), GetSurroundingGrids(src))

\* The cells a move gains, loses and keeps in sight.
CalDiffGrids(src, dst) == Merge(GetSurroundingGrids(src), GetSurroundingGrids(dst))
-----------------------------------------------------------------------------
\* What the cells around a cell are meant to be.
InSight(m, n) == RowOf(m) - RowOf(n) \in -1 .. 1 /\ ColOf(m) - ColOf(n) \in -1 .. 1
=============================================================================
