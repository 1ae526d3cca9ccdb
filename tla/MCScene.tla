------------------------------ MODULE MCScene ------------------------------
(* Scene on a map of 3 rows and 4 columns of cells, around the origin. *)
EXTENDS Scene

MCLeft == -3
MCTop == -1

At(x, z) == [x |-> x, z |-> z]

\* Two spots of one cell, its right neighbour, the cell to the right of that,
\* which is in the last column, a cell of the last row, and a spot beyond the
\* last column, within the edges.
MCPlaces == {At(-3, -1), At(-2, -1), At(-1, -1), At(1, -1), At(-1, 1), At(3, -1)}

Symmetry == Permutations(Players) \cup Permutations(Objects)
=============================================================================
