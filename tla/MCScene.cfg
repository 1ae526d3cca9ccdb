SPECIFICATION Spec
CONSTANTS
    Left <- MCLeft
    Right = 3
    Top <- MCTop
    Bottom = 3
    CellSize = 2
    Players = {p1, p2}
    Objects = {o1, o2, o3}
    NULL = NULL
    Places <- MCPlaces
    FreshStatus = {"None", "Update", "New", "Delete"}
SYMMETRY Symmetry
CHECK_DEADLOCK FALSE
INVARIANTS TypeOK ListsHoldThePlayers HeapSound ChangesAreListed LastRowStops
PROPERTY TellsWhoSees
