SPECIFICATION ObsSpec
CONSTANTS
    Producers = {p1, p2}
    Consumers = {c1, c2}
    Items = {x, y}
    NoItem = NoItem
    QSize = 3
    Wrap = 6
    StartIndex = 5
    MaxPush = 3
INVARIANTS IInv IndexOrder CellExclusive
PROPERTIES IsFifo PushFailureHasCause PopFailureHasCause
SYMMETRY Symmetry
