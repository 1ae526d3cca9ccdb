SPECIFICATION ObsSpec
CONSTANTS
    Producers = {p1, p2}
    Consumers = {c1}
    Items = {x}
    NoItem = NoItem
    QSize = 3
    Wrap = 6
    StartIndex = 5
    MaxPush = 3
PROPERTIES PushFailsOnlyWhenFull
