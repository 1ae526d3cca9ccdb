SPECIFICATION FairSpec
CONSTANTS
    Producers = {p1, p2}
    Consumers = {c1}
    Items = {x}
    NoItem = NoItem
    QSize = 3
    Wrap = 6
    StartIndex = 5
    MaxPush = 5
PROPERTIES ClaimIsPublished ClaimIsRead
