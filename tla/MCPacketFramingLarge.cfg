SPECIFICATION LargeSpec
CONSTANTS
    HeaderSize = 2
    BuffSize = 4
    PacketSizes = {3, 10}
    MaxPackets = 2
    MaxBytes = 20
INVARIANT LargeConservation
