SPECIFICATION Spec
CONSTANTS
    HeaderSize = 2
    BuffSize = 6
    PacketSizes = {2, 3, 5}
    MaxPackets = 4
    MaxBytes = 20
INVARIANTS IInv RoomToReceive NothingWithheld
CHECK_DEADLOCK FALSE
