SPECIFICATION FairSpec
CONSTANTS
    NumBufs = 3
    BufUnits = 2
    InMax = 3
    Sizes = {0, 3, 4}
    MaxMade = 2
    MaxWire = 2
    MaxEvents = 3
INVARIANTS
    HandshakeFirst
    PiecesInOrder
    WriteableArmed
    BuffersConserved
    FramesHandled
PROPERTIES
    Reconnects
    QueueDrains
CHECK_DEADLOCK FALSE
