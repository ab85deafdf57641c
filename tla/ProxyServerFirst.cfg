SPECIFICATION FairSpec
CONSTANTS
    MaxLocal = 3
    Greeting = 1
INVARIANTS
    NothingLost
    GivenInOrder
PROPERTIES
    LocalDataDelivered
    CloseReachesLocal
CHECK_DEADLOCK FALSE
