SPECIFICATION Spec
CONSTANTS
    MaxFds = 4
    Listener = 1
INVARIANTS
    IndInv
    TableConsistent
    RoomForEveryFd
    ListenerArmed
PROPERTIES
    OpenCloseKeepsOthers
