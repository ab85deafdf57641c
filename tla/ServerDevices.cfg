SPECIFICATION Spec
CONSTANTS
    Requests = {r1}
    Forwards = {f1}
    Devices = {d1, d2}
    Names = {n1, n2}
    null = null
    UserMgrMax = 2
    MaxPieces = 2
    MaxData = 1
    Refusable = {}
    HangingUp = {f1}
    Unstable = {d1}
INVARIANTS
    
    WaitingIsFound
    
