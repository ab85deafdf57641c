SPECIFICATION FairSpec
CONSTANTS
    Requests = {r1, r2, r3}
    Forwards = {f1}
    Devices = {d1}
    Names = {n1}
    null = null
    UserMgrMax = 2
    MaxPieces = 2
    MaxData = 2
    Refusable = {r3}
    HangingUp = {}
    Unstable = {}
INVARIANTS
    ResponsesWhole
    RequestsForgotten
    BrowserDataInOrder
PROPERTIES
    EveryRequestAnswered
    
