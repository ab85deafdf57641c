SPECIFICATION Spec
CONSTANTS
    Requests = {r1, r2}
    Forwards = {}
    Devices = {d1}
    Names = {n1}
    null = null
    UserMgrMax = 3
    MaxPieces = 2
    MaxData = 0
    Refusable = {r1}
    HangingUp = {}
    Unstable = {}
INVARIANTS
    FramesDoNotOverlap
