SPECIFICATION Spec
CONSTANTS
    Requests = {r1}
    Forwards = {f1}
    Devices = {d1}
    Names = {n1}
    null = null
    UserMgrMax = 3
    MaxPieces = 2
    MaxData = 1
    Refusable = {}
    HangingUp = {f1}
    Unstable = {}
INVARIANTS
    ForgottenWhenOver
