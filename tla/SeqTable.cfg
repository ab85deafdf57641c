SPECIFICATION Spec
CONSTANTS
    UserMgrMax = 4
    Owners = {r1, r2}
    null = null
INVARIANTS
    IndInv
    DelNeverThrows
PROPERTIES
    ImplementsMap
