SPECIFICATION Spec
CONSTANTS
    Clients = {c1, c2}
    NoClient = NoClient
    LockTries = 2
    MaxCalls = 2
    MaxRestarts = 1
    MaxKills = 1
    MaxForeign = 1
SYMMETRY ClientSymmetry
INVARIANTS
    TypeOK
    TokenSoundness
    DataMatchesRequest
    StoredInOrder
PROPERTIES
    OnlyHolderDrives
CHECK_DEADLOCK FALSE
