SPECIFICATION Spec
CONSTANTS
    Clients = {c1, c2}
    NoClient = NoClient
    LockTries = 2
    MaxCalls = 1
    MaxRestarts = 0
    MaxKills = 0
    MaxForeign = 0
INVARIANTS
    OneLockHolder
CHECK_DEADLOCK FALSE
