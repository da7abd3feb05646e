SPECIFICATION FairSpec
CONSTANTS
    Clients = {c1, c2}
    NoClient = NoClient
    LockTries = 2
    MaxCalls = 2
    MaxRestarts = 1
    MaxKills = 0
    MaxForeign = 0
INVARIANTS
    SessionUndisturbed
PROPERTIES
    AccessSpec
    LockIsReleased
    RequestsAnswered
CHECK_DEADLOCK FALSE
