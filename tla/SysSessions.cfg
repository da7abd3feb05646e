SPECIFICATION FairSpec
CONSTANTS
    Menus = {m1, m2}
    NoMenu = NoMenu
    Contents = {c1, c2}
    NoContent = NoContent
    StartRetries = 2
    WaitCycles = 2
    Pipelined = TRUE
    MaxInits = 3
    MaxRuns = 4
INVARIANTS
    TypeOK
    CoherentConfig
    ClientRunsWithServer
    DataIsOfThisRun
PROPERTIES
    MeasureEnds
CHECK_DEADLOCK FALSE
