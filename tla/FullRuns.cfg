SPECIFICATION FairSpec
CONSTANTS
    RunCount = 3
    Params <- ScanParams
    Values = {0, 1, 2}
    InitConfig <- ScanInit
    RunConfig <- ScanRuns
    Workers = {w1}
    NoConfig = NoConfig
    Partial = Partial
    max_parallel_unpackers = 2
    max_parallel_frackers = 1
    keep_root = FALSE
    Installed = {"unpack", "fracker"}
INVARIANTS
    TypeOK
    DataOfItsRun
PROPERTIES
    HalvesImplemented
    RunsAreDecided
    AcquiredRunsAreProcessed
CHECK_DEADLOCK FALSE
