SPECIFICATION FairSpec
CONSTANTS
    RunCount = 9
    Params <- ScanParams
    Values = {0, 1, 2, 3, 4}
    InitConfig <- ScanInit
    RunConfig <- ScanRuns
    Workers = {w1, w2}
    Programs = {"datenraffinerie", "acquire-data"}
    Kept = {5}
    NoConfig = NoConfig
INVARIANTS
    AcquiredOnceWithFiles
    NoRunIsSkipped
    MeasuredAsConfiguredInOrder
PROPERTIES
    ConfiguredRunsAreAcquired
CHECK_DEADLOCK FALSE
