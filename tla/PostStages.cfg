SPECIFICATION FairSpec
CONSTANTS
    RunCount = 3
    Content <- OneContent
    NoConfig = NoConfig
    Partial = Partial
    max_parallel_unpackers = 2
    max_parallel_frackers = 2
    keep_root = FALSE
    Installed = {"unpack", "fracker"}
    Programs = {"datenraffinerie", "process-raw-data"}
    RawFiles = {0, 1, 2}
    ConfigFiles = {{0, 1}, {0, 1, 2}}
INVARIANTS
    RunInOnePlace
    FilesOfTasks
    DoneIsDone
PROPERTIES
    ProcessingEnds
CHECK_DEADLOCK FALSE
