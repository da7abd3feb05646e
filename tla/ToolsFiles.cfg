SPECIFICATION ToolsSpec
CONSTANTS
    HalfChannels = 2
    MaxRoc = 5
    Registers <- MCRegisters
    BlockOrder <- MCBlockOrder
    hw_prefix <- MChw_prefix
    column_type <- MCcolumn_type
    Jobs <- MCJobs
    MaxJobs = 2
    yamls <- MCyamls
    roots <- MCroots
    Paths <- MCPaths
    updated <- MCupdated
    UpdateThrown <- MCUpdateThrown
    Merges <- MCMerges
    MaxMerges = 1
INVARIANTS
    FrackedFile
    ConfigOfItsChannel
PROPERTIES
    MergedFile
CHECK_DEADLOCK FALSE
