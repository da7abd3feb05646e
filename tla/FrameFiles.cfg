SPECIFICATION Spec
CONSTANTS
    Paths = {"a", "b", "m"}
    Groups = {"data", "else"}
    Types = {"int", "float"}
    Names = {"this", "that", "other", "long"}
    Layouts <- MCLayouts
    StringSize = 8
    MaxRows = 2
    MaxMerged = 4
    Lockstep = TRUE
INVARIANTS
    FrameOK
    AxisIsIndex
CHECK_DEADLOCK FALSE
