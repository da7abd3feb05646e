SPECIFICATION Spec
CONSTANT Procedures <- MCProcedures
INVARIANTS
    GenerationAsSpecified
    OverlaysAgree
CHECK_DEADLOCK FALSE
