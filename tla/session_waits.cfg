SPECIFICATION Spec
CONSTANTS
    MaxJoin = 2
    MaxData = 0
    Chunks = 1
    LastSigned = 1
    Bits = 2
    DeferredAborts = FALSE
PROPERTIES WaitsForNextStep
CHECK_DEADLOCK FALSE
