SPECIFICATION Spec
CONSTANTS
    MaxJoin = 1
    MaxData = 0
    Chunks = 2
    LastSigned = 1
    Bits = 2
    DeferredAborts = FALSE
INVARIANTS NoAssertFails
CHECK_DEADLOCK FALSE
