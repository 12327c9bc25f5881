SPECIFICATION Spec
CONSTANTS
    MaxJoin = 3
    MaxData = 1
    Chunks = 1
    LastSigned = 2
    Bits = 3
    DeferredAborts = TRUE
INVARIANTS TypeOK RosterConsistent MapSendSafe StillListening IdsBookkept ViewsExact
PROPERTIES ImplementsLifecycle
CHECK_DEADLOCK FALSE
