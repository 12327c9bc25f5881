SPECIFICATION FairSpec
CONSTANTS
    MaxJoin = 2
    MaxData = 2
    Chunks = 2
    LastSigned = 0
    Bits = 2
    DeferredAborts = FALSE
INVARIANTS HandlersOwned
PROPERTIES EventuallyReaped MapSendEnds
CHECK_DEADLOCK FALSE
