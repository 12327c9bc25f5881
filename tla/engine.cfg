SPECIFICATION FairSpec
CONSTANTS
    MaxClients = 2
    MaxLives = 2
    AutoRestart = TRUE
    Disallow = TRUE
INVARIANTS OneStep AcceptsUntilRefused SocketsOwned
PROPERTIES SigintNoAutoRestart SigintEndsStart EventuallyServed
CHECK_DEADLOCK FALSE
