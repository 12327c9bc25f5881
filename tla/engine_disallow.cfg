SPECIFICATION Spec
CONSTANTS
    MaxClients = 2
    MaxLives = 1
    AutoRestart = FALSE
    Disallow = TRUE
INVARIANTS AlwaysAccepting
CHECK_DEADLOCK FALSE
