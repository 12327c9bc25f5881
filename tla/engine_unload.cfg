SPECIFICATION Spec
CONSTANTS
    MaxClients = 1
    MaxLives = 1
    AutoRestart = FALSE
    Disallow = FALSE
INVARIANTS NoUnloadedCode
CHECK_DEADLOCK FALSE
