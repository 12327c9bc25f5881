SPECIFICATION FairSpec
CONSTANTS
    Thread = {"server", "heart"}
    Nobody = "nobody"
    MaxCalls <- MCMaxCalls
    MaxWrites = 1
    MaxRaw = 1
    MaxBeats = 4
    MaxRestarts = 2
INVARIANTS LinesWhole StampsOwn OneOverwritePerLife
PROPERTIES LogEnds
CHECK_DEADLOCK FALSE
