SPECIFICATION FairSpec
CONSTANTS
    ChunkSize = 4
    ZippedSizes = {4, 10}
    Character <- MCCharacter
    Width = 5
    MaxLines = 4
    Space = " "
    Separator <- MCSeparator
    Player = {1, 2}
    Name <- MCName
    Axes = {"x", "z"}
    Wide = 16
    Narrow = 4
    Angles = {0, 1}
    Places <- MCPlaces
    MapSpawn <- MCSpawn
    Messages <- MCMessages
    MaxMoves = 2
    MaxChats = 1
INVARIANTS MapWhole DriftWhole FacingShown ChatKept
PROPERTIES StepsShown ChatEnds
CHECK_DEADLOCK FALSE
