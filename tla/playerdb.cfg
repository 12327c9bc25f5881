SPECIFICATION Spec
CONSTANTS
    Names <- MCNames
    MaxRows = 3
    MaxLives = 3
INVARIANTS IndexSound SavedNamesReturn DuplicatesHaveCommas
CHECK_DEADLOCK FALSE
