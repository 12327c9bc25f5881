SPECIFICATION ForeverSpec
CONSTANTS
    MaxTasks = 3
    Delay = {0, 2}
    Shift = 1
    MaxTime = 2
INVARIANTS TypeOK SleepBounded
PROPERTIES InOrder NeverEarly SigintStops ImplementsOneShot EventuallyTaken
CHECK_DEADLOCK FALSE
