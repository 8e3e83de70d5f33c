\* A bundle larger than the pipe, with two updates.
CONSTANTS
    Blocks = 3
    Capacity = 2
    MaxUpdates = 2
SPECIFICATION FairSpec
INVARIANTS IntactOrStopped ReturnsClean
PROPERTIES LinkEnds
CHECK_DEADLOCK FALSE
