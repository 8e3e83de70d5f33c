\* One child of each kind of shutdown; of its output two pieces are kept, and
\* a panic may be followed by more than that.
CONSTANT Limit = 2
SPECIFICATION FairSpec
INVARIANTS TypeOK DoneMeansReaped ForcedIsReported PanicNotLost EarlyExitIsClean
PROPERTIES StopEnds
