\* Up to four threads on ranges of up to nine items.
SPECIFICATION FairSpec
CONSTANTS
    Bounds <- SmallBounds
    MaxThreads = 4
    MinItems = 1
    StartMayFail = TRUE
INVARIANTS TypeOK NoSharedItem CompleteOnReturn
PROPERTY Returns
CHECK_DEADLOCK FALSE
