SPECIFICATION FairSpec
CONSTANTS
    MaxRevision = 3
    RetryGap = 2
CHECK_DEADLOCK FALSE
INVARIANTS
    TypeOK
    EpochHasCycle
    LocalMailboxIsWatched
    EventsKeptWhenOffered
PROPERTIES
    CyclesMoveForward
    CyclesEnd
    DrainReturnsOrIsRefused
