\* Two workers, two events.
CONSTANTS
    Worker = {w1, w2}
    Kind <- AllKinds
    BatchLimit = 2
    MaxAttempts = 2
    Rooms = {1, 2}
    Named = {1}
    MaxEvents = 2
    MaxDisturbances = 1
SPECIFICATION FairSpec
CHECK_DEADLOCK FALSE
INVARIANTS
    TypeOK
    FamiliesAreChains
    NothingSkipped
PROPERTIES
    EventsSettle
