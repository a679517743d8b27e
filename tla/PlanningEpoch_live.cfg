\* Two triggers, two attempts, a stop, a retry or a release at any point.
SPECIFICATION FairSpec
CONSTANTS
    Event = {e1, e2}
    MaxAttempts = 2
    MaxRevision = 1
    MaxLives = 1
    Reconnects = TRUE
INVARIANTS
    TypeOK
    InFlightStaysQueued
PROPERTIES
    ResultsAreFinal
    TriggersSettle
