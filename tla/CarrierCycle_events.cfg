SPECIFICATION Spec
CONSTANTS
    MaxRevision = 2
    RetryGap = 1
CHECK_DEADLOCK FALSE
INVARIANTS
    PendingEventsKept
