SPECIFICATION FairSpec
CONSTANTS
    MaxRevision = 2
    RetryGap = 2
CHECK_DEADLOCK FALSE
PROPERTIES
    DrainReturns
