\* Two requests of one text.
CONSTANTS
    Text = {a}
    MaxJobs = 2
    Workers = 2
    MaxRequests = 2
    MaxVersion = 1
SPECIFICATION FairSpec
CHECK_DEADLOCK FALSE
INVARIANTS
    EventFindsDirective
