\* Three requests of two texts in a queue of two jobs, two threads.
CONSTANTS
    Text = {a, b}
    MaxJobs = 2
    Workers = 2
    MaxRequests = 3
    MaxVersion = 2
SPECIFICATION FairSpec
\* A closed queue comes to rest.
CHECK_DEADLOCK FALSE
INVARIANTS
    TypeOK
    TasksHaveJobs
    AppliedAtMostOnce
PROPERTIES
    JobsSettle
