\* Two threads in the pool, two requests.
CONSTANTS
    Pool = {t1, t2}
    MaxRequests = 2
SPECIFICATION FairSpec
\* The process ends.
CHECK_DEADLOCK FALSE
INVARIANTS
    TypeOK
    ManifestNeverOverstates
    ClosedAfterWorker
    GuardedRunIsOpen
PROPERTIES
    ForgottenWhenReleased
    ShutdownEnds
