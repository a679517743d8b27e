\* One trigger over two revisions and three stops, retries or releases.
SPECIFICATION Spec
CONSTANTS
    Event = {e1}
    MaxAttempts = 2
    MaxRevision = 2
    MaxLives = 3
    Reconnects = TRUE
INVARIANTS
    RetryStateDurable
    CommittedOnce
    DeadLetterRetryable
PROPERTIES
    DeadLetterIsSticky
    KeepsLedger
