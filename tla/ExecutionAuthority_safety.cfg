SPECIFICATION FairSpec
CONSTANTS
    MaxRevision = 3
    MaxSituation = 3
    MaxProgress = 2
    MaxCycles = 2
    MaxFaults = 1
CHECK_DEADLOCK FALSE
INVARIANTS
    TypeOK
    AuditTracksExecution
    SemanticHasEpoch
    CurrentIsDurable
    CommittedCycleProjects
PROPERTIES
    ProgressIsKept
    SemanticNeverRecovers
    KeepsLedger
    CycleEnds
    StepsEnd
