SPECIFICATION Spec
CONSTANTS
    MaxRevision = 3
    MaxSituation = 3
    MaxProgress = 3
    MaxCycles = 1
    MaxFaults = 0
CHECK_DEADLOCK FALSE
INVARIANTS
    CommittedPlanStaysInstalled
