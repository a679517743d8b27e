\* One request is enough: its own guard keeps its handler waiting.
CONSTANTS
    Pool = {t1}
    MaxRequests = 1
SPECIFICATION FairSpec
CHECK_DEADLOCK FALSE
PROPERTIES
    LoopKeepsServing
