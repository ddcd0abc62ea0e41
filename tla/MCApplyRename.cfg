SPECIFICATION FairSpec
CONSTANTS
    Scenarios = {"upgrade"}
    Storages = {"none"}
    MaxContent = 1
    LateKinds = {}
    Exits = {}
    Resumable = FALSE
    MaxFaults = 1
PROPERTIES
    RecoveryEnds
CHECK_DEADLOCK FALSE
