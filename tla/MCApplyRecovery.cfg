SPECIFICATION FairSpec
CONSTANTS
    Scenarios = {"bootstrap", "adopt", "upgrade"}
    Storages = {"none"}
    MaxContent = 1
    LateKinds = {}
    Exits = {"repl"}
    Resumable = FALSE
    MaxFaults = 5
INVARIANTS
    ServiceSurvives
PROPERTIES
    WedgedIsExact
    ApplyReturns
CHECK_DEADLOCK FALSE
