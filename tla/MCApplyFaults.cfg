SPECIFICATION Spec
CONSTANTS
    Scenarios = {"bootstrap", "adopt", "upgrade"}
    Storages = {"none"}
    MaxContent = 1
    LateKinds = {"pull", "rename", "create", "restore", "start", "remove",
                 "discard", "reverse_rename", "restore_start"}
    Exits = {"repl"}
    Resumable = FALSE
    MaxFaults = 6
INVARIANTS
    ApplyInv
    FailedMeansRestored
    SucceededMeansDeployed
CHECK_DEADLOCK FALSE
