SPECIFICATION Spec
CONSTANTS
    Scenarios = {"upgrade"}
    Storages = {"none", "shared", "private"}
    MaxContent = 3
    LateKinds = {"stop", "pull", "rename", "create", "restore", "start", "remove",
                 "discard", "reverse_rename", "restore_start"}
    Exits = {"pred", "repl"}
    Resumable = TRUE
    MaxFaults = 5
INVARIANTS
    StartsOnRestoredContent
    NeverBothRunning
CHECK_DEADLOCK FALSE
