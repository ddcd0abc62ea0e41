SPECIFICATION GitOpsSpec
CONSTANTS
    Processes <- MCProcesses
    Commits <- MCCommits
    Parent <- MCParent
    Root = "c0"
    Services <- MCServices
    Content <- MCContent
    MaxPushes = 1
    MaxFaults = 1
INVARIANTS
    GitOpsInv
    AppliesOneGoodCommit
PROPERTIES
    StopKillsNoHolder
    StopHonoured
    Converges
CHECK_DEADLOCK FALSE
