SPECIFICATION RuntimesFairSpec
CONSTANTS
    Plugins = {"docker", "podman", "containerd"}
    Scopes <- MCScopes
    MaxFaults = 1
    MaxForeign = 1
INVARIANTS
    RuntimesInv
    StopHolds
PROPERTIES
    ImplementsWorkloadContract
    ForeignUntouched
    CallsReturn
CHECK_DEADLOCK FALSE
