SPECIFICATION FairSpec
CONSTANTS
    Publishers = {p1, p2}
    TargetCount = 2
    Responsive = {2}
    QueueDepth = 1
    SinkDepth = 1
    MaxEvents = 2
INVARIANTS
    NoSendOnClosed
    EveryEventAccounted
    PublisherOrderKept
PROPERTIES
    NobodyWaits
    TargetsIsolated
CHECK_DEADLOCK FALSE
