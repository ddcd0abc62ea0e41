SPECIFICATION FilesFairSpec
CONSTANTS
    Writers = {w1, w2}
    Readers = {r1}
    Inodes = {1, 2, 3}
    MaxOpens = 5
    MaxCommits = 2
    MaxCrashes = 1
INVARIANTS
    FilesInv
    ImmutableReaderIsCurrent
PROPERTIES
    OpenReturns
CHECK_DEADLOCK FALSE
