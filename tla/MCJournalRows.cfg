SPECIFICATION Spec
CONSTANTS
    Processes = {p1}
    Services = {web}
    Owners = {o1}
    None = None
    MaxEpoch = 2
    MaxGeneration = 1
    TxIds = {t1, t2}
    Workloads = {w1, w2}
    Plans = {create}
    Digests = {done, undone}
    Sequences = {1, 2}
SYMMETRY JournalSymmetry
INVARIANTS
    JournalValid
PROPERTIES
    AppliedFollowsBase
    SettledForGood
