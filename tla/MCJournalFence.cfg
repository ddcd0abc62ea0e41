SPECIFICATION Spec
CONSTANTS
    Processes = {p1, p2}
    Services = {web}
    Owners = {o1}
    None = None
    MaxEpoch = 3
    MaxGeneration = 2
    TxIds = {t1, t2}
    Workloads = {w1}
    Plans = {create}
    Digests = {done}
    Sequences = {1}
SYMMETRY JournalSymmetry
INVARIANTS
    OneLeaseHolder
PROPERTIES
    EpochOrderedWrites
    IndexKeepsBackups
