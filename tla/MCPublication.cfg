SPECIFICATION PublicationSpec
CONSTANTS
    Publishers = {p1, p2}
    Manifests = {m1, m2}
    Shapes = {{m1}, {m2}}
    NoBackup = NoBackup
    ArtifactCount = 1
    MaxDirectories = 3
    MaxRoots = 2
    MaxFailures = 1
    MaxDisasters = 1
    Disasters = {"crash", "power", "replace", "chmod", "spoil"}
SYMMETRY Symmetry
INVARIANTS
    PublicationInv
    PublishedIsDurable
PROPERTIES
    ImplementsBackupSlot
CHECK_DEADLOCK FALSE
