SPECIFICATION ImagesSpec
CONSTANTS
    Digests <- MCDigests
    Document <- MCDocument
    Roots <- MCRoots
    Platform = "amd64"
    Archives <- MCArchives
    Archive <- MCArchive
    Selector <- MCSelector
    MaxMoves = 2
    MaxFaults = 1
INVARIANTS
    ImagesInv
    AnalysisIsOneImage
    AnswersAreProved
    UserIsOfTheImage
PROPERTIES
    CommandsReturn
CHECK_DEADLOCK FALSE
