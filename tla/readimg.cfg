SPECIFICATION RSpec
CONSTANTS
    num_inodes = 4
    num_blocks = 4
    DataStart = 1
    num_slots = 2
    N_DIRECT = 1
    PtrsPerBlock = 1
    RawNames = {"a"}
    Cut <- NoCut
    MAX_PATH_LEN = 1
    Paths <- NoPaths
    Images <- MCImages
INVARIANTS
    QueueFits
    ReportIsRight
    LoopMeansSharing
    SilentIfAccepted
PROPERTY Terminates
CHECK_DEADLOCK FALSE
