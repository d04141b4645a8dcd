SPECIFICATION PSpec
CONSTANTS
    num_inodes = 4
    num_blocks = 5
    DataStart = 1
    num_slots = 2
    N_DIRECT = 2
    PtrsPerBlock = 1
    RawNames = {"a", "b"}
    Cut <- MCCut
    MAX_PATH_LEN = 2
    Depth = 2
    Paths <- MCPaths
INVARIANTS
    FsckAccepts
    CrashKeepsNames
    FsckIsSound
    SpaceComesBack
    SurvivesCrashes
PROPERTY RemountKeepsState
VIEW PersistWithoutReply
