SPECIFICATION Spec
CONSTANTS
    num_inodes = 4
    num_blocks = 5
    DataStart = 1
    num_slots = 2
    N_DIRECT = 1
    PtrsPerBlock = 1
    RawNames = {"a", "b"}
    Cut <- MCCut
    MAX_PATH_LEN = 1
    Depth = 2
    Paths <- MCPaths
INVARIANT EntriesMatchInodes
