SPECIFICATION OrderlySpec
CONSTANTS
    num_inodes = 4
    num_blocks = 4
    DataStart = 1
    num_slots = 2
    N_DIRECT = 3
    PtrsPerBlock = 1
    RawNames = {"a", "b"}
    Cut <- MCCut
    MAX_PATH_LEN = 2
    Depth = 2
    Paths <- MCPaths
PROPERTY NewDirectoryIsBlank
