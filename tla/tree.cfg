SPECIFICATION Spec
CONSTANTS
    num_inodes = 5
    num_blocks = 4
    DataStart = 1
    num_slots = 2
    N_DIRECT = 1
    PtrsPerBlock = 1
    RawNames = {"a", "b", "aL"}
    Cut <- MCCut
    MAX_PATH_LEN = 2
    Depth = 2
    Paths <- MCPaths
PROPERTY ImplementsTree
VIEW WithoutReply
