SPECIFICATION Spec
CONSTANTS
    num_inodes = 5
    num_blocks = 5
    DataStart = 1
    num_slots = 2
    N_DIRECT = 1
    PtrsPerBlock = 1
    RawNames = {"a", "b", "aL"}
    Cut <- MCCut
    MAX_PATH_LEN = 2
    Depth = 2
    Paths <- MCPaths
INVARIANTS
    TypeOK
    EntriesMatchInodes
    BlocksMatchOwners
    FreeBlocksAreZero
    FreeInodesAreClean
    DirectoriesHaveOneBlock
    NamesAreUnique
    KindsAgree
    TreeIsConnected
VIEW WithoutReply
