SPECIFICATION Spec
CONSTANTS
    N_DIRECT = 1
    PtrsPerBlock = 2
    FS_BLOCK_SIZE = 2
    num_blocks = 13
    DataStart = 1
    OtherSets <- SomeOther
    Lens = {1, 2, 3, 6, 15}
    MaxOverwrites = 1
INVARIANTS
    TypeOK
    ReadsBack
    BlocksAreTheFilesOwn
    FreeBlocksAreZero
PROPERTY HandlersImplemented
