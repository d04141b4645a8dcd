SPECIFICATION Spec
CONSTANTS
    N_DIRECT = 1
    PtrsPerBlock = 2
    FS_BLOCK_SIZE = 2
    num_blocks = 13
    DataStart = 1
    OtherSets <- NoOther
    Lens = {1, 2, 3, 6, 15}
    MaxOverwrites = 0
PROPERTY TruncateFreesAll
