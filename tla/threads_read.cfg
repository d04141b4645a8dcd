SPECIFICATION Spec
CONSTANTS
    t1 = t1
    t2 = t2
    Threads = {t1, t2}
    DirOf <- TwoBlocks
    num_inodes = 6
INVARIANT ReadsWhatItAskedFor
