------------------------------ MODULE MCReadImg ------------------------------
(* ReadImg on every small image of one shape: the root, an inode that may   *)
(* be a directory, a file, and entries that lead anywhere, also outside.    *)
EXTENDS ReadImg, TestImage

NoCut == [n \in RawNames |-> n]
NoPaths == {<<"a">>}

Outside == num_inodes + 1

SomeSlots ==
    {Zero, Entry("a", Outside, TRUE)} \cup
        {Entry("a", j, d) : j \in {1, 2, 3}, d \in BOOLEAN}

SomeBlocks == [Slots -> SomeSlots]

Image(marked, bmarked, m2, b1, b2) ==
    [inode_map |-> {0, 1} \cup marked,
     block_map |-> {0, 1} \cup bmarked,
     mode |-> [j \in Inodes |-> IF j = 0 THEN {}
                                ELSE IF j = 1 THEN {IFDIR}
                                ELSE IF j = 2 THEN {m2} ELSE {IFREG}],
     direct0 |-> [j \in Inodes |-> j],
     rest |-> [j \in Inodes |-> {}],
     disk |-> [b \in 0 .. num_blocks - 1 |->
                  IF b = 0 THEN SuperBlock ELSE IF b = 1 THEN b1
                  ELSE IF b = 2 /\ m2 = IFDIR THEN b2 ELSE FileBlock]]

\* What the second block holds counts only if it is a directory's.
MCImages ==
    {Image(marked, bmarked, IFDIR, b1, b2) :
        marked \in SUBSET {2, 3}, bmarked \in {{2}, {2, 3}}, b1, b2 \in SomeBlocks}
    \cup
    {Image(marked, bmarked, IFREG, b1, ZeroBlock) :
        marked \in SUBSET {2, 3}, bmarked \in {{2}, {2, 3}}, b1 \in SomeBlocks}
=============================================================================
