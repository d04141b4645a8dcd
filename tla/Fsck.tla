--------------------------------- MODULE Fsck ---------------------------------
(***************************************************************************)
(* The offline checker, fsck.hw3: what it walks and when it prints DISK    *)
(* FORMAT OK.  It reads the bitmaps, inodes and blocks of an image, which  *)
(* are the variables of Directory here.  An image on which Python raises   *)
(* an exception, as for a directory whose inode is none, is not accepted.  *)
(***************************************************************************)
EXTENDS Directory

\* The entries in the blocks of a set of inodes.
EntriesOf(S) == {ds \in S \X Slots : EntryAt(ds).valid}

\* dir_iter follows the isDir bit of an entry, not the mode of its inode.
\* The directories it visits are the least set with the root that has what
\* its entries marked isDir lead to.
Closed(S) ==
    /\ ROOT_INODE \in S
    /\ \A ds \in EntriesOf(S) : EntryAt(ds).isDir => EntryAt(ds).inode \in S

DirsVisited == {i \in Inodes : \A S \in SUBSET Inodes : Closed(S) => i \in S}
EntriesSeen == EntriesOf(DirsVisited)

found_inodes == {ROOT_INODE} \cup {EntryAt(ds).inode : ds \in EntriesSeen}
found_blocks == UNION {Held(i) : i \in found_inodes}

\* A visited inode is a directory (the assertion) with a block to read.
DirectoriesReadable == \A i \in DirsVisited : S_ISDIR(mode[i]) /\ direct0[i] # 0

InodesMarked == \A ds \in EntriesSeen : EntryAt(ds).inode \in inode_map

InodesUsedOnce ==
    /\ \A ds \in EntriesSeen : EntryAt(ds).inode # ROOT_INODE
    /\ \A ds, et \in EntriesSeen : EntryAt(ds).inode = EntryAt(et).inode => ds = et

\* Faulty variant: the bit of a block is not tested.
BlocksMarked_not ==
    \A ds \in EntriesSeen : \A b \in Held(EntryAt(ds).inode) : b >= DataStart

\* The root's own blocks are entered in found_blocks without a test.
BlocksMarked ==
    \A ds \in EntriesSeen :
        \A b \in Held(EntryAt(ds).inode) : b \in block_map /\ b >= DataStart

BlocksUsedOnce ==
    /\ \A i, j \in found_inodes : i # j => Held(i) \cap Held(j) = {}
    /\ \A ds \in EntriesSeen :
          LET i == EntryAt(ds).inode IN direct0[i] \notin rest[i]

MetadataMarked == 0 .. DataStart - 1 \subseteq block_map

\* Faulty variant: blocks in use that no file has are not reported.
MarkedAreFound_inodes == inode_map \ {0} \subseteq found_inodes

\* "marked used but not found", for blocks and for inodes.
MarkedAreFound ==
    /\ block_map \cap DataBlocks \subseteq found_blocks
    /\ inode_map \ {0} \subseteq found_inodes

\* No failure was recorded.
DiskFormatOK ==
    /\ DirectoriesReadable
    /\ InodesMarked
    /\ InodesUsedOnce
    /\ BlocksMarked
    /\ BlocksUsedOnce
    /\ MetadataMarked
    /\ MarkedAreFound
=============================================================================
