-------------------------------- MODULE Layout --------------------------------
(***************************************************************************)
(* Where things are on an image of n blocks: the sizes mkfs-hw3 computes   *)
(* and writes to the superblock, and what the file system and the checker  *)
(* make of them.  The numbers are those of fsx600.h.                       *)
(***************************************************************************)
EXTENDS Integers

FS_BLOCK_SIZE == 1024
INODES_PER_BLK == FS_BLOCK_SIZE \div 64      \* sizeof(struct fs_inode)
BitsPerBlock == 8 * FS_BLOCK_SIZE

DIV_ROUND_UP(a, b) == (a + b - 1) \div b

\* mkfs-hw3
n_map_blks(n) == DIV_ROUND_UP(n, BitsPerBlock)
n_inos(n) == n \div 4
n_ino_map_blks(n) == DIV_ROUND_UP(n_inos(n), BitsPerBlock)
n_ino_blks(n) == DIV_ROUND_UP(n_inos(n) * 64, FS_BLOCK_SIZE)

inode_map_base == 1
block_map_base(n) == inode_map_base + n_ino_map_blks(n)
inode_base(n) == block_map_base(n) + n_map_blks(n)
rootdir_base(n) == inode_base(n) + n_ino_blks(n)

\* homework.c: the inodes get_next_inode scans, and the blocks of each region
\* as fs_init and update_disk compute them from the superblock.
inodes_scanned(n) == (n_ino_blks(n) * FS_BLOCK_SIZE) \div 64
Region(base, len) == base .. base + len - 1
InodeMapRegion(n) == Region(1, n_ino_map_blks(n))
BlockMapRegion(n) == Region(1 + n_ino_map_blks(n), n_map_blks(n))
InodeRegion(n) == Region(1 + n_ino_map_blks(n) + n_map_blks(n), n_ino_blks(n))

\* fsck.hw3: the first data block, and the bits of the block bitmap it tests
\* for blocks that are marked and not found.
first_data_block(n) == 1 + n_ino_map_blks(n) + n_map_blks(n) + n_ino_blks(n)
BitsTested(n) == first_data_block(n) .. first_data_block(n) + n - 1

-----------------------------------------------------------------------------
(* What the sizes must satisfy. *)

\* Both bitmaps have a bit for everything that is scanned: no test or change
\* of a bit is outside the map (get_next_inode, get_next_block).
MapsCoverScans(n) ==
    /\ inodes_scanned(n) <= n_ino_map_blks(n) * BitsPerBlock
    /\ n <= n_map_blks(n) * BitsPerBlock

\* The image has room for its metadata, the root's inode and its directory
\* block, and every inode mkfs counts is in the region.
RoomForRoot(n) ==
    /\ rootdir_base(n) < n
    /\ inodes_scanned(n) > 1
    /\ n_inos(n) <= inodes_scanned(n)

\* The regions follow each other, from block 1 to the root's block: none is
\* empty, and none shares a block with another.
RegionsAreDisjoint(n) ==
    /\ n_ino_map_blks(n) > 0 /\ n_map_blks(n) > 0 /\ n_ino_blks(n) > 0
    /\ \A b \in InodeMapRegion(n) : b < block_map_base(n)
    /\ \A b \in BlockMapRegion(n) : block_map_base(n) <= b /\ b < inode_base(n)
    /\ \A b \in InodeRegion(n) : inode_base(n) <= b /\ b < rootdir_base(n)
    /\ first_data_block(n) = rootdir_base(n)

\* fsck tests no bit beyond the bitmap, where Python raises IndexError.
FsckStaysInMap(n) == \A b \in BitsTested(n) : b < n_map_blks(n) * BitsPerBlock
=============================================================================
