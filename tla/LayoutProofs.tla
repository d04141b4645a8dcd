----------------------------- MODULE LayoutProofs -----------------------------
(* Proofs about Layout, for images of every size. *)
EXTENDS Layout, TLAPS

\* Rounding up to the two sizes in use: enough buckets, and none too many.
LEMMA RoundUp ==
    ASSUME NEW a \in Nat, NEW b \in {BitsPerBlock, FS_BLOCK_SIZE}
    PROVE  /\ DIV_ROUND_UP(a, b) \in Nat
           /\ a <= DIV_ROUND_UP(a, b) * b
           /\ DIV_ROUND_UP(a, b) * b < a + b
<1>1. CASE b = BitsPerBlock
  <2>1. DIV_ROUND_UP(a, b) = (a + 8191) \div 8192
    BY <1>1 DEF DIV_ROUND_UP, BitsPerBlock, FS_BLOCK_SIZE
  <2> QED
    BY <1>1, <2>1 DEF BitsPerBlock, FS_BLOCK_SIZE
<1>2. CASE b = FS_BLOCK_SIZE
  <2>1. DIV_ROUND_UP(a, b) = (a + 1023) \div 1024
    BY <1>2 DEF DIV_ROUND_UP, FS_BLOCK_SIZE
  <2> QED
    BY <1>2, <2>1 DEF FS_BLOCK_SIZE
<1> QED
  BY <1>1, <1>2

\* The sizes mkfs computes for n blocks, bounded on both sides: m blocks of
\* block bitmap, s inodes, im blocks of inode bitmap, ib blocks of inodes.
Bounds(n, m, s, im, ib) ==
    /\ m \in Nat /\ s \in Nat /\ im \in Nat /\ ib \in Nat
    /\ n <= m * 8192 /\ m * 8192 < n + 8192
    /\ s * 4 <= n /\ n < s * 4 + 4
    /\ s <= im * 8192 /\ im * 8192 < s + 8192
    /\ s * 64 <= ib * 1024 /\ ib * 1024 < s * 64 + 1024

\* What follows from the bounds alone.
LEMMA Arithmetic ==
    ASSUME NEW n \in Nat, NEW m, NEW s, NEW im, NEW ib, Bounds(n, m, s, im, ib)
    PROVE  /\ ib * 16 <= im * 8192
           /\ s <= ib * 16
           /\ n >= 5 => m > 0 /\ im > 0 /\ ib > 0 /\ 1 + im + m + ib < n
           /\ ib > 0 => m > 0 /\ im > 0
           /\ n > 0 /\ n % 8192 = 0 => m * 8192 = n /\ 1 + im + m + ib <= n
<1> USE DEF Bounds
<1>1. ib * 16 <= im * 8192
  OBVIOUS
<1>2. s <= ib * 16
  OBVIOUS
<1>3. n >= 5 => m > 0 /\ im > 0 /\ ib > 0
  OBVIOUS
<1>4. n >= 5 => 1 + im + m + ib < n
  OBVIOUS
<1>5. ib > 0 => m > 0 /\ im > 0
  OBVIOUS
<1>6. n > 0 /\ n % 8192 = 0 => m * 8192 = n
  OBVIOUS
<1>7. n > 0 /\ n % 8192 = 0 => n >= 5
  OBVIOUS
<1>8. n >= 5 => 1 + im + m + ib <= n
  BY <1>4
<1> QED
  BY <1>1, <1>2, <1>3, <1>4, <1>5, <1>6, <1>7, <1>8

\* mkfs computes such sizes.
LEMMA Sizes ==
    ASSUME NEW n \in Nat
    PROVE  Bounds(n, n_map_blks(n), n_inos(n), n_ino_map_blks(n), n_ino_blks(n))
<1>1. n_inos(n) \in Nat /\ n_inos(n) * 4 <= n /\ n < n_inos(n) * 4 + 4
  BY DEF n_inos
<1>2. BitsPerBlock = 8192 /\ FS_BLOCK_SIZE = 1024
  BY DEF BitsPerBlock, FS_BLOCK_SIZE
<1>3. /\ n_map_blks(n) \in Nat
      /\ n <= n_map_blks(n) * 8192 /\ n_map_blks(n) * 8192 < n + 8192
  BY <1>2, RoundUp DEF n_map_blks
<1>4. /\ n_ino_map_blks(n) \in Nat
      /\ n_inos(n) <= n_ino_map_blks(n) * 8192
      /\ n_ino_map_blks(n) * 8192 < n_inos(n) + 8192
  BY <1>1, <1>2, RoundUp DEF n_ino_map_blks
<1>5. /\ n_ino_blks(n) \in Nat
      /\ n_inos(n) * 64 <= n_ino_blks(n) * 1024
      /\ n_ino_blks(n) * 1024 < n_inos(n) * 64 + 1024
  <2>1. n_inos(n) * 64 \in Nat
    BY <1>1
  <2> QED
    BY <1>2, <2>1, RoundUp DEF n_ino_blks
<1> QED
  BY <1>1, <1>3, <1>4, <1>5 DEF Bounds

\* The number of inodes the file system scans is 16 for each block.
LEMMA Scanned ==
    ASSUME NEW n \in Nat
    PROVE  inodes_scanned(n) = n_ino_blks(n) * 16
<1>1. n_ino_blks(n) \in Nat
  BY Sizes DEF Bounds
<1>2. inodes_scanned(n) = (n_ino_blks(n) * 1024) \div 64
  BY DEF inodes_scanned, FS_BLOCK_SIZE
<1>3. \A k \in Nat : (k * 1024) \div 64 = k * 16
  OBVIOUS
<1> QED
  BY <1>1, <1>2, <1>3

\* The root's directory comes after all regions, for mkfs and for fsck.
LEMMA RootBase ==
    ASSUME NEW n \in Nat
    PROVE  /\ rootdir_base(n) = 1 + n_ino_map_blks(n) + n_map_blks(n) + n_ino_blks(n)
           /\ first_data_block(n) = rootdir_base(n)
BY Sizes DEF Bounds, rootdir_base, inode_base, block_map_base, inode_map_base,
             first_data_block

\* On every image each bitmap has a bit for all that get_next_inode and
\* get_next_block scan.
THEOREM BitmapsCoverScans ==
    ASSUME NEW n \in Nat
    PROVE  MapsCoverScans(n)
<1>1. n_ino_blks(n) * 16 <= n_ino_map_blks(n) * 8192
  BY Sizes, Arithmetic
<1>2. n <= n_map_blks(n) * 8192
  BY Sizes DEF Bounds
<1> QED
  BY <1>1, <1>2, Scanned DEF MapsCoverScans, BitsPerBlock, FS_BLOCK_SIZE

\* An image has room for its root exactly from five blocks on, which mkfs
\* does not check.
THEOREM FiveBlocksSuffice ==
    ASSUME NEW n \in Nat, n > 0
    PROVE  RoomForRoot(n) <=> n >= 5
<1>1. PICK m, s, im, ib :
          /\ Bounds(n, m, s, im, ib)
          /\ s = n_inos(n) /\ ib = n_ino_blks(n)
          /\ rootdir_base(n) = 1 + im + m + ib
  BY Sizes, RootBase
<1>2. s <= ib * 16 /\ (n >= 5 => m > 0 /\ im > 0 /\ ib > 0 /\ 1 + im + m + ib < n)
  BY <1>1, Arithmetic
<1>3. ASSUME n >= 5 PROVE RoomForRoot(n)
  BY <1>1, <1>2, <1>3, Scanned DEF RoomForRoot, Bounds
<1>4. ASSUME RoomForRoot(n) PROVE n >= 5
  <2>1. ib > 0 /\ 1 + im + m + ib < n
    BY <1>1, <1>4, Scanned DEF RoomForRoot, Bounds
  <2>2. m > 0 /\ im > 0
    BY <1>1, <2>1, Arithmetic
  <2> QED
    BY <1>1, <2>1, <2>2 DEF Bounds
<1> QED
  BY <1>3, <1>4

\* From five blocks on, the regions that fs_init reads and update_disk
\* writes are disjoint and where mkfs put them.
THEOREM NoRegionOverlaps ==
    ASSUME NEW n \in Nat, n >= 5
    PROVE  RegionsAreDisjoint(n)
<1>1. /\ n_map_blks(n) \in Nat /\ n_ino_map_blks(n) \in Nat /\ n_ino_blks(n) \in Nat
      /\ n_ino_map_blks(n) > 0 /\ n_map_blks(n) > 0 /\ n_ino_blks(n) > 0
  <2>1. /\ n_map_blks(n) \in Nat /\ n_ino_map_blks(n) \in Nat /\ n_ino_blks(n) \in Nat
    BY Sizes DEF Bounds
  <2>2. n_ino_map_blks(n) > 0 /\ n_map_blks(n) > 0 /\ n_ino_blks(n) > 0
    BY Sizes, Arithmetic
  <2> QED
    BY <2>1, <2>2
<1>2. \A b \in InodeMapRegion(n) : b < block_map_base(n)
  BY <1>1 DEF InodeMapRegion, Region, block_map_base, inode_map_base
<1>3. \A b \in BlockMapRegion(n) : block_map_base(n) <= b /\ b < inode_base(n)
  BY <1>1 DEF BlockMapRegion, Region, inode_base, block_map_base, inode_map_base
<1>4. \A b \in InodeRegion(n) : inode_base(n) <= b /\ b < rootdir_base(n)
  BY <1>1 DEF InodeRegion, Region, rootdir_base, inode_base, block_map_base, inode_map_base
<1> QED
  BY <1>1, <1>2, <1>3, <1>4, RootBase DEF RegionsAreDisjoint

\* The checker's last scan leaves the bitmap on an image whose bitmap is
\* full, such as one of 8 MB.
THEOREM FsckLeavesMap ==
    ASSUME NEW n \in Nat, n > 0, n % BitsPerBlock = 0
    PROVE  ~FsckStaysInMap(n)
<1>1. PICK m, s, im, ib :
          /\ Bounds(n, m, s, im, ib)
          /\ m = n_map_blks(n)
          /\ first_data_block(n) = 1 + im + m + ib
  BY Sizes, RootBase
<1>2. m * 8192 = n /\ 1 + im + m + ib <= n
  BY <1>1, Arithmetic DEF BitsPerBlock, FS_BLOCK_SIZE
<1>3. n \in BitsTested(n)
  BY <1>1, <1>2 DEF BitsTested, Bounds
<1> QED
  BY <1>1, <1>2, <1>3 DEF FsckStaysInMap, BitsPerBlock, FS_BLOCK_SIZE
=============================================================================
