------------------------------ MODULE TestImage ------------------------------
(***************************************************************************)
(* The image mktest writes, which most tests start from: every piece takes *)
(* the blocks after the piece before it.  Its bytes are not modelled, only *)
(* which block and inode leads where.                                      *)
(***************************************************************************)
EXTENDS Integers, Sequences, FiniteSets

INDIRECT == 256         \* pointers in an indirect block
n_blks == 1024
n_inos == 64
root_blk == 7           \* superblock, two bitmaps, four blocks of inodes

\* Inode numbers, in the order of inum++; -extra puts file.10 before file.270.
root_inum == 1
f1_inode == 2
d1_inode == 3
f2_inode == 4
f3_inode == 5
f4_inode == 6
f10_inum == 7
f5_inode(extra) == IF extra THEN 8 ELSE 7

\* Blocks, in the order of ptr; `end' is the first one not used.
f1_blk == root_blk + 1
d1_blk == f1_blk + 1
f2_blk1 == d1_blk + 1
f2_blk2 == f2_blk1 + 1
f4_indirN == f2_blk2 + 1
f4_blk0 == f4_indirN + 1
f10_indirN == f4_blk0 + 7
f10_blk0 == f10_indirN + 1
f5_indN1(extra) == IF extra THEN f10_blk0 + 10 ELSE f4_blk0 + 7
f5_indN2(extra) == f5_indN1(extra) + 1
f5_indN2_0(extra) == f5_indN2(extra) + 1
f5_blk0(extra) == f5_indN2_0(extra) + 1
end(extra) == f5_blk0(extra) + 270

\* Block k of file.10 is f10_order[k + 1] blocks behind its first.
f10_order == <<5, 0, 7, 1, 9, 4, 3, 2, 8, 6>>

-----------------------------------------------------------------------------
(* What the image holds: of each inode its number, the directory and slot of *)
(* its entry, the entry's isDir bit, its size, its data blocks in the order  *)
(* of its pointers, and the blocks that hold pointers.                       *)

Piece(inum, entry, isDir, size, data, tables) ==
    [inum |-> inum, entry |-> entry, isDir |-> isDir, size |-> size,
     data |-> data, tables |-> tables]

InARow(first, n) == [k \in 1 .. n |-> first + k - 1]

root == Piece(root_inum, <<>>, TRUE, 1024, <<root_blk>>, {})
file_A == Piece(f1_inode, <<root_inum, 1>>, FALSE, 1000, <<f1_blk>>, {})
dir1 == Piece(d1_inode, <<root_inum, 5>>, TRUE, 1024, <<d1_blk>>, {})
file_2 == Piece(f2_inode, <<d1_inode, 3>>, FALSE, 2012, <<f2_blk2, f2_blk1>>, {})
file_0 == Piece(f3_inode, <<d1_inode, 4>>, FALSE, 0, <<>>, {})
file_7 == Piece(f4_inode, <<root_inum, 6>>, FALSE, 6 * 1024 + 500,
                InARow(f4_blk0, 6 + 1), {f4_indirN})
file_10 == Piece(f10_inum, <<root_inum, 12>>, FALSE, 1462 * 7,
                 [k \in 1 .. 10 |-> f10_blk0 + f10_order[k]], {f10_indirN})
file_270(extra) ==
    Piece(f5_inode(extra), <<d1_inode, 6>>, FALSE, 269 * 1024 + 721,
          InARow(f5_blk0(extra), 6 + INDIRECT + 8),
          {f5_indN1(extra), f5_indN2(extra), f5_indN2_0(extra)})

Pieces(extra) ==
    {root, file_A, dir1, file_2, file_0, file_7, file_270(extra)}
        \cup IF extra THEN {file_10} ELSE {}

img_inode_map(extra) == 0 .. f5_inode(extra)
img_block_map(extra) == 0 .. end(extra) - 1

-----------------------------------------------------------------------------

DataOf(x) == {x.data[k] : k \in DOMAIN x.data}

\* The marked blocks are the metadata and the blocks of the inodes, each of
\* which is used once.
BlocksAreExact(extra) ==
    /\ img_block_map(extra) =
          (0 .. root_blk - 1) \cup UNION {x.tables \cup DataOf(x) : x \in Pieces(extra)}
    /\ \A x \in Pieces(extra) :
          /\ DataOf(x) \cap x.tables = {} /\ Cardinality(DataOf(x)) = Len(x.data)
          /\ \A y \in Pieces(extra) \ {x} :
                (x.tables \cup DataOf(x)) \cap (y.tables \cup DataOf(y)) = {}
    /\ end(extra) <= n_blks

\* Every inode marked but 0 is one piece, and every piece but the root has an
\* entry of its own in a directory.
InodesAreExact(extra) ==
    /\ {x.inum : x \in Pieces(extra)} = img_inode_map(extra) \ {0}
    /\ \A x, y \in Pieces(extra) : x # y => x.inum # y.inum /\ x.entry # y.entry
    /\ \A x \in Pieces(extra) \ {root} :
          \E d \in Pieces(extra) : d.isDir /\ d.inum = x.entry[1]
    /\ f5_inode(extra) < n_inos

\* An inode has the data blocks its size takes, as read and write expect.
SizesAreRight(extra) ==
    \A x \in Pieces(extra) : Len(x.data) = (x.size + 1023) \div 1024

\* Both images are in order: the conditions fsck.hw3 checks, and the sizes.
ASSUME TestImagesAreSound ==
    \A extra \in BOOLEAN :
        BlocksAreExact(extra) /\ InodesAreExact(extra) /\ SizesAreRight(extra)
=============================================================================
