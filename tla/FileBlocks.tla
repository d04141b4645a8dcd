------------------------------ MODULE FileBlocks ------------------------------
(***************************************************************************)
(* One regular file, byte by byte: fs_write, fs_read and fs_truncate of    *)
(* homework.c with the pointers direct[], indir_1 and indir_2, the block   *)
(* bitmap and the blocks on disk.  Another file of the same disk holds     *)
(* blocks of its own and is truncated at some point.                       *)
(*                                                                         *)
(* The loops of the code are recursive functions over the turns of the     *)
(* loop; a record holds the local variables they change.                   *)
(***************************************************************************)
EXTENDS Integers, Sequences, FiniteSets

CONSTANTS
    N_DIRECT,       \* direct pointers: 6
    PtrsPerBlock,   \* pointers in an indirect block: 256
    FS_BLOCK_SIZE,  \* bytes in a block: 1024
    num_blocks,     \* sb.num_blocks
    DataStart,      \* blocks of metadata; the root directory has the next
    OtherSets,      \* sets of blocks the other file may hold at first
    Lens,           \* bound: the numbers of bytes a write may be given
    MaxOverwrites   \* bound: calls of write that start before the end

ASSUME SizesAssumption ==
    /\ N_DIRECT \in Nat /\ N_DIRECT > 0
    /\ PtrsPerBlock \in Nat /\ PtrsPerBlock > 0
    /\ FS_BLOCK_SIZE \in Nat /\ FS_BLOCK_SIZE > 0
    /\ DataStart \in Nat /\ DataStart > 0
    /\ num_blocks \in Nat /\ num_blocks > DataStart
    /\ OtherSets \subseteq SUBSET (DataStart + 1 .. num_blocks - 1)
    /\ Lens \subseteq Nat \ {0}
    /\ MaxOverwrites \in Nat

VARIABLES
    block_map,      \* blocks whose bit is set
    disk,           \* the blocks, each seen as bytes and as pointers
    direct, indir_1, indir_2, size,     \* the file's inode
    other,          \* blocks of the other file
    contents,       \* history: the bytes the file should hold
    overwrites,     \* history: calls of write that started before the end
    ret             \* what the last call returned

vars == <<block_map, disk, direct, indir_1, indir_2, size, other,
          contents, overwrites, ret>>

-----------------------------------------------------------------------------

OK == 0
EINVAL == -22
ENOSPC == -28

Blocks == 0 .. num_blocks - 1
Ptrs == 1 .. PtrsPerBlock
Bytes == 1 .. FS_BLOCK_SIZE
Metadata == 0 .. DataStart      \* with the root directory's block

\* The bytes a file can have.
MaxSize == FS_BLOCK_SIZE * (N_DIRECT + PtrsPerBlock + PtrsPerBlock * PtrsPerBlock)

\* The byte a caller writes to position x of the file (from 0): an append
\* and an overwrite write different ones.  0 is what a zeroed block holds,
\* -1 what the metadata does.
Byte(x, appends) == 2 * (x + 1) + IF appends THEN 0 ELSE 1

ZeroBlock == [bytes |-> [j \in Bytes |-> 0], ptrs |-> [k \in Ptrs |-> 0]]
SystemBlock == [bytes |-> [j \in Bytes |-> -1], ptrs |-> [k \in Ptrs |-> 0]]

Smaller(a, b) == IF a < b THEN a ELSE b
Larger(a, b) == IF a < b THEN b ELSE a

\* Faulty variant: the scan runs one block too far.
Free_past(map) == (0 .. num_blocks) \ map

\* The blocks the scan of get_next_block may stop at.
Free(map) == Blocks \ map
get_next_block(map) == CHOOSE b \in Free(map) : \A c \in Free(map) : b <= c

\* The pointers of a table that are not null, as fsck.hw3 reads it.
get_ptrs(tbl) == {tbl[k] : k \in DOMAIN tbl} \ {0}

Reply(call, code, missing) == [call |-> call, code |-> code, missing |-> missing]

-----------------------------------------------------------------------------
(* write.  The record w holds what fs_write and write_helper change: the   *)
(* bitmap, the disk, the inode's pointers, the table of pointers in memory *)
(* (tbl), offset_cnt, cnt, len, and whether ENOSPC was met (full).         *)

\* A null pointer is given a free block, if there is one.
Allocated(w, ptr) ==
    IF ptr # 0 THEN [w |-> w, ptr |-> ptr]
    ELSE IF Free(w.map) = {} THEN [w |-> [w EXCEPT !.full = TRUE], ptr |-> 0]
    ELSE LET b == get_next_block(w.map)
         IN [w |-> [w EXCEPT !.map = @ \cup {b}], ptr |-> b]

\* The span that starts at cnt lies before offset; one that ends there does
\* not count as before it.
Before(cnt, span, offset) == cnt + span < offset

\* The bytes from w.len on of the caller's buffer go into block b.
PutBytes(w, b, offset, appends) ==
    LET start == offset - w.offset_cnt
        n == Smaller(w.len, FS_BLOCK_SIZE - start)
        put(j) == Byte(offset + w.cnt + (j - start) - 1, appends)
    IN [w EXCEPT !.disk[b].bytes =
                    [j \in Bytes |-> IF j \in start + 1 .. start + n
                                     THEN put(j) ELSE @[j]],
                 !.offset_cnt = offset,
                 !.cnt = @ + n,
                 !.len = @ - n]

\* One turn of the loop of write_helper, for the k-th pointer.
WriteBlock(w, k, offset, appends) ==
    IF w.full \/ w.len = 0 THEN w
    ELSE IF Before(w.offset_cnt, FS_BLOCK_SIZE, offset)
    THEN [w EXCEPT !.offset_cnt = @ + FS_BLOCK_SIZE]
    ELSE LET a == Allocated(w, w.tbl[k])
         IN IF a.w.full THEN a.w
            ELSE PutBytes([a.w EXCEPT !.tbl[k] = a.ptr], a.ptr, offset, appends)

\* The loop, turn by turn.
WriteTurns(w, times, offset, appends) ==
    LET turn[k \in 0 .. times] ==
            IF k = 0 THEN w ELSE WriteBlock(turn[k - 1], k, offset, appends)
    IN turn

write_helper(w, times, offset, appends) ==
    IF Before(w.offset_cnt, FS_BLOCK_SIZE * times, offset)
    THEN [w EXCEPT !.offset_cnt = @ + FS_BLOCK_SIZE * times]
    ELSE WriteTurns(w, times, offset, appends)[times]

\* Faulty variant: where the write began is forgotten.
Flushed_short(w, b) ==
    IF ~w.full /\ w.cnt > size THEN [w EXCEPT !.disk[b].ptrs = w.tbl] ELSE w

\* The table is written back to block b only when the file grows.
Flushed(w, b) ==
    IF ~w.full /\ w.offset_cnt + w.cnt > size
    THEN [w EXCEPT !.disk[b].ptrs = w.tbl] ELSE w

WriteDirect(w, offset, appends) ==
    LET x == write_helper([w EXCEPT !.tbl = w.direct], N_DIRECT, offset, appends)
    IN [x EXCEPT !.direct = x.tbl]

\* The table in block b is read, used and written back.
WriteTable(w, b, offset, appends) ==
    Flushed(write_helper([w EXCEPT !.tbl = w.disk[b].ptrs],
                         PtrsPerBlock, offset, appends), b)

WriteIndir1(w, offset, appends) ==
    IF w.full \/ w.len = 0 THEN w
    ELSE LET a == Allocated(w, w.indir_1)
         IN IF a.w.full THEN a.w
            ELSE WriteTable([a.w EXCEPT !.indir_1 = a.ptr], a.ptr, offset, appends)

\* One turn of the loop over indir_2, whose table is w.tbl2.
WriteSecond(w, k, offset, appends) ==
    IF w.full \/ w.len = 0 THEN w
    ELSE IF Before(w.offset_cnt, PtrsPerBlock * FS_BLOCK_SIZE, offset)
    THEN [w EXCEPT !.offset_cnt = @ + PtrsPerBlock * FS_BLOCK_SIZE]
    ELSE LET a == Allocated(w, w.tbl2[k])
         IN IF a.w.full THEN a.w
            ELSE WriteTable([a.w EXCEPT !.tbl2[k] = a.ptr], a.ptr, offset, appends)

SecondTurns(w, offset, appends) ==
    LET turn[k \in 0 .. PtrsPerBlock] ==
            IF k = 0 THEN w ELSE WriteSecond(turn[k - 1], k, offset, appends)
    IN turn

WriteIndir2(w, offset, appends) ==
    IF w.full \/ w.len = 0 THEN w
    ELSE LET a == Allocated(w, w.indir_2)
             first == [a.w EXCEPT !.indir_2 = a.ptr,
                                  !.tbl2 = a.w.disk[a.ptr].ptrs]
             last == SecondTurns(first, offset, appends)[PtrsPerBlock]
         IN IF a.w.full THEN a.w
            ELSE Flushed([last EXCEPT !.tbl = last.tbl2], a.ptr)

Written(offset, len, appends) ==
    LET w == [map |-> block_map, disk |-> disk, direct |-> direct,
              indir_1 |-> indir_1, indir_2 |-> indir_2, tbl |-> <<>>,
              tbl2 |-> <<>>, offset_cnt |-> 0, cnt |-> 0, len |-> len,
              full |-> FALSE]
    IN WriteIndir2(WriteIndir1(WriteDirect(w, offset, appends), offset, appends),
                   offset, appends)

-----------------------------------------------------------------------------
(* read: the same walk over the pointers; out is what the caller's buffer  *)
(* gets.  A null pointer would read block 0.                               *)

AtEnd(r, offset) == offset + r.cnt >= size \/ r.len = 0

TakeBytes(r, b, offset) ==
    LET start == offset - r.offset_cnt
        n == Larger(0, Smaller(Smaller(r.len, FS_BLOCK_SIZE - start),
                               size - (offset + r.cnt)))
    IN [r EXCEPT !.out = @ \o SubSeq(disk[b].bytes, start + 1, start + n),
                 !.offset_cnt = offset,
                 !.cnt = @ + n,
                 !.len = @ - n]

ReadBlock(r, ptr, offset) ==
    IF r.over THEN r
    ELSE IF Before(r.offset_cnt, FS_BLOCK_SIZE, offset)
    THEN [r EXCEPT !.offset_cnt = @ + FS_BLOCK_SIZE]
    ELSE LET t == TakeBytes(r, ptr, offset)
         IN [t EXCEPT !.over = AtEnd(t, offset)]     \* break

\* The loop, turn by turn.
ReadTurns(r, times, offset, tbl) ==
    LET turn[k \in 0 .. times] ==
            IF k = 0 THEN [r EXCEPT !.over = FALSE]
            ELSE ReadBlock(turn[k - 1], tbl[k], offset)
    IN turn

read_helper(r, times, offset, tbl) ==
    IF Before(r.offset_cnt, FS_BLOCK_SIZE * times, offset)
    THEN [r EXCEPT !.offset_cnt = @ + FS_BLOCK_SIZE * times]
    ELSE ReadTurns(r, times, offset, tbl)[times]

\* One turn of the loop over indir_2; ended is its break.
ReadSecond(r, ptr, offset) ==
    IF r.ended THEN r
    ELSE IF Before(r.offset_cnt, PtrsPerBlock * FS_BLOCK_SIZE, offset)
    THEN [r EXCEPT !.offset_cnt = @ + PtrsPerBlock * FS_BLOCK_SIZE]
    ELSE LET x == read_helper(r, PtrsPerBlock, offset, disk[ptr].ptrs)
         IN [x EXCEPT !.ended = AtEnd(x, offset)]

SecondReads(r, offset) ==
    LET turn[k \in 0 .. PtrsPerBlock] ==
            IF k = 0 THEN r
            ELSE ReadSecond(turn[k - 1], disk[indir_2].ptrs[k], offset)
    IN turn

fs_read(offset, len) ==
    LET r == [out |-> <<>>, offset_cnt |-> 0, cnt |-> 0, len |-> len,
              over |-> FALSE, ended |-> FALSE]
        d == read_helper(r, N_DIRECT, offset, direct)
        i == read_helper(d, PtrsPerBlock, offset, disk[indir_1].ptrs)
    IN IF offset >= size THEN <<>>
       ELSE IF AtEnd(d, offset) THEN d.out
       ELSE IF AtEnd(i, offset) THEN i.out
       ELSE SecondReads(i, offset)[PtrsPerBlock].out

-----------------------------------------------------------------------------
(* truncate: what the loops visit before the first null pointer. *)

\* The slots of tbl before the first null pointer, and what is in them.
BeforeNull(tbl) == {k \in DOMAIN tbl : \A j \in 1 .. k : tbl[j] # 0}
UpToNull(tbl) == {tbl[k] : k \in BeforeNull(tbl)}

\* The inner loop over a second-level block uses the variable i of the outer
\* one, which goes on from where the inner loop left it.
NextTurn(i, tbl) == Cardinality(BeforeNull(disk[tbl[i + 1]].ptrs)) + 1

\* The second-level blocks the outer loop comes to: its turns are the least
\* set of numbers that has 0 and, with a turn, the next one.
Visited(tbl) ==
    LET Indexes == 0 .. PtrsPerBlock - 1
        turns == {i \in Indexes : \A T \in SUBSET Indexes :
                    /\ 0 \in T
                    /\ \A j \in T : tbl[j + 1] # 0 /\ NextTurn(j, tbl) \in Indexes
                                     => NextTurn(j, tbl) \in T
                    => i \in T}
    IN {tbl[i + 1] : i \in turns} \ {0}

\* Faulty variant: the data blocks of indir_1 are passed over.
Released_level1 == UpToNull(direct) \cup ({indir_1} \ {0})

\* The blocks whose bits truncate clears.
Released ==
    UpToNull(direct)
        \cup (IF indir_1 = 0 THEN {} ELSE {indir_1} \cup UpToNull(disk[indir_1].ptrs))
        \cup (IF indir_2 = 0 THEN {}
              ELSE LET seconds == Visited(disk[indir_2].ptrs)
                   IN {indir_2} \cup seconds
                         \cup UNION {UpToNull(disk[b].ptrs) : b \in seconds})

\* Faulty variant: the direct pointers stay.
direct_cleared_not == direct

direct_cleared ==
    [k \in 1 .. N_DIRECT |-> IF k \in BeforeNull(direct) THEN 0 ELSE direct[k]]

\* Faulty variant: the freed blocks keep their contents.
Zeroed_not(S) == disk

Zeroed(S) == [b \in Blocks |-> IF b \in S THEN ZeroBlock ELSE disk[b]]

-----------------------------------------------------------------------------

Init ==
    \* an empty file, and another one
    /\ other \in OtherSets
    /\ block_map = Metadata \cup other
    /\ disk = [b \in Blocks |-> IF b \in block_map THEN SystemBlock ELSE ZeroBlock]
    /\ direct = [k \in 1 .. N_DIRECT |-> 0]
    /\ indir_1 = 0 /\ indir_2 = 0 /\ size = 0
    /\ contents = <<>>
    /\ overwrites = 0
    /\ ret = Reply("write", OK, 0)

Fail(call, code) ==
    /\ ret' = Reply(call, code, 0)
    /\ UNCHANGED <<block_map, disk, direct, indir_1, indir_2, size, other,
                   contents, overwrites>>

\* What the file should hold after n bytes of a write have got into it.
Overlaid(offset, n, appends) ==
    [x \in 1 .. Larger(Len(contents), offset + n) |->
        IF x \in offset + 1 .. offset + n THEN Byte(x - 1, appends)
        ELSE contents[x]]

\* A write that meets ENOSPC leaves what it did to the bitmap, the blocks
\* and the pointers in the inode; the file keeps its length.
fs_write(offset, len) ==
    LET appends == offset = size
        w == Written(offset, len, appends)
    IN /\ overwrites' = IF appends THEN overwrites ELSE overwrites + 1
       /\ block_map' = w.map
       /\ disk' = w.disk
       /\ direct' = w.direct
       /\ indir_1' = w.indir_1
       /\ indir_2' = w.indir_2
       /\ IF w.full
          THEN /\ ret' = Reply("write", ENOSPC, 0)
               /\ contents' = SubSeq(Overlaid(offset, len, appends), 1, size)
               /\ UNCHANGED size
          ELSE /\ ret' = Reply("write", OK, len - w.cnt)
               /\ contents' = Overlaid(offset, w.cnt, appends)
               /\ size' = Larger(offset + w.cnt, size)
       /\ UNCHANGED other

fs_truncate ==
    /\ block_map' = block_map \ Released
    /\ disk' = Zeroed(Released)
    /\ direct' = direct_cleared
    /\ indir_1' = 0 /\ indir_2' = 0 /\ size' = 0
    /\ contents' = <<>>
    /\ ret' = Reply("truncate", OK, 0)
    /\ UNCHANGED <<other, overwrites>>

Write ==
    \/ Fail("write", EINVAL)            \* offset beyond the end
    \/ \E offset \in 0 .. size, len \in Lens :
          /\ offset < size => overwrites < MaxOverwrites
          /\ fs_write(offset, len)

Truncate == Fail("truncate", EINVAL) \/ fs_truncate

\* The other file is truncated.
OtherTruncated ==
    /\ other # {}
    /\ other' = {}
    /\ block_map' = block_map \ other
    /\ disk' = Zeroed(other)
    /\ ret' = Reply("truncate", OK, 0)
    /\ UNCHANGED <<direct, indir_1, indir_2, size, contents, overwrites>>

Next == Write \/ Truncate \/ OtherTruncated

Spec == Init /\ [][Next]_vars

-----------------------------------------------------------------------------
(* Properties. *)

BlockValues == [bytes : [Bytes -> Int], ptrs : [Ptrs -> Blocks]]

TypeOK ==
    /\ block_map \subseteq Blocks
    /\ disk \in [Blocks -> BlockValues]
    /\ direct \in [1 .. N_DIRECT -> Blocks]
    /\ indir_1 \in Blocks /\ indir_2 \in Blocks
    /\ size \in 0 .. MaxSize
    /\ overwrites \in 0 .. MaxOverwrites
    /\ ret \in [call : {"write", "truncate"}, code : {OK, EINVAL, ENOSPC},
                missing : Nat]

\* A read of any part of the file returns the bytes last written there and
\* stops at the end of the file (write, then read, across direct, indirect
\* and doubly indirect blocks and every block boundary; a write that fails
\* with ENOSPC has still changed the bytes before the end).
ReadsBack ==
    \A offset \in 0 .. size : \A len \in 1 .. size - offset + 1 :
        fs_read(offset, len)
            = SubSeq(contents, offset + 1, Smaller(offset + len, size))

\* The tables of pointers the file has: the inode, for which 0 stands, the
\* indirect blocks and the second-level blocks.
Tables ==
    {0, indir_1, indir_2}
        \cup IF indir_2 = 0 THEN {} ELSE get_ptrs(disk[indir_2].ptrs)
Table(t) == IF t = 0 THEN direct \o <<indir_1, indir_2>> ELSE disk[t].ptrs

\* Every block the file's pointers lead to, as fsck.hw3 collects them.
file_blocks == UNION {get_ptrs(Table(t)) : t \in Tables}

\* The file's blocks are marked, are data blocks that nobody else has, and
\* no two pointers lead to the same one (write allocates and truncate frees
\* over three levels, also when a write fails half way).
BlocksAreTheFilesOwn ==
    /\ file_blocks \subseteq block_map \ (Metadata \cup other)
    /\ \A t, u \in Tables : \A j \in DOMAIN Table(t), k \in DOMAIN Table(u) :
          Table(t)[j] = Table(u)[k] => Table(t)[j] = 0 \/ <<t, j>> = <<u, k>>

\* A block that is marked free is all zeroes, read as bytes or as pointers:
\* a fresh indirect block is read from disk and taken for a table of nulls.
FreeBlocksAreZero == \A b \in Blocks \ block_map : disk[b] = ZeroBlock

\* Blocks marked in use that no pointer leads to.
Unreachable == block_map \ (Metadata \cup other \cup file_blocks)

\* Every block marked in use is found from an inode (fsck.hw3).
NothingIsLost == Unreachable = {}

\* After truncate the file has given back every block it held, so that the
\* count of free blocks is what it was before the file was written.
TruncateFreesAll ==
    [][fs_truncate => block_map' = Metadata \cup other \cup Unreachable]_vars

\* A write that does not fail has written every byte it was given.
WritesAllOrFails == ret.call = "write" /\ ret.code = OK => ret.missing = 0
=============================================================================
