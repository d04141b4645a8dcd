------------------------------ MODULE Directory ------------------------------
(***************************************************************************)
(* The name space of the fsx600 file system (homework.c): the two bitmaps, *)
(* the inode table, the directory blocks on disk and the FUSE handlers     *)
(* that change them.  Every handler is one atomic action: this is the      *)
(* debugging set-up (-s) and the Python harness (libhw3.c), which run one  *)
(* call at a time.                                                         *)
(*                                                                         *)
(* Of an inode the model keeps the type bits of `mode', the block of       *)
(* direct[0] and the set `rest' of the other blocks its pointers lead to.  *)
(* Sizes, times, owners and permission bits steer nothing in here.         *)
(***************************************************************************)
EXTENDS Integers, Sequences, FiniteSets

CONSTANTS
    num_inodes,     \* inodes in the inode region (sb.inode_region_sz blocks)
    num_blocks,     \* sb.num_blocks
    DataStart,      \* blocks of superblock, bitmaps and inode region
    num_slots,      \* directory entries in a block: 32
    N_DIRECT,       \* direct pointers of an inode: 6
    PtrsPerBlock,   \* pointers in an indirect block: 256
    RawNames,       \* path components a caller may use
    Cut,            \* Cut[n]: n truncated to MAX_NAME_LEN (27) characters
    MAX_PATH_LEN,   \* components parse() looks at: 10
    Paths           \* the paths callers use, never the mount point itself

ASSUME SizesAssumption ==
    /\ num_inodes \in Nat /\ num_inodes > 1
    /\ DataStart \in Nat /\ DataStart > 0
    /\ num_blocks \in Nat /\ num_blocks > DataStart
    /\ num_slots \in Nat /\ num_slots > 0
    /\ N_DIRECT \in Nat /\ N_DIRECT > 0
    /\ PtrsPerBlock \in Nat /\ PtrsPerBlock > 0

ASSUME PathsAssumption ==
    /\ Cut \in [RawNames -> RawNames]
    /\ \A n \in RawNames : Cut[Cut[n]] = Cut[n]
    /\ MAX_PATH_LEN \in Nat /\ MAX_PATH_LEN > 0
    /\ Paths \subseteq Seq(RawNames) \ {<<>>}

VARIABLES
    inode_map,      \* inodes whose bit is set
    block_map,      \* blocks whose bit is set
    mode,           \* mode[i]: the type bits of inodes[i].mode
    direct0,        \* direct0[i]: inodes[i].direct[0], 0 when null
    rest,           \* rest[i]: blocks reached by the other pointers of i
    disk,           \* disk[b]: what block b holds, seen as a directory
    lost,           \* history: blocks marked in use that no pointer reaches
    ret             \* what the last handler returned

vars == <<inode_map, block_map, mode, direct0, rest, disk, lost, ret>>

-----------------------------------------------------------------------------
(* Values. *)

OK == 0
ENOENT == -2
EEXIST == -17
ENOTDIR == -20
EISDIR == -21
EINVAL == -22
ENOSPC == -28
ENOTEMPTY == -39

Errors == {ENOENT, EEXIST, ENOTDIR, EISDIR, EINVAL, ENOSPC, ENOTEMPTY}

ROOT_INODE == 1
Inodes == 0 .. num_inodes - 1
Blocks == 0 .. num_blocks - 1
DataBlocks == DataStart .. num_blocks - 1
Slots == 0 .. num_slots - 1

IFDIR == "IFDIR"
IFREG == "IFREG"

\* (mode & S_IFMT) == S_IFDIR: S_IFDIR | S_IFREG is neither type.
S_ISDIR(m) == m = {IFDIR}

\* struct fs_dirent.  What stays in a slot whose valid bit was cleared is
\* never read, so one value, Stale, stands for it; Bytes stands for the
\* contents of a block a file or a pointer table uses.
Entry(n, i, d) == [valid |-> TRUE, name |-> n, inode |-> i, isDir |-> d]
Unused(what) == [valid |-> FALSE, name |-> what, inode |-> 0, isDir |-> FALSE]
Zero == Unused("zero")
Stale == Unused("stale")
Bytes == Unused("bytes")

Entries == {Entry(n, i, d) : n \in RawNames, i \in Inodes, d \in BOOLEAN}
SlotValues == Entries \cup {Zero, Stale, Bytes}

ZeroBlock == [s \in Slots |-> Zero]
FileBlock == [s \in Slots |-> Bytes]
\* The superblock read as a directory: its magic number is even, so the
\* first slot is in use and not valid, and the padding is zero.
SuperBlock == [s \in Slots |-> IF s = 0 THEN Stale ELSE Zero]

\* The call, the paths it was given and what it returned: "attr" is getattr,
\* chmod or utime, and only rename has two paths.
Calls == {"attr", "readdir", "read", "create", "mkdir", "write", "truncate",
          "unlink", "rmdir", "rename"}
Reply(call, paths, code, names) ==
    [call |-> call, paths |-> paths, code |-> code, names |-> names]
Replies == [call : Calls, paths : Seq(Seq(RawNames)),
            code : Errors \cup {OK}, names : SUBSET RawNames]

-----------------------------------------------------------------------------
(* Path translation: parse, lookup, translate and split_path. *)

Shorter(a, b) == IF a < b THEN a ELSE b

\* Faulty variant: the name is used at its full length.
parse_uncut(p) == SubSeq(p, 1, Shorter(Len(p), MAX_PATH_LEN))

\* parse: the first MAX_PATH_LEN components, each cut to 27 characters.
parse(p) == [k \in 1 .. Shorter(Len(p), MAX_PATH_LEN) |-> Cut[p[k]]]

\* The valid slots of a directory block that carry the name n.
Matches(blk, n) == {s \in Slots : blk[s].valid /\ blk[s].name = n}

FirstOf(S) == CHOOSE s \in S : \A t \in S : s <= t

\* lookup, with the inode table's modes and direct[0] and the disk as
\* arguments: unlink and rmdir translate the parent after changing them.
lookup(md, d0, dsk, inum, n) ==
    IF ~S_ISDIR(md[inum]) THEN ENOTDIR
    ELSE LET blk == dsk[d0[inum]]
         IN IF Matches(blk, n) = {} THEN ENOENT
            ELSE blk[FirstOf(Matches(blk, n))].inode

\* One turn of the loop in translate: an error ends it.
Step(md, d0, dsk, inum, n) ==
    IF inum > 0 THEN lookup(md, d0, dsk, inum, n) ELSE inum

\* The inode numbers, or the error, the loop passes through.
Walk(md, d0, dsk, names) ==
    LET w[k \in 0 .. Len(names)] ==
            IF k = 0 THEN ROOT_INODE ELSE Step(md, d0, dsk, w[k - 1], names[k])
    IN w

translate(md, d0, dsk, p) == Walk(md, d0, dsk, parse(p))[Len(parse(p))]

\* split_path: dirname, and basename cut to 27 characters.
Parent(p) == SubSeq(p, 1, Len(p) - 1)

Leaf(p) == Cut[p[Len(p)]]

Inum(p) == translate(mode, direct0, disk, p)
ParentInum(p) == translate(mode, direct0, disk, Parent(p))

-----------------------------------------------------------------------------
(* Allocation: first fit in either bitmap. *)

\* Faulty variant: the scan runs one inode too far.
FreeInodes_past == (0 .. num_inodes) \ inode_map

FreeInodes == Inodes \ inode_map
FreeBlocks == Blocks \ block_map

\* fs_statfs: the number of clear bits.
f_bfree == Cardinality(FreeBlocks)

get_next_inode == IF FreeInodes = {} THEN ENOSPC ELSE FirstOf(FreeInodes)
get_next_block == IF FreeBlocks = {} THEN ENOSPC ELSE FirstOf(FreeBlocks)

\* The blocks inode i's pointers lead to.
Held(i) == ({direct0[i]} \ {0}) \cup rest[i]

-----------------------------------------------------------------------------
(* Handlers.  An error operator gives the first of the handler's early     *)
(* returns that applies, in the order of the code; OK means none does.     *)

unchanged == UNCHANGED <<inode_map, block_map, mode, direct0, rest, disk, lost>>

Fail(call, paths, code) ==
    code # OK /\ unchanged /\ ret' = Reply(call, paths, code, {})

Init ==
    \* an image mkfs-hw3 made
    /\ inode_map = {0, ROOT_INODE}
    /\ block_map = 0 .. DataStart
    /\ mode = [i \in Inodes |-> IF i = ROOT_INODE THEN {IFDIR} ELSE {}]
    /\ direct0 = [i \in Inodes |-> IF i = ROOT_INODE THEN DataStart ELSE 0]
    /\ rest = [i \in Inodes |-> {}]
    /\ disk = [b \in {0} \cup DataBlocks |->
                  IF b = 0 THEN SuperBlock ELSE ZeroBlock]
    /\ lost = {}
    /\ ret = Reply("attr", <<<<>>>>, OK, {})

\* getattr, utime and the checks of chmod share the path resolution only.
resolve_error(p) == IF Inum(p) < 0 THEN Inum(p) ELSE OK

fs_getattr(p) ==
    \/ Fail("attr", <<p>>, resolve_error(p))
    \/ resolve_error(p) = OK /\ unchanged /\ ret' = Reply("attr", <<p>>, OK, {})

fs_utime(p) == fs_getattr(p)    \* changes mtime only

readdir_error(p) ==
    IF Inum(p) < 0 THEN Inum(p)
    ELSE IF ~S_ISDIR(mode[Inum(p)]) THEN ENOTDIR ELSE OK

\* The names the filler is called with.
Listing(blk) == {blk[s].name : s \in {t \in Slots : blk[t].valid}}

\* Faulty variant: the directory that p is in is listed.
fs_readdir_parent(p) ==
    \/ Fail("readdir", <<p>>, readdir_error(p))
    \/ /\ readdir_error(p) = OK
       /\ unchanged
       /\ ret' = Reply("readdir", <<p>>, OK, Listing(disk[direct0[ParentInum(p)]]))

fs_readdir(p) ==
    \/ Fail("readdir", <<p>>, readdir_error(p))
    \/ /\ readdir_error(p) = OK
       /\ unchanged
       /\ ret' = Reply("readdir", <<p>>, OK, Listing(disk[direct0[Inum(p)]]))

\* Faulty variant: the type of the inode is not looked at.
chmod_type_any(i, m) == m \cup {IFREG}

chmod_type(i, m) == m \cup IF S_ISDIR(mode[i]) THEN {IFDIR} ELSE {IFREG}

\* The caller's mode has no type bits (harness) or those of the inode (VFS).
fs_chmod(p) ==
    \/ Fail("attr", <<p>>, resolve_error(p))
    \/ /\ resolve_error(p) = OK
       /\ \E m \in {{}, mode[Inum(p)]} :
             mode' = [mode EXCEPT ![Inum(p)] = chmod_type(Inum(p), m)]
       /\ ret' = Reply("attr", <<p>>, OK, {})
       /\ UNCHANGED <<inode_map, block_map, direct0, rest, disk, lost>>

\* Faulty variant: the slot of a removed entry is not found again.
FreeSlots_new(blk) == {s \in Slots : blk[s] = Zero}

FreeSlots(blk) == {s \in Slots : ~blk[s].valid}

\* A regular file needs no block, and is refused when there is none.
create_error(p) ==
    LET dir == ParentInum(p)
    IN IF dir < 0 THEN dir
       ELSE IF ~S_ISDIR(mode[dir]) THEN ENOTDIR
       ELSE IF Inum(p) > 0 THEN EEXIST
       ELSE IF FreeSlots(disk[direct0[dir]]) = {} THEN ENOSPC
       ELSE IF get_next_inode < 0 \/ get_next_block < 0 THEN ENOSPC
       ELSE OK

\* Faulty variant: a regular file is given the block too.
CreatedMap_always(b, isDir) == block_map \cup {b}

CreatedMap(b, isDir) == IF isDir THEN block_map \cup {b} ELSE block_map

\* The new directory's block is not written: it is zero because whoever
\* freed it zeroed it.
create(call, p, type, isDir) ==
    \/ Fail(call, <<p>>, create_error(p))
    \/ LET blk == direct0[ParentInum(p)]
           slot == FirstOf(FreeSlots(disk[blk]))
           i == get_next_inode
           b == get_next_block
       IN /\ create_error(p) = OK
          /\ inode_map' = inode_map \cup {i}
          /\ mode' = [mode EXCEPT ![i] = {type}]
          /\ disk' = [disk EXCEPT ![blk][slot] = Entry(Leaf(p), i, isDir)]
          /\ block_map' = CreatedMap(b, isDir)
          /\ direct0' = IF isDir THEN [direct0 EXCEPT ![i] = b] ELSE direct0
          /\ ret' = Reply(call, <<p>>, OK, {})
          /\ UNCHANGED <<rest, lost>>

fs_create(p) == create("create", p, IFREG, FALSE)
fs_mkdir(p) == create("mkdir", p, IFDIR, TRUE)

\* Faulty variant: a directory is read, written and truncated like a file.
file_error_any(p) == IF Inum(p) < 0 THEN Inum(p) ELSE OK

\* read, write and truncate; the direct and indirect pointers themselves are
\* in FileBlocks.
file_error(p) ==
    IF Inum(p) < 0 THEN Inum(p)
    ELSE IF S_ISDIR(mode[Inum(p)]) THEN EISDIR ELSE OK

\* The bytes a read returns are in FileBlocks; here, whether it is one.
fs_read(p) ==
    \/ Fail("read", <<p>>, file_error(p))
    \/ file_error(p) = OK /\ unchanged /\ ret' = Reply("read", <<p>>, OK, {})

\* What repeated calls of get_next_block can have taken: the first free
\* blocks, up to some block.
FirstFits == {{b \in FreeBlocks : b < c} : c \in 0 .. num_blocks}

\* Inode i takes the blocks S, and its pointers lead to those in kept: the
\* first block of a file goes to direct[0].
Grow(i, S, kept) ==
    LET first == IF direct0[i] = 0 /\ S # {} THEN FirstOf(S) ELSE direct0[i]
    IN /\ direct0' = [direct0 EXCEPT ![i] = first]
       /\ rest' = [rest EXCEPT ![i] = @ \cup (kept \ {first})]
       /\ block_map' = block_map \cup S
       /\ lost' = lost \cup (S \ (kept \cup {first}))
       /\ disk' = [b \in DOMAIN disk |-> IF b \in S THEN FileBlock ELSE disk[b]]
       /\ UNCHANGED <<inode_map, mode>>

\* Success takes the blocks it needs.  When the free blocks run out the
\* write has taken them all, returns ENOSPC, and forgets the pointers it
\* had put into an indirect block in memory: the first blocks it took are
\* kept, the direct ones and indir_1 among them.
fs_write(p) ==
    \/ Fail("write", <<p>>, file_error(p))
    \/ file_error(p) = OK /\ Fail("write", <<p>>, EINVAL)       \* offset beyond the end
    \/ /\ file_error(p) = OK
       /\ \E S \in FirstFits : Grow(Inum(p), S, S)
       /\ ret' = Reply("write", <<p>>, OK, {})
    \/ /\ file_error(p) = OK
       /\ \E kept \in FirstFits :
             /\ \/ kept = FreeBlocks
                \/ Cardinality(Held(Inum(p)) \cup kept) > N_DIRECT
             /\ Grow(Inum(p), FreeBlocks, kept)
       /\ ret' = Reply("write", <<p>>, ENOSPC, {})

\* The most blocks a file holds with at most one second-level block.
OneLevelTwo == N_DIRECT + (1 + PtrsPerBlock) + (2 + PtrsPerBlock)

\* What truncate leaves marked: its inner loop over a second-level block
\* reuses the outer loop's counter, so the second-level blocks after the
\* first, and their data, are skipped.
Skipped(i) ==
    {S \in SUBSET rest[i] :
        IF Cardinality(Held(i)) <= OneLevelTwo THEN S = {}
        ELSE Cardinality(Held(i) \ S) = OneLevelTwo}

\* Faulty variant: the freed blocks keep their contents.
Zeroed_not(dsk, S) == dsk

Zeroed(dsk, S) == [b \in DOMAIN dsk |-> IF b \in S THEN ZeroBlock ELSE dsk[b]]

\* Faulty variant: the inode keeps its first pointer.
direct0_cleared_not(i) == direct0

\* The pointers of an inode after truncate or rmdir.
rest_cleared(i) == [rest EXCEPT ![i] = {}]
direct0_cleared(i) == [direct0 EXCEPT ![i] = 0]

fs_truncate(p) ==
    \/ Fail("truncate", <<p>>, EINVAL)                 \* len # 0
    \/ Fail("truncate", <<p>>, file_error(p))
    \/ LET i == Inum(p)
       IN /\ file_error(p) = OK
          /\ \E left \in Skipped(i) :
                /\ block_map' = block_map \ (Held(i) \ left)
                /\ disk' = Zeroed(disk, Held(i) \ left)
                /\ lost' = lost \cup left
          /\ direct0' = direct0_cleared(i)
          /\ rest' = rest_cleared(i)
          /\ ret' = Reply("truncate", <<p>>, OK, {})
          /\ UNCHANGED <<inode_map, mode>>

\* The slots of blk that carry the name n lose their valid bit.
Invalidated(blk, n) ==
    [s \in Slots |-> IF s \in Matches(blk, n) THEN Stale ELSE blk[s]]

\* Faulty variant: the bit of the removed inode stays set.
ClearedInodes_none(blk, n) == {}

\* The inodes those slots name.
ClearedInodes(blk, n) == {blk[s].inode : s \in Matches(blk, n)}

\* truncate first; then the parent is translated in what that left.
fs_unlink(p) ==
    \/ Fail("unlink", <<p>>, file_error(p))
    \/ /\ file_error(p) = OK
       /\ \E left \in Skipped(Inum(p)) :
             LET i == Inum(p)
                 freed == Held(i) \ left
                 dsk == Zeroed(disk, freed)
                 blk == direct0_cleared(i)
                           [translate(mode, direct0_cleared(i), dsk, Parent(p))]
             IN /\ block_map' = block_map \ freed
                /\ lost' = lost \cup left
                /\ direct0' = direct0_cleared(i)
                /\ rest' = rest_cleared(i)
                /\ disk' = [dsk EXCEPT ![blk] = Invalidated(@, Leaf(p))]
                /\ inode_map' = inode_map \ ClearedInodes(dsk[blk], Leaf(p))
       /\ ret' = Reply("unlink", <<p>>, OK, {})
       /\ UNCHANGED mode

\* Faulty variant: a directory is removed with what is in it.
rmdir_error_full(p) ==
    IF Inum(p) < 0 THEN Inum(p)
    ELSE IF ~S_ISDIR(mode[Inum(p)]) THEN ENOTDIR
    ELSE OK

rmdir_error(p) ==
    IF Inum(p) < 0 THEN Inum(p)
    ELSE IF ~S_ISDIR(mode[Inum(p)]) THEN ENOTDIR
    ELSE IF Listing(disk[direct0[Inum(p)]]) # {} THEN ENOTEMPTY
    ELSE OK

\* The directory's block and inode go first, then the parent is translated.
\* If that finds the removed inode itself its block is now block 0.
fs_rmdir(p) ==
    \/ Fail("rmdir", <<p>>, rmdir_error(p))
    \/ LET i == Inum(p)
           dsk == Zeroed(disk, {direct0[i]})
           blk == direct0_cleared(i)
                     [translate(mode, direct0_cleared(i), dsk, Parent(p))]
       IN /\ rmdir_error(p) = OK
          /\ block_map' = block_map \ {direct0[i]}
          /\ direct0' = direct0_cleared(i)
          /\ disk' = [dsk EXCEPT ![blk] = Invalidated(@, Leaf(p))]
          /\ inode_map' = inode_map
                             \ ({i} \cup ClearedInodes(dsk[blk], Leaf(p)))
          /\ ret' = Reply("rmdir", <<p>>, OK, {})
          /\ UNCHANGED <<mode, rest, lost>>

rename_error(p, q) ==
    IF Inum(p) < 0 THEN ENOENT
    ELSE IF Inum(q) > 0 THEN EEXIST
    ELSE IF ParentInum(p) # ParentInum(q) THEN EINVAL
    ELSE OK

Renamed(blk, m, n) ==
    [s \in Slots |->
        IF s \in Matches(blk, m) THEN Entry(n, blk[s].inode, blk[s].isDir)
                                 ELSE blk[s]]

fs_rename(p, q) ==
    \/ Fail("rename", <<p, q>>, rename_error(p, q))
    \/ /\ rename_error(p, q) = OK
       /\ disk' = [disk EXCEPT ![direct0[ParentInum(p)]] =
                                  Renamed(@, Leaf(p), Leaf(q))]
       /\ ret' = Reply("rename", <<p, q>>, OK, {})
       /\ UNCHANGED <<inode_map, block_map, mode, direct0, rest, lost>>

-----------------------------------------------------------------------------

Read == \E p \in Paths \cup {<<>>} :
            fs_getattr(p) \/ fs_readdir(p) \/ fs_utime(p) \/ fs_read(p)
Chmod == \E p \in Paths \cup {<<>>} : fs_chmod(p)
Create == \E p \in Paths : fs_create(p)
Mkdir == \E p \in Paths : fs_mkdir(p)
Write == \E p \in Paths : fs_write(p)
Truncate == \E p \in Paths : fs_truncate(p)
Unlink == \E p \in Paths : fs_unlink(p)
Rmdir == \E p \in Paths : fs_rmdir(p)
Rename == \E p, q \in Paths : fs_rename(p, q)

Next == \/ Read \/ Chmod \/ Create \/ Mkdir \/ Write \/ Truncate
        \/ Unlink \/ Rmdir \/ Rename

Spec == Init /\ [][Next]_vars

-----------------------------------------------------------------------------
(* Properties. *)

\* Every variable has its type; the bitmaps never mark a number beyond the
\* inode region or the disk, whatever the scans for a free bit return.
TypeOK ==
    /\ inode_map \subseteq Inodes
    /\ block_map \subseteq Blocks
    /\ mode \in [Inodes -> SUBSET {IFDIR, IFREG}]
    /\ direct0 \in [Inodes -> {0} \cup DataBlocks]
    /\ rest \in [Inodes -> SUBSET DataBlocks]
    /\ disk \in [{0} \cup DataBlocks -> [Slots -> SlotValues]]
    /\ lost \subseteq DataBlocks
    /\ ret \in Replies

\* The inodes in use other than 0, which is reserved.
Live == inode_map \ {0}
LiveDirs == {i \in Live : S_ISDIR(mode[i])}

\* The places of all directory entries: a directory and a slot of its block.
Places == {ds \in LiveDirs \X Slots : disk[direct0[ds[1]]][ds[2]].valid}
EntryAt(ds) == disk[direct0[ds[1]]][ds[2]]

\* The inode bitmap and the directory tree agree (create, unlink, rmdir):
\* the root is in use and a directory, every entry leads to an inode in use,
\* never the root or the reserved inode 0, no two entries lead to the same
\* inode, and every inode in use but the root has an entry in a directory
\* that is itself in use.
EntriesMatchInodes ==
    /\ {0, ROOT_INODE} \subseteq inode_map /\ S_ISDIR(mode[ROOT_INODE])
    /\ \A ds \in Places : EntryAt(ds).inode \in Live \ {ROOT_INODE}
    /\ \A ds, et \in Places : EntryAt(ds).inode = EntryAt(et).inode => ds = et
    /\ \A i \in Live \ {ROOT_INODE} : \E ds \in Places : EntryAt(ds).inode = i

\* The block bitmap is exact (write, truncate, mkdir, rmdir): a marked block
\* is metadata, or belongs to exactly one inode in use, or is one of those
\* the two known leaks lost, and no block is two of these.
BlocksMatchOwners ==
    /\ block_map = (0 .. DataStart - 1) \cup lost \cup UNION {Held(i) : i \in Live}
    /\ \A i, j \in Live : i # j => Held(i) \cap Held(j) = {}
    /\ \A i \in Live : Held(i) \cap lost = {} /\ direct0[i] \notin rest[i]

\* A free block is all zeroes (truncate and rmdir zero what they free):
\* mkdir and the first write to an indirect block rely on it, since they
\* use the block they are given without clearing it.
FreeBlocksAreZero == \A b \in FreeBlocks : disk[b] = ZeroBlock

\* A free inode leads nowhere (truncate and rmdir null its pointers):
\* create reuses it without resetting direct[], indir_1 and indir_2.
FreeInodesAreClean == \A i \in FreeInodes : Held(i) = {}

\* A directory has a block, and only one, which lookup and readdir read
\* without a check; a file has no block after its first pointer is null,
\* where truncate stops.  Block 0, which a null direct[0] would make a
\* directory of, has no valid entry.
DirectoriesHaveOneBlock ==
    /\ \A i \in Live : IF S_ISDIR(mode[i]) THEN direct0[i] # 0 /\ rest[i] = {}
                       ELSE direct0[i] = 0 => rest[i] = {}
    /\ Listing(disk[0]) = {}

\* No two entries of a directory have the same name, although callers use
\* names that differ only beyond the 27 characters an entry keeps (EEXIST
\* in create and rename, the cut in parse and split_path).
NamesAreUnique ==
    \A ds, et \in Places :
        ds[1] = et[1] /\ EntryAt(ds).name = EntryAt(et).name => ds = et

\* The entry's isDir bit, which only fsck.hw3 reads, tells what the inode's
\* mode tells the file system, also after chmod.
KindsAgree ==
    \A ds \in Places : EntryAt(ds).isDir <=> S_ISDIR(mode[EntryAt(ds).inode])

\* What the handlers keep true together: each part relies on the others,
\* and none on what free blocks hold.
Sound ==
    /\ TypeOK
    /\ EntriesMatchInodes
    /\ BlocksMatchOwners
    /\ FreeInodesAreClean
    /\ DirectoriesHaveOneBlock
    /\ NamesAreUnique
    /\ KindsAgree

Consistent == Sound /\ FreeBlocksAreZero

\* Every inode in use is reached from the root by entries: no handler cuts
\* a directory off with what is below it, or makes a cycle of directories.
\* So a set that has the root, and what the entries of its members lead to,
\* has them all.
ClosedUnderEntries(S) ==
    /\ ROOT_INODE \in S
    /\ \A ds \in Places : ds[1] \in S => EntryAt(ds).inode \in S
TreeIsConnected == \A S \in SUBSET Live : ClosedUnderEntries(S) => S = Live

\* No path is longer than what parse looks at.
ShortPaths == \A p \in Paths : Len(p) <= MAX_PATH_LEN
=============================================================================
