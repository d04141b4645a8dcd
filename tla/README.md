# A verification of the fsx600 file system

The repository is a FUSE file system in one C file, `homework.c`, for a small
Unix-like disk format, `fsx600.h`.  This directory holds a TLA+ model of it, the
TLC configurations that check the model on small disks, and TLAPS proofs about
it for every disk.

## 1. The system

| part | source | state it keeps | operations |
|---|---|---|---|
| Path translation | `homework.c:103-152, 224-232` | none | `parse`, `lookup`, `translate`, `split_path` |
| Bitmaps and allocation | `homework.c:40-51, 234-255` | `inode_map`, `block_map` (memory) | `get_next_inode`, `get_next_block`, `bit_set`, `bit_clear` |
| Directory handlers | `homework.c:168-396, 741-833, 868-925` | inode table (memory), directory blocks (disk) | `getattr`, `readdir`, `create`, `mkdir`, `chmod`, `utime`, `unlink`, `rmdir`, `rename` |
| File data | `homework.c:398-739` | pointers and size in the inode, indirect and data blocks (disk) | `read`, `write`, `truncate` |
| Mounting and persistence | `homework.c:53-79, 257-267` | the disk's copy of bitmaps and inodes | `fs_init`, `update_disk` |
| Statistics | `homework.c:836-865` | none | `statfs` |
| Block device, start-up | `misc.c` | the image file, one descriptor | `block_read`, `block_write`, `main` |
| Image builder | `mkfs-hw3.c` | a new image | one run |
| Offline checker | `fsck.hw3` | none | walks the tree, compares with the bitmaps |
| Image reader | `read-img.c` | a queue of inodes, two bitmaps of what it met | walks an image, lists errors and unreachable inodes |
| Test image generator | `mktest.c` | a new image | one run |
| Others | `libhw3.c`, `hw3test.py`, `test-q*`, `Makefile` | none | callers; `hw3_init` mounts again in the same process |

**How the parts interact.**  A caller (the kernel through FUSE, or Python through
`libhw3.c`) calls one of `fs_ops`.  Every handler starts by translating a path,
which reads directory blocks from disk and the type bits and `direct[0]` from the
inode table in memory.  A handler that changes something sets or clears bits in
the two bitmaps, changes inodes in memory, writes directory, indirect and data
blocks straight to disk, and ends with `update_disk`, which writes both bitmaps
and the inode table.  There is no cache of blocks, no log, and no lock.

**What is hard here.**  In the set-up the tests use (one call at a time, no crash)
it is the contracts *between* calls that no line of the code states:

* A block is never cleared when it is allocated.  `mkdir` takes its block for an
  empty directory, and `write` takes a fresh indirect block for a table of null
  pointers, only because whoever freed the block zeroed it.
* An inode's pointers are not reset when `create` reuses it.
* `lookup` and `readdir` read `direct[0]` without a check.
* `unlink` and `rmdir` change the inode table and the disk first and translate the
  parent afterwards, without looking at the result.
* Names are cut to 27 characters in two places, and paths to 10 components in one
  of two.
* `write` keeps several running sums over three levels of pointers, and decides
  from them whether a pointer table is written back; it may stop in the middle
  with `ENOSPC`.
* `truncate` walks the same three levels and stops at the first null pointer.

And beyond that set-up:

* Bitmaps and inodes exist twice, in memory and on disk, and `update_disk` brings
  them together in three writes, at the end of a handler, if the handler gets
  there.
* A failed read or write ends the program wherever it is, and the next mount
  finds what was written by then.
* `fuse_main` runs handlers in several threads unless it is told not to, and the
  file system has no lock.
* The tools must cope with any image: `read-img` with loops and shared inodes, the
  checker with what a crash leaves.

**What makes each part correct.**  Translation: a path leads to at most one inode,
and two names that are equal after the cut are one name.  Allocation: a bit is
set for exactly what is in use, and no number beyond the region is handed out.
Directories: entries and inodes in use correspond one to one and form one tree.
File data: a read returns what was written; no block belongs to two files; a
freed block is zero; every block taken can be given back.  Persistence: what a
mount reads is a state the handlers could be in.  The full list of hazards, each
at its line and with the property that covers it, is in `PROJECT.json`.

## 2. The modules

    Directory  <---- DirectoryTree ----> Tree          (implements)
      ^  ^                ^
      |  |          MCDirectory <------ MCPersist ----> Layout
      |  |                                 |
      |  +------- Fsck <---- Persist <-----+
      |            ^
      |            +----- ReadImg <---- MCReadImg ----> TestImage
      |
    FileHandlers ----> FileBlocks                      (implements Directory's
        ^                                               write and truncate)
    MCFileBlocks                  MCThreads ----> Threads

    Fsck, Loops <- DirectoryProofs <- PersistProofs
    DirectoryTree, DirectoryProofs <- DirectoryTreeProofs
    FileBlocks, Loops <- FileBlocksProofs <- ReadsBackProofs
    ReadImg <- ReadImgProofs        Layout <- LayoutProofs

* **`Directory`** is the core: the bitmaps, the inode table, the directory blocks
  and all handlers, one atomic action each.  `inode_map` and `block_map` are the
  sets of marked numbers.  Of an inode it keeps the type bits of `mode` (as the
  set of `S_IFDIR` and `S_IFREG` bits, so that an inode with both is neither),
  `direct[0]` and the set `rest` of blocks all its other pointers lead to.  `disk`
  holds blocks as arrays of entries.  `lost` is a history variable: blocks that
  are marked although no pointer leads to them.  `ret` is the last reply.
  `fs_read`, `fs_write` and `fs_truncate` resolve their path and refuse a directory;
  they say which blocks are taken, kept, lost and freed, and leave the pointers and
  the bytes to `FileBlocks`.  `ret` has the call, its paths, the code and the names
  `readdir` lists.  The `*_error` operators list a
  handler's early returns in the order of the code.
* **`Tree`** is the abstract specification: a function from paths to `"dir"` or
  `"file"`, the number of free blocks, and for each call *and the paths it was given*
  the replies and trees it may end with (`Answers` takes the paths from `ret`).
  `NoRoom` decides `ENOSPC` of `create` and `mkdir` from the tree: as many names as
  slots, as many paths as inodes, or no free block; it is given exactly then.
  `FreeAfter` says how the number of free blocks may change.  **`DirectoryTree`**
  maps a state of `Directory` to a tree, by translating every path, and to `f_bfree`,
  what `statfs` counts, and states `ImplementsTree`.
* **`FileBlocks`** is one regular file with its six `direct` pointers, `indir_1`
  and `indir_2`, byte by byte: `fs_write`, `fs_read` and `fs_truncate` with their
  helpers and the running sums `offset_cnt`, `cnt` and `len`.  The C loops are
  recursive functions over their turns.  A second file holds blocks and gives
  them back at some moment, so that free space has gaps.  `contents` is a history
  variable, the bytes the file should hold.  A write may begin anywhere up to the
  end and have any of the lengths in `Lens`, however far past the largest size that
  leads.
* **`FileHandlers`** states that each step of `FileBlocks` is a step of
  `Directory`'s `fs_write` or `fs_truncate`.  This is what justifies the sets in
  `Directory`: which blocks a failed write loses (`kept` in `fs_write`) and which
  ones a truncate skips (`Skipped`).
* **`Fsck`** is the offline checker: what `dir_iter` visits, as the least set closed
  under the entries marked `isDir`, and `DiskFormatOK`, the conjunction of its tests.
  It is a predicate on the variables of `Directory`, so that it can be asked of
  memory, of an image, and proved about.
* **`Persist`** adds the image file.  A call changes memory by the action of
  `Directory` and puts the images its `block_write`s lead to, in their order, into
  `pending`; `Flush` makes the next one real.  `Remount` is `hw3_init` in a running
  process, `CrashAndMount` the end of the program with writes still to come and
  its next start.  Both read the image back (`fs_init`), whatever is on it.  The
  history variable `followed` is `TRUE` as long as all that has happened is described
  by this module; see the abstractions below.  `OrderlySpec` has no crashes.
* **`Threads`** is two `create`s, step by step, that share the inode bitmap and the
  position of the descriptor.  `Spec` has all interleavings; `BitmapSpec` only those in
  which no thread comes between another's `lseek` and its `read` or `write`, so that
  what goes wrong there is the bitmap's doing alone.
* **`ReadImg`** is the loop of `read-img` over its queue, on every image of a set.
* **`Layout`** has the sizes and places that `mkfs-hw3`, the handlers and the checker
  compute, as functions of the number of blocks; **`TestImage`** the layout of the
  two images `mktest` writes, one definition per file and directory (inode, entry,
  size, data blocks, blocks of pointers).  Both are constant expressions: `LayoutsAreSound` and
  `TestImagesAreSound` are assumptions, which TLC evaluates in the runs `persist`
  and `readimg`.
* **`MCDirectory`**, **`MCFileBlocks`**, **`MCPersist`**, **`MCThreads`** and
  **`MCReadImg`** give the constants their values.
* **`DirectoryProofs`**, **`DirectoryTreeProofs`**, **`PersistProofs`**, **`FileBlocksProofs`**,
  **`ReadsBackProofs`**, **`ReadImgProofs`** and **`LayoutProofs`** have the theorems, **`Loops`** the lemmas
  that stand in for induction over the turns of a loop.  `DirectoryProofs` is about `Directory`
  and about `Fsck`, which looks at the same variables; `PersistProofs` extends it and has
  a second instance of it, `Img`, for the same theorems about what the image holds.  `ReadsBackProofs` extends `FileBlocksProofs`.

Definitions keep the names of the functions they model, and `PROJECT.json` maps
each to its lines.  A definition marked "Faulty variant" is never used: it is a
plausible mistake in the definition that follows it, and shows that the property it
is paired with (under `mutants`) would notice the mistake.

### Abstractions

* A name is a member of a small set; `Cut` maps a name to its first 27 characters.
  In `MCDirectory`, `"aL"` is a long name that begins with all of `"a"`.
* A path is a sequence of names.  `/a/b` and, in the Python tests, `a/b` are the
  same path; the component `.` that `dirname` yields for the latter and that
  `translate` skips is the empty path.  The mount point is only ever read or
  `chmod`ed: the kernel refuses every other call on it.
* Times, owners, permission bits and the size of a directory steer nothing.
* An invalid slot's other fields are never read: `Stale` stands for them.
* A block of a file is opaque in `Directory` (`Bytes`).
* `block_read` and `block_write` succeed in all modules but `Persist`, where the
  process may end at each of them, as `exit(1)` after a failed one does.  The
  calls of `block_write` in `truncate` and `rmdir` whose result is not looked at
  are taken to succeed if the program goes on.
* Memory is never exhausted; leaked `strdup` copies are not counted.
* `chmod` may be given a mode without type bits (from the harness) or with those
  of the inode (from the kernel).
* Each handler is atomic: one call at a time, as with `-s` and in the harness;
  but for `Persist`, where its writes are steps, and `Threads`.
* `Persist` describes what happens up to three events, and has the variable
  `followed` turn `FALSE` at each; they are steps of the model, and happen on disks of
  every size, but nothing is said of what comes after:
  * a write takes a file past its direct pointers (`StaysDirect`): from there on tables
    of pointers are written, half written and leaked;
  * `mkdir` takes a block that is not blank (the run `stale_block` shows that this
    happens): what follows depends on the bytes in it;
  * the program is started on the image of a crash that is not in order
    (`CrashAndMount`).  `fs_init` looks at nothing of the image and mounts it, in the
    model too; it is followed if the checker accepts the image and two conditions the
    checker does not test hold of it (`Unchecked`; see section 3).

  The properties of the run `persist` have `followed` as their hypothesis, so that this
  restriction is in the statement and not in a bound.
* In `Persist` a block of a file is thus written with data or with zeroes; the order in
  which `truncate` zeroes blocks is any that begins with `direct[0]`.  Calls that
  write nothing are left out.  A `block_write` is one `write` of the kernel and is
  made or not made: the death of the process is modelled, not that of the machine.
* In `ReadImg` files have direct pointers only: of an indirect block the program
  enters what it lists, and not the block itself.  The list of unreachable
  blocks is left out.
* In `Threads` each thread makes one `create`; permission bits, times and the two
  other writes of `update_disk` are left out.  The kernel locks the directory in
  which it creates (external), so that each thread has a directory of its own.

## 3. The runs

The file system has no fairness and no liveness property: it answers calls and
does nothing by itself, each answer is one step (or, in `Persist`, as many as it has
writes), and whether there is another call is up to the caller.  No state is a
deadlock there, since a call can always be made (`Stopped` of `Persist` and `Finished` of
`Threads` are where these models end).  `ReadImg` is different: a
sequential program that is started and must end.  Its specification has weak
fairness of its whole next-state relation, which says no more than that the
process runs, and its run sets `CHECK_DEADLOCK FALSE` because it does end.

| run | what it asks | result |
|---|---|---|
| `namespace` | do all sequences of calls keep bitmaps, inodes, directory blocks and tree consistent? | holds |
| `tree` | does every call answer for its path, and change the tree, as `Tree` says? | holds |
| `file` | does a read return what was written, and do blocks move as `Directory` says? | holds |
| `persist` | is the image in order between calls, and what is found after a crash, as far as `followed`? | holds |
| `readimg` | does `read-img` end on every image, and report what is so? | holds |
| `long_path` | the same entries and inodes with paths beyond `MAX_PATH_LEN` | violated |
| `truncate_leak` | does truncate free every block of the file? | violated |
| `enospc_leak` | is every marked block reachable after a failed write? | violated |
| `short_write` | does a write that succeeds write everything? | violated |
| `stale_block` | is a new directory empty, with remounts between calls? | violated |
| `threads` | is an inode entered once when two threads create files, one at a time on the descriptor? | violated |
| `threads_read` | does `block_read` return the block it was asked for? | violated |

**`namespace`** (41175 states): 5 inodes of which 3 are free at first, 5 blocks of which 3
are, 2 slots per directory, paths of one and two components over three names, two of which are one after the cut.
The bounds are those at which each limit can be met: both bitmaps fill, a
directory fills, a directory and a file compete for the last block, an inode and
a block are freed by one kind of object and reused by the other, and a directory
can be removed or renamed with something in it.  `TypeOK` is about the scans of
the bitmaps, `EntriesMatchInodes`, `KindsAgree`, `NamesAreUnique` and `TreeIsConnected`
about the tree, `BlocksMatchOwners`, `FreeBlocksAreZero`, `FreeInodesAreClean` and
`DirectoriesHaveOneBlock` about the contracts between calls in section 1.

A file that has more blocks than `truncate` finds needs more blocks than this
instance has.  What becomes of them is checked in `file`, where `HandlersImplemented`
compares `Skipped` with the loops; that `BlocksMatchOwners` accounts for them
in `lost` is proved for every number of blocks (`NoBlockIsShared`).

**`tree`** (5141 states): the instance of `namespace` with one block less.  The mapping is
computed from the disk before and after each step, by translating every path.  Each of
the limits is met, so `ENOSPC` is checked both ways: with a full directory, with the
inodes used up and with no block free, and that it does not come otherwise, as when
unlink has made a slot free.

In `namespace`, `tree` and `persist` a `VIEW` leaves `ret` out of what makes two
states different.  No action reads `ret`, so that the states found and the values of the
invariants do not depend on it; of `ret` itself, `TypeOK` is proved.  `ImplementsTree`
reads the reply of the step at hand, `ret'`, and TLC evaluates it on each step it
generates, also on those to states it knows.  Of the previous reply only equality with
the new one matters (a step that changes nothing is a stutter); the theorem
`HandlersImplementTree` has no view.

**`file`** (78343 states): 1 direct pointer, 2 pointers per table and 2 bytes per block: at most
7 data blocks, which cover all three levels, in 13 blocks, of which the other file
holds two with a gap between them, or nearly all.  `Lens` has lengths below, at and above a
block, one that crosses a level and one longer than the largest file.
`MaxOverwrites` bounds the writes that do not start at the end to one between
them; appends and truncates are not bounded.  `ReadsBack` compares every read of every part of the
file with the history.

**`persist`** (144799 states): 4 inodes of which 2 are free, 5 blocks of which 3 are free, two
direct pointers, two names and two levels.  One write can fill the disk so that the
next fails, within the direct pointers (two files, or a directory and a file) or by
going past them.  Every handler that writes does so in this instance, with up to nine
writes (`unlink` of a file with two blocks), and each of the three events at which
`followed` becomes `FALSE` happens.  `FsckAccepts` holds between calls,
also after a failed write and however memory and image differ then.
`RemountKeepsState` says how they may differ: memory may have more block bits,
and the pointers to those blocks.  `CrashKeepsNames` holds at every write of every call, because the
directory block is written at once.  `FsckIsSound` and `SurvivesCrashes` are about
what a crash leaves: many of those images are not in order, as when the
directory block of `create` is written and the inode bitmap is not, and the
checker finds them.  `SpaceComesBack` compares `f_bfree` with a new image's.

None of this holds of files that outgrow their direct pointers: the two leaks of
`truncate_leak` and `enospc_leak` then reach the image, the checker reports them
between calls, and the space does not come back.  And of images after a crash,
two kinds are accepted by the checker and are not in order.  They are what `Unchecked` is
about: the program mounts them, and the properties would be false from there on:

* a crash in `create` of a file, after the inode bitmap and before the inode table,
  when the inode was a directory before: the entry says file, the inode still says
  directory, with `direct[0]` null.  The checker goes by the entry.  A later
  `rmdir` of that name goes by the inode and zeroes block 0.
* a crash in `rmdir`, after the bitmaps and before the inode table: the free inode
  keeps its pointer to a block that is free, and the next file that gets the inode
  starts with it.

**`readimg`** (172416 states): every image with the root directory and one inode that is a
directory or a file behind it, with 2 slots each that may be free, lead to any
inode as a file or a directory, or lead outside, and every bitmap of inodes and
blocks for the rest; so all loops of length one and two, inodes shared by two
entries of one or of two directories, and entries whose `isDir` bit is wrong.
`ReportIsRight` and `LoopMeansSharing` compare with closed sets, computed without
the queue.  `SilentIfAccepted` compares the two tools.

**`threads`**, **`threads_read`** and **`stale_block`** are the instances that show a
violation.  The first two have two threads with adjacent directory blocks.  `threads` is
checked under `BitmapSpec`: with all interleavings the shortest way to enter an inode
twice would be to copy an entry of the other's directory after a wrong read, which is
the question of `threads_read`.  `stale_block` is under `OrderlySpec`, with 4 blocks and three direct
pointers, and its trace has no crash: a write fails, the program is mounted again, and a
directory is made.

The seven violated runs show disagreements between the code and what its comments,
tests or checker say; `PROJECT.json` quotes each under `findings`:

* `truncate_leak`: the inner loop of `truncate` over a second-level block uses the
  outer loop's `i`; the second-level blocks after the first are skipped.
* `enospc_leak`: a write that meets `ENOSPC` forgets the pointers it put into a
  table in memory, but not the bits of the blocks.
* `short_write`: at the largest size a write returns a smaller count instead of an
  error.
* `long_path`: a path of more than 10 components is taken for its first 10, while
  the leaf comes from the whole path: removing it removes the wrong directory and
  keeps its entry.
* `stale_block`: a write that fails with `ENOSPC` leaves data in the blocks it took.  In memory
  they are marked; after a remount they are free, and `mkdir` takes one for its
  directory without writing to it.
* `threads`: the usage in `misc.c` and `test-q1.md` starts the program without `-s`.
  `get_next_inode` returns the same inode in two `create`s, before either of them
  has come to `bit_set`, and both enter it.
* `threads_read`: `block_read` seeks, another thread seeks elsewhere, and the `read` of the
  first returns the second's block.

The passing runs do not hide these: the first two are in `Directory`'s actions,
where `lost` names the blocks, `long_path` is excluded by the hypothesis
`ShortPaths`, and in `Persist` `followed` ends with a file beyond its direct pointers,
where the leaks are, and with the step `stale_block` is about.

## 4. The proofs

The theorems hold for every value of the constants; those marked with a property
state what a run checks on a small instance.

`DirectoryProofs` proves, for every number of inodes, blocks, slots and pointers,
every set of names and cut, and every set of paths:

| theorem | property |
|---|---|
| `AlwaysConsistent` | `Consistent`, the inductive invariant |
| `AlwaysTyped` | `TypeOK` |
| `NoInodeIsLost` | `EntriesMatchInodes` |
| `NoBlockIsShared` | `BlocksMatchOwners` |
| `FreeBlocksStayZero` | `FreeBlocksAreZero` |
| `FreeInodesStayClean` | `FreeInodesAreClean` |
| `DirectoriesAreReadable` | `DirectoriesHaveOneBlock` |
| `NamesStayUnique` | `NamesAreUnique` |
| `KindsAlwaysAgree` | `KindsAgree` |
| `TreeStaysConnected` | `TreeIsConnected` |

`DirectoryTreeProofs` proves the refinement, for the same constants:

| theorem | property |
|---|---|
| `HandlersImplementTree` | `ImplementsTree`: every step of `Directory` is a step of `Tree`, for the call and paths in the reply, or changes neither tree, free blocks nor reply |

`PersistProofs` proves, for the same constants, and for disks of every size.  What the
properties say, and so the theorems, is restricted by `followed` (section 2): files within
their direct pointers, and after a crash an image that is in order:

| theorem | property |
|---|---|
| `ImageStaysInOrder` | `InOrder`, the inductive invariant: `PInv` as long as `followed` |
| `FsckAlwaysAccepts` | `FsckAccepts` |
| `CrashAlwaysKeepsNames` | `CrashKeepsNames` |
| `FsckIsAlwaysSound` | `FsckIsSound` |
| `MemorySurvivesCrashes` | `SurvivesCrashes` |
| `SpaceAlwaysComesBack` | `SpaceComesBack` |
| `RemountAlwaysKeepsState` | `RemountKeepsState`, an action property |

`FileBlocksProofs` proves, for every number of blocks, every size of a block, and
every number of direct pointers and of pointers in a table:

| theorem | property |
|---|---|
| `FileInvariant` | `FileInv`, the inductive invariant |
| `FileTypeCorrect` | `TypeOK` |
| `FreeBlocksStayZero` | `FreeBlocksAreZero` |
| `BlocksStayTheFilesOwn` | `BlocksAreTheFilesOwn` |

`ReadsBackProofs` proves, for the same constants:

| theorem | property |
|---|---|
| `ReadInvariant` | `ReadInv`, the inductive invariant |
| `ReadsReturnWrites` | `ReadsBack` |

`ReadImgProofs` proves, for every set of images of every size:

| theorem | property |
|---|---|
| `QueueStaysInBounds` | `QueueFits` |
| `ReportAlwaysRight` | `ReportIsRight` |
| `LoopAlwaysMeansSharing` | `LoopMeansSharing` |
| `AlwaysSilentIfAccepted` | `SilentIfAccepted` |

And the checker and the layout:

| theorem | what it says |
|---|---|
| `FsckAcceptsSound` | on a sound state the checker accepts exactly if `lost` is empty |
| `FsckFindsLeaksOnly` | so in every reachable state: the known leaks are all the checker can find |
| `FsckIsTrustworthy` | an image the checker accepts, with `NotLookedAt` in order, has the invariants about entries, blocks and the tree |
| `AcceptedIsSound` | with the rest of what it does not look at, such an image is one the handlers can work on |
| `BitmapsCoverScans` | for every image size the bitmaps have a bit for all that is scanned |
| `FiveBlocksSuffice` | an image has room for its root exactly from 5 blocks on, which `mkfs` does not check |
| `NoRegionOverlaps` | from 5 blocks on the regions are disjoint and where `mkfs` put them |
| `FsckLeavesMap` | the checker's last scan leaves a block bitmap that is full to its last bit |

**Assumptions.**  `SizesAssumption` and `PathsAssumption` of `Directory`: there are
at least two inodes, a data block and a slot; cutting a name twice is cutting it
once; the root is not among the paths that are created, written or removed.
`ShortPaths`: no path is longer than what `parse` reads.  The run `long_path` shows
that the theorems are false without it.  `EveryPath` (`HandlersImplementTree` only): the
paths callers use include every path that `parse` reads to the end, as in the code, which
keeps no caller from any path.  A tree of the paths in use could otherwise
lack a name that `readdir` lists.  The instances in which TLC checks this property
satisfy both (`CallersUseEveryPath` of `MCDirectory`).  `PersistProofs` assumes
`ShortPaths` and nothing else.  `ImagesAssumption` of `ReadImg`: the constant `Images` is
a set of images, sound or not; `AlwaysSilentIfAccepted` assumes in addition that the
bit of the root's block is set, which only `read-img` looks at.  `SizesAssumption` of
`FileBlocks`: the numbers above are positive, the disk has a block for the root directory,
the other file's blocks lie beyond it, and what a write is given has a length.

**Calls.**  The invariant is `Consistent`: `Sound`, the seven parts that do not depend on
what free blocks hold (and so survive a remount after a failed write), and
`FreeBlocksAreZero`.  None of the eight parts of `Consistent` is inductive alone.  That
`mkdir` makes an empty directory needs `FreeBlocksAreZero`; that a new inode owns
nothing needs `FreeInodesAreClean`; that zeroing a file's blocks spoils no
directory needs `BlocksMatchOwners`; that `lookup` reads a directory and not block
0 needs `DirectoriesHaveOneBlock`; that clearing *all* entries with a name
clears one needs `NamesAreUnique`; that it clears the one that was resolved needs
`EntriesMatchInodes`; and that `chmod` keeps a directory one needs the type
invariant of `mode`.  So the conjunction is the invariant.

Translation is a loop, modelled by a recursive function; induction over it is
carried out with the least counterexample (`Minimum`, `UpTo` of `Loops`).  Three lemmas are
all the handlers need: `Resolves` (a path leads to an inode in use or to an
error), `Found` (the last name of a path that resolves is an entry of what the
parent resolves to) and `NotFound` (the last name of a path that does not is
none).  `SameParent` is the interesting one: `unlink` and `rmdir` translate the
parent after they have changed inodes and disk, and it still resolves to the same
directory, since what they cleared had no entries before or after, even if the
removed directory lay on the way.  Then the handlers that change entries share
one lemma for a slot that loses its entry (`RemoveEntry`), one for a slot
that gets one (`AddEntry`), and one for blocks given back (`GiveBack`);
`NextKeeps` has one step per action.

`TreeIsConnected` is stated with closed sets (every set of inodes in use that has the root and,
with a directory, what its entries lead to, has them all), which makes it
preserved by one argument per kind of change: a closed set of the new tree gives
one of the old tree.  It is carried along beside `Consistent` (`Keeps`), in each
handler's lemma.

**The tree.**  That the handlers implement `Tree` compares translation in two states,
path by path.  A state is therefore seen as its `Edges`, one triple of parent, name and
inode for each directory entry, and as `Resolution`, the inode of each path.
`Describes` ties them: a path leads to an inode exactly if there is an edge with its
last name from where its parent leads, and no two edges lead to the same inode.  From it follow, by
induction over paths (`PathInduction`), that no two paths lead to the same inode
(`OnePath`), that all parts of a path that leads somewhere do (`OnTheWay`), and what a change
of the edges does to every path: the same edges lead everywhere the same
(`SameEdges`), an edge more to a new inode is one path more (`EdgeAdded`), an edge less to an inode
without edges is one path less (`EdgeRemoved`), and an edge with another name takes all paths
through it along (`EdgeMoved`).  `DirectoryProofs` says for each handler what it does to
`Edges`, and `BiggerTree`, `SmallerTree` and `MovedTree` what that is to the tree.  The error of a
path that leads nowhere is decided by its last part that leads somewhere (`MissingMeans`), as in `Tree`.  Two
replies need more: `readdir` lists the names of the *paths* below its directory, and `rmdir` finds no
entry exactly if no path is below.  For that the invariant is `Consistent` with `Reached`,
every inode in use is at the end of a path short enough for `parse`, which `Consistent`
alone does not give.  There is one lemma for each call (`MakeServes`, `RmdirServes`, ...).

`ENOSPC` and the number of free blocks compare numbers of names, paths and blocks with
sets of slots, inodes and blocks, by one-to-one maps (`Cardinality(Listing(blk)) = num_slots`
exactly if no slot is free, since no name is there twice; as many paths as inodes exactly
if none is free, since each inode is at the end of one path).

**The checker.**  `NotLookedAt` is what `FsckIsTrustworthy` has to assume, and so a
list of what `fsck.hw3` does not test: the bits of the root's inode and block,
other pointers of the root, entries that lead to inode 0, and the mode of an
inode whose entry says it is a file.  In both directions the set of visited
directories is handled as the least closed set.

**The layout.**  The divisions in `DIV_ROUND_UP` are turned into inequalities
(`Bounds`), from which the theorems follow by linear arithmetic.

**The image.**  `PInv` is about memory, the image, and every image in `pending` at once:

* memory is `Sound` and connected, no inode has more blocks than direct pointers
  (`WithinDirect`), so nothing is lost, and every entry on disk is in the block of a
  directory in use;
* `ImageOK` of every image on the way: what `fsck.hw3` does *not* look at and no crash
  may therefore spoil: the root's bits, that a directory has one block only, that an
  entry lies in a block some directory's inode leads to, that an entry for a file
  whose inode says directory finds that inode without a block;
* the last image is `UpToDate` with memory or, after a write that ran out of blocks,
  `Behind` it: sound by itself, with the inodes of memory, without the new blocks, and
  with pointers that lead to no other blocks than in memory (`LeadsToNoOthers`);
* on each image all paths lead where they led `before` the call, or all where they
  lead now.

A handler's writes are put together by `BlocksWritten`, `MetadataWritten` and
`FinishWrites`, which say that every image on the way is `Mixed`: each of its parts is
as on the image before or as in memory after.  That alone gives neither `ImageOK` nor
the paths.  What does is `Frame(d)`: a handler changes the entries of one directory
`d`; inodes in use keep their types, directories their blocks, a removed one had no
entries and a new one has none.  So names lead as before until the block of `d` is
written and as after once it is, wherever in the order of writes that happens
(`LeadsAlike`).  Each handler then has a lemma that its step has a frame; `unlink` is
the one with two `update_disk`s, and with an image between them that is sound but
belongs to no call.  A mount takes an image that is `UpToDate`, `Behind`, or accepted by
the checker and `Unchecked`, or else ends what is `followed`; in the third case `FsckIsTrustworthy` and `AcceptedIsSound`
of the instance `Img` make memory sound again.

Each part of `PInv` is there because the others were not inductive without it; TLC
was given it as an invariant of the instance of `persist` before it was proved.

**A file's blocks.**  `BlocksAreTheFilesOwn` counts the pointers that lead to a block
of the file, and is not inductive: it says nothing of the pointers in a table that
no pointer leads to, and a write that met `ENOSPC` leaves such tables behind; and in
the middle of a write the tables in memory are ahead of those on disk, and a fresh
indirect block holds pointers before the inode knows it.  `FileInv` speaks of *places*
instead, a slot of the inode or of any block, reachable or not: there is a map `q` that
sends every place to a block, such that a pointer found at a place is null or leads
where `q` says (`Under`), and the blocks `q` uses are all different, marked, and neither
the file system's nor the other file's (`Apart`).  A block that is taken makes `q` longer by a
place; a write that drops a table from memory leaves `q` as it is; only a freed block
leaves `q`.  So no step has to say which blocks can be reached, and that no block has
two pointers follows from `q` being one-to-one.

The same is said of the memory of a running write: `Tracked` of its tables, `Going` of
its running sums, and `Working` of the table at hand while a helper fills it.  The loops
are recursive functions over their turns: `Iterates` of `Loops` gives the states after
each turn, `UpTo` carries the invariant along (`TurnsKeep`, `SecondTurnsKeep`), and there
is one lemma for each level of pointers and each part of a turn.  That a freed block is
zero needs that a write fills a block only after it has marked it.  That `size` stays
within the largest file, although the code only checks that pointers are used up, is
`At` and `Walks`: how far the running sums are when so many pointers are passed.  For
`truncate`, every block it frees is at a place that it clears or that is in a block it
frees too (`ReleasedAreFreed`), also where the loop over the second level skips some.

TLC was given the invariant on the instance of `file` before it was proved.

**A file's bytes.**  `ReadsBack` says of every read at every offset what `fs_read` returns,
and so depends on the three loops of `fs_read` and on what a write leaves on disk.  It is
not inductive: a file of the right bytes may be read through pointers that the next write
forgets.  `ReadInv` adds to `FileInv` that every byte before the end of the file is where
it belongs (`Holds`).  The bytes are numbered by *regions*, 0 for the blocks of `direct[]`,
1 for those of `indir_1`, and one for each second-level block; a region begins at
`Start`, and each of its slots has one block.  `Holds` says of each byte before the end that the
region can be found (`Root`), that its slot leads to a block (`Pointer`), and that
this block has the byte of `contents` at its place.

*Writing.*  In the middle of a write three things are true together, `Wrote`: the running sums
are where so many bytes lead them (`Reached`, which says how `offset_cnt`, `cnt` and `len`
depend on each other before the first byte, between, and after the last); what is written
so far and what was there before is in place (`Holds` with `NeedAt` and `ValAt`, for the
file as it will be, and with the table that is in memory in place of its block); and
no pointer to a byte before the old end was lost (`Kept`).  A table in memory is written back only
when the file grows; if it does not, the new pointers in the table are forgotten.  That is
harmless because of `Kept`: as long as the write is not past the old end, all that it wrote went
through pointers that are on disk already (`FlushesWrote`).  When the disk is full, tables with new
pointers are forgotten, but then only bytes before the old end are promised, and
those were reached without them.  That a byte lands in a block nobody else reads
needs that all pointers differ (`PointersDiffer`, from `q` of `FileInv`).

*Reading.*  `Got` says what a read has after so many bytes: the buffer is a part of
`contents` and the running sums are before, at, or past the bytes asked for.  Each level has
a lemma (`TableReads`, `SecondsRead`), which need that the tables they pass lead somewhere
(`Leads`, from `Holds`), and `GotAll` puts them together.

TLC was given `Holds` on the instance of `file` before it was proved.

**`read-img`.**  The queue and the bits of `imap` grow together: the queue is as long as
`imap` has members, so its length is at most the number of inodes.  For what is
reported, the invariant `WalkInv` says that, until a loop is found, the queue is the
root and one element for each entry passed (`Followed`), each with an inode of its
own, and that its directories are ones the walk can reach.  When the queue is
used up, its directories are therefore closed under entries, and so all of the least
closed set that `ReportIsRight` compares with.  A loop ends the walk at once, and for a
reason: the entry at hand leads where the root is or an earlier entry led.
`AlwaysSilentIfAccepted` follows the walk through an accepted image: each error has a
test of the checker that would have reported it.

**Only model-checked**: `HandlersImplemented` of `FileHandlers`, which compares the order in
which blocks are taken; `Terminates` of `ReadImg`, which is liveness; and that the
layout of the images of `mktest` is sound, two constant states.

## 5. Not modelled

* The data `statfs` returns beside the count of free blocks: constants.
* What the tools print, and the list of unreachable blocks of `read-img`.
* The bytes of the files of the `mktest` images.
* The exhaustion of memory, and what lies beyond the buffers that `create` and its kin
  allocate for `split_path`: 1000 bytes for a path and 28 for a leaf.  `split_path` copies the whole
  last component there before it cuts it, so every name that is cut is written past the end
  of the buffer, which C does not define.  `Leaf` is the outcome the code intends and that
  the rest of the handler relies on: the first 27 characters.
* The loss of writes by the machine (the code never calls `fsync`), half-written
  blocks, crashes inside writes to indirect blocks, and anything an image goes
  through after `followed` is `FALSE`.
* The contents of files after a crash: `truncate` zeroes blocks before the inode is
  written, so that a crash leaves a file of its old size that reads as zeroes.  The
  checker accepts that, and `Persist` has of a file's block only that it is one.
* More than two threads, and other handlers than `create` in them: the code has no
  protection that could be examined further.
* The Makefile, the tests as programs, and the Valgrind suppressions.

## 6. The plan

Done: `Directory` with its invariant and proofs, `Tree` and `DirectoryTree`,
`FileBlocks` and `FileHandlers`, `Fsck`, `Persist`, `Threads`, `ReadImg`, `Layout` and
`TestImage` with their runs, and the proofs of section 4.

Left, in this order:

1. `HandlersImplemented`: it needs, beside `FileInv`, how many blocks each turn of a write
   takes, and that they are the first free ones.
2. `Persist` with indirect blocks, that is, what happens after `StaysDirect` is false, with
   the blocks the two leaks lose.
