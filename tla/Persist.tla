------------------------------- MODULE Persist -------------------------------
(***************************************************************************)
(* What reaches the image file.  The bitmaps and inodes of Directory are   *)
(* the copies fs_init makes in memory; `image' is what the file holds.     *)
(* A handler of Directory changes memory at once here, and its calls of    *)
(* block_write follow one by one, in the order of the code: `pending'      *)
(* holds the image after each write still to come.  The program may die    *)
(* between two writes (exit(1) after a failed block_read or block_write,   *)
(* or killed); each write is one call of write() and is made or not made.  *)
(*                                                                         *)
(* Three events lie beyond this module, which stops at them: a write that  *)
(* takes a file past its direct pointers, a directory made of a block that *)
(* is not blank, and the mount of a crash's image that is not in order.    *)
(* They happen, on disks of any size; `followed' tells that none has.      *)
(* Calls that write nothing, all that fail except a write that runs out of *)
(* blocks, are left out.                                                   *)
(***************************************************************************)
EXTENDS Fsck

VARIABLES
    image,      \* the image file
    pending,    \* the images the writes of the call under way lead to
    before,     \* history: where paths led when the call began
    followed    \* history: all that happened so far is described here

pvars == <<vars, image, pending, before, followed>>

\* The image seen by the checker and by a later mount.
Image == INSTANCE Fsck WITH
    inode_map <- image.inode_map, block_map <- image.block_map,
    mode <- image.mode, direct0 <- image.direct0, rest <- image.rest,
    disk <- image.disk, lost <- {}, ret <- ret

\* Where each path leads, in memory and on the image; 0 if nowhere.
Leads(md, d0, dsk) ==
    [p \in Paths |-> LET i == translate(md, d0, dsk, p) IN IF i > 0 THEN i ELSE 0]
Where == Leads(mode, direct0, disk)
WhereOnImage == Leads(image.mode, image.direct0, image.disk)

-----------------------------------------------------------------------------
(* Writes.  Each operator gives a sequence of images, from the image img.  *)

LastOf(img, w) == IF w = <<>> THEN img ELSE w[Len(w)]

\* dsk once the blocks in S are written.
Written(dsk, S) == [b \in DOMAIN dsk |-> IF b \in S THEN disk'[b] ELSE dsk[b]]

\* block_write of the blocks in `order', one by one.
block_write(img, order) ==
    [k \in 1 .. Len(order) |->
        [img EXCEPT !.disk = Written(@, {order[j] : j \in 1 .. k})]]

\* Faulty variants: the block bitmap, or the inodes, are not written.
update_disk_no_map(img, imap) ==
    LET a == [img EXCEPT !.inode_map = imap]
        c == [a EXCEPT !.mode = mode', !.direct0 = direct0', !.rest = rest']
    IN <<a, c>>
update_disk_maps(img, imap) ==
    LET a == [img EXCEPT !.inode_map = imap]
    IN <<a, [a EXCEPT !.block_map = block_map']>>

\* The inode bitmap, the block bitmap, the inodes.
update_disk(img, imap) ==
    LET a == [img EXCEPT !.inode_map = imap]
        b == [a EXCEPT !.block_map = block_map']
        c == [b EXCEPT !.mode = mode', !.direct0 = direct0', !.rest = rest']
    IN <<a, b, c>>

\* Blocks, then the metadata: how most handlers end.
Finish(img, order) ==
    LET w == block_write(img, order)
    IN w \o update_disk(LastOf(img, w), inode_map')

\* The call under way will make the writes w.
Writes(w) == pending' = w /\ before' = Where /\ UNCHANGED <<image, followed>>

\* What the call under way writes is beyond this module.
Beyond == followed' = FALSE /\ UNCHANGED <<image, pending, before>>

Returns(code) == ret'.code = code

DirBlock(p) == direct0[ParentInum(p)]

\* The orders in which the blocks of a set can be written.
Orders(S) == {o \in [1 .. Cardinality(S) -> S] : \A b \in S : \E k \in DOMAIN o : o[k] = b}

\* The blocks of inode i as truncate zeroes them, direct[0] first.
Order(i) == {o \in Orders(Held(i)) : Held(i) # {} => o[1] = direct0[i]}

\* New blocks as get_next_block hands them out, first fit.
FirstFitOrder(S) == {o \in Orders(S) : \A j, k \in DOMAIN o : j < k => o[j] < o[k]}

PInit ==
    /\ Init
    /\ image = [inode_map |-> inode_map, block_map |-> block_map, mode |-> mode,
                direct0 |-> direct0, rest |-> rest, disk |-> disk]
    /\ pending = <<>>
    /\ before = Where
    /\ followed = TRUE

Idle == pending = <<>>

-----------------------------------------------------------------------------

\* utime's own change, mtime, is left out; it writes memory all the same.
PChmod(p) ==
    /\ fs_chmod(p) \/ fs_utime(p)
    /\ Returns(OK)
    /\ Writes(Finish(image, <<>>))

PCreate(p) == fs_create(p) /\ Returns(OK) /\ Writes(Finish(image, <<DirBlock(p)>>))

\* A directory made of a block that is not blank has what the bytes in it
\* read as for entries.
PMkdir(p) ==
    /\ fs_mkdir(p)
    /\ Returns(OK)
    /\ IF disk[get_next_block] = ZeroBlock
       THEN Writes(Finish(image, <<DirBlock(p)>>))
       ELSE Beyond

\* The blocks inode i has when the call returns are within direct[].
StaysDirect(i) == Cardinality(({direct0'[i]} \ {0}) \cup rest'[i]) <= N_DIRECT

\* The new blocks in the order they are taken, each written when it is.
\* A write that runs out of blocks returns without update_disk.
PWrite(p) ==
    /\ fs_write(p)
    /\ ret'.code \in {OK, ENOSPC}
    /\ IF StaysDirect(Inum(p))
       THEN \E o \in FirstFitOrder(block_map' \ block_map) :
               Writes(IF Returns(OK) THEN Finish(image, o) ELSE block_write(image, o))
       ELSE Beyond

PTruncate(p) ==
    /\ fs_truncate(p)
    /\ Returns(OK)
    /\ \E o \in Order(Inum(p)) : Writes(Finish(image, o))

\* fs_truncate with its update_disk comes first, then the directory.
PUnlink(p) ==
    /\ fs_unlink(p)
    /\ Returns(OK)
    /\ \E o \in Order(Inum(p)) :
          LET zero == block_write(image, o)
              truncated == zero \o update_disk(LastOf(image, zero), inode_map)
          IN Writes(truncated \o Finish(LastOf(image, truncated), <<DirBlock(p)>>))

PRmdir(p) ==
    /\ fs_rmdir(p)
    /\ Returns(OK)
    /\ Writes(Finish(image, <<direct0[Inum(p)], DirBlock(p)>>))

\* Faulty variant: the old name is erased on disk, then the new one written.
PRename_twice(p, q) ==
    /\ fs_rename(p, q)
    /\ Returns(OK)
    /\ LET erased == [image EXCEPT !.disk[DirBlock(p)] = Invalidated(@, Leaf(p))]
       IN Writes(<<erased>> \o Finish(erased, <<DirBlock(p)>>))

PRename(p, q) ==
    /\ fs_rename(p, q)
    /\ Returns(OK)
    /\ Writes(Finish(image, <<DirBlock(p)>>))

Call ==
    /\ followed /\ Idle
    /\ \/ \E p \in Paths \cup {<<>>} : PChmod(p)
       \/ \E p \in Paths : \/ PCreate(p) \/ PMkdir(p) \/ PWrite(p)
                           \/ PTruncate(p) \/ PUnlink(p) \/ PRmdir(p)
       \/ \E p, q \in Paths : PRename(p, q)

\* The next write reaches the image.
Flush ==
    /\ followed /\ ~Idle
    /\ image' = Head(pending)
    /\ pending' = Tail(pending)
    /\ before' = IF Tail(pending) = <<>> THEN Where ELSE before
    /\ UNCHANGED <<vars, followed>>

\* fs_init: memory is what the image holds.
fs_init ==
    /\ inode_map' = image.inode_map
    /\ block_map' = image.block_map
    /\ mode' = image.mode
    /\ direct0' = image.direct0
    /\ rest' = image.rest
    /\ disk' = image.disk
    /\ lost' = {}
    /\ ret' = Reply("attr", <<<<>>>>, OK, {})
    /\ pending' = <<>>
    /\ before' = WhereOnImage
    /\ UNCHANGED image

Remount == followed /\ Idle /\ fs_init /\ UNCHANGED followed

\* What the checker does not look at and a crash can spoil: a free inode
\* keeps its pointers (rmdir), and a file has the mode of a directory that
\* had the inode before it (create).
Unchecked == Image!FreeInodesAreClean /\ Image!KindsAgree

\* The program dies with writes to come, and is started on what they left.
\* fs_init looks at nothing of it; what the handlers then do is followed if
\* the checker accepts the image and Unchecked holds.
CrashAndMount ==
    /\ followed /\ ~Idle
    /\ fs_init
    /\ followed' = (Image!DiskFormatOK /\ Unchecked)

Stopped == ~followed /\ UNCHANGED pvars

PNext == Call \/ Flush \/ Remount \/ CrashAndMount \/ Stopped

PSpec == PInit /\ [][PNext]_pvars

\* The program is only ever ended between two calls.
OrderlySpec == PInit /\ [][Call \/ Flush \/ Remount \/ Stopped]_pvars

-----------------------------------------------------------------------------
(* Properties.  They speak of what is followed: files within their direct  *)
(* pointers, and of the images a crash leaves only those to mount that the *)
(* checker accepts and that are in order where it does not look.           *)

\* Between two calls the checker, which test-q2.py runs after every test,
\* finds nothing wrong, also when a write has just failed with ENOSPC and
\* left memory ahead of the image (update_disk, fs_write).  Larger files
\* break it: FileBlocks has the two leaks, and both reach the image.
FsckAccepts == followed /\ Idle => Image!DiskFormatOK

\* Wherever the program dies, every path leads on the image to where it led
\* before the call or to where the call would have taken it (the one write
\* of the directory block in create, unlink, rmdir and rename).
CrashKeepsNames == followed => WhereOnImage \in {before, Where}

\* A remount finds the inodes in use, their types and the blocks as they
\* were in memory.  Only what a write that failed took becomes free: no
\* block is marked that was not, and an inode's pointers lead to fewer
\* blocks, never to others (update_disk, fs_init).
RemountKeepsState ==
    [][Remount => /\ inode_map' = inode_map /\ mode' = mode /\ disk' = disk
                  /\ block_map' \subseteq block_map
                  /\ \A i \in Inodes : /\ direct0'[i] \in {0, direct0[i]}
                                       /\ rest'[i] \subseteq rest[i]]_pvars

\* Whatever image a crash leaves, if the checker accepts it then its entries
\* match its inodes and its bitmap its owners, although the checker goes by
\* the entries' isDir bits and does not test the root's own bits (dir_iter).
FsckIsSound ==
    followed /\ Image!DiskFormatOK =>
        Image!EntriesMatchInodes /\ Image!BlocksMatchOwners

\* Remounts, failed writes and crashes in between, entries match inodes and
\* the bitmap its owners in memory, directories have their one block and no
\* name is used twice (fs_init, update_disk).  Of a crash's image this takes
\* Unchecked from the start: the checker alone does not ensure it.
SurvivesCrashes ==
    followed => /\ EntriesMatchInodes
                /\ BlocksMatchOwners
                /\ DirectoriesHaveOneBlock
                /\ NamesAreUnique

\* When only the root is left statfs reports as many free blocks as on a new
\* image (test-q2.py compares the two), if no file outgrew its direct
\* pointers, also after writes that failed and crashes whose images were in
\* order.  Larger files lose blocks for good (TruncateFreesAll and
\* NothingIsLost of FileBlocks).
SpaceComesBack ==
    followed /\ Live = {ROOT_INODE} => f_bfree = num_blocks - DataStart - 1

\* mkdir makes a directory without entries (test-q2.py lists a new one): it
\* takes a blank block, since the block is not written (create).
NewDirectoryIsBlank ==
    [][\A p \in Paths : fs_mkdir(p) /\ Returns(OK) => disk'[direct0'[get_next_inode]] = ZeroBlock]_pvars
=============================================================================
