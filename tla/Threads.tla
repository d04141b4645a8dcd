------------------------------- MODULE Threads -------------------------------
(***************************************************************************)
(* Two FUSE threads, as fuse_main starts them without -s, that each create *)
(* a file in a directory of their own.  Nothing in homework.c or misc.c    *)
(* locks; the kernel holds a lock on the parent directory only (external). *)
(* All threads share inode_map and the one descriptor disk_fd with its     *)
(* position, counted in blocks here.                                       *)
(*                                                                         *)
(* Of create the model has what the threads share: the parent's block, the *)
(* inode bitmap, and the bitmap's write in update_disk, whose two other    *)
(* writes are alike.  A directory block is the set of inodes its entries   *)
(* lead to; a directory block read from a block of another kind has none.  *)
(***************************************************************************)
EXTENDS Integers, FiniteSets

CONSTANTS
    Threads,
    DirOf,          \* DirOf[t]: the directory block thread t works on, each
                    \* its own, behind the bitmap's block
    num_inodes

InodeMapBlock == 1
Inodes == 0 .. num_inodes - 1
DirBlocks == {DirOf[t] : t \in Threads}

VARIABLES
    inode_map,      \* shared memory: inodes whose bit is set
    offset,         \* position of disk_fd
    disk,           \* disk[b]: inodes entered, or marked, in block b
    pc,             \* pc[t]: what thread t does next
    fd,             \* fd[t]: t's copy of the directory block
    next_inode,     \* next_inode[t]
    byte            \* byte[t]: the bitmap as t loaded it in bit_set

tvars == <<inode_map, offset, disk, pc, fd, next_inode, byte>>

Init ==
    \* the first file of each directory exists
    \E first \in [Threads -> Inodes \ {0, 1}] :
        /\ \A t, u \in Threads : t # u => first[t] # first[u]
        /\ inode_map = {0, 1} \cup {first[t] : t \in Threads}
        /\ offset = 0
        /\ disk = [b \in DirBlocks |->
                      {first[t] : t \in {u \in Threads : DirOf[u] = b}}]
        /\ pc = [t \in Threads |-> "read_seek"]
        /\ fd = [t \in Threads |-> {}]
        /\ next_inode = [t \in Threads |-> 0]
        /\ byte = [t \in Threads |-> {}]

Go(t, from, to) == pc[t] = from /\ pc' = [pc EXCEPT ![t] = to]

\* lseek(disk_fd, b, SEEK_SET).
Seek(t, from, to, b) ==
    /\ Go(t, from, to)
    /\ offset' = b
    /\ UNCHANGED <<inode_map, disk, fd, next_inode, byte>>

\* block_read: lseek, then read wherever the position is by now.
ReadSeek(t) == Seek(t, "read_seek", "read", DirOf[t])

Read(t) ==
    /\ Go(t, "read", "get_next_inode")
    /\ fd' = [fd EXCEPT ![t] = IF offset \in DirBlocks THEN disk[offset] ELSE {}]
    /\ offset' = offset + 1
    /\ UNCHANGED <<inode_map, disk, next_inode, byte>>

get_next_inode(t) ==
    /\ Inodes \ inode_map # {}
    /\ Go(t, "get_next_inode", "bit_load")
    /\ next_inode' = [next_inode EXCEPT ![t] =
           CHOOSE i \in Inodes \ inode_map : \A j \in Inodes \ inode_map : i <= j]
    /\ UNCHANGED <<inode_map, offset, disk, fd, byte>>

\* bit_set: map[i/8] |= 1 << (i%8) is a load and a store.
bit_load(t) ==
    /\ Go(t, "bit_load", "bit_store")
    /\ byte' = [byte EXCEPT ![t] = inode_map]
    /\ UNCHANGED <<inode_map, offset, disk, fd, next_inode>>

bit_store(t) ==
    /\ Go(t, "bit_store", "write_end")
    /\ inode_map' = byte[t] \cup {next_inode[t]}
    /\ fd' = [fd EXCEPT ![t] = @ \cup {next_inode[t]}]
    /\ UNCHANGED <<offset, disk, next_inode, byte>>

\* block_write: lseek to the end of the block, lseek to it, write.
WriteEnd(t) == Seek(t, "write_end", "write_seek", DirOf[t] + 1)
WriteSeek(t) == Seek(t, "write_seek", "write", DirOf[t])

Put(what) ==
    /\ disk' = [b \in DOMAIN disk \cup {offset} |-> IF b = offset THEN what ELSE disk[b]]
    /\ offset' = offset + 1

Write(t) ==
    /\ Go(t, "write", "map_end")
    /\ Put(fd[t])
    /\ UNCHANGED <<inode_map, fd, next_inode, byte>>

\* update_disk
MapEnd(t) == Seek(t, "map_end", "map_seek", InodeMapBlock + 1)
MapSeek(t) == Seek(t, "map_seek", "map_write", InodeMapBlock)

MapWrite(t) ==
    /\ Go(t, "map_write", "done")
    /\ Put(inode_map)
    /\ UNCHANGED <<inode_map, fd, next_inode, byte>>

create(t) ==
    \/ ReadSeek(t) \/ Read(t) \/ get_next_inode(t) \/ bit_load(t) \/ bit_store(t)
    \/ WriteEnd(t) \/ WriteSeek(t) \/ Write(t)
    \/ MapEnd(t) \/ MapSeek(t) \/ MapWrite(t)

Finished == (\A t \in Threads : pc[t] = "done") /\ UNCHANGED tvars

Next == (\E t \in Threads : create(t)) \/ Finished

Spec == Init /\ [][Next]_tvars

\* What the shared bitmap does on its own: as if a thread had the descriptor
\* to itself from its first lseek to its read or write.
HasDescriptor == {"read", "write_seek", "write", "map_seek", "map_write"}
OneHasDescriptor ==
    \A t, u \in Threads :
        t # u => pc'[t] \notin HasDescriptor \/ pc'[u] \notin HasDescriptor
BitmapSpec == Init /\ [][Next /\ OneHasDescriptor]_tvars

-----------------------------------------------------------------------------

\* Two creates that have both entered their new file have entered different
\* inodes, whichever way their steps interleave (get_next_inode, which looks
\* for a clear bit, and bit_set, which sets it later).
InodeUsedOnce ==
    \A t, u \in Threads :
        /\ t # u
        /\ next_inode[t] \in disk[DirOf[t]]
        /\ next_inode[u] \in disk[DirOf[u]]
        => next_inode[t] # next_inode[u]

\* What block_read has put into a thread's buffer is the block it asked for,
\* wherever another thread moves the position of disk_fd meanwhile: create
\* adds its entry to that copy and writes it back.
ReadsWhatItAskedFor ==
    \A t \in Threads : pc[t] = "get_next_inode" => fd[t] = disk[DirOf[t]]
=============================================================================
