------------------------------- MODULE ReadImg -------------------------------
(***************************************************************************)
(* read-img: a walk over an image with a queue of inodes, that must end on *)
(* any image, also one with loops, and reports what it finds.  The image   *)
(* is in the variables of Directory, which never change here; of what is   *)
(* printed the model keeps the errors and the list of unreachable inodes.  *)
(***************************************************************************)
EXTENDS Fsck

CONSTANT Images     \* the images to read: records of Directory's variables

\* Of the bitmap the model keeps the bits of the inodes there are.
ASSUME ImagesAssumption == \A img \in Images : img.inode_map \subseteq Inodes

VARIABLES
    pc,             \* "queue": at the while loop; "slots": in a directory
    inode_list,     \* the queue; `head' is its length
    tail,           \* how many of its entries were taken
    i,              \* the slot of the directory at hand
    imap,           \* inodes entered in the queue
    blkmap,         \* blocks met
    errors,         \* lines with ***ERROR***
    unreachable     \* the inodes listed at the end

walk == <<pc, inode_list, tail, i, imap, blkmap, errors, unreachable>>
rvars == <<vars, walk>>

RInit ==
    /\ \E img \in Images :
          /\ inode_map = img.inode_map /\ block_map = img.block_map
          /\ mode = img.mode /\ direct0 = img.direct0 /\ rest = img.rest
          /\ disk = img.disk
    /\ lost = {}
    /\ ret = Reply("attr", <<<<>>>>, OK, {})
    /\ pc = "queue"
    /\ inode_list = <<[dir |-> TRUE, inum |-> ROOT_INODE]>>
    /\ tail = 0
    /\ i = 0
    /\ imap = {ROOT_INODE}
    /\ blkmap = {}
    /\ errors = {}
    /\ unreachable = {}

\* The element the loop took last, and the next one.
Current == inode_list[tail]
Upcoming == inode_list[tail + 1]

\* Faulty variant: the test is inverted, as it is for the blocks that the
\* program lists at its end.
MarkedFree_inverted(S) == {<<"block marked free", b>> : b \in S \cap block_map}

MarkedFree(S) == {<<"block marked free", b>> : b \in S \ block_map}

\* What the loop does at its start: inode_list[tail++].
Take(dir) ==
    /\ pc = "queue" /\ tail < Len(inode_list)
    /\ Upcoming.dir = dir
    /\ tail' = tail + 1
    /\ UNCHANGED <<vars, inode_list, imap, unreachable>>

\* The blocks a file's pointers lead to.  The files here have direct pointers
\* only: of an indirect block the code enters what it lists, not the block.
TakeFile ==
    /\ Take(FALSE)
    /\ blkmap' = blkmap \cup Held(Upcoming.inum)
    /\ errors' = errors \cup MarkedFree(Held(Upcoming.inum))
    /\ UNCHANGED <<pc, i>>

TakeNoDirectory ==
    /\ Take(TRUE)
    /\ ~S_ISDIR(mode[Upcoming.inum])
    /\ errors' = errors \cup {<<"not a directory", Upcoming.inum>>}
    /\ UNCHANGED <<pc, i, blkmap>>

TakeDirectory ==
    /\ Take(TRUE)
    /\ S_ISDIR(mode[Upcoming.inum])
    /\ blkmap' = blkmap \cup {direct0[Upcoming.inum]}
    /\ errors' = errors \cup MarkedFree({direct0[Upcoming.inum]})
    /\ pc' = "slots"
    /\ i' = 0

\* Faulty variant: the loop stays at an entry it cannot follow.
NextSlot_never == i' = i

NextSlot == i' = i + 1

\* Faulty variant: files are not entered, they have no entries to follow.
Entered_dirs(e) == IF e.isDir THEN {e.inode} ELSE {}

Entered(e) == {e.inode}

\* Slot i of the directory at hand.
Slot ==
    /\ pc = "slots" /\ i < num_slots
    /\ LET e == disk[direct0[Current.inum]][i]
       IN \/ /\ ~e.valid
             /\ i' = i + 1
             /\ UNCHANGED <<pc, inode_list, imap, errors>>
          \/ /\ e.valid /\ e.inode \notin Inodes
             /\ errors' = errors \cup {<<"invalid inode", e.inode>>}
             /\ NextSlot
             /\ UNCHANGED <<pc, inode_list, imap>>
          \/ /\ e.valid /\ e.inode \in Inodes \cap imap
             /\ errors' = errors \cup {<<"loop found", Current.inum>>}
             /\ pc' = "done"                    \* goto fail
             /\ UNCHANGED <<inode_list, imap, i>>
          \/ /\ e.valid /\ e.inode \in Inodes \ imap
             /\ imap' = imap \cup Entered(e)
             /\ errors' = errors \cup (IF e.inode \in inode_map THEN {}
                                       ELSE {<<"inode marked free", e.inode>>})
             /\ inode_list' = Append(inode_list, [dir |-> e.isDir, inum |-> e.inode])
             /\ i' = i + 1
             /\ UNCHANGED pc
    /\ UNCHANGED <<vars, tail, blkmap, unreachable>>

EndOfDirectory ==
    /\ pc = "slots" /\ i = num_slots
    /\ pc' = "queue"
    /\ UNCHANGED <<vars, inode_list, tail, i, imap, blkmap, errors, unreachable>>

\* Faulty variant: the bitmap is not looked at.
Unreached_all == (Inodes \ {0}) \ imap

Unreached == ((Inodes \ {0}) \ imap) \cap inode_map

Report ==
    /\ pc = "queue" /\ tail = Len(inode_list)
    /\ unreachable' = Unreached
    /\ pc' = "done"
    /\ UNCHANGED <<vars, inode_list, tail, i, imap, blkmap, errors>>

RNext == TakeFile \/ TakeNoDirectory \/ TakeDirectory \/ Slot
            \/ EndOfDirectory \/ Report

\* The program runs until it ends.
RSpec == RInit /\ [][RNext]_rvars /\ WF_rvars(RNext)

-----------------------------------------------------------------------------
(* Properties. *)

\* The program ends on every image, also when directories form a loop or
\* entries lead nowhere (the test of imap, the continue statements).
Terminates == <>(pc = "done")

\* The queue never has more elements than there are inodes, and so stays
\* within inode_list[]: an inode is entered once, whatever the image.
QueueFits == Len(inode_list) <= num_inodes

\* What the walk can reach: from an inode that is entered as a directory and
\* is one, to the inodes its valid entries lead to.
FollowedFrom(S) ==
    {EntryAt(ds) : ds \in {et \in S \X Slots : S_ISDIR(mode[et[1]]) /\ EntryAt(et).valid}}
ClosedWalk(S) ==
    /\ ROOT_INODE \in S
    /\ \A e \in FollowedFrom(S) : e.isDir /\ e.inode \in Inodes => e.inode \in S
DirsInWalk == {d \in Inodes : \A S \in SUBSET Inodes : ClosedWalk(S) => d \in S}

\* If no loop was found, the inodes listed as unreachable are exactly those
\* in use that no chain of entries from the root leads to.
ReportIsRight ==
    pc = "done" /\ (\A e \in errors : e[1] # "loop found") =>
        unreachable = (inode_map \ {0, ROOT_INODE})
                          \ {e.inode : e \in FollowedFrom(DirsInWalk)}

\* "loop found" means that two entries the walk can reach lead to the same
\* inode, or one leads to the root; otherwise it is not printed.
LoopMeansSharing ==
    LET places == {ds \in DirsInWalk \X Slots :
                      S_ISDIR(mode[ds[1]]) /\ EntryAt(ds).valid /\ EntryAt(ds).inode \in Inodes}
        shared == \/ \E ds \in places : EntryAt(ds).inode = ROOT_INODE
                  \/ \E ds, et \in places : ds # et /\ EntryAt(ds).inode = EntryAt(et).inode
    IN pc = "done" => (shared <=> \E e \in errors : e[1] = "loop found")

\* The two tools agree: on an image fsck.hw3 accepts, read-img prints no
\* error and lists no inode as unreachable.
SilentIfAccepted ==
    pc = "done" /\ DiskFormatOK => errors = {} /\ unreachable = {}
=============================================================================
