----------------------------- MODULE ReadImgProofs -----------------------------
(***************************************************************************)
(* What read-img does, for images of every size and with any contents.     *)
(***************************************************************************)
EXTENDS ReadImg, FiniteSetTheorems, TLAPS

\* An element behind the end makes a sequence one longer.
LEMMA AppendLength ==
    ASSUME NEW s, NEW S, s \in Seq(S), NEW x
    PROVE  /\ Append(s, x) \in Seq(S \cup {x})
           /\ Len(Append(s, x)) = Len(s) + 1
           /\ \A k \in 1 .. Len(s) : Append(s, x)[k] = s[k]
           /\ Append(s, x)[Len(s) + 1] = x
<1>1. s \in Seq(S \cup {x})
  OBVIOUS
<1> QED
  BY <1>1

\* The queue is a sequence, and each inode that was entered is in it once.
QueueInv ==
    /\ \E S : inode_list \in Seq(S)
    /\ imap \subseteq Inodes
    /\ Len(inode_list) = Cardinality(imap)

\* The test of imap before an inode is entered keeps that so.
LEMMA QueueStep ==
    ASSUME QueueInv, [RNext]_rvars
    PROVE  QueueInv'
<1>1. CASE UNCHANGED <<inode_list, imap>>
  BY <1>1 DEF QueueInv
<1>2. ASSUME NEW e, e.inode \in Inodes \ imap,
             imap' = imap \cup Entered(e),
             inode_list' = Append(inode_list, [dir |-> e.isDir, inum |-> e.inode])
      PROVE  QueueInv'
  <2>1. imap' = imap \cup {e.inode} /\ imap' \subseteq Inodes
    BY <1>2 DEF Entered, QueueInv
  <2>2. IsFiniteSet(imap)
    <3>1. IsFiniteSet(Inodes)
      BY SizesAssumption, FS_Interval DEF Inodes
    <3> QED
      BY <3>1, FS_Subset DEF QueueInv
  <2>3. Cardinality(imap') = Cardinality(imap) + 1
    BY <1>2, <2>1, <2>2, FS_AddElement
  <2>4. PICK S : inode_list \in Seq(S)
    BY DEF QueueInv
  <2>5. /\ inode_list' \in Seq(S \cup {[dir |-> e.isDir, inum |-> e.inode]})
        /\ Len(inode_list') = Len(inode_list) + 1
    BY <1>2, <2>4, AppendLength
  <2> QED
    BY <2>1, <2>3, <2>5 DEF QueueInv
<1>3. CASE TakeFile \/ TakeNoDirectory \/ TakeDirectory
  BY <1>1, <1>3 DEF TakeFile, TakeNoDirectory, TakeDirectory, Take, walk
<1>4. CASE Slot
  BY <1>1, <1>2, <1>4 DEF Slot
<1>5. CASE EndOfDirectory \/ Report
  BY <1>1, <1>5 DEF EndOfDirectory, Report
<1>6. CASE UNCHANGED rvars
  BY <1>1, <1>6 DEF rvars, walk
<1> QED
  BY <1>3, <1>4, <1>5, <1>6 DEF RNext

\* However the directories of an image are linked, the walk puts at most
\* num_inodes elements into inode_list[], which has room for 100 more.
THEOREM QueueStaysInBounds == RSpec => []QueueFits
<1>1. RInit => QueueInv
  <2> SUFFICES ASSUME RInit PROVE QueueInv
    OBVIOUS
  <2>1. /\ imap = {ROOT_INODE}
        /\ inode_list = <<[dir |-> TRUE, inum |-> ROOT_INODE]>>
    BY DEF RInit
  <2>2. Cardinality(imap) = 1
    BY <2>1, FS_Singleton
  <2>3. imap \subseteq Inodes
    BY <2>1, SizesAssumption DEF ROOT_INODE, Inodes
  <2>4. /\ inode_list \in Seq({[dir |-> TRUE, inum |-> ROOT_INODE]})
        /\ Len(inode_list) = 1
    BY <2>1
  <2> QED
    BY <2>2, <2>3, <2>4 DEF QueueInv
<1>2. QueueInv /\ [RNext]_rvars => QueueInv'
  BY QueueStep
<1>3. QueueInv => QueueFits
  <2> SUFFICES ASSUME QueueInv PROVE Len(inode_list) <= num_inodes
    BY DEF QueueFits
  <2>1. IsFiniteSet(Inodes) /\ Cardinality(Inodes) = num_inodes
    BY SizesAssumption, FS_Interval DEF Inodes
  <2>2. Cardinality(imap) <= Cardinality(Inodes)
    BY <2>1, FS_Subset DEF QueueInv
  <2> QED
    BY <2>1, <2>2 DEF QueueInv
<1> QED
  BY <1>1, <1>2, <1>3, PTL DEF RSpec

-----------------------------------------------------------------------------
(* What the walk has done so far. *)

\* The places whose entry the loop enters in the queue.
Leads(ds) == /\ S_ISDIR(mode[ds[1]])
             /\ EntryAt(ds).valid
             /\ EntryAt(ds).inode \in Inodes

\* Those of them it has passed: all in the directories it has taken, but in
\* the one at hand only the slots before i.
Followed ==
    {ds \in Inodes \X Slots :
        /\ Leads(ds)
        /\ \E k \in 1 .. tail :
              /\ inode_list[k].dir /\ inode_list[k].inum = ds[1]
              /\ k < tail \/ pc # "slots" \/ ds[2] < i}

\* The element an entry is entered as.
Element(ds) == [dir |-> EntryAt(ds).isDir, inum |-> EntryAt(ds).inode]

LoopFound == \E e \in errors : e[1] = "loop found"

\* Two places the walk can reach lead to one inode, or one to the root.
Reachable == {ds \in DirsInWalk \X Slots : Leads(ds)}
Shared == \/ \E ds \in Reachable : EntryAt(ds).inode = ROOT_INODE
          \/ \E ds, et \in Reachable : ds # et /\ EntryAt(ds).inode = EntryAt(et).inode

QueueTyped ==
    /\ \E S : inode_list \in Seq(S)
    /\ Len(inode_list) > 0
    /\ \A k \in 1 .. Len(inode_list) : inode_list[k].inum \in Inodes
    /\ tail \in 0 .. Len(inode_list)
    /\ i \in 0 .. num_slots
    /\ pc \in {"queue", "slots", "done"}
    /\ inode_map \subseteq Inodes

\* The queue has the root and then one element for each place passed, each
\* with an inode of its own; imap is what is in it, and the directories in
\* it are ones the walk can reach.
QueueIsFollowed ==
    /\ inode_list[1] = [dir |-> TRUE, inum |-> ROOT_INODE]
    /\ imap = {inode_list[k].inum : k \in 1 .. Len(inode_list)}
    /\ \A j, k \in 1 .. Len(inode_list) :
          inode_list[j].inum = inode_list[k].inum => j = k
    /\ \A k \in 2 .. Len(inode_list) : \E ds \in Followed : inode_list[k] = Element(ds)
    /\ \A ds \in Followed : \E k \in 2 .. Len(inode_list) : inode_list[k] = Element(ds)
    /\ \A ds, et \in Followed : EntryAt(ds).inode = EntryAt(et).inode => ds = et
    /\ \A k \in 1 .. Len(inode_list) :
          inode_list[k].dir => inode_list[k].inum \in DirsInWalk

\* The inductive invariant: so it is until a loop is found, which ends the
\* walk at once and for a reason.
WalkInv ==
    /\ QueueTyped
    /\ LoopFound => pc = "done" /\ Shared
    /\ ~LoopFound =>
          /\ QueueIsFollowed
          /\ pc = "slots" => /\ tail > 0 /\ Current.dir
                             /\ S_ISDIR(mode[Current.inum])
          /\ pc = "done" => tail = Len(inode_list) /\ unreachable = Unreached

-----------------------------------------------------------------------------

\* What the walk can reach is the least set the walk's steps do not leave.
LEMMA LeastWalk ==
    /\ DirsInWalk \subseteq Inodes
    /\ ROOT_INODE \in DirsInWalk
    /\ \A ds \in Reachable : EntryAt(ds).isDir => EntryAt(ds).inode \in DirsInWalk
<1>1. DirsInWalk \subseteq Inodes
  BY DEF DirsInWalk
<1>2. ROOT_INODE \in DirsInWalk
  BY SizesAssumption DEF DirsInWalk, ClosedWalk, ROOT_INODE, Inodes
<1>3. ASSUME NEW ds \in Reachable, EntryAt(ds).isDir
      PROVE  EntryAt(ds).inode \in DirsInWalk
  <2>1. EntryAt(ds).inode \in Inodes
    BY DEF Reachable, Leads
  <2> SUFFICES ASSUME NEW S \in SUBSET Inodes, ClosedWalk(S)
               PROVE  EntryAt(ds).inode \in S
    BY <2>1 DEF DirsInWalk
  <2>2. ds \in S \X Slots
    BY DEF Reachable, DirsInWalk
  <2>3. EntryAt(ds) \in FollowedFrom(S)
    BY <2>2 DEF FollowedFrom, Reachable, Leads
  <2> QED
    BY <1>3, <2>1, <2>3 DEF ClosedWalk
<1> QED
  BY <1>1, <1>2, <1>3

\* The places passed can be reached.
LEMMA FollowedIsReachable ==
    ASSUME QueueTyped, QueueIsFollowed
    PROVE  Followed \subseteq Reachable
<1> SUFFICES ASSUME NEW ds \in Followed PROVE ds \in Reachable
  OBVIOUS
<1>1. PICK k \in 1 .. tail : inode_list[k].dir /\ inode_list[k].inum = ds[1]
  BY DEF Followed
<1>2. ds[1] \in DirsInWalk
  BY <1>1 DEF QueueTyped, QueueIsFollowed
<1> QED
  BY <1>2 DEF Followed, Reachable

\* The image does not change, and so neither does what can be reached.
LEMMA ImageStays ==
    ASSUME UNCHANGED vars
    PROVE  /\ \A ds : EntryAt(ds)' = EntryAt(ds) /\ Leads(ds)' = Leads(ds)
           /\ \A ds : Element(ds)' = Element(ds)
           /\ DirsInWalk' = DirsInWalk /\ Reachable' = Reachable
           /\ Shared' = Shared
  BY DEF vars, EntryAt, Leads, Element, DirsInWalk, ClosedWalk, FollowedFrom,
         Reachable, Shared, S_ISDIR

\* The queue and what it has to follow stay.
LEMMA QueueStays ==
    ASSUME QueueIsFollowed, UNCHANGED <<inode_list, imap>>, Followed' = Followed,
           \A ds : EntryAt(ds)' = EntryAt(ds), \A ds : Element(ds)' = Element(ds),
           DirsInWalk' = DirsInWalk
    PROVE  QueueIsFollowed'
<1>1. inode_list' = inode_list /\ imap' = imap
  OBVIOUS
<1>2. /\ inode_list'[1] = [dir |-> TRUE, inum |-> ROOT_INODE]
      /\ imap' = {inode_list'[k].inum : k \in 1 .. Len(inode_list')}
  BY <1>1 DEF QueueIsFollowed
<1>3. \A j, k \in 1 .. Len(inode_list') :
         inode_list'[j].inum = inode_list'[k].inum => j = k
  BY <1>1 DEF QueueIsFollowed
<1>4. \A k \in 2 .. Len(inode_list') :
         \E ds \in Followed' : inode_list'[k] = Element(ds)'
  <2>1. \A k \in 2 .. Len(inode_list) : \E ds \in Followed : inode_list[k] = Element(ds)
    BY DEF QueueIsFollowed
  <2> QED
    BY <1>1, <2>1
<1>5. \A ds \in Followed' :
         \E k \in 2 .. Len(inode_list') : inode_list'[k] = Element(ds)'
  <2>1. \A ds \in Followed : \E k \in 2 .. Len(inode_list) : inode_list[k] = Element(ds)
    BY DEF QueueIsFollowed
  <2> QED
    BY <1>1, <2>1
<1>6. \A ds, et \in Followed' : EntryAt(ds)'.inode = EntryAt(et)'.inode => ds = et
  <2>1. \A ds, et \in Followed : EntryAt(ds).inode = EntryAt(et).inode => ds = et
    BY DEF QueueIsFollowed
  <2> QED
    BY <2>1
<1>7. \A k \in 1 .. Len(inode_list') :
         inode_list'[k].dir => inode_list'[k].inum \in DirsInWalk'
  BY <1>1 DEF QueueIsFollowed
<1> QED
  BY <1>2, <1>3, <1>4, <1>5, <1>6, <1>7 DEF QueueIsFollowed

\* Reading an inode that has no entries to follow, and the end of a
\* directory, change nothing of this; nor does the start of a directory.
LEMMA TakeKeepsWalk ==
    ASSUME WalkInv, TakeFile \/ TakeNoDirectory \/ TakeDirectory \/ EndOfDirectory
    PROVE  WalkInv'
<1>1. /\ pc \in {"queue", "slots"} /\ ~LoopFound
      /\ UNCHANGED <<vars, inode_list, imap, unreachable>>
      /\ pc' \in {"queue", "slots"}
  BY DEF WalkInv, TakeFile, TakeNoDirectory, TakeDirectory, EndOfDirectory, Take
<1>2. QueueTyped /\ QueueIsFollowed
  BY <1>1 DEF WalkInv
<1>3. ~LoopFound'
  <2>1. ASSUME NEW S, NEW e \in MarkedFree(S) PROVE e[1] # "loop found"
    <3>1. PICK b \in S : e = <<"block marked free", b>>
      BY DEF MarkedFree
    <3>2. e[1] = "block marked free"
      BY <3>1
    <3> QED
      BY <3>2
  <2>2. ASSUME NEW new, errors' = errors \cup new,
               \A e \in new : e[1] # "loop found"
        PROVE  ~LoopFound'
    BY <1>1, <2>2 DEF LoopFound
  <2>3. CASE TakeNoDirectory
    <3>1. ASSUME NEW e, e = <<"not a directory", Upcoming.inum>>
          PROVE  e[1] # "loop found"
      <4>1. e[1] = "not a directory"
        BY <3>1
      <4> QED
        BY <4>1
    <3> DEFINE added == {<<"not a directory", Upcoming.inum>>}
    <3>2. errors' = errors \cup added
      BY <2>3 DEF TakeNoDirectory
    <3>3. \A e \in added : e[1] # "loop found"
      BY <3>1
    <3> HIDE DEF added
    <3> QED
      BY <2>2, <3>2, <3>3
  <2>4. CASE EndOfDirectory
    BY <1>1, <2>4 DEF EndOfDirectory, LoopFound
  <2>5. CASE TakeFile
    BY <2>1, <2>2, <2>5 DEF TakeFile
  <2>6. CASE TakeDirectory
    BY <2>1, <2>2, <2>6 DEF TakeDirectory
  <2> QED
    BY <2>3, <2>4, <2>5, <2>6
<1>4. QueueTyped'
  <2>1. tail \in 0 .. Len(inode_list) /\ i \in 0 .. num_slots /\ Len(inode_list) \in Nat
    BY <1>2 DEF QueueTyped
  <2>2. tail' = tail \/ (tail' = tail + 1 /\ tail < Len(inode_list))
    BY DEF TakeFile, TakeNoDirectory, TakeDirectory, EndOfDirectory, Take
  <2>3. i' = i \/ i' = 0
    BY DEF TakeFile, TakeNoDirectory, TakeDirectory, EndOfDirectory
  <2>4. tail' \in 0 .. Len(inode_list) /\ i' \in 0 .. num_slots
    BY <2>1, <2>2, <2>3, SizesAssumption
  <2> QED
    BY <1>1, <1>2, <2>4 DEF QueueTyped, vars
<1>5. pc' = "slots" => tail' > 0 /\ Current'.dir /\ S_ISDIR(mode'[Current'.inum])
  <2> SUFFICES ASSUME TakeDirectory
               PROVE  tail' > 0 /\ Current'.dir /\ S_ISDIR(mode'[Current'.inum])
    BY DEF TakeFile, TakeNoDirectory, EndOfDirectory, Take
  <2>1. tail' > 0 /\ Current' = Upcoming
    BY <1>1, <1>2 DEF TakeDirectory, Take, Current, Upcoming, QueueTyped
  <2>2. Upcoming.dir /\ S_ISDIR(mode[Upcoming.inum])
    BY DEF TakeDirectory, Take
  <2> QED
    BY <1>1, <2>1, <2>2 DEF vars
<1>6. /\ \A ds : EntryAt(ds)' = EntryAt(ds) /\ Leads(ds)' = Leads(ds)
      /\ \A ds : Element(ds)' = Element(ds)
      /\ DirsInWalk' = DirsInWalk
  BY <1>1, ImageStays
<1>7. Followed' = Followed
  <2>1. ASSUME NEW ds \in Inodes \X Slots, Leads(ds), NEW k \in 1 .. Len(inode_list),
               inode_list[k].dir, inode_list[k].inum = ds[1]
        PROVE  k <= tail /\ (k < tail \/ pc # "slots" \/ ds[2] < i)
                  <=> k <= tail' /\ (k < tail' \/ pc' # "slots" \/ ds[2] < i')
    <3>1. S_ISDIR(mode[inode_list[k].inum]) /\ ds[2] \in 0 .. num_slots - 1
      BY <2>1 DEF Leads, Slots
    <3>2. CASE TakeFile
      BY <1>2, <2>1, <3>1, <3>2 DEF TakeFile, Take, Upcoming, QueueTyped
    <3>3. CASE TakeNoDirectory
      <4>1. k # tail + 1
        BY <3>1, <3>3 DEF TakeNoDirectory, Upcoming
      <4>2. tail' = tail + 1 /\ pc = "queue" /\ pc' = "queue"
        BY <3>3 DEF TakeNoDirectory, Take
      <4> QED
        BY <1>2, <4>1, <4>2 DEF QueueTyped
    <3>4. CASE TakeDirectory
      BY <1>2, <3>1, <3>4, SizesAssumption DEF TakeDirectory, Take, Upcoming, QueueTyped
    <3>5. CASE EndOfDirectory
      BY <1>2, <3>1, <3>5, SizesAssumption DEF EndOfDirectory, QueueTyped
    <3> QED
      BY <3>2, <3>3, <3>4, <3>5
  <2>2. tail \in 0 .. Len(inode_list) /\ tail' \in 0 .. Len(inode_list)
    BY <1>1, <1>2, <1>4 DEF QueueTyped
  <2>3. ASSUME NEW ds \in Inodes \X Slots, Leads(ds)
        PROVE  (\E k \in 1 .. tail :
                   /\ inode_list[k].dir /\ inode_list[k].inum = ds[1]
                   /\ k < tail \/ pc # "slots" \/ ds[2] < i)
               <=> (\E k \in 1 .. tail' :
                   /\ inode_list[k].dir /\ inode_list[k].inum = ds[1]
                   /\ k < tail' \/ pc' # "slots" \/ ds[2] < i')
    <3>1. ASSUME NEW k \in 1 .. tail, inode_list[k].dir, inode_list[k].inum = ds[1],
                 k < tail \/ pc # "slots" \/ ds[2] < i
          PROVE  k \in 1 .. tail' /\ (k < tail' \/ pc' # "slots" \/ ds[2] < i')
      <4>1. k \in 1 .. Len(inode_list) /\ k <= tail /\ tail \in Int /\ tail' \in Int
        BY <2>2
      <4> QED
        BY <2>1, <2>3, <3>1, <4>1
    <3>2. ASSUME NEW k \in 1 .. tail', inode_list[k].dir, inode_list[k].inum = ds[1],
                 k < tail' \/ pc' # "slots" \/ ds[2] < i'
          PROVE  k \in 1 .. tail /\ (k < tail \/ pc # "slots" \/ ds[2] < i)
      <4>1. k \in 1 .. Len(inode_list) /\ k <= tail' /\ tail \in Int /\ tail' \in Int
        BY <2>2
      <4> QED
        BY <2>1, <2>3, <3>2, <4>1
    <3> QED
      BY <3>1, <3>2
  <2> QED
    BY <1>1, <1>6, <2>3 DEF Followed
<1>8. QueueIsFollowed'
  BY <1>1, <1>2, <1>6, <1>7, QueueStays
<1> QED
  BY <1>1, <1>3, <1>4, <1>5, <1>8 DEF WalkInv

\* A slot of the directory at hand: passed over, the end of the walk because
\* its inode was entered before, or one more element of the queue.
LEMMA SlotKeepsWalk ==
    ASSUME WalkInv, Slot
    PROVE  WalkInv'
<1> DEFINE here == <<Current.inum, i>>
           e == EntryAt(here)
<1>1. /\ pc = "slots" /\ ~LoopFound /\ i < num_slots
      /\ UNCHANGED <<vars, tail, blkmap, unreachable>>
  BY DEF WalkInv, Slot
<1>2. /\ QueueTyped /\ QueueIsFollowed
      /\ Current = inode_list[tail]
      /\ Current.inum \in Inodes /\ Current.dir /\ S_ISDIR(mode[Current.inum])
  BY <1>1 DEF WalkInv, QueueTyped, Current
<1>12. /\ tail \in 1 .. Len(inode_list) /\ Len(inode_list) \in Nat
      /\ i \in 0 .. num_slots - 1 /\ i + 1 \in 0 .. num_slots
  BY <1>1, SizesAssumption DEF WalkInv, QueueTyped
<1>3. here \in Inodes \X Slots /\ e = EntryAt(here) /\ e = disk[direct0[Current.inum]][i]
  BY <1>12, <1>2 DEF EntryAt, Slots
<1>4. Leads(here) <=> e.valid /\ e.inode \in Inodes
  BY <1>2 DEF Leads
<1>5. Leads(here) => here \in Reachable
  <2>1. Current.inum \in DirsInWalk
    BY <1>12, <1>2 DEF QueueIsFollowed
  <2> QED
    BY <1>12, <2>1 DEF Reachable, Slots
<1>6. here \notin Followed
  <2> SUFFICES ASSUME NEW k \in 1 .. tail, inode_list[k].inum = Current.inum,
                      k < tail \/ i < i
               PROVE  FALSE
    BY <1>1 DEF Followed
  <2> QED
    BY <1>12, <1>2 DEF QueueIsFollowed
<1>7. /\ \A ds : EntryAt(ds)' = EntryAt(ds) /\ Leads(ds)' = Leads(ds)
      /\ \A ds : Element(ds)' = Element(ds)
      /\ DirsInWalk' = DirsInWalk /\ Reachable' = Reachable /\ Shared' = Shared
  BY <1>1, ImageStays
<1>8. ASSUME pc' = "slots", i' = i + 1,
             \A k \in 1 .. tail : inode_list'[k] = inode_list[k]
      PROVE  Followed' = IF Leads(here) THEN Followed \cup {here} ELSE Followed
  <2>1. ASSUME NEW ds \in Inodes \X Slots, Leads(ds)
        PROVE  (\E k \in 1 .. tail :
                   /\ inode_list'[k].dir /\ inode_list'[k].inum = ds[1]
                   /\ k < tail \/ ds[2] < i + 1)
               <=> ds = here \/ (\E k \in 1 .. tail :
                   /\ inode_list[k].dir /\ inode_list[k].inum = ds[1]
                   /\ k < tail \/ ds[2] < i)
    <3>1. ds[2] < i + 1 <=> ds[2] < i \/ ds[2] = i
      BY <1>12 DEF Slots
    <3>2. ASSUME NEW k \in 1 .. tail, inode_list[k].dir, inode_list[k].inum = ds[1],
                 ds[2] = i
          PROVE  k < tail \/ ds = here
      BY <1>12, <1>2, <3>2
    <3>3. ds = here => ds[1] = Current.inum /\ ds[2] = i
      OBVIOUS
    <3> QED
      BY <1>12, <1>2, <1>8, <3>1, <3>2, <3>3
  <2>2. \A ds \in Inodes \X Slots :
           ds \in Followed' <=> Leads(ds) /\ (\E k \in 1 .. tail :
                   /\ inode_list'[k].dir /\ inode_list'[k].inum = ds[1]
                   /\ k < tail \/ ds[2] < i + 1)
    BY <1>1, <1>7, <1>8 DEF Followed
  <2>3. \A ds \in Inodes \X Slots :
           ds \in Followed <=> Leads(ds) /\ (\E k \in 1 .. tail :
                   /\ inode_list[k].dir /\ inode_list[k].inum = ds[1]
                   /\ k < tail \/ ds[2] < i)
    BY <1>1 DEF Followed
  <2>4. \A ds \in Inodes \X Slots :
           ds \in Followed' <=> ds \in Followed \/ (Leads(ds) /\ ds = here)
    BY <2>1, <2>2, <2>3
  <2>5. Followed \subseteq Inodes \X Slots /\ Followed' \subseteq Inodes \X Slots
    BY DEF Followed
  <2> QED
    BY <1>3, <2>4, <2>5
<1> HIDE DEF here, e
<1>9. CASE ~Leads(here)
  <2>1. /\ pc' = "slots" /\ i' = i + 1
        /\ UNCHANGED <<inode_list, imap>>
    BY <1>1, <1>3, <1>4, <1>9 DEF Slot, NextSlot
  <2>2. ~LoopFound'
    <3>1. ASSUME NEW x, x = <<"invalid inode", e.inode>> PROVE x[1] # "loop found"
      <4>1. x[1] = "invalid inode"
        BY <3>1
      <4> QED
        BY <4>1
    <3>2. \A x \in errors' : x \in errors \/ x = <<"invalid inode", e.inode>>
      BY <1>1, <1>3, <1>4, <1>9 DEF Slot, NextSlot
    <3> QED
      BY <1>1, <3>1, <3>2 DEF LoopFound
  <2>3. Followed' = Followed
    BY <1>8, <1>9, <2>1
  <2>4. UNCHANGED <<inode_list, imap, tail, inode_map, mode>>
    BY <1>1, <2>1 DEF vars
  <2>5. QueueTyped'
    BY <1>12, <1>2, <2>1, <2>4 DEF QueueTyped
  <2>6. QueueIsFollowed'
    BY <1>2, <1>7, <2>3, <2>4, QueueStays
  <2>7. tail' > 0 /\ Current'.dir /\ S_ISDIR(mode'[Current'.inum])
    BY <1>12, <1>2, <2>4 DEF Current
  <2> QED
    BY <2>1, <2>2, <2>5, <2>6, <2>7 DEF WalkInv
<1>10. CASE Leads(here) /\ e.inode \in imap
  <2>1. /\ pc' = "done" /\ UNCHANGED <<inode_list, imap, i>>
        /\ errors' = errors \cup {<<"loop found", Current.inum>>}
    BY <1>1, <1>3, <1>4, <1>10 DEF Slot
  <2>2. LoopFound'
    <3> DEFINE x == <<"loop found", Current.inum>>
    <3>1. x[1] = "loop found" /\ x \in errors'
      BY <2>1
    <3> HIDE DEF x
    <3> QED
      BY <3>1 DEF LoopFound
  <2>3. Shared
    <3>1. PICK k \in 1 .. Len(inode_list) : inode_list[k].inum = e.inode
      BY <1>2, <1>10 DEF QueueIsFollowed
    <3>2. CASE k = 1
      <4>1. e.inode = ROOT_INODE
        BY <1>2, <3>1, <3>2 DEF QueueIsFollowed
      <4> QED
        BY <1>3, <1>5, <1>10, <4>1 DEF Shared
    <3>3. CASE k # 1
      <4>1. PICK ds \in Followed : inode_list[k] = Element(ds)
        BY <1>2, <3>1, <3>3 DEF QueueIsFollowed
      <4>2. EntryAt(ds).inode = e.inode
        BY <3>1, <4>1 DEF Element
      <4>3. ds \in Reachable /\ ds # here
        BY <1>2, <1>6, FollowedIsReachable
      <4> QED
        BY <1>3, <1>5, <1>10, <4>2, <4>3 DEF Shared
    <3> QED
      BY <3>2, <3>3
  <2>4. QueueTyped'
    BY <1>1, <1>2, <2>1 DEF QueueTyped, vars
  <2> QED
    BY <1>7, <2>1, <2>2, <2>3, <2>4 DEF WalkInv
<1>11. CASE Leads(here) /\ e.inode \notin imap
  <2> DEFINE n == Len(inode_list) + 1
             new == Element(here)
  <2>1. /\ pc' = "slots" /\ i' = i + 1
        /\ imap' = imap \cup {e.inode}
        /\ inode_list' = Append(inode_list, new)
    BY <1>1, <1>3, <1>4, <1>11 DEF Slot, Entered, Element
  <2>2. ~LoopFound'
    <3>1. ASSUME NEW x, x = <<"inode marked free", e.inode>> PROVE x[1] # "loop found"
      <4>1. x[1] = "inode marked free"
        BY <3>1
      <4> QED
        BY <4>1
    <3>2. \A x \in errors' : x \in errors \/ x = <<"inode marked free", e.inode>>
      BY <1>1, <1>3, <1>4, <1>11 DEF Slot
    <3> QED
      BY <1>1, <3>1, <3>2 DEF LoopFound
  <2>3. new.inum = e.inode /\ new.dir = e.isDir /\ e.inode \in Inodes
    BY <1>3, <1>4, <1>11 DEF Element
  <2>4. new = Element(here)
    OBVIOUS
  <2> HIDE DEF new
  <2>5. /\ Len(inode_list') = n
        /\ \A k \in 1 .. Len(inode_list) : inode_list'[k] = inode_list[k]
        /\ inode_list'[n] = new
        /\ \E S : inode_list' \in Seq(S)
    <3>1. PICK S : inode_list \in Seq(S)
      BY <1>2 DEF QueueTyped
    <3>2. /\ Append(inode_list, new) \in Seq(S \cup {new})
          /\ Len(Append(inode_list, new)) = Len(inode_list) + 1
          /\ \A k \in 1 .. Len(inode_list) : Append(inode_list, new)[k] = inode_list[k]
          /\ Append(inode_list, new)[Len(inode_list) + 1] = new
      BY <3>1, AppendLength
    <3> QED
      BY <2>1, <3>2
  <2>6. 1 .. n = (1 .. Len(inode_list)) \cup {n} /\ n \in 2 .. n
    BY <1>12
  <2>7. 2 .. n = (2 .. Len(inode_list)) \cup {n} /\ n \notin 1 .. Len(inode_list)
    BY <1>12
  <2>8. Followed' = Followed \cup {here}
    <3>1. \A k \in 1 .. tail : inode_list'[k] = inode_list[k]
      BY <1>12, <2>5
    <3> QED
      BY <1>8, <1>11, <2>1, <3>1
  <2>9. /\ UNCHANGED <<tail, mode, inode_map>> /\ tail \in 0 .. n /\ n > 0
        /\ tail \in 1 .. Len(inode_list)
    BY <1>12, <1>1 DEF vars
  <2> HIDE DEF n
  <2>10. QueueTyped'
    <3>1. \A k \in 1 .. n : inode_list'[k].inum \in Inodes
      BY <1>2, <2>3, <2>5, <2>6 DEF QueueTyped
    <3> QED
      BY <1>12, <1>2, <2>1, <2>5, <2>9, <3>1 DEF QueueTyped
  <2>11. QueueIsFollowed'
    <3>1. inode_list'[1] = [dir |-> TRUE, inum |-> ROOT_INODE]
      BY <1>12, <1>2, <2>5 DEF QueueIsFollowed
    <3>2. imap' = {inode_list'[k].inum : k \in 1 .. n}
      <4>1. imap = {inode_list[k].inum : k \in 1 .. Len(inode_list)}
        BY <1>2 DEF QueueIsFollowed
      <4> QED
        BY <2>1, <2>3, <2>5, <2>6, <4>1
    <3>3. \A k \in 1 .. Len(inode_list) : inode_list[k].inum # e.inode
      BY <1>2, <1>11 DEF QueueIsFollowed
    <3>4. \A j, k \in 1 .. n : inode_list'[j].inum = inode_list'[k].inum => j = k
      <4>1. \A j, k \in 1 .. Len(inode_list) :
               inode_list[j].inum = inode_list[k].inum => j = k
        BY <1>2 DEF QueueIsFollowed
      <4> QED
        BY <2>3, <2>5, <2>6, <3>3, <4>1
    <3>5. \A k \in 2 .. n : \E ds \in Followed' : inode_list'[k] = Element(ds)
      <4>1. \A k \in 2 .. Len(inode_list) :
               k \in 1 .. Len(inode_list) /\ \E ds \in Followed : inode_list[k] = Element(ds)
        BY <1>2 DEF QueueIsFollowed
      <4> QED
        BY <2>4, <2>5, <2>7, <2>8, <4>1
    <3>6. \A ds \in Followed' : \E k \in 2 .. n : inode_list'[k] = Element(ds)
      <4>1. \A ds \in Followed : \E k \in 2 .. Len(inode_list) :
               k \in 1 .. Len(inode_list) /\ inode_list[k] = Element(ds)
        BY <1>2 DEF QueueIsFollowed
      <4> QED
        BY <2>4, <2>5, <2>6, <2>7, <2>8, <4>1
    <3>7. \A ds \in Followed : EntryAt(ds).inode # e.inode
      <4> SUFFICES ASSUME NEW ds \in Followed PROVE EntryAt(ds).inode # e.inode
        OBVIOUS
      <4>1. PICK k \in 2 .. Len(inode_list) : inode_list[k] = Element(ds)
        BY <1>2 DEF QueueIsFollowed
      <4>2. inode_list[k].inum = EntryAt(ds).inode /\ k \in 1 .. Len(inode_list)
        BY <4>1 DEF Element
      <4> QED
        BY <3>3, <4>2
    <3>8. \A ds, et \in Followed' : EntryAt(ds).inode = EntryAt(et).inode => ds = et
      <4>1. \A ds, et \in Followed : EntryAt(ds).inode = EntryAt(et).inode => ds = et
        BY <1>2 DEF QueueIsFollowed
      <4> QED
        BY <1>3, <2>8, <3>7, <4>1
    <3>9. \A k \in 1 .. n : inode_list'[k].dir => inode_list'[k].inum \in DirsInWalk
      <4>1. \A k \in 1 .. Len(inode_list) :
               inode_list[k].dir => inode_list[k].inum \in DirsInWalk
        BY <1>2 DEF QueueIsFollowed
      <4>2. e.isDir => e.inode \in DirsInWalk
        BY <1>3, <1>5, <1>11, LeastWalk
      <4> QED
        BY <2>3, <2>5, <2>6, <4>1, <4>2
    <3> QED
      BY <1>7, <2>5, <3>1, <3>2, <3>4, <3>5, <3>6, <3>8, <3>9 DEF QueueIsFollowed
  <2>12. tail' > 0 /\ Current'.dir /\ S_ISDIR(mode'[Current'.inum])
    BY <1>2, <2>5, <2>9 DEF Current
  <2> QED
    BY <2>1, <2>2, <2>10, <2>11, <2>12 DEF WalkInv
<1> QED
  BY <1>9, <1>10, <1>11

\* So the walk keeps its invariant from the first step to the report.
LEMMA AlwaysWalk == RSpec => []WalkInv
<1>1. RInit => WalkInv
  <2> SUFFICES ASSUME RInit PROVE WalkInv
    OBVIOUS
  <2> DEFINE root == [dir |-> TRUE, inum |-> ROOT_INODE]
  <2>1. /\ inode_list = <<root>> /\ imap = {ROOT_INODE} /\ errors = {}
        /\ pc = "queue" /\ tail = 0 /\ i = 0
    BY DEF RInit
  <2>2. inode_map \subseteq Inodes
    BY ImagesAssumption DEF RInit
  <2>3. /\ inode_list \in Seq({root}) /\ Len(inode_list) = 1
        /\ inode_list[1] = root
    BY <2>1
  <2>4. ROOT_INODE \in Inodes
    BY SizesAssumption DEF ROOT_INODE, Inodes
  <2>5. root.dir = TRUE /\ root.inum = ROOT_INODE
    OBVIOUS
  <2> HIDE DEF root
  <2>6. QueueTyped
    <3>1. \A k \in 1 .. Len(inode_list) : inode_list[k] = root
      BY <2>3
    <3>2. tail \in 0 .. Len(inode_list) /\ i \in 0 .. num_slots
      BY <2>1, <2>3, SizesAssumption
    <3>3. (\E S : inode_list \in Seq(S)) /\ Len(inode_list) > 0
      BY <2>3
    <3> QED
      BY <2>1, <2>2, <2>4, <2>5, <3>1, <3>2, <3>3 DEF QueueTyped
  <2>7. ~LoopFound
    BY <2>1 DEF LoopFound
  <2>8. Followed = {}
    BY <2>1 DEF Followed
  <2>9. QueueIsFollowed
    BY <2>1, <2>3, <2>5, <2>8, LeastWalk DEF QueueIsFollowed, root
  <2> QED
    BY <2>1, <2>6, <2>7, <2>9 DEF WalkInv
<1>2. WalkInv /\ [RNext]_rvars => WalkInv'
  <2> SUFFICES ASSUME WalkInv, [RNext]_rvars PROVE WalkInv'
    OBVIOUS
  <2>1. CASE Report
    <3>1. /\ UNCHANGED <<vars, inode_list, tail, i, imap, errors>>
          /\ pc = "queue" /\ pc' = "done" /\ tail = Len(inode_list)
          /\ unreachable' = Unreached /\ ~LoopFound
      BY <2>1 DEF Report, WalkInv
    <3>2. /\ \A ds : Leads(ds)' = Leads(ds) /\ Element(ds)' = Element(ds)
          /\ \A ds : EntryAt(ds)' = EntryAt(ds)
          /\ DirsInWalk' = DirsInWalk /\ Unreached' = Unreached
      BY <3>1, ImageStays DEF Unreached, vars
    <3>3. Followed' = Followed
      BY <3>1, <3>2 DEF Followed
    <3>4. QueueIsFollowed'
      BY <3>1, <3>2, <3>3, QueueStays DEF WalkInv
    <3>5. QueueTyped' /\ ~LoopFound'
      BY <3>1 DEF WalkInv, QueueTyped, LoopFound, vars
    <3> QED
      BY <3>1, <3>2, <3>4, <3>5 DEF WalkInv
  <2>2. CASE UNCHANGED rvars
    <3>1. UNCHANGED <<vars, pc, inode_list, tail, i, imap, errors, unreachable>>
      BY <2>2 DEF rvars, walk
    <3>2. /\ \A ds : Leads(ds)' = Leads(ds) /\ Element(ds)' = Element(ds)
          /\ \A ds : EntryAt(ds)' = EntryAt(ds)
          /\ DirsInWalk' = DirsInWalk /\ Unreached' = Unreached /\ Shared' = Shared
      BY <3>1, ImageStays DEF Unreached, vars
    <3>3. Followed' = Followed
      BY <3>1, <3>2 DEF Followed
    <3>4. /\ QueueIsFollowed' <=> QueueIsFollowed
          /\ QueueTyped' <=> QueueTyped
          /\ LoopFound' <=> LoopFound
          /\ Current' = Current /\ mode' = mode
      BY <3>1, <3>2, <3>3 DEF QueueIsFollowed, QueueTyped, LoopFound, Current, vars
    <3> QED
      BY <3>1, <3>2, <3>4 DEF WalkInv
  <2> QED
    BY <2>1, <2>2, TakeKeepsWalk, SlotKeepsWalk DEF RNext
<1> QED
  BY <1>1, <1>2, PTL DEF RSpec

-----------------------------------------------------------------------------
(* What the program prints. *)

\* When the queue is empty the walk has taken every directory there is to
\* reach and passed every place in them.
LEMMA WalkIsComplete ==
    ASSUME WalkInv, pc = "done", ~LoopFound
    PROVE  /\ Followed = Reachable
           /\ imap = {ROOT_INODE} \cup {EntryAt(ds).inode : ds \in Reachable}
<1>1. /\ QueueTyped /\ QueueIsFollowed /\ tail = Len(inode_list)
  BY DEF WalkInv
<1> DEFINE Q == {inode_list[k].inum : k \in {j \in 1 .. tail : inode_list[j].dir}}
<1>2. Followed \subseteq Reachable
  BY <1>1, FollowedIsReachable
<1>3. \A ds \in Inodes \X Slots : Leads(ds) /\ ds[1] \in Q => ds \in Followed
  BY DEF Followed
<1>4. Q \in SUBSET Inodes
  BY <1>1 DEF QueueTyped
<1>5. ClosedWalk(Q)
  <2>1. ROOT_INODE \in Q
    <3>1. 1 \in 1 .. tail /\ inode_list[1].dir /\ inode_list[1].inum = ROOT_INODE
      BY <1>1 DEF QueueTyped, QueueIsFollowed
    <3> QED
      BY <3>1
  <2>2. ASSUME NEW e \in FollowedFrom(Q), e.isDir, e.inode \in Inodes
        PROVE  e.inode \in Q
    <3>1. PICK ds \in Q \X Slots :
             e = EntryAt(ds) /\ S_ISDIR(mode[ds[1]]) /\ EntryAt(ds).valid
      BY DEF FollowedFrom
    <3>2. ds \in Followed
      BY <1>3, <1>4, <2>2, <3>1 DEF Leads
    <3>3. PICK k \in 2 .. Len(inode_list) : inode_list[k] = Element(ds)
      BY <1>1, <3>2 DEF QueueIsFollowed
    <3>4. inode_list[k].dir /\ inode_list[k].inum = e.inode /\ k \in 1 .. tail
      BY <1>1, <2>2, <3>1, <3>3 DEF Element
    <3> QED
      BY <3>4
  <2> QED
    BY <2>1, <2>2 DEF ClosedWalk
<1>6. DirsInWalk \subseteq Q
  BY <1>4, <1>5 DEF DirsInWalk
<1>7. Followed = Reachable
  BY <1>2, <1>3, <1>6, LeastWalk DEF Reachable
<1>8. imap = {ROOT_INODE} \cup {EntryAt(ds).inode : ds \in Followed}
  <2>1. \A ds \in Followed : \E k \in 2 .. Len(inode_list) :
           k \in 1 .. Len(inode_list) /\ inode_list[k].inum = EntryAt(ds).inode
    <3>1. \A ds \in Followed : \E k \in 2 .. Len(inode_list) : inode_list[k] = Element(ds)
      BY <1>1 DEF QueueIsFollowed
    <3>2. \A ds : Element(ds).inum = EntryAt(ds).inode
      BY DEF Element
    <3>3. \A k \in 2 .. Len(inode_list) : k \in 1 .. Len(inode_list)
      BY <1>1 DEF QueueTyped
    <3> QED
      BY <3>1, <3>2, <3>3
  <2>2. \A k \in 1 .. Len(inode_list) : k # 1 =>
           \E ds \in Followed : inode_list[k].inum = EntryAt(ds).inode
    <3>1. \A k \in 2 .. Len(inode_list) : \E ds \in Followed : inode_list[k] = Element(ds)
      BY <1>1 DEF QueueIsFollowed
    <3>2. \A ds : Element(ds).inum = EntryAt(ds).inode
      BY DEF Element
    <3>3. \A k \in 1 .. Len(inode_list) : k # 1 => k \in 2 .. Len(inode_list)
      BY <1>1 DEF QueueTyped
    <3> QED
      BY <3>1, <3>2, <3>3
  <2>3. 1 \in 1 .. Len(inode_list) /\ inode_list[1].inum = ROOT_INODE
    BY <1>1 DEF QueueIsFollowed, QueueTyped
  <2>4. imap = {inode_list[k].inum : k \in 1 .. Len(inode_list)}
    BY <1>1 DEF QueueIsFollowed
  <2> QED
    BY <2>1, <2>2, <2>3, <2>4
<1> QED
  BY <1>7, <1>8

\* The report of unreachable inodes is right, on every image on which the
\* walk finds no loop: it lists the inodes in use that nothing leads to.
THEOREM ReportAlwaysRight == RSpec => []ReportIsRight
<1>1. WalkInv => ReportIsRight
  <2> SUFFICES ASSUME WalkInv, pc = "done", ~LoopFound
               PROVE  unreachable = (inode_map \ {0, ROOT_INODE})
                          \ {e.inode : e \in FollowedFrom(DirsInWalk)}
    BY DEF ReportIsRight, LoopFound
  <2>1. unreachable = Unreached /\ inode_map \subseteq Inodes
    BY DEF WalkInv, QueueTyped
  <2>2. imap = {ROOT_INODE} \cup {EntryAt(ds).inode : ds \in Reachable}
    BY WalkIsComplete
  <2>3. \A n \in Inodes :
           n \in {e.inode : e \in FollowedFrom(DirsInWalk)}
             <=> n \in {EntryAt(ds).inode : ds \in Reachable}
    BY DEF FollowedFrom, Reachable, Leads
  <2> QED
    BY <2>1, <2>2, <2>3 DEF Unreached
<1> QED
  BY <1>1, AlwaysWalk, PTL

\* "loop found" is printed exactly on the images where two entries the walk
\* can reach share an inode or one leads back to the root.
THEOREM LoopAlwaysMeansSharing == RSpec => []LoopMeansSharing
<1>1. WalkInv => LoopMeansSharing
  <2>1. LoopMeansSharing <=> (pc = "done" => (Shared <=> LoopFound))
    BY DEF LoopMeansSharing, Shared, Reachable, Leads, LoopFound
  <2> SUFFICES ASSUME WalkInv, pc = "done", ~LoopFound PROVE ~Shared
    BY <2>1 DEF WalkInv
  <2>2. Followed = Reachable /\ QueueIsFollowed
    BY WalkIsComplete DEF WalkInv
  <2>3. \A ds \in Followed : EntryAt(ds).inode # ROOT_INODE
    <3> SUFFICES ASSUME NEW ds \in Followed PROVE EntryAt(ds).inode # ROOT_INODE
      OBVIOUS
    <3>1. PICK k \in 2 .. Len(inode_list) : inode_list[k] = Element(ds)
      BY <2>2 DEF QueueIsFollowed
    <3>2. inode_list[k].inum = EntryAt(ds).inode
      BY <3>1 DEF Element
    <3>3. inode_list[1].inum = ROOT_INODE /\ 1 \in 1 .. Len(inode_list)
      BY <2>2 DEF QueueIsFollowed, WalkInv, QueueTyped
    <3>4. k \in 1 .. Len(inode_list) /\ k # 1
      BY DEF WalkInv, QueueTyped
    <3> QED
      BY <2>2, <3>2, <3>3, <3>4 DEF QueueIsFollowed
  <2> QED
    BY <2>2, <2>3 DEF QueueIsFollowed, Shared
<1> QED
  BY <1>1, AlwaysWalk, PTL

-----------------------------------------------------------------------------
(* The two tools. *)

\* fsck.hw3 does not test the bit of the root's block; read-img does.
RootBlockMarked == direct0[ROOT_INODE] \in block_map

\* What read-img walks is among what fsck.hw3 visits: it follows the same
\* bits, and the modes as well.
LEMMA WalkIsVisited ==
    /\ DirsInWalk \subseteq DirsVisited
    /\ Reachable \subseteq EntriesSeen
<1>1. DirsInWalk \subseteq DirsVisited
  <2> SUFFICES ASSUME NEW d \in DirsInWalk, NEW S \in SUBSET Inodes, Closed(S)
               PROVE  d \in S
    BY DEF DirsVisited, DirsInWalk
  <2>1. ASSUME NEW e \in FollowedFrom(S), e.isDir PROVE e.inode \in S
    <3>1. PICK ds \in S \X Slots : e = EntryAt(ds) /\ EntryAt(ds).valid
      BY DEF FollowedFrom
    <3> QED
      BY <2>1, <3>1 DEF Closed, EntriesOf
  <2>2. ClosedWalk(S)
    BY <2>1 DEF ClosedWalk, Closed
  <2> QED
    BY <2>2 DEF DirsInWalk
<1> QED
  BY <1>1 DEF Reachable, EntriesSeen, EntriesOf, Leads

\* On an image fsck.hw3 accepts it is all of it.
LEMMA VisitedIsWalked ==
    ASSUME inode_map \subseteq Inodes, DiskFormatOK
    PROVE  EntriesSeen = Reachable
<1>1. ASSUME NEW ds \in EntriesSeen, ds[1] \in DirsInWalk PROVE ds \in Reachable
  <2>1. ds \in DirsVisited \X Slots /\ EntryAt(ds).valid
    BY DEF EntriesSeen, EntriesOf
  <2>2. EntryAt(ds).inode \in Inodes /\ S_ISDIR(mode[ds[1]])
    BY <2>1 DEF DiskFormatOK, InodesMarked, DirectoriesReadable
  <2> QED
    BY <1>1, <2>1, <2>2 DEF Reachable, Leads
<1>2. Closed(DirsInWalk)
  <2>1. ASSUME NEW ds \in EntriesOf(DirsInWalk), EntryAt(ds).isDir
        PROVE  EntryAt(ds).inode \in DirsInWalk
    <3>1. ds \in EntriesSeen /\ ds[1] \in DirsInWalk
      BY WalkIsVisited DEF EntriesSeen, EntriesOf
    <3> QED
      BY <1>1, <2>1, <3>1, LeastWalk
  <2> QED
    BY <2>1, LeastWalk DEF Closed
<1>3. DirsVisited \subseteq DirsInWalk
  BY <1>2, LeastWalk DEF DirsVisited
<1> QED
  BY <1>1, <1>3, WalkIsVisited DEF EntriesSeen, EntriesOf

\* What the program knows of the elements of its queue, on such an image.
LEMMA QueueAccepted ==
    ASSUME WalkInv, ~LoopFound, DiskFormatOK, RootBlockMarked,
           NEW k \in 1 .. Len(inode_list)
    PROVE  LET q == inode_list[k]
           IN /\ ~q.dir => Held(q.inum) \subseteq block_map
              /\ q.dir => S_ISDIR(mode[q.inum]) /\ direct0[q.inum] \in block_map
<1> DEFINE q == inode_list[k]
<1>1. QueueTyped /\ QueueIsFollowed
  BY DEF WalkInv
<1>2. q.dir => S_ISDIR(mode[q.inum]) /\ direct0[q.inum] # 0
  BY <1>1, WalkIsVisited DEF QueueIsFollowed, DiskFormatOK, DirectoriesReadable
<1>3. CASE k = 1
  BY <1>1, <1>2, <1>3 DEF QueueIsFollowed, RootBlockMarked
<1>4. CASE k # 1
  <2>1. k \in 2 .. Len(inode_list)
    BY <1>1, <1>4 DEF QueueTyped
  <2>2. PICK ds \in Followed : q = Element(ds)
    BY <1>1, <2>1 DEF QueueIsFollowed
  <2>3. ds \in EntriesSeen /\ EntryAt(ds).inode = q.inum
    BY <1>1, <2>2, FollowedIsReachable, WalkIsVisited DEF Element
  <2>4. Held(q.inum) \subseteq block_map
    BY <2>3 DEF DiskFormatOK, BlocksMarked
  <2> QED
    BY <1>2, <2>4 DEF Held
<1> QED
  BY <1>3, <1>4

\* So on such an image the walk goes on without an error.
Silent == RootBlockMarked /\ (DiskFormatOK => errors = {})

LEMMA SilentStep ==
    ASSUME WalkInv, WalkInv', Silent, [RNext]_rvars
    PROVE  Silent'
<1>1. UNCHANGED vars
  BY DEF RNext, TakeFile, TakeNoDirectory, TakeDirectory, Take, Slot, EndOfDirectory,
         Report, rvars
<1>2. (RootBlockMarked' <=> RootBlockMarked) /\ (DiskFormatOK' <=> DiskFormatOK)
  BY <1>1 DEF vars, RootBlockMarked, DiskFormatOK, DirectoriesReadable, InodesMarked,
              InodesUsedOnce, BlocksMarked, BlocksUsedOnce, MetadataMarked, MarkedAreFound,
              found_inodes, found_blocks, DirsVisited, EntriesSeen, EntriesOf, Closed,
              EntryAt, Held, S_ISDIR
<1> SUFFICES ASSUME DiskFormatOK PROVE errors' = {}
  BY <1>2 DEF Silent
<1>3. RootBlockMarked /\ errors = {} /\ ~LoopFound /\ QueueTyped /\ QueueIsFollowed
  BY DEF Silent, LoopFound, WalkInv
<1>4. \A S \in SUBSET block_map : MarkedFree(S) = {}
  BY DEF MarkedFree
<1>5. CASE TakeFile
  <2>1. Upcoming = inode_list[tail + 1] /\ tail + 1 \in 1 .. Len(inode_list) /\ ~Upcoming.dir
    BY <1>3, <1>5 DEF TakeFile, Take, Upcoming, QueueTyped
  <2>2. Held(Upcoming.inum) \subseteq block_map
    BY <1>3, <2>1, QueueAccepted
  <2> QED
    BY <1>3, <1>4, <1>5, <2>2 DEF TakeFile
<1>6. CASE TakeNoDirectory \/ TakeDirectory
  <2>1. Upcoming = inode_list[tail + 1] /\ tail + 1 \in 1 .. Len(inode_list) /\ Upcoming.dir
    <3>1. Take(TRUE)
      BY <1>6 DEF TakeNoDirectory, TakeDirectory
    <3> QED
      BY <1>3, <3>1 DEF Take, Upcoming, QueueTyped
  <2>2. S_ISDIR(mode[Upcoming.inum]) /\ {direct0[Upcoming.inum]} \subseteq block_map
    BY <1>3, <2>1, QueueAccepted
  <2> QED
    BY <1>3, <1>4, <1>6, <2>2 DEF TakeNoDirectory, TakeDirectory
<1>7. CASE Slot
  <2> DEFINE here == <<Current.inum, i>>
             e == EntryAt(here)
  <2>1. /\ e = disk[direct0[Current.inum]][i]
        /\ i \in Slots /\ Current.inum \in DirsInWalk
    <3>1. pc = "slots" /\ i < num_slots
      BY <1>7 DEF Slot
    <3>2. i \in 0 .. num_slots - 1 /\ tail \in 1 .. Len(inode_list)
      BY <1>3, <3>1, SizesAssumption DEF WalkInv, QueueTyped
    <3>3. Current = inode_list[tail] /\ Current.dir
      BY <1>3, <3>1 DEF WalkInv, Current
    <3> QED
      BY <1>3, <3>2, <3>3 DEF Slots, EntryAt, QueueIsFollowed
  <2>2. e.valid => here \in EntriesSeen
    BY <2>1, WalkIsVisited DEF EntriesSeen, EntriesOf
  <2>3. e.valid => e.inode \in inode_map /\ e.inode \in Inodes
    BY <1>3, <2>2 DEF DiskFormatOK, InodesMarked, QueueTyped
  <2>4. ~LoopFound'
    <3>1. ~Shared
      BY WalkIsVisited DEF Shared, DiskFormatOK, InodesUsedOnce
    <3>2. Shared' = Shared
      BY <1>1, ImageStays
    <3> QED
      BY <3>1, <3>2 DEF WalkInv
  <2>5. <<"loop found", Current.inum>> \notin errors'
    <3> DEFINE x == <<"loop found", Current.inum>>
    <3>1. x[1] = "loop found"
      OBVIOUS
    <3> HIDE DEF x
    <3> QED
      BY <2>4, <3>1 DEF LoopFound
  <2>6. errors' = errors \/ <<"loop found", Current.inum>> \in errors'
    BY <1>3, <1>7, <2>1, <2>3 DEF Slot
  <2> QED
    BY <1>3, <2>5, <2>6
<1>8. CASE EndOfDirectory \/ Report \/ UNCHANGED rvars
  BY <1>3, <1>8 DEF EndOfDirectory, Report, rvars, walk
<1> QED
  BY <1>5, <1>6, <1>7, <1>8 DEF RNext

\* The two tools agree, for images of every size: on one that fsck.hw3
\* accepts read-img reports nothing and lists no inode as unreachable, given
\* that the root's block, whose bit only read-img tests, is marked.
THEOREM AlwaysSilentIfAccepted ==
    ASSUME \A img \in Images : img.direct0[ROOT_INODE] \in img.block_map
    PROVE  RSpec => []SilentIfAccepted
<1>1. RInit => Silent
  BY DEF RInit, Silent, RootBlockMarked
<1>2. WalkInv /\ WalkInv' /\ Silent /\ [RNext]_rvars => Silent'
  BY SilentStep
<1>3. WalkInv /\ Silent => SilentIfAccepted
  <2> SUFFICES ASSUME WalkInv, Silent, pc = "done", DiskFormatOK
               PROVE  errors = {} /\ unreachable = {}
    BY DEF SilentIfAccepted
  <2>1. errors = {} /\ ~LoopFound
    BY DEF Silent, LoopFound
  <2>2. unreachable = Unreached /\ inode_map \subseteq Inodes
    BY <2>1 DEF WalkInv, QueueTyped
  <2>3. imap = found_inodes
    BY <2>1, <2>2, WalkIsComplete, VisitedIsWalked DEF found_inodes
  <2> QED
    BY <2>1, <2>2, <2>3 DEF Unreached, DiskFormatOK, MarkedAreFound
<1> QED
  BY <1>1, <1>2, <1>3, AlwaysWalk, PTL DEF RSpec
=============================================================================
