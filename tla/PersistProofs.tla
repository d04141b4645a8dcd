---------------------------- MODULE PersistProofs ----------------------------
(***************************************************************************)
(* Proofs about Persist: what a crash at any write leaves on the image, for *)
(* every size of the file system and every set of paths that translate      *)
(* reads to the end, as far as Persist follows what happens: until a file   *)
(* needs more than its direct pointers, a directory is made of a block that *)
(* is not blank, or the image a crash left is mounted although fsck.hw3     *)
(* does not accept it or it is out of order where fsck.hw3 does not look.   *)
(***************************************************************************)
EXTENDS DirectoryProofs, Persist, FiniteSetTheorems

\* The theorems about the checker, of what the image holds.
Img == INSTANCE DirectoryProofs WITH
    inode_map <- image.inode_map, block_map <- image.block_map,
    mode <- image.mode, direct0 <- image.direct0, rest <- image.rest,
    disk <- image.disk, lost <- {}, ret <- ret

Images ==
    [inode_map : SUBSET Inodes, block_map : SUBSET Blocks,
     mode : [Inodes -> SUBSET {IFDIR, IFREG}],
     direct0 : [Inodes -> {0} \cup DataBlocks],
     rest : [Inodes -> SUBSET DataBlocks],
     disk : [{0} \cup DataBlocks -> [Slots -> SlotValues]]]

DiskBlocks == {0} \cup DataBlocks

-----------------------------------------------------------------------------
(* What a sequence of writes leads to. *)

\* Every part of img, each block on its own, is as on the image when the call
\* began or as the call leaves it in memory.
Mixed(img) ==
    /\ img \in Images
    /\ img.inode_map \in {image.inode_map, inode_map'}
    /\ img.block_map \in {image.block_map, block_map'}
    /\ \/ /\ img.mode = image.mode /\ img.direct0 = image.direct0
          /\ img.rest = image.rest
       \/ img.mode = mode' /\ img.direct0 = direct0' /\ img.rest = rest'
    /\ \A b \in DiskBlocks : img.disk[b] \in {image.disk[b], disk'[b]}

AllMixed(w) == w \in Seq(Images) /\ \A k \in 1 .. Len(w) : Mixed(w[k])

\* The metadata is all written, and the blocks in S over those of dsk.
AllWritten(img, dsk, S) ==
    /\ img.inode_map = inode_map' /\ img.block_map = block_map'
    /\ img.mode = mode' /\ img.direct0 = direct0' /\ img.rest = rest'
    /\ img.disk = Written(dsk, S)

\* A function on 1 .. n is a sequence of n elements.
LEMMA IsSequence ==
    ASSUME NEW S, NEW n \in Nat, NEW w \in [1 .. n -> S]
    PROVE  w \in Seq(S) /\ Len(w) = n
OBVIOUS

\* One sequence of writes after another.
LEMMA OneAfterAnother ==
    ASSUME NEW v, NEW w, AllMixed(v), AllMixed(w), NEW img
    PROVE  /\ AllMixed(v \o w)
           /\ w # <<>> => LastOf(img, v \o w) = w[Len(w)]
<1>1. v \in Seq(Images) /\ w \in Seq(Images)
  BY DEF AllMixed
<1>2. v \o w \in Seq(Images) /\ Len(v \o w) = Len(v) + Len(w)
  BY <1>1
<1>3. ASSUME NEW k \in 1 .. Len(v \o w) PROVE Mixed((v \o w)[k])
  <2>1. CASE k <= Len(v)
    <3>1. (v \o w)[k] = v[k] /\ k \in 1 .. Len(v)
      BY <1>1, <1>2, <2>1
    <3> QED
      BY <3>1 DEF AllMixed
  <2>2. CASE ~(k <= Len(v))
    <3>1. (v \o w)[k] = w[k - Len(v)] /\ k - Len(v) \in 1 .. Len(w)
      BY <1>1, <1>2, <2>2
    <3> QED
      BY <3>1 DEF AllMixed
  <2> QED
    BY <2>1, <2>2
<1>4. ASSUME w # <<>> PROVE LastOf(img, v \o w) = w[Len(w)]
  <2>1. Len(w) > 0 /\ Len(v \o w) = Len(v) + Len(w) /\ v \o w # <<>>
    BY <1>1, <1>2, <1>4
  <2>2. (v \o w)[Len(v \o w)] = w[Len(w)]
    BY <1>1, <2>1
  <2> QED
    BY <2>1, <2>2 DEF LastOf
<1> QED
  BY <1>2, <1>3, <1>4 DEF AllMixed

\* The last of the images is one of them.
LEMMA LastIsMixed ==
    ASSUME NEW img, Mixed(img), NEW w, AllMixed(w)
    PROVE  Mixed(LastOf(img, w))
<1>1. w \in Seq(Images)
  BY DEF AllMixed
<1>2. w # <<>> => Len(w) \in 1 .. Len(w)
  BY <1>1
<1> QED
  BY <1>2 DEF LastOf, AllMixed

\* Each image of block_write has a set of blocks written over img, and the
\* last one has them all.
LEMMA BlocksWritten ==
    ASSUME TypeOK', NEW img, Mixed(img), NEW order \in Seq(DiskBlocks)
    PROVE  /\ AllMixed(block_write(img, order))
           /\ Len(block_write(img, order)) = Len(order)
           /\ \A k \in 1 .. Len(order) : \E S :
                 block_write(img, order)[k] = [img EXCEPT !.disk = Written(@, S)]
           /\ LastOf(img, block_write(img, order)) =
                 [img EXCEPT !.disk = Written(@, {order[j] : j \in 1 .. Len(order)})]
<1> DEFINE w == block_write(img, order)
           At(S) == [img EXCEPT !.disk = Written(@, S)]
<1>1. img \in Images /\ img.disk \in [DiskBlocks -> [Slots -> SlotValues]]
  BY DEF Mixed, Images, DiskBlocks
<1>2. ASSUME NEW S PROVE Mixed(At(S))
  <2>1. disk' \in [DiskBlocks -> [Slots -> SlotValues]]
    BY DEF TypeOK, DiskBlocks
  <2>2. /\ Written(img.disk, S) \in [DiskBlocks -> [Slots -> SlotValues]]
        /\ \A b \in DiskBlocks : Written(img.disk, S)[b] \in {img.disk[b], disk'[b]}
    BY <1>1, <2>1 DEF Written
  <2>3. /\ At(S).disk = Written(img.disk, S)
        /\ At(S).inode_map = img.inode_map /\ At(S).block_map = img.block_map
        /\ At(S).mode = img.mode /\ At(S).direct0 = img.direct0
        /\ At(S).rest = img.rest
    BY <1>1 DEF Images
  <2>4. At(S) \in Images
    BY <1>1, <2>2 DEF Images, DiskBlocks
  <2>5. \A b \in DiskBlocks : At(S).disk[b] \in {image.disk[b], disk'[b]}
    BY <2>2, <2>3 DEF Mixed
  <2> QED
    BY <2>3, <2>4, <2>5 DEF Mixed
<1>3. /\ Len(order) \in Nat
      /\ w = [k \in 1 .. Len(order) |-> At({order[j] : j \in 1 .. k})]
  BY DEF block_write
<1>4. \A k \in 1 .. Len(order) : w[k] = At({order[j] : j \in 1 .. k})
  BY <1>3
<1>5. \A k \in 1 .. Len(order) : Mixed(w[k])
  BY <1>2, <1>4
<1>6. w \in Seq(Images) /\ Len(w) = Len(order)
  <2>1. \A k \in 1 .. Len(order) : w[k] \in Images
    BY <1>5 DEF Mixed
  <2>2. w \in [1 .. Len(order) -> Images]
    BY <1>3, <2>1
  <2> HIDE DEF w
  <2> QED
    BY <1>3, <2>2, IsSequence
<1>7. LastOf(img, w) = At({order[j] : j \in 1 .. Len(order)})
  <2>1. CASE Len(order) = 0
    <3>1. w = <<>> /\ {order[j] : j \in 1 .. Len(order)} = {}
      BY <1>6, <2>1
    <3>2. Written(img.disk, {}) = img.disk
      BY <1>1 DEF Written
    <3>3. At({}) = img
      BY <1>1, <3>2 DEF Images
    <3> QED
      BY <3>1, <3>3 DEF LastOf
  <2>2. CASE Len(order) # 0
    <3>1. w # <<>> /\ Len(order) \in 1 .. Len(order)
      <4> HIDE DEF w
      <4> QED
        BY <1>3, <1>6, <2>2
    <3>2. LastOf(img, w) = w[Len(order)]
      BY <1>6, <3>1 DEF LastOf
    <3> QED
      BY <1>4, <3>1, <3>2
  <2> QED
    BY <2>1, <2>2
<1> QED
  BY <1>4, <1>5, <1>6, <1>7 DEF AllMixed

\* update_disk ends with all the metadata.
LEMMA MetadataWritten ==
    ASSUME TypeOK', NEW img, Mixed(img),
           NEW imap \in {image.inode_map, inode_map'}, imap \subseteq Inodes
    PROVE  LET w == update_disk(img, imap)
           IN /\ AllMixed(w) /\ w # <<>>
              /\ w[Len(w)] = [inode_map |-> imap, block_map |-> block_map',
                              mode |-> mode', direct0 |-> direct0',
                              rest |-> rest', disk |-> img.disk]
<1> DEFINE a == [img EXCEPT !.inode_map = imap]
           b == [a EXCEPT !.block_map = block_map']
           c == [b EXCEPT !.mode = mode', !.direct0 = direct0', !.rest = rest']
<1>1. img \in Images
  BY DEF Mixed
<1>2. /\ block_map' \subseteq Blocks
      /\ mode' \in [Inodes -> SUBSET {IFDIR, IFREG}]
      /\ direct0' \in [Inodes -> {0} \cup DataBlocks]
      /\ rest' \in [Inodes -> SUBSET DataBlocks]
  BY DEF TypeOK
<1>3. a \in Images /\ Mixed(a)
  BY <1>1 DEF Mixed, Images
<1>4. b \in Images /\ Mixed(b)
  BY <1>2, <1>3 DEF Mixed, Images
<1>5. c \in Images /\ Mixed(c)
  BY <1>2, <1>4 DEF Mixed, Images
<1>6. c = [inode_map |-> imap, block_map |-> block_map', mode |-> mode',
           direct0 |-> direct0', rest |-> rest', disk |-> img.disk]
  <2>1. /\ c.inode_map = imap /\ c.block_map = block_map' /\ c.mode = mode'
        /\ c.direct0 = direct0' /\ c.rest = rest' /\ c.disk = img.disk
    BY <1>1 DEF Images
  <2> HIDE DEF c
  <2> QED
    BY <1>5, <2>1 DEF Images
<1>7. update_disk(img, imap) = <<a, b, c>>
  BY DEF update_disk
<1> HIDE DEF a, b, c
<1>8. <<a, b, c>> \in Seq(Images) /\ Len(<<a, b, c>>) = 3 /\ <<a, b, c>>[3] = c
  BY <1>3, <1>4, <1>5
<1>9. \A k \in 1 .. 3 : Mixed(<<a, b, c>>[k])
  BY <1>3, <1>4, <1>5
<1> QED
  BY <1>6, <1>7, <1>8, <1>9 DEF AllMixed

\* How most handlers end.
LEMMA FinishWrites ==
    ASSUME TypeOK', NEW img, Mixed(img), NEW order \in Seq(DiskBlocks), NEW at
    PROVE  /\ AllMixed(Finish(img, order)) /\ Finish(img, order) # <<>>
           /\ AllWritten(LastOf(at, Finish(img, order)), img.disk,
                         {order[j] : j \in 1 .. Len(order)})
<1>w. PICK w : w = block_write(img, order)
  OBVIOUS
<1>l. PICK last : last = LastOf(img, w)
  OBVIOUS
<1>u. PICK u : u = update_disk(last, inode_map')
  OBVIOUS
<1>1. AllMixed(w) /\ Mixed(last)
  BY <1>w, <1>l, BlocksWritten, LastIsMixed
<1>2. last.disk = Written(img.disk, {order[j] : j \in 1 .. Len(order)})
  <2>1. last = [img EXCEPT !.disk = Written(@, {order[j] : j \in 1 .. Len(order)})]
    BY <1>w, <1>l, BlocksWritten
  <2>2. img \in Images
    BY DEF Mixed
  <2> QED
    BY <2>1, <2>2 DEF Images
<1>3. /\ AllMixed(u) /\ u # <<>>
      /\ u[Len(u)] = [inode_map |-> inode_map', block_map |-> block_map',
                      mode |-> mode', direct0 |-> direct0',
                      rest |-> rest', disk |-> last.disk]
  BY <1>u, <1>1, MetadataWritten DEF TypeOK
<1>4. Finish(img, order) = w \o u
  BY <1>w, <1>l, <1>u DEF Finish
<1>5. AllMixed(w \o u) /\ LastOf(at, w \o u) = u[Len(u)]
  BY <1>1, <1>3, OneAfterAnother
<1>6. w \o u # <<>>
  BY <1>1, <1>3 DEF AllMixed
<1> QED
  BY <1>2, <1>3, <1>4, <1>5, <1>6 DEF AllWritten

-----------------------------------------------------------------------------
(* The invariant. *)

\* Every entry on disk is in the block of a directory in use.
EntriesInDirs ==
    \A b \in DiskBlocks, s \in Slots :
        disk[b][s].valid => \E d \in LiveDirs : direct0[d] = b

\* No inode has more blocks than direct pointers.
WithinDirect(d0, rst) ==
    \A i \in Inodes : Cardinality(({d0[i]} \ {0}) \cup rst[i]) <= N_DIRECT

\* What Directory keeps, and what it does not need.
MemoryOK ==
    /\ Sound /\ TreeIsConnected
    /\ lost = {}
    /\ direct0[ROOT_INODE] = DataStart
    /\ EntriesInDirs
    /\ WithinDirect(direct0, rest)

\* What is so on the image after any write, though fsck.hw3 does not look at
\* it: the root's bits and pointers, a directory's only block and where
\* truncate stops, files within their direct pointers, and of each entry the
\* rest.
RootOK(img) ==
    /\ {0, ROOT_INODE} \subseteq img.inode_map
    /\ DataStart \in img.block_map
    /\ img.mode[ROOT_INODE] = {IFDIR}
    /\ img.direct0[ROOT_INODE] = DataStart

PointersOK(img) ==
    \A i \in Inodes \ {0} :
        S_ISDIR(img.mode[i]) \/ img.direct0[i] = 0 => img.rest[i] = {}

EntryOK(img, b, e) ==
    /\ b # 0 /\ e.inode \in Inodes \ {0}
    /\ ~e.isDir /\ S_ISDIR(img.mode[e.inode]) => img.direct0[e.inode] = 0
    /\ \E d \in img.inode_map \ {0} : S_ISDIR(img.mode[d]) /\ img.direct0[d] = b

NamesOnce(blk) ==
    \A s, t \in Slots :
        blk[s].valid /\ blk[t].valid /\ blk[s].name = blk[t].name => s = t

ImageOK(img) ==
    /\ img \in Images
    /\ RootOK(img)
    /\ PointersOK(img)
    /\ WithinDirect(img.direct0, img.rest)
    /\ \A b \in DiskBlocks :
          /\ \A s \in Slots : img.disk[b][s].valid => EntryOK(img, b, img.disk[b][s])
          /\ NamesOnce(img.disk[b])

-----------------------------------------------------------------------------
(* What a handler changes. *)

EqualEntries(blk, blk1) ==
    \A s \in Slots : blk[s].valid \/ blk1[s].valid => blk1[s] = blk[s]

NoEntry(blk) == \A s \in Slots : ~blk[s].valid

\* The one directory whose entries a handler writes is d, in use before and
\* after.  Inodes in use keep their types.  A directory keeps its block or,
\* if it is removed, had no entry; a new one has none.
Frame(d) ==
    /\ d \in LiveDirs /\ d \in LiveDirs'
    /\ \A i \in Live : S_ISDIR(mode'[i]) <=> S_ISDIR(mode[i])
    /\ \A b \in DiskBlocks \ {direct0[d]} : EqualEntries(disk[b], disk'[b])
    /\ \A e \in LiveDirs : IF e \in Live' THEN direct0'[e] = direct0[e]
                           ELSE NoEntry(disk[direct0[e]])
    /\ \A e \in LiveDirs' \ Live : NoEntry(disk'[direct0'[e]])
    /\ ROOT_INODE \in Live'
    /\ lost' = lost

\* On the image an inode leads to blocks it leads to in memory.
LeadsToNoOthers ==
    \A i \in Inodes : /\ image.direct0[i] \in {0, direct0[i]}
                      /\ image.rest[i] \subseteq rest[i]

\* What image and memory have in common when no write is to come.
Agree ==
    /\ image \in Images /\ LeadsToNoOthers
    /\ image.inode_map = inode_map /\ image.mode = mode /\ image.disk = disk
    /\ image.block_map \subseteq block_map
    /\ \A d \in LiveDirs : image.direct0[d] = direct0[d]
    /\ \A i \in FreeInodes : image.direct0[i] = 0

\* Entries are in directories before and after, and those are the same.
LEMMA FrameOfEntries ==
    ASSUME TypeOK, TypeOK', EntriesInDirs, NEW d, Frame(d)
    PROVE  /\ EntriesInDirs'
           /\ \A b \in DiskBlocks, s \in Slots :
                 disk[b][s].valid \/ disk'[b][s].valid
                     => \E e \in LiveDirs : /\ e \in LiveDirs'
                                            /\ direct0[e] = b /\ direct0'[e] = b
<1> USE DEF Frame
<1>1. ASSUME NEW e \in LiveDirs, e \in Live'
      PROVE  e \in LiveDirs' /\ direct0'[e] = direct0[e]
  BY <1>1 DEF LiveDirs
<1>2. ASSUME NEW b \in DiskBlocks, NEW s \in Slots,
             disk[b][s].valid \/ disk'[b][s].valid
      PROVE  \E e \in LiveDirs : /\ e \in LiveDirs'
                                 /\ direct0[e] = b /\ direct0'[e] = b
  <2>1. CASE b = direct0[d]
    BY <1>1, <2>1 DEF LiveDirs
  <2>2. CASE b # direct0[d]
    <3>1. disk[b][s].valid
      BY <1>2, <2>2 DEF EqualEntries
    <3>2. PICK e \in LiveDirs : direct0[e] = b
      BY <3>1 DEF EntriesInDirs
    <3>3. e \in Live'
      BY <3>1, <3>2 DEF NoEntry
    <3> QED
      BY <1>1, <3>2, <3>3
  <2> QED
    BY <2>1, <2>2
<1>3. EntriesInDirs'
  BY <1>2 DEF EntriesInDirs
<1> QED
  BY <1>2, <1>3

\* Of a sound memory, what ImageOK says of an image.
LEMMA MemoryHasIt ==
    ASSUME MemoryOK
    PROVE  /\ {0, ROOT_INODE} \subseteq inode_map /\ DataStart \in block_map
           /\ mode[ROOT_INODE] = {IFDIR}
           /\ \A i \in Inodes \ {0} :
                 S_ISDIR(mode[i]) \/ direct0[i] = 0 => rest[i] = {}
           /\ \A b \in DiskBlocks :
                 /\ \A s \in Slots : disk[b][s].valid =>
                       /\ b # 0 /\ disk[b][s].inode \in Live
                       /\ disk[b][s].isDir <=> S_ISDIR(mode[disk[b][s].inode])
                 /\ NamesOnce(disk[b])
<1>0. /\ Sound /\ TypeOK /\ DirectoriesHaveOneBlock /\ EntriesInDirs
      /\ direct0[ROOT_INODE] = DataStart
  BY DEF MemoryOK, Sound
<1>1. {0, ROOT_INODE} \subseteq inode_map /\ mode[ROOT_INODE] = {IFDIR}
  BY <1>0 DEF Sound, EntriesMatchInodes, S_ISDIR
<1>2. DataStart \in block_map
  <2>1. ROOT_INODE \in Live
    BY <1>1 DEF Live, ROOT_INODE
  <2>2. DataStart \in Held(ROOT_INODE)
    BY <1>0, SizesAssumption DEF Held
  <2> QED
    BY <1>0, <2>1, <2>2 DEF Sound, BlocksMatchOwners
<1>3. \A i \in Inodes \ {0} : S_ISDIR(mode[i]) \/ direct0[i] = 0 => rest[i] = {}
  <2> SUFFICES ASSUME NEW i \in Inodes \ {0}, S_ISDIR(mode[i]) \/ direct0[i] = 0
               PROVE  rest[i] = {}
    OBVIOUS
  <2>1. CASE i \in Live
    BY <1>0, <2>1 DEF DirectoriesHaveOneBlock
  <2>2. CASE i \notin Live
    BY <1>0, <2>2 DEF Sound, FreeInodesAreClean, FreeInodes, Live, Held
  <2> QED
    BY <2>1, <2>2
<1>4. ASSUME NEW b \in DiskBlocks, NEW s \in Slots, disk[b][s].valid
      PROVE  \E e \in LiveDirs : direct0[e] = b /\ b # 0 /\ <<e, s>> \in Places
  <2>1. PICK e \in LiveDirs : direct0[e] = b
    BY <1>0, <1>4 DEF EntriesInDirs
  <2>2. direct0[e] # 0
    BY <1>0, DirHasBlock
  <2> QED
    BY <1>4, <2>1, <2>2 DEF Places
<1>5. ASSUME NEW b \in DiskBlocks, NEW s \in Slots, disk[b][s].valid
      PROVE  /\ b # 0 /\ disk[b][s].inode \in Live
             /\ disk[b][s].isDir <=> S_ISDIR(mode[disk[b][s].inode])
  <2>1. PICK e \in LiveDirs : direct0[e] = b /\ b # 0 /\ <<e, s>> \in Places
    BY <1>4, <1>5
  <2>2. EntryAt(<<e, s>>) = disk[b][s]
    BY <2>1 DEF EntryAt
  <2> QED
    BY <1>0, <2>1, <2>2 DEF Sound, EntriesMatchInodes, KindsAgree
<1>6. ASSUME NEW b \in DiskBlocks PROVE NamesOnce(disk[b])
  <2> SUFFICES ASSUME NEW s \in Slots, NEW t \in Slots,
                      disk[b][s].valid, disk[b][t].valid,
                      disk[b][s].name = disk[b][t].name
               PROVE  s = t
    BY DEF NamesOnce
  <2>1. PICK e \in LiveDirs : direct0[e] = b /\ <<e, s>> \in Places
    BY <1>4
  <2>2. <<e, t>> \in Places
    BY <2>1 DEF Places
  <2>3. EntryAt(<<e, s>>) = disk[b][s] /\ EntryAt(<<e, t>>) = disk[b][t]
    BY <2>1 DEF EntryAt
  <2>4. <<e, s>> = <<e, t>>
    BY <1>0, <2>1, <2>2, <2>3 DEF Sound, NamesAreUnique
  <2> QED
    BY <2>4
<1> QED
  BY <1>1, <1>2, <1>3, <1>5, <1>6

\* Every entry, in whatever block, leads to an inode in use of its kind.
EntriesLead ==
    \A b \in DiskBlocks :
        /\ \A s \in Slots : disk[b][s].valid =>
              /\ b # 0 /\ disk[b][s].inode \in Live
              /\ disk[b][s].isDir <=> S_ISDIR(mode[disk[b][s].inode])
        /\ NamesOnce(disk[b])

LEMMA EntriesDoLead == MemoryOK => EntriesLead
BY MemoryHasIt DEF EntriesLead

-----------------------------------------------------------------------------
(* Any mixture of the two is in order. *)

\* The image between two writes is in order where fsck.hw3 does not look.
LEMMA MixedIsOK ==
    ASSUME MemoryOK, MemoryOK', Agree, ImageOK(image), NEW d, Frame(d),
           NEW img, Mixed(img)
    PROVE  ImageOK(img)
<1> USE DEF EntriesLead
<1>1. TypeOK /\ TypeOK' /\ EntriesInDirs /\ LiveDirs \subseteq Live
  BY DEF MemoryOK, Sound, LiveDirs
<1>2. RootOK(img)
  <2>1. {0, ROOT_INODE} \subseteq img.inode_map
    BY MemoryHasIt DEF Mixed, ImageOK, RootOK, MemoryOK, Sound, EntriesMatchInodes
  <2>2. DataStart \in block_map' /\ mode'[ROOT_INODE] = {IFDIR}
        /\ direct0'[ROOT_INODE] = DataStart
    <3>1. DataStart \in Held(ROOT_INODE)' /\ ROOT_INODE \in Live'
      BY SizesAssumption DEF MemoryOK, Held, Frame
    <3> QED
      BY <3>1 DEF MemoryOK, Sound, BlocksMatchOwners, EntriesMatchInodes, S_ISDIR
  <2> QED
    BY <2>1, <2>2 DEF Mixed, ImageOK, RootOK
<1>3. PointersOK(img)
  <2>1. CASE img.mode = image.mode /\ img.direct0 = image.direct0 /\ img.rest = image.rest
    BY <2>1 DEF ImageOK, PointersOK
  <2>2. CASE img.mode = mode' /\ img.direct0 = direct0' /\ img.rest = rest'
    <3> SUFFICES ASSUME NEW i \in Inodes \ {0},
                        S_ISDIR(mode'[i]) \/ direct0'[i] = 0
                 PROVE  rest'[i] = {}
      BY <2>2 DEF PointersOK
    <3>1. CASE i \in Live'
      BY <3>1 DEF MemoryOK, Sound, DirectoriesHaveOneBlock
    <3>2. CASE i \notin Live'
      BY <3>2 DEF MemoryOK, Sound, FreeInodesAreClean, FreeInodes, Live, Held
    <3> QED
      BY <3>1, <3>2
  <2> QED
    BY <2>1, <2>2 DEF Mixed
<1>w. WithinDirect(img.direct0, img.rest)
  BY DEF Mixed, ImageOK, MemoryOK
<1>e. EntriesLead
  BY MemoryHasIt DEF EntriesLead
<1>f. EntriesLead'
  BY EntriesDoLead, PTL
<1>4. ASSUME NEW b \in DiskBlocks PROVE NamesOnce(img.disk[b])
  BY <1>e, <1>f DEF Mixed, Agree
<1>5. ASSUME NEW b \in DiskBlocks, NEW s \in Slots, img.disk[b][s].valid
      PROVE  EntryOK(img, b, img.disk[b][s])
  <2>e. PICK e : e = img.disk[b][s]
    OBVIOUS
  <2>1. e = disk[b][s] \/ e = disk'[b][s]
    BY <2>e DEF Mixed, Agree
  <2>2. PICK c \in LiveDirs : c \in LiveDirs' /\ direct0[c] = b /\ direct0'[c] = b
    BY <1>1, <1>5, <2>e, <2>1, FrameOfEntries
  <2>3. c \in img.inode_map \ {0} /\ S_ISDIR(img.mode[c]) /\ img.direct0[c] = b
    <3>1. c \in inode_map /\ c \in inode_map' /\ c # 0
          /\ S_ISDIR(mode[c]) /\ S_ISDIR(mode'[c]) /\ image.direct0[c] = b
      BY <2>2 DEF Agree, LiveDirs, Live
    <3> QED
      BY <2>2, <3>1 DEF Agree, Mixed
  <2>4. b # 0 /\ e.inode \in Inodes \ {0}
    <3>1. b # 0 /\ (e.inode \in Live \/ e.inode \in Live')
      BY <1>5, <1>e, <1>f, <2>e, <2>1
    <3> QED
      BY <1>1, <3>1 DEF TypeOK, Live
  <2>5. ASSUME ~e.isDir, S_ISDIR(img.mode[e.inode]) PROVE img.direct0[e.inode] = 0
    <3>1. CASE e.inode \in Live
      <4>1. ~S_ISDIR(mode[e.inode])
        <5>1. CASE e = disk[b][s]
          BY <1>5, <1>e, <2>5, <2>e, <5>1
        <5>2. CASE e = disk'[b][s]
          BY <1>5, <1>f, <2>5, <2>e, <3>1, <5>2 DEF Frame
        <5> QED
          BY <2>1, <5>1, <5>2
      <4>2. ~S_ISDIR(mode'[e.inode])
        BY <3>1, <4>1 DEF Frame
      <4> QED
        BY <2>5, <4>1, <4>2 DEF Mixed, Agree
    <3>2. CASE e.inode \notin Live
      <4>1. e = disk'[b][s]
        BY <1>5, <1>e, <2>e, <2>1, <3>2
      <4>2. ~S_ISDIR(mode'[e.inode])
        BY <1>5, <1>f, <2>5, <2>e, <4>1
      <4>3. e.inode \in FreeInodes
        BY <2>4, <3>2 DEF FreeInodes, Live
      <4>4. image.direct0[e.inode] = 0
        BY <4>3 DEF Agree
      <4> QED
        BY <2>5, <4>2, <4>4 DEF Mixed, Agree
    <3> QED
      BY <3>1, <3>2
  <2> QED
    BY <2>e, <2>3, <2>4, <2>5 DEF EntryOK
<1> QED
  BY <1>2, <1>3, <1>4, <1>5, <1>w DEF ImageOK, Mixed

-----------------------------------------------------------------------------
(* Names on a mixture of the two. *)

LeadsOn(img) == Leads(img.mode, img.direct0, img.disk)

\* Errors count as the same: either way the path leads nowhere.
Alike(x, y) == x = y \/ (x \in Errors /\ y \in Errors)

\* Every turn of the loop from an inode of L goes alike on both disks.
StepsAlike(md, d0, dsk, md1, d1, dsk1, L) ==
    /\ ROOT_INODE \in L
    /\ \A i \in L, n \in RawNames :
          /\ Step(md, d0, dsk, i, n) \in L \cup Errors
          /\ Alike(Step(md, d0, dsk, i, n), Step(md1, d1, dsk1, i, n))

ErrorsStay == \A e \in Errors : e < 0 /\ ~(e > 0)

LEMMA ErrorsDoStay == ErrorsStay
BY DEF ErrorsStay, Errors, ENOENT, EEXIST, ENOTDIR, EISDIR, EINVAL, ENOSPC, ENOTEMPTY

\* Then every path leads to the same inode on both, or nowhere.
LEMMA TranslateAlike ==
    ASSUME NEW md, NEW d0, NEW dsk, NEW md1, NEW d1, NEW dsk1, NEW L,
           StepsAlike(md, d0, dsk, md1, d1, dsk1, L),
           NEW p \in Seq(RawNames), Len(p) <= MAX_PATH_LEN
    PROVE  Alike(translate(md, d0, dsk, p), translate(md1, d1, dsk1, p))
<1> USE DEF StepsAlike
<1> DEFINE Good(q) == /\ translate(md, d0, dsk, q) \in L \cup Errors
                      /\ Alike(translate(md, d0, dsk, q), translate(md1, d1, dsk1, q))
           S == {k \in 0 .. MAX_PATH_LEN :
                    \A q \in Seq(RawNames) : Len(q) = k => Good(q)}
<1>1. 0 \in S
  <2>1. ASSUME NEW q \in Seq(RawNames), Len(q) = 0 PROVE Good(q)
    <3>1. q = <<>>
      BY <2>1
    <3> QED
      BY <3>1, TranslateRoot DEF Alike
  <2> QED
    BY <2>1, PathsAssumption
<1>2. ASSUME NEW k \in 0 .. MAX_PATH_LEN, k \in S, k < MAX_PATH_LEN
      PROVE  k + 1 \in S
  <2>1. ASSUME NEW q \in Seq(RawNames), Len(q) = k + 1 PROVE Good(q)
    <3>1. q # <<>> /\ Len(q) <= MAX_PATH_LEN
      BY <2>1, <1>2, PathsAssumption
    <3>2. Parent(q) \in Seq(RawNames) /\ Len(Parent(q)) = k
      BY <3>1, <2>1, ParentSeq
    <3>3. Good(Parent(q))
      BY <3>2, <1>2
    <3>n. PICK n : n = Leaf(q)
      OBVIOUS
    <3>i. PICK i : i = translate(md, d0, dsk, Parent(q))
      OBVIOUS
    <3>j. PICK j : j = translate(md1, d1, dsk1, Parent(q))
      OBVIOUS
    <3>4. n \in RawNames
      BY <3>1, <3>n, LeafTyped
    <3>5. /\ translate(md, d0, dsk, q) = Step(md, d0, dsk, i, n)
          /\ translate(md1, d1, dsk1, q) = Step(md1, d1, dsk1, j, n)
      BY <3>1, <3>n, <3>i, <3>j, TranslateStep
    <3>6. CASE i \in L /\ j = i
      BY <3>4, <3>5, <3>6
    <3>7. CASE i \in Errors /\ j \in Errors
      <4>1. Step(md, d0, dsk, i, n) = i /\ Step(md1, d1, dsk1, j, n) = j
        BY <3>7, ErrorsDoStay DEF ErrorsStay, Step
      <4> QED
        BY <3>5, <3>7, <4>1 DEF Alike
    <3> QED
      BY <3>3, <3>6, <3>7, <3>i, <3>j DEF Alike
  <2> QED
    BY <2>1, <1>2, PathsAssumption
<1> HIDE DEF S
<1>3. \A k \in 0 .. MAX_PATH_LEN : k \in S
  BY <1>1, <1>2, UpTo, PathsAssumption
<1>4. Len(p) \in S
  BY <1>3
<1> QED
  BY <1>4 DEF S

LEMMA LeadsAlike ==
    ASSUME ShortPaths,
           NEW md, NEW d0, NEW dsk, NEW md1, NEW d1, NEW dsk1, NEW L,
           StepsAlike(md, d0, dsk, md1, d1, dsk1, L)
    PROVE  Leads(md1, d1, dsk1) = Leads(md, d0, dsk)
<1>1. ASSUME NEW p \in Paths
      PROVE  Alike(translate(md, d0, dsk, p), translate(md1, d1, dsk1, p))
  BY TranslateAlike, PathsAssumption DEF ShortPaths
<1>2. ASSUME NEW x, NEW y, Alike(x, y)
      PROVE  (IF x > 0 THEN x ELSE 0) = (IF y > 0 THEN y ELSE 0)
  BY <1>2, ErrorsDoStay DEF Alike, ErrorsStay
<1> QED
  BY <1>1, <1>2 DEF Leads

\* A block with the same entries gives lookup the same inode or error.
LEMMA LookupSame ==
    ASSUME NEW md, NEW d0, NEW dsk, NEW md1, NEW d1, NEW dsk1, NEW i, NEW n,
           S_ISDIR(md[i]), S_ISDIR(md1[i]),
           EqualEntries(dsk[d0[i]], dsk1[d1[i]])
    PROVE  lookup(md1, d1, dsk1, i, n) = lookup(md, d0, dsk, i, n)
<1>a. PICK blk : blk = dsk[d0[i]]
  OBVIOUS
<1>b. PICK blk1 : blk1 = dsk1[d1[i]]
  OBVIOUS
<1>1. EqualEntries(blk, blk1)
  BY <1>a, <1>b
<1>2. Matches(blk, n) = Matches(blk1, n)
  BY <1>1 DEF Matches, EqualEntries
<1>3. \A s \in Matches(blk, n) : blk1[s] = blk[s]
  BY <1>1 DEF Matches, EqualEntries
<1>4. Matches(blk, n) \in SUBSET Nat
  BY SizesAssumption DEF Matches, Slots
<1>5. Matches(blk, n) # {} => FirstOf(Matches(blk, n)) \in Matches(blk, n)
  BY <1>4, FirstOfLeast
<1> QED
  BY <1>a, <1>b, <1>2, <1>3, <1>5 DEF lookup

\* A block without entries gives it an error.
LEMMA LookupNothing ==
    ASSUME NEW md, NEW d0, NEW dsk, NEW i, NEW n,
           S_ISDIR(md[i]) => NoEntry(dsk[d0[i]])
    PROVE  lookup(md, d0, dsk, i, n) \in Errors
BY DEF lookup, NoEntry, Matches, Errors

\* From an inode in use lookup comes to one or to an error.
StepsStay ==
    /\ ROOT_INODE \in Live
    /\ \A i \in Live, n \in RawNames :
          /\ Step(mode, direct0, disk, i, n) \in Live \cup Errors
          /\ i > 0

LEMMA StepsDoStay == Sound => StepsStay
<1> SUFFICES ASSUME Sound PROVE StepsStay
  OBVIOUS
<1>1. ROOT_INODE \in Live
  BY DEF Sound, EntriesMatchInodes, Live, ROOT_INODE
<1> QED
  BY <1>1, StepStaysLive, LiveIsPositive DEF StepsStay, Sound

\* What a path is resolved with is the same on the image.
SameNames ==
    /\ image.mode = mode /\ image.disk = disk
    /\ \A d \in LiveDirs : image.direct0[d] = direct0[d]

LEMMA SameNamesLead ==
    ShortPaths /\ Sound /\ SameNames => LeadsOn(image) = Where
<1> SUFFICES ASSUME ShortPaths, Sound, SameNames PROVE LeadsOn(image) = Where
  OBVIOUS
<1>1. StepsStay
  BY StepsDoStay
<1>2. ASSUME NEW i \in Live, NEW n \in RawNames
      PROVE  Step(image.mode, image.direct0, image.disk, i, n)
                = Step(mode, direct0, disk, i, n)
  BY DEF Step, lookup, SameNames, LiveDirs
<1>3. StepsAlike(mode, direct0, disk, image.mode, image.direct0, image.disk, Live)
  BY <1>1, <1>2 DEF StepsAlike, StepsStay, Alike
<1> QED
  BY <1>3, LeadsAlike DEF LeadsOn, Where

\* Block 0 has no entry, on the image as in memory.
LEMMA BlockZero ==
    ASSUME MemoryOK, MemoryOK', Agree, NEW img, Mixed(img)
    PROVE  NoEntry(img.disk[0])
<1>1. NoEntry(disk[0]) /\ NoEntry(disk'[0])
  BY DEF MemoryOK, Sound, DirectoriesHaveOneBlock, Listing, NoEntry
<1>2. 0 \in DiskBlocks
  BY DEF DiskBlocks
<1> QED
  BY <1>1, <1>2 DEF Mixed, Agree

\* While the directory's block is not written, names lead where they led.
LEMMA MixedBefore ==
    ASSUME ShortPaths, MemoryOK, MemoryOK', Agree, NEW d, Frame(d),
           NEW img, Mixed(img), img.disk[direct0[d]] = disk[direct0[d]]
    PROVE  LeadsOn(img) = Where
<1>0. /\ Sound /\ TypeOK /\ DirectoriesHaveOneBlock /\ StepsStay /\ NoEntry(img.disk[0])
      /\ LiveDirs \subseteq Live
  BY StepsDoStay, BlockZero DEF MemoryOK, Sound, LiveDirs
<1>1. \A b \in DiskBlocks : EqualEntries(disk[b], img.disk[b])
  BY DEF Frame, Mixed, Agree, EqualEntries
<1>2. ASSUME NEW i \in Live, NEW n \in RawNames
      PROVE  Alike(lookup(mode, direct0, disk, i, n),
                   lookup(img.mode, img.direct0, img.disk, i, n))
  <2>1. S_ISDIR(img.mode[i]) <=> S_ISDIR(mode[i])
    BY DEF Mixed, Agree, Frame
  <2>2. CASE ~S_ISDIR(mode[i])
    BY <2>1, <2>2 DEF lookup, Alike
  <2>3. CASE S_ISDIR(mode[i])
    <3>1. i \in LiveDirs /\ direct0[i] \in DiskBlocks
      BY <1>0, <2>3, DirHasBlock DEF LiveDirs, DiskBlocks
    <3>2. CASE i \in Live'
      <4>1. img.direct0[i] = direct0[i]
        BY <3>1, <3>2 DEF Mixed, Agree, Frame
      <4>2. EqualEntries(disk[direct0[i]], img.disk[img.direct0[i]])
        BY <1>1, <3>1, <4>1
      <4> QED
        BY <2>1, <2>3, <4>2, LookupSame DEF Alike
    <3>3. CASE i \notin Live'
      <4>1. NoEntry(disk[direct0[i]])
        BY <3>1, <3>3 DEF Frame
      <4>2. NoEntry(img.disk[direct0[i]])
        BY <1>1, <3>1, <4>1 DEF NoEntry, EqualEntries
      <4>3. direct0'[i] = 0
        <5>1. i \in FreeInodes' /\ direct0'[i] \in {0} \cup DataBlocks
          BY <1>0, <3>3 DEF FreeInodes, Live, TypeOK, MemoryOK, Sound
        <5> QED
          BY <5>1 DEF MemoryOK, Sound, FreeInodesAreClean, Held
      <4>4. img.direct0[i] \in {direct0[i], 0}
        BY <3>1, <4>3 DEF Mixed, Agree
      <4>5. NoEntry(img.disk[img.direct0[i]])
        BY <1>0, <4>2, <4>4
      <4> QED
        BY <4>1, <4>5, LookupNothing DEF Alike
    <3> QED
      BY <3>2, <3>3
  <2> QED
    BY <2>2, <2>3
<1>3. StepsAlike(mode, direct0, disk, img.mode, img.direct0, img.disk, Live)
  BY <1>0, <1>2 DEF StepsAlike, StepsStay, Step
<1> QED
  BY <1>3, LeadsAlike DEF LeadsOn, Where

\* Once it is written they lead where the call takes them.
LEMMA MixedAfter ==
    ASSUME ShortPaths, MemoryOK, MemoryOK', Agree, NEW d, Frame(d),
           NEW img, Mixed(img), img.disk[direct0[d]] = disk'[direct0[d]]
    PROVE  LeadsOn(img) = Where'
<1>0. /\ TypeOK /\ TypeOK' /\ Sound /\ NoEntry(img.disk[0])
      /\ Live \subseteq Inodes /\ Live' \subseteq Inodes
  BY BlockZero DEF MemoryOK, Sound, Live, TypeOK
<1>s. StepsStay'
  <2>1. Sound' => StepsStay'
    BY StepsDoStay, PTL
  <2> QED
    BY <2>1 DEF MemoryOK
<1>1. \A b \in DiskBlocks : EqualEntries(disk'[b], img.disk[b])
  BY DEF Frame, Mixed, Agree, EqualEntries
<1>2. ASSUME NEW i \in Live', NEW n \in RawNames
      PROVE  Alike(lookup(mode', direct0', disk', i, n),
                   lookup(img.mode, img.direct0, img.disk, i, n))
  <2>1. CASE i \in Live
    <3>1. S_ISDIR(img.mode[i]) <=> S_ISDIR(mode'[i])
      BY <2>1 DEF Mixed, Agree, Frame
    <3>2. CASE ~S_ISDIR(mode'[i])
      BY <3>1, <3>2 DEF lookup, Alike
    <3>3. CASE S_ISDIR(mode'[i])
      <4>1. i \in LiveDirs /\ direct0'[i] = direct0[i] /\ direct0'[i] \in DiskBlocks
        BY <1>0, <2>1, <3>3 DEF LiveDirs, Frame, TypeOK, DiskBlocks
      <4>2. img.direct0[i] = direct0'[i]
        BY <4>1 DEF Mixed, Agree
      <4>3. EqualEntries(disk'[direct0'[i]], img.disk[img.direct0[i]])
        BY <1>1, <4>1, <4>2
      <4> QED
        BY <3>1, <3>3, <4>3, LookupSame DEF Alike
    <3> QED
      BY <3>2, <3>3
  <2>2. CASE i \notin Live
    <3>1. i \in FreeInodes /\ direct0'[i] \in DiskBlocks
      BY <1>0, <2>2 DEF FreeInodes, Live, TypeOK, DiskBlocks
    <3>2. CASE img.mode = image.mode /\ img.direct0 = image.direct0
      <4>1. img.direct0[i] = 0
        BY <3>1, <3>2 DEF Agree
      <4>2. lookup(img.mode, img.direct0, img.disk, i, n) \in Errors
        BY <1>0, <4>1, LookupNothing
      <4>3. lookup(mode', direct0', disk', i, n) \in Errors
        <5>1. S_ISDIR(mode'[i]) => NoEntry(disk'[direct0'[i]])
          BY <2>2 DEF Frame, LiveDirs
        <5> QED
          BY <5>1, LookupNothing
      <4> QED
        BY <4>2, <4>3 DEF Alike
    <3>3. CASE img.mode = mode' /\ img.direct0 = direct0'
      <4>1. CASE S_ISDIR(mode'[i])
        <5>1. EqualEntries(disk'[direct0'[i]], img.disk[img.direct0[i]])
          BY <1>1, <3>1, <3>3
        <5> QED
          BY <3>3, <4>1, <5>1, LookupSame DEF Alike
      <4>2. CASE ~S_ISDIR(mode'[i])
        BY <3>3, <4>2 DEF lookup, Alike
      <4> QED
        BY <4>1, <4>2
    <3> QED
      BY <3>2, <3>3 DEF Mixed
  <2> QED
    BY <2>1, <2>2
<1>3. StepsAlike(mode', direct0', disk', img.mode, img.direct0, img.disk, Live')
  BY <1>s, <1>2 DEF StepsAlike, StepsStay, Step
<1> QED
  BY <1>3, LeadsAlike DEF LeadsOn, Where

-----------------------------------------------------------------------------
(* Memory and image. *)

UpToDate(img) ==
    /\ img.inode_map = inode_map /\ img.block_map = block_map
    /\ img.mode = mode /\ img.direct0 = direct0 /\ img.rest = rest
    /\ img.disk = disk

\* The constants of the instance are those of this module.
LEMMA SameConstants ==
    /\ Img!Inodes = Inodes /\ Img!Slots = Slots /\ Img!ROOT_INODE = ROOT_INODE
    /\ Img!DataBlocks = DataBlocks /\ Img!Blocks = Blocks
    /\ Img!IFDIR = IFDIR /\ Img!IFREG = IFREG
    /\ Img!SlotValues = SlotValues
    /\ Img!Replies = Replies
<1>1. /\ Img!Inodes = Inodes /\ Img!Slots = Slots /\ Img!ROOT_INODE = ROOT_INODE
      /\ Img!DataBlocks = DataBlocks /\ Img!Blocks = Blocks
      /\ Img!IFDIR = IFDIR /\ Img!IFREG = IFREG
  BY DEF Img!Inodes, Inodes, Img!Slots, Slots, Img!ROOT_INODE, ROOT_INODE,
         Img!DataBlocks, DataBlocks, Img!Blocks, Blocks, Img!IFDIR, IFDIR,
         Img!IFREG, IFREG
<1>2. Img!SlotValues = SlotValues
  BY <1>1 DEF Img!SlotValues, SlotValues, Img!Entries, Entries, Img!Entry, Entry,
              Img!Zero, Zero, Img!Stale, Stale, Img!Bytes, Bytes, Img!Unused, Unused
<1>3. Img!Replies = Replies
  BY DEF Img!Replies, Replies, Img!Calls, Calls, Img!Errors, Errors, Img!OK, OK,
         Img!ENOENT, ENOENT, Img!EEXIST, EEXIST, Img!ENOTDIR, ENOTDIR,
         Img!EISDIR, EISDIR, Img!EINVAL, EINVAL, Img!ENOSPC, ENOSPC,
         Img!ENOTEMPTY, ENOTEMPTY
<1> QED
  BY <1>1, <1>2, <1>3

\* An image that has what memory has is as sound as memory.
LEMMA ImageAsMemory ==
    UpToDate(image) /\ lost = {} =>
        /\ Sound <=> Img!Sound
        /\ TreeIsConnected <=> Img!TreeIsConnected
<1> SUFFICES ASSUME UpToDate(image), lost = {}
             PROVE  /\ Sound <=> Img!Sound
                    /\ TreeIsConnected <=> Img!TreeIsConnected
  OBVIOUS
<1> USE DEF UpToDate
<1>1. /\ Img!Inodes = Inodes /\ Img!Slots = Slots /\ Img!ROOT_INODE = ROOT_INODE
      /\ Img!DataBlocks = DataBlocks /\ Img!Blocks = Blocks
      /\ Img!IFDIR = IFDIR /\ Img!IFREG = IFREG
  BY SameConstants
<1>2. Img!SlotValues = SlotValues /\ Img!Replies = Replies
  BY SameConstants
<1>4. \A m : Img!S_ISDIR(m) <=> S_ISDIR(m)
  BY <1>1 DEF Img!S_ISDIR, S_ISDIR
<1>5. /\ \A ds : Img!EntryAt(ds) = EntryAt(ds)
      /\ \A i : Img!Held(i) = Held(i)
      /\ \A blk : Img!Listing(blk) = Listing(blk)
  BY <1>1 DEF Img!EntryAt, EntryAt, Img!Held, Held, Img!Listing, Listing
<1>6. /\ Img!Live = Live /\ Img!FreeInodes = FreeInodes
      /\ Img!LiveDirs = LiveDirs
  BY <1>1, <1>4 DEF Img!Live, Live, Img!FreeInodes, FreeInodes, Img!LiveDirs, LiveDirs
<1>7. Img!Places = Places
  BY <1>1, <1>6 DEF Img!Places, Places
<1>a. Img!TypeOK <=> TypeOK
  BY <1>1, <1>2 DEF Img!TypeOK, TypeOK
<1>b. Img!EntriesMatchInodes <=> EntriesMatchInodes
  BY <1>1, <1>4, <1>5, <1>6, <1>7 DEF Img!EntriesMatchInodes, EntriesMatchInodes
<1>c. Img!BlocksMatchOwners <=> BlocksMatchOwners
  BY <1>5, <1>6 DEF Img!BlocksMatchOwners, BlocksMatchOwners
<1>d. Img!FreeInodesAreClean <=> FreeInodesAreClean
  BY <1>5, <1>6 DEF Img!FreeInodesAreClean, FreeInodesAreClean
<1>e. Img!DirectoriesHaveOneBlock <=> DirectoriesHaveOneBlock
  BY <1>4, <1>5, <1>6 DEF Img!DirectoriesHaveOneBlock, DirectoriesHaveOneBlock
<1>f. Img!NamesAreUnique <=> NamesAreUnique
  BY <1>5, <1>7 DEF Img!NamesAreUnique, NamesAreUnique
<1>g. Img!KindsAgree <=> KindsAgree
  BY <1>4, <1>5, <1>7 DEF Img!KindsAgree, KindsAgree
<1>h. \A S : Img!ClosedUnderEntries(S) <=> ClosedUnderEntries(S)
  BY <1>1, <1>5, <1>7 DEF Img!ClosedUnderEntries, ClosedUnderEntries
<1>i. Img!TreeIsConnected <=> TreeIsConnected
  BY <1>6, <1>h DEF Img!TreeIsConnected, TreeIsConnected
<1> QED
  BY <1>a, <1>b, <1>c, <1>d, <1>e, <1>f, <1>g, <1>i DEF Img!Sound, Sound

\* Persist and this module name the same parts of the image.
LEMMA CheckedImage ==
    /\ Image!DiskFormatOK <=> Img!DiskFormatOK
    /\ Image!EntriesMatchInodes <=> Img!EntriesMatchInodes
    /\ Image!BlocksMatchOwners <=> Img!BlocksMatchOwners
    /\ Image!FreeInodesAreClean <=> Img!FreeInodesAreClean
    /\ Image!KindsAgree <=> Img!KindsAgree
<1>1. Image!Inodes = Img!Inodes /\ Image!Slots = Img!Slots /\ Image!ROOT_INODE = Img!ROOT_INODE
      /\ Image!DataBlocks = Img!DataBlocks
  BY DEF Image!Inodes, Img!Inodes, Image!Slots, Img!Slots, Image!ROOT_INODE, Img!ROOT_INODE,
     Image!DataBlocks, Img!DataBlocks
<1>2. \A m : Image!S_ISDIR(m) <=> Img!S_ISDIR(m)
  BY DEF Image!S_ISDIR, Img!S_ISDIR, Image!IFDIR, Img!IFDIR
<1>3. \A ds : Image!EntryAt(ds) = Img!EntryAt(ds)
  BY DEF Image!EntryAt, Img!EntryAt
<1>4. \A i : Image!Held(i) = Img!Held(i)
  BY DEF Image!Held, Img!Held
<1>5. \A S : Image!EntriesOf(S) = Img!EntriesOf(S)
  BY <1>1, <1>3 DEF Image!EntriesOf, Img!EntriesOf
<1>6. \A S : Image!Closed(S) <=> Img!Closed(S)
  BY <1>1, <1>3, <1>5 DEF Image!Closed, Img!Closed
<1>7. Image!DirsVisited = Img!DirsVisited
  BY <1>1, <1>6 DEF Image!DirsVisited, Img!DirsVisited
<1>8. Image!EntriesSeen = Img!EntriesSeen
  BY <1>5, <1>7 DEF Image!EntriesSeen, Img!EntriesSeen
<1>9. Image!found_inodes = Img!found_inodes 
  BY <1>1, <1>3, <1>8 DEF Image!found_inodes, Img!found_inodes
<1>10. Image!found_blocks = Img!found_blocks
  BY <1>4, <1>9 DEF Image!found_blocks, Img!found_blocks
<1>11. Image!Live = Img!Live /\ Image!LiveDirs = Img!LiveDirs
  BY <1>2 DEF Image!Live, Img!Live, Image!LiveDirs, Img!LiveDirs
<1>12. Image!Places = Img!Places
  BY <1>1, <1>11 DEF Image!Places, Img!Places
<1>13. Image!FreeInodes = Img!FreeInodes
  BY <1>1 DEF Image!FreeInodes, Img!FreeInodes
<1>a. Image!DirectoriesReadable <=> Img!DirectoriesReadable
  BY <1>2, <1>7 DEF Image!DirectoriesReadable, Img!DirectoriesReadable
<1>b. Image!InodesMarked <=> Img!InodesMarked
  BY <1>3, <1>8 DEF Image!InodesMarked, Img!InodesMarked
<1>c. Image!InodesUsedOnce <=> Img!InodesUsedOnce
  BY <1>1, <1>3, <1>8 DEF Image!InodesUsedOnce, Img!InodesUsedOnce
<1>d. Image!BlocksMarked <=> Img!BlocksMarked
  BY <1>3, <1>4, <1>8 DEF Image!BlocksMarked, Img!BlocksMarked
<1>e. Image!BlocksUsedOnce <=> Img!BlocksUsedOnce
  BY <1>3, <1>4, <1>8, <1>9 DEF Image!BlocksUsedOnce, Img!BlocksUsedOnce
<1>f. Image!MetadataMarked <=> Img!MetadataMarked
  BY DEF Image!MetadataMarked, Img!MetadataMarked
<1>g. Image!MarkedAreFound <=> Img!MarkedAreFound
  BY <1>1, <1>9, <1>10 DEF Image!MarkedAreFound, Img!MarkedAreFound
<1>h. Image!DiskFormatOK <=> Img!DiskFormatOK
  BY <1>a, <1>b, <1>c, <1>d, <1>e, <1>f, <1>g DEF Image!DiskFormatOK, Img!DiskFormatOK
<1>i. Image!EntriesMatchInodes <=> Img!EntriesMatchInodes
  BY <1>1, <1>2, <1>3, <1>11, <1>12 DEF Image!EntriesMatchInodes, Img!EntriesMatchInodes
<1>j. Image!BlocksMatchOwners <=> Img!BlocksMatchOwners
  BY <1>4, <1>11 DEF Image!BlocksMatchOwners, Img!BlocksMatchOwners
<1>k. Image!FreeInodesAreClean <=> Img!FreeInodesAreClean
  BY <1>4, <1>13 DEF Image!FreeInodesAreClean, Img!FreeInodesAreClean
<1>l. Image!KindsAgree <=> Img!KindsAgree
  BY <1>2, <1>3, <1>12 DEF Image!KindsAgree, Img!KindsAgree
<1> QED
  BY <1>h, <1>i, <1>j, <1>k, <1>l

\* fs_init takes over what the image holds.
LEMMA MountedIsSound ==
    ASSUME Img!Sound, Img!TreeIsConnected, fs_init
    PROVE  Sound' /\ TreeIsConnected'
<1>1. ret' \in Img!Replies
  <2>1. <<<<>>>> \in Seq(Seq(RawNames))
    OBVIOUS
  <2>2. Reply("attr", <<<<>>>>, OK, {}) \in Replies
    BY <2>1 DEF Reply, Replies, Calls
  <2> QED
    BY <2>2, SameConstants DEF fs_init
<1>2. Img!unchanged
  BY DEF fs_init, Img!unchanged
<1>3. Img!Keeps
  BY <1>1, <1>2, Img!NothingChanges, SizesAssumption, PathsAssumption
<1>4. Img!Sound' /\ Img!TreeIsConnected'
  BY <1>3 DEF Img!Keeps
<1>5. UpToDate(image)' /\ lost' = {}
  BY DEF fs_init, UpToDate
<1>6. (UpToDate(image) /\ lost = {} =>
          /\ Sound <=> Img!Sound
          /\ TreeIsConnected <=> Img!TreeIsConnected)'
  BY ImageAsMemory, PTL
<1> QED
  BY <1>4, <1>5, <1>6

\* An image in order where fsck.hw3 does not look, and which it accepts, has
\* its entries match its inodes and its bitmap its owners.  If no free inode
\* has pointers and no file the mode of a directory, fs_init can use it.
LEMMA AcceptedImage ==
    ASSUME ImageOK(image), TypeOK, Img!DiskFormatOK
    PROVE  /\ Img!EntriesMatchInodes /\ Img!BlocksMatchOwners
           /\ Img!FreeInodesAreClean /\ Img!KindsAgree
                 => Img!Sound /\ Img!TreeIsConnected
<1>0. /\ image \in Images /\ RootOK(image) /\ PointersOK(image)
      /\ \A b \in DiskBlocks :
            /\ \A s \in Slots : image.disk[b][s].valid => EntryOK(image, b, image.disk[b][s])
            /\ NamesOnce(image.disk[b])
  BY DEF ImageOK
<1>1. /\ Img!Inodes = Inodes /\ Img!Slots = Slots /\ Img!ROOT_INODE = ROOT_INODE
      /\ Img!DataBlocks = DataBlocks /\ Img!Blocks = Blocks
      /\ Img!IFDIR = IFDIR /\ Img!IFREG = IFREG
  BY SameConstants
<1>2. Img!SlotValues = SlotValues /\ Img!Replies = Replies
  BY SameConstants
<1>3. \A m : Img!S_ISDIR(m) <=> S_ISDIR(m)
  BY <1>1 DEF Img!S_ISDIR, S_ISDIR
<1>4. Img!TypeOK
  BY <1>0, <1>1, <1>2 DEF Img!TypeOK, TypeOK, Images
<1>5. \A i \in Inodes : image.direct0[i] \in DiskBlocks
  BY <1>0 DEF Images, DiskBlocks
<1>6. ASSUME NEW i \in Inodes, NEW s \in Slots, Img!EntryAt(<<i, s>>).valid
      PROVE  EntryOK(image, image.direct0[i], Img!EntryAt(<<i, s>>))
  BY <1>0, <1>5, <1>6 DEF Img!EntryAt
<1>7. Img!NotLookedAt
  <2>1. /\ {0, ROOT_INODE} \subseteq image.inode_map
        /\ image.direct0[ROOT_INODE] \in image.block_map
    BY <1>0 DEF RootOK
  <2>2. image.rest[ROOT_INODE] = {}
    <3>1. ROOT_INODE \in Inodes \ {0} /\ S_ISDIR(image.mode[ROOT_INODE])
      BY <1>0, SizesAssumption DEF RootOK, S_ISDIR, Inodes, ROOT_INODE
    <3> QED
      BY <1>0, <3>1 DEF PointersOK
  <2>3. Img!Listing(image.disk[0]) = {}
    BY <1>0, <1>1 DEF Img!Listing, EntryOK, DiskBlocks
  <2>4. ASSUME NEW ds \in Img!EntriesSeen
        PROVE  /\ Img!EntryAt(ds).inode \in Inodes \ {0}
               /\ ~Img!EntryAt(ds).isDir /\ S_ISDIR(image.mode[Img!EntryAt(ds).inode])
                     => image.direct0[Img!EntryAt(ds).inode] = 0
    <3>1. PICK i \in Inodes, s \in Slots : ds = <<i, s>> /\ Img!EntryAt(ds).valid
      BY <1>1 DEF Img!EntriesSeen, Img!EntriesOf, Img!DirsVisited
    <3> QED
      BY <1>6, <3>1 DEF EntryOK
  <2> QED
    BY <1>1, <1>3, <2>1, <2>2, <2>3, <2>4 DEF Img!NotLookedAt
<1>8. Img!EntriesMatchInodes /\ Img!BlocksMatchOwners
  BY <1>4, <1>7, Img!FsckIsTrustworthy, SizesAssumption, PathsAssumption
<1>9. ASSUME Img!FreeInodesAreClean, Img!KindsAgree
      PROVE  Img!Sound /\ Img!TreeIsConnected
  <2>1. Img!NamesAreUnique
    <3> SUFFICES ASSUME NEW ds \in Img!Places, NEW et \in Img!Places, ds[1] = et[1],
                        Img!EntryAt(ds).name = Img!EntryAt(et).name
                 PROVE  ds = et
      BY DEF Img!NamesAreUnique
    <3>1. /\ ds \in Inodes \X Slots /\ Img!EntryAt(ds).valid
          /\ et \in Inodes \X Slots /\ Img!EntryAt(et).valid
      BY <1>0, <1>1 DEF Img!Places, Img!LiveDirs, Img!Live, Img!EntryAt, Images
    <3>2. NamesOnce(image.disk[image.direct0[ds[1]]])
      BY <1>0, <1>5, <3>1
    <3>3. ds[2] = et[2]
      BY <3>1, <3>2 DEF NamesOnce, Img!EntryAt
    <3> QED
      BY <3>1, <3>3
  <2>2. \A i \in Img!Live : Img!S_ISDIR(image.mode[i]) \/ image.direct0[i] = 0
                                => image.rest[i] = {}
    BY <1>0, <1>3 DEF Img!Live, PointersOK, Images
  <2> QED
    BY <1>4, <1>7, <1>9, <2>1, <2>2, Img!AcceptedIsSound, SizesAssumption, PathsAssumption
<1> QED
  BY <1>8, <1>9

-----------------------------------------------------------------------------
(* The inductive invariant, and the steps other than calls. *)

\* What is written differs from the image in its free blocks only.
SameButFree(img) ==
    /\ img.inode_map = image.inode_map /\ img.block_map = image.block_map
    /\ img.mode = image.mode /\ img.direct0 = image.direct0
    /\ img.rest = image.rest
    /\ \A b \in DiskBlocks \cap image.block_map : img.disk[b] = image.disk[b]

\* A write that runs out of blocks leaves the metadata on the image as it
\* was: sound, with the inodes of memory, and without the blocks it took.
Behind ==
    /\ Img!Sound /\ Img!TreeIsConnected
    /\ image.inode_map = inode_map /\ image.mode = mode
    /\ image.block_map \subseteq block_map
    /\ LeadsToNoOthers
    /\ \A d \in LiveDirs : image.direct0[d] = direct0[d]
    /\ LastOf(image, pending).disk = disk
    /\ \A k \in 1 .. Len(pending) : SameButFree(pending[k])

\* Memory is sound, every image a write leads to is in order where fsck.hw3
\* does not look and leads as before or after the call, and the last one
\* holds what memory holds or is sound by itself.
PInv ==
    /\ MemoryOK
    /\ pending \in Seq(Images)
    /\ ImageOK(image) /\ \A k \in 1 .. Len(pending) : ImageOK(pending[k])
    /\ UpToDate(LastOf(image, pending)) \/ Behind
    /\ LeadsOn(image) \in {before, Where}
    /\ \A k \in 1 .. Len(pending) : LeadsOn(pending[k]) \in {before, Where}
    /\ Idle => before = Where

\* It is kept for as long as Persist follows what happens.
InOrder == followed => PInv

LEMMA UpToDateIsOK ==
    ASSUME MemoryOK, NEW img \in Images, UpToDate(img)
    PROVE  ImageOK(img)
<1>1. RootOK(img) /\ PointersOK(img) /\ WithinDirect(img.direct0, img.rest)
  BY MemoryHasIt DEF UpToDate, RootOK, PointersOK, MemoryOK
<1>2. ASSUME NEW b \in DiskBlocks, NEW s \in Slots, img.disk[b][s].valid
      PROVE  EntryOK(img, b, img.disk[b][s])
  <2>1. PICK d \in LiveDirs : direct0[d] = b
    BY <1>2 DEF MemoryOK, EntriesInDirs, UpToDate
  <2>2. d \in inode_map \ {0} /\ S_ISDIR(mode[d])
    BY DEF LiveDirs, Live
  <2>3. /\ b # 0 /\ disk[b][s].inode \in Live
        /\ disk[b][s].isDir <=> S_ISDIR(mode[disk[b][s].inode])
    BY <1>2, MemoryHasIt DEF UpToDate
  <2>4. disk[b][s].inode \in Inodes \ {0}
    BY <2>3 DEF Live, MemoryOK, Sound, TypeOK
  <2> QED
    BY <2>1, <2>2, <2>3, <2>4 DEF EntryOK, UpToDate
<1>3. \A b \in DiskBlocks : NamesOnce(img.disk[b])
  BY MemoryHasIt DEF UpToDate
<1> QED
  BY <1>1, <1>2, <1>3 DEF ImageOK

LEMMA PInvStarts == PInit => PInv
<1> SUFFICES ASSUME PInit PROVE PInv
  OBVIOUS
<1>1. Init /\ Sound /\ TreeIsConnected
  BY InitConsistent, InitConnected DEF PInit, Consistent
<1>2. MemoryOK
  <2>1. EntriesInDirs
    BY <1>1 DEF Init, EntriesInDirs, DiskBlocks, SuperBlock, ZeroBlock, Zero, Stale, Unused
  <2>2. ROOT_INODE \in Inodes
    BY SizesAssumption DEF Inodes, ROOT_INODE
  <2>3. WithinDirect(direct0, rest)
    <3> SUFFICES ASSUME NEW i \in Inodes
                 PROVE  Cardinality(({direct0[i]} \ {0}) \cup rest[i]) <= N_DIRECT
      BY DEF WithinDirect
    <3>1. ({direct0[i]} \ {0}) \cup rest[i] = IF i = ROOT_INODE THEN {DataStart} ELSE {}
      BY <1>1, SizesAssumption DEF Init
    <3>2. Cardinality({DataStart}) = 1 /\ Cardinality({}) = 0
      BY FS_Singleton, FS_EmptySet
    <3> QED
      BY <3>1, <3>2, SizesAssumption
  <2> QED
    BY <1>1, <2>1, <2>2, <2>3 DEF MemoryOK, Init
<1>3. image = [inode_map |-> inode_map, block_map |-> block_map, mode |-> mode,
               direct0 |-> direct0, rest |-> rest, disk |-> disk]
  BY DEF PInit
<1>4. image \in Images /\ UpToDate(image)
  BY <1>1, <1>3 DEF Images, UpToDate, Sound, TypeOK
<1>5. pending = <<>> /\ before = Where
  BY DEF PInit
<1>6. LeadsOn(image) = Where
  BY <1>4 DEF LeadsOn, Where, UpToDate
<1>7. LastOf(image, pending) = image /\ pending \in Seq(Images) /\ 1 .. Len(pending) = {}
  BY <1>5 DEF LastOf
<1> QED
  BY <1>2, <1>4, <1>5, <1>6, <1>7, UpToDateIsOK DEF PInv

\* When no write is to come the image is sound, and its files and names are
\* those of memory.
LEMMA IdleImage ==
    ASSUME PInv, Idle
    PROVE  Img!Sound /\ Img!TreeIsConnected /\ Agree
<1>1. LastOf(image, pending) = image
  BY DEF Idle, LastOf
<1>2. CASE UpToDate(image)
  <2>1. Img!Sound /\ Img!TreeIsConnected
    BY <1>2, ImageAsMemory DEF PInv, MemoryOK
  <2>2. \A i \in FreeInodes : direct0[i] = 0
    BY DEF PInv, MemoryOK, Sound, FreeInodesAreClean, Held
  <2>3. LeadsToNoOthers
    BY <1>2 DEF LeadsToNoOthers, UpToDate
  <2> QED
    BY <1>2, <2>1, <2>2, <2>3 DEF Agree, UpToDate, PInv, ImageOK
<1>3. CASE Behind
  <2>1. \A i \in FreeInodes : image.direct0[i] = 0
    <3>1. Img!FreeInodesAreClean /\ Img!FreeInodes = FreeInodes
      BY <1>3, SameConstants DEF Behind, Img!Sound, Img!FreeInodes, FreeInodes
    <3> QED
      BY <3>1 DEF Img!FreeInodesAreClean, Img!Held
  <2> QED
    BY <1>1, <1>3, <2>1 DEF Behind, Agree, PInv, ImageOK
<1> QED
  BY <1>1, <1>2, <1>3 DEF PInv

\* fs_init on a sound image starts again from there.
LEMMA MountKeeps ==
    ASSUME PInv, fs_init, Img!Sound, Img!TreeIsConnected
    PROVE  PInv'
<1>1. /\ inode_map' = image.inode_map /\ block_map' = image.block_map
      /\ mode' = image.mode /\ direct0' = image.direct0 /\ rest' = image.rest
      /\ disk' = image.disk /\ lost' = {} /\ image' = image
      /\ pending' = <<>> /\ before' = WhereOnImage
  BY DEF fs_init
<1>2. ImageOK(image)
  BY DEF PInv
<1>3. EntriesInDirs'
  <2> SUFFICES ASSUME NEW b \in DiskBlocks, NEW s \in Slots, disk'[b][s].valid
               PROVE  \E d \in LiveDirs' : direct0'[d] = b
    BY DEF EntriesInDirs
  <2>1. EntryOK(image, b, image.disk[b][s])
    BY <1>1, <1>2 DEF ImageOK
  <2> QED
    BY <1>1, <2>1 DEF EntryOK, LiveDirs, Live
<1>4. MemoryOK'
  BY <1>1, <1>2, <1>3, MountedIsSound DEF MemoryOK, ImageOK, RootOK
<1>5. pending' \in Seq(Images) /\ 1 .. Len(pending') = {}
  BY <1>1
<1>6. UpToDate(LastOf(image, pending))'
  BY <1>1 DEF UpToDate, LastOf
<1>7. before' = Where' /\ LeadsOn(image)' = Where'
  BY <1>1 DEF WhereOnImage, Where, LeadsOn
<1> QED
  BY <1>1, <1>2, <1>4, <1>5, <1>6, <1>7 DEF PInv

\* A write reaches the image.
LEMMA FlushKeeps ==
    ASSUME ShortPaths, PInv, Flush
    PROVE  PInv'
<1>1. /\ pending \in Seq(Images) /\ pending # <<>>
      /\ image' = Head(pending) /\ pending' = Tail(pending)
      /\ before' = IF Tail(pending) = <<>> THEN Where ELSE before
      /\ UNCHANGED vars
  BY DEF Flush, Idle, PInv
<1>2. /\ Len(pending) \in Nat /\ Len(pending) > 0
      /\ pending' \in Seq(Images) /\ Len(pending') = Len(pending) - 1
      /\ image' = pending[1]
      /\ \A k \in 1 .. Len(pending') : pending'[k] = pending[k + 1]
  BY <1>1
<1>3. LastOf(image', pending') = LastOf(image, pending)
  <2>1. CASE Len(pending) = 1
    <3>1. pending' = <<>>
      BY <1>2, <2>1
    <3> QED
      BY <1>1, <1>2, <2>1, <3>1 DEF LastOf
  <2>2. CASE Len(pending) > 1
    <3>1. /\ pending' # <<>> /\ Len(pending') \in 1 .. Len(pending')
          /\ Len(pending') + 1 = Len(pending)
      BY <1>2, <2>2
    <3>2. pending'[Len(pending')] = pending[Len(pending)]
      BY <1>2, <3>1
    <3> QED
      BY <1>1, <3>1, <3>2 DEF LastOf
  <2> QED
    BY <1>2, <2>1, <2>2
<1>4. \A k \in 1 .. Len(pending') : k + 1 \in 1 .. Len(pending)
  BY <1>2
<1>5. 1 \in 1 .. Len(pending)
  BY <1>2
<1>6. MemoryOK'
  <2>1. unchanged /\ ret' \in Replies
    BY <1>1 DEF vars, unchanged, PInv, MemoryOK, Sound, TypeOK
  <2>2. Sound' /\ TreeIsConnected'
    BY <2>1, NothingChanges DEF PInv, MemoryOK, Keeps
  <2>3. EntriesInDirs'
    BY <2>1 DEF unchanged, EntriesInDirs, LiveDirs, Live, PInv, MemoryOK
  <2> QED
    BY <2>1, <2>2, <2>3 DEF unchanged, MemoryOK, PInv
<1>7. ImageOK(image') /\ \A k \in 1 .. Len(pending') : ImageOK(pending'[k])
  BY <1>2, <1>4, <1>5 DEF PInv
<1>8. UpToDate(LastOf(image, pending))' \/ Behind'
  <2>1. CASE UpToDate(LastOf(image, pending))
    BY <1>1, <1>3, <2>1 DEF UpToDate, vars
  <2>2. CASE Behind
    <3>1. SameButFree(pending[1]) /\ \A k \in 1 .. Len(pending') : SameButFree(pending[k + 1])
      BY <1>4, <1>5, <2>2 DEF Behind
    <3>2. /\ image.inode_map' = image.inode_map /\ image.block_map' = image.block_map
          /\ image.mode' = image.mode /\ image.direct0' = image.direct0
          /\ image.rest' = image.rest
          /\ \A b \in DiskBlocks \cap image.block_map : image.disk'[b] = image.disk[b]
      BY <1>2, <3>1 DEF SameButFree
    <3>3. Img!Sound' /\ Img!TreeIsConnected'
      <4>1. ret' \in Img!Replies
        BY <1>6, SameConstants DEF MemoryOK, Sound, TypeOK
      <4>2. image.disk' \in [{0} \cup Img!DataBlocks -> [Img!Slots -> Img!SlotValues]]
        BY <1>7, SameConstants DEF ImageOK, Images
      <4>3. \A b \in ({0} \cup Img!DataBlocks) \ Img!FreeBlocks : image.disk'[b] = image.disk[b]
        <5>1. \A b \in DiskBlocks : b \in Blocks
          BY SizesAssumption DEF DiskBlocks, Blocks, DataBlocks
        <5> QED
          BY <3>2, <5>1, SameConstants DEF Img!FreeBlocks, DiskBlocks
      <4>4. Img!Sound /\ Img!TreeIsConnected
        BY <2>2 DEF Behind
      <4> QED
        BY <3>2, <4>1, <4>2, <4>3, <4>4, Img!FreeContents, SizesAssumption, PathsAssumption
    <3>4. ASSUME NEW k \in 1 .. Len(pending') PROVE SameButFree(pending[k])'
      <4> DEFINE p == pending'[k]
      <4>1. SameButFree(p)
        BY <1>2, <3>1
      <4> HIDE DEF p
      <4>2. /\ p.inode_map = image'.inode_map /\ p.block_map = image'.block_map
            /\ p.mode = image'.mode /\ p.direct0 = image'.direct0
            /\ p.rest = image'.rest
        BY <3>2, <4>1 DEF SameButFree
      <4>3. \A b \in DiskBlocks \cap image'.block_map : p.disk[b] = image'.disk[b]
        BY <3>2, <4>1 DEF SameButFree
      <4> QED
        BY <4>2, <4>3 DEF SameButFree, p
    <3>5. /\ image'.inode_map = inode_map' /\ image'.mode = mode'
          /\ image'.block_map \subseteq block_map'
          /\ \A d \in LiveDirs' : image'.direct0[d] = direct0'[d]
          /\ LastOf(image', pending').disk = disk'
      BY <1>1, <1>3, <2>2, <3>2 DEF Behind, vars, LiveDirs, Live
    <3>6. LeadsToNoOthers'
      BY <1>1, <2>2, <3>2 DEF Behind, LeadsToNoOthers, vars
    <3> QED
      BY <3>3, <3>4, <3>5, <3>6 DEF Behind
  <2> QED
    BY <2>1, <2>2 DEF PInv
<1>9. Where' = Where
  BY <1>1 DEF Where, vars
<1>10. Idle' => LeadsOn(image)' = Where'
  <2>1. ASSUME Idle' PROVE LeadsOn(image') = Where'
    <3>1. pending' = <<>> /\ LastOf(image', pending') = image'
      BY <2>1 DEF Idle, LastOf
    <3>2. CASE UpToDate(LastOf(image, pending))'
      BY <3>1, <3>2 DEF UpToDate, LeadsOn, Where
    <3>3. CASE Behind'
      <4>1. SameNames' /\ Sound'
        BY <1>6, <3>1, <3>3 DEF Behind, SameNames, MemoryOK
      <4>2. (ShortPaths /\ Sound /\ SameNames => LeadsOn(image) = Where)'
        BY SameNamesLead, PTL
      <4> QED
        BY <4>1, <4>2 DEF ShortPaths
    <3> QED
      BY <1>8, <3>2, <3>3
  <2> QED
    BY <2>1
<1>11. /\ LeadsOn(image)' \in {before', Where'}
       /\ \A k \in 1 .. Len(pending') : LeadsOn(pending'[k]) \in {before', Where'}
       /\ Idle' => before' = Where'
  <2>1. CASE pending' = <<>>
    <3>1. LeadsOn(image)' = Where' /\ before' = Where'
      BY <1>1, <1>9, <1>10, <2>1 DEF Idle
    <3>2. 1 .. Len(pending') = {}
      BY <2>1
    <3> QED
      BY <3>1, <3>2
  <2>2. CASE pending' # <<>>
    <3>1. before' = before
      BY <1>1, <2>2
    <3>2. LeadsOn(image') \in {before, Where}
      BY <1>2, <1>5 DEF PInv
    <3> QED
      BY <1>2, <1>4, <1>9, <2>2, <3>1, <3>2 DEF PInv, Idle
  <2> QED
    BY <2>1, <2>2
<1> QED
  BY <1>2, <1>6, <1>7, <1>8, <1>11 DEF PInv

-----------------------------------------------------------------------------
(* A call. *)

\* A call that keeps memory sound and changes the entries of one directory
\* may write what it changes in any order and mixture.
LEMMA CallKeeps ==
    ASSUME ShortPaths, PInv, Idle, MemoryOK', NEW d, Frame(d),
           NEW w, AllMixed(w), Writes(w),
           UpToDate(LastOf(image, pending))' \/ Behind'
    PROVE  PInv'
<1>1. Agree /\ MemoryOK /\ ImageOK(image) /\ LeadsOn(image) = Where
  <2>1. Agree => SameNames
    BY DEF Agree, SameNames
  <2> QED
    BY <2>1, IdleImage, SameNamesLead DEF PInv, MemoryOK
<1>2. pending' = w /\ before' = Where /\ image' = image
  BY DEF Writes
<1>3. ASSUME NEW k \in 1 .. Len(w)
      PROVE  ImageOK(w[k]) /\ LeadsOn(w[k]) \in {Where, Where'}
  <2>1. Mixed(w[k])
    BY DEF AllMixed
  <2>2. ImageOK(w[k])
    BY <1>1, <2>1, MixedIsOK
  <2>3. direct0[d] \in DiskBlocks
    BY <1>1, DirHasBlock DEF Frame, MemoryOK, Sound, DiskBlocks
  <2>4. \/ w[k].disk[direct0[d]] = disk[direct0[d]]
        \/ w[k].disk[direct0[d]] = disk'[direct0[d]]
    BY <1>1, <2>1, <2>3 DEF Mixed, Agree
  <2> QED
    BY <1>1, <2>1, <2>2, <2>4, MixedBefore, MixedAfter
<1>4. pending' \in Seq(Images)
  BY <1>2 DEF AllMixed
<1>5. Idle' => Where = Where'
  <2> SUFFICES ASSUME Idle' PROVE Where = Where'
    OBVIOUS
  <2>1. LastOf(image', pending') = image'
    BY DEF Idle, LastOf
  <2>2. SameNames'
    BY <2>1 DEF SameNames, UpToDate, Behind
  <2>3. (ShortPaths /\ Sound /\ SameNames => LeadsOn(image) = Where)'
    BY SameNamesLead, PTL
  <2>4. LeadsOn(image') = Where'
    BY <2>2, <2>3 DEF ShortPaths, MemoryOK
  <2> QED
    BY <1>1, <1>2, <2>4
<1> QED
  BY <1>1, <1>2, <1>3, <1>4, <1>5 DEF PInv

\* A call that ends with update_disk leaves all of memory on the image, if
\* it writes every block it changes.
LEMMA FinishedCall ==
    ASSUME ShortPaths, PInv, Idle, MemoryOK', NEW d, Frame(d),
           NEW w, AllMixed(w), Writes(w), w # <<>>,
           NEW dsk, NEW S, AllWritten(w[Len(w)], dsk, S),
           DOMAIN dsk = DiskBlocks,
           \A b \in DiskBlocks \ S : dsk[b] = disk'[b]
    PROVE  PInv'
<1>1. pending' = w /\ image' = image
  BY DEF Writes
<1>2. LastOf(image', pending') = w[Len(w)]
  BY <1>1 DEF LastOf
<1>3. disk' \in [DiskBlocks -> [Slots -> SlotValues]]
  BY DEF MemoryOK, Sound, TypeOK, DiskBlocks
<1>4. Written(dsk, S) = disk'
  BY <1>3 DEF Written
<1>5. UpToDate(LastOf(image, pending))'
  BY <1>2, <1>4 DEF AllWritten, UpToDate
<1> QED
  BY <1>5, CallKeeps

\* Most calls: some blocks, then the metadata.
LEMMA SimpleCall ==
    ASSUME ShortPaths, PInv, Idle, MemoryOK', NEW d, Frame(d),
           NEW order \in Seq(DiskBlocks), Writes(Finish(image, order)),
           \A b \in DiskBlocks \ {order[j] : j \in 1 .. Len(order)} : disk'[b] = disk[b]
    PROVE  PInv'
<1>w. PICK w : w = Finish(image, order)
  OBVIOUS
<1>1. Agree /\ image \in Images
  BY IdleImage DEF Agree
<1>2. Mixed(image)
  BY <1>1 DEF Mixed
<1>3. TypeOK'
  BY DEF MemoryOK, Sound
<1>4. /\ AllMixed(w) /\ w # <<>>
      /\ AllWritten(LastOf(image, w), image.disk, {order[j] : j \in 1 .. Len(order)})
  BY <1>w, <1>2, <1>3, FinishWrites
<1>5. LastOf(image, w) = w[Len(w)]
  BY <1>4 DEF LastOf
<1>6. DOMAIN image.disk = DiskBlocks /\ image.disk = disk
  BY <1>1 DEF Agree, Images, DiskBlocks
<1> QED
  BY <1>w, <1>4, <1>5, <1>6, FinishedCall

-----------------------------------------------------------------------------
(* The calls, one by one. *)

\* The blocks of a file are finitely many.
LEMMA DataFinite ==
    ASSUME NEW S \in SUBSET DataBlocks
    PROVE  IsFiniteSet(S) /\ Cardinality(S) \in Nat
<1>1. IsFiniteSet(DataBlocks)
  BY SizesAssumption, FS_Interval DEF DataBlocks
<1>2. IsFiniteSet(S)
  BY <1>1, FS_Subset
<1> QED
  BY <1>2, FS_CardinalityType

\* What Directory keeps and the frame of a call keep memory in order.
LEMMA MemoryKept ==
    ASSUME MemoryOK, Keeps, NEW d, Frame(d), WithinDirect(direct0', rest')
    PROVE  MemoryOK'
<1>1. TypeOK /\ TypeOK' /\ EntriesInDirs /\ ROOT_INODE \in LiveDirs
  BY DEF MemoryOK, Keeps, Sound, EntriesMatchInodes, LiveDirs, Live, ROOT_INODE
<1>2. EntriesInDirs'
  BY <1>1, FrameOfEntries
<1>3. lost' = {} /\ direct0'[ROOT_INODE] = DataStart
  BY <1>1 DEF Frame, MemoryOK
<1> QED
  BY <1>2, <1>3 DEF MemoryOK, Keeps

\* The blocks of an inode, and fewer than those.
LEMMA FewerBlocks ==
    ASSUME TypeOK, WithinDirect(direct0, rest),
           \A i \in Inodes : direct0'[i] \in {0, direct0[i]} /\ rest'[i] \subseteq rest[i]
    PROVE  WithinDirect(direct0', rest')
<1> SUFFICES ASSUME NEW i \in Inodes
             PROVE  Cardinality(({direct0'[i]} \ {0}) \cup rest'[i]) <= N_DIRECT
  BY DEF WithinDirect
<1>a. PICK S : S = ({direct0[i]} \ {0}) \cup rest[i]
  OBVIOUS
<1>b. PICK T : T = ({direct0'[i]} \ {0}) \cup rest'[i]
  OBVIOUS
<1>1. T \subseteq S
  BY <1>a, <1>b
<1>2. IsFiniteSet(S) /\ Cardinality(S) \in Nat
  <2>1. S \subseteq DataBlocks
    BY <1>a DEF TypeOK
  <2> QED
    BY <2>1, DataFinite
<1>3. Cardinality(T) \in Nat /\ Cardinality(T) <= Cardinality(S)
  BY <1>1, <1>2, FS_Subset, FS_CardinalityType
<1>4. Cardinality(S) <= N_DIRECT
  BY <1>a DEF WithinDirect
<1> QED
  BY <1>2, <1>3, <1>4, <1>b, SizesAssumption

\* A call that makes and removes no inode and changes one directory's entries.
LEMMA FrameInPlace ==
    ASSUME MemoryOK, NEW d \in LiveDirs,
           inode_map' = inode_map, lost' = lost,
           \A i \in Live : S_ISDIR(mode'[i]) <=> S_ISDIR(mode[i]),
           \A e \in LiveDirs : direct0'[e] = direct0[e],
           \A b \in DiskBlocks \ {direct0[d]} : EqualEntries(disk[b], disk'[b])
    PROVE  Frame(d)
<1>1. Live' = Live /\ LiveDirs' = LiveDirs
  BY DEF Live, LiveDirs
<1>2. ROOT_INODE \in Live
  BY DEF MemoryOK, Sound, EntriesMatchInodes, Live, ROOT_INODE
<1> QED
  BY <1>1, <1>2 DEF Frame, LiveDirs

\* The root is a directory in use.
LEMMA RootIsDir ==
    ASSUME MemoryOK
    PROVE  ROOT_INODE \in LiveDirs
BY DEF MemoryOK, Sound, EntriesMatchInodes, LiveDirs, Live, ROOT_INODE

\* Entries are the same in a block that has none before or after.
LEMMA NoEntriesEqual ==
    ASSUME NEW blk, NEW blk1, NoEntry(blk), NoEntry(blk1)
    PROVE  EqualEntries(blk, blk1)
BY DEF NoEntry, EqualEntries

\* The blocks the program writes with no entry in them.
LEMMA PlainBlocks == NoEntry(FileBlock) /\ NoEntry(ZeroBlock)
BY DEF NoEntry, FileBlock, ZeroBlock, Bytes, Zero, Unused

\* A block of no directory in use has no entry.
LEMMA OtherBlocks ==
    ASSUME MemoryOK, NEW b \in DiskBlocks, \A e \in LiveDirs : direct0[e] # b
    PROVE  NoEntry(disk[b])
BY DEF MemoryOK, EntriesInDirs, NoEntry

\* A path in use is a sequence of names that translate reads to the end.
LEMMA PathTyped ==
    ASSUME ShortPaths, NEW p \in Paths
    PROVE  p \in Seq(RawNames) /\ p # <<>> /\ Len(p) <= MAX_PATH_LEN
BY PathsAssumption DEF ShortPaths

\* A set of data blocks in some order is a sequence of blocks.
LEMMA OrderTyped ==
    ASSUME NEW S \in SUBSET DataBlocks, NEW o \in Orders(S)
    PROVE  /\ o \in Seq(DiskBlocks)
           /\ {o[j] : j \in 1 .. Len(o)} = S
<1>2. Cardinality(S) \in Nat
  BY DataFinite
<1>3. o \in [1 .. Cardinality(S) -> S] /\ \A b \in S : \E k \in DOMAIN o : o[k] = b
  BY DEF Orders
<1>4. o \in Seq(S) /\ Len(o) = Cardinality(S)
  BY <1>2, <1>3, IsSequence
<1>5. o \in Seq(DiskBlocks)
  BY <1>4 DEF DiskBlocks
<1>6. {o[j] : j \in 1 .. Len(o)} = S
  BY <1>3, <1>4
<1> QED
  BY <1>5, <1>6

\* chmod and utime.
LEMMA ChmodCall ==
    ASSUME ShortPaths, PInv, Idle, NEW p \in Paths \cup {<<>>}, PChmod(p)
    PROVE  PInv'
<1>1. MemoryOK /\ Sound /\ TypeOK
  BY DEF PInv, MemoryOK, Sound
<1>2. p \in Seq(RawNames) /\ Len(p) <= MAX_PATH_LEN
  <2>1. CASE p = <<>>
    BY <2>1, PathsAssumption
  <2>2. CASE p \in Paths
    BY <2>2, PathTyped
  <2> QED
    BY <2>1, <2>2
<1>3. fs_chmod(p) \/ fs_utime(p)
  BY DEF PChmod
<1>4. Keeps
  BY <1>1, <1>2, <1>3, ReadKeeps, ChmodKeeps
<1>5. /\ UNCHANGED <<inode_map, direct0, rest, disk, lost>>
      /\ \A i \in Inodes : S_ISDIR(mode'[i]) <=> S_ISDIR(mode[i])
  <2>1. CASE unchanged
    BY <2>1 DEF unchanged
  <2>2. CASE ~unchanged
    <3>1. /\ resolve_error(p) = OK
          /\ \E m \in {{}, mode[Inum(p)]} :
                mode' = [mode EXCEPT ![Inum(p)] = chmod_type(Inum(p), m)]
          /\ UNCHANGED <<inode_map, block_map, direct0, rest, disk, lost>>
      BY <1>3, <2>2 DEF fs_chmod, fs_utime, fs_getattr, Fail
    <3>2. Inum(p) \in Inodes
      BY <1>1, <1>2, <3>1, ResolvesToLive DEF resolve_error, OK
    <3> QED
      BY <1>1, <3>1, <3>2, KindStays
  <2> QED
    BY <2>1, <2>2
<1>6. Frame(ROOT_INODE)
  <2>1. Live \subseteq Inodes
    BY <1>1 DEF TypeOK, Live
  <2> QED
    BY <1>1, <1>5, <2>1, RootIsDir, FrameInPlace DEF EqualEntries
<1>7. <<>> \in Seq(DiskBlocks) /\ Writes(Finish(image, <<>>))
  BY DEF PChmod
<1>8. MemoryOK'
  <2>1. WithinDirect(direct0', rest')
    BY <1>1, <1>5 DEF MemoryOK
  <2> QED
    BY <1>1, <1>4, <1>6, <2>1, MemoryKept
<1> QED
  BY <1>5, <1>6, <1>7, <1>8, SimpleCall

\* rename writes the one block both names are in.
LEMMA RenameCall ==
    ASSUME ShortPaths, PInv, Idle, NEW p \in Paths, NEW q \in Paths, PRename(p, q)
    PROVE  PInv'
<1>1. MemoryOK /\ Sound /\ TypeOK
  BY DEF PInv, MemoryOK, Sound
<1>2. /\ p \in Seq(RawNames) /\ p # <<>> /\ Len(p) <= MAX_PATH_LEN
      /\ q \in Seq(RawNames) /\ q # <<>> /\ Len(q) <= MAX_PATH_LEN
  BY PathTyped
<1>3. Keeps
  BY <1>1, <1>2, RenameKeeps DEF PRename
<1>d. PICK d : d = ParentInum(p)
  OBVIOUS
<1>4. /\ rename_error(p, q) = OK
      /\ disk' = [disk EXCEPT ![direct0[d]] = Renamed(@, Leaf(p), Leaf(q))]
      /\ UNCHANGED <<inode_map, block_map, mode, direct0, rest, lost>>
  BY <1>d DEF PRename, fs_rename, Fail, Returns, Reply
<1>5. d \in LiveDirs
  <2>1. Inum(p) > 0
    <3>1. ~(Inum(p) < 0)
      BY <1>4 DEF rename_error, OK, ENOENT
    <3> QED
      BY <1>1, <1>2, <3>1, ResolvesToLive
  <2> QED
    BY <1>1, <1>2, <1>d, <2>1, Found
<1>6. direct0[d] \in DataBlocks
  BY <1>1, <1>5, DirHasBlock DEF Sound
<1>7. \A b \in DiskBlocks \ {direct0[d]} : disk'[b] = disk[b]
  BY <1>1, <1>4 DEF TypeOK, DiskBlocks
<1>8. Frame(d)
  BY <1>1, <1>4, <1>5, <1>7, FrameInPlace DEF EqualEntries
<1>9. Writes(Finish(image, <<direct0[d]>>))
  BY <1>d DEF PRename, DirBlock
<1>10. <<direct0[d]>> \in Seq(DiskBlocks)
       /\ {<<direct0[d]>>[j] : j \in 1 .. Len(<<direct0[d]>>)} = {direct0[d]}
  BY <1>6 DEF DiskBlocks
<1>11. MemoryOK'
  <2>1. WithinDirect(direct0', rest')
    BY <1>1, <1>4 DEF MemoryOK
  <2> QED
    BY <1>1, <1>3, <1>8, <2>1, MemoryKept
<1> QED
  BY <1>7, <1>8, <1>9, <1>10, <1>11, SimpleCall

\* A write that runs out of blocks and stays within the direct pointers keeps
\* all it took.
LEMMA AllKept ==
    ASSUME MemoryOK, NEW i \in Inodes, NEW kept \in FirstFits,
           kept = FreeBlocks \/ Cardinality(Held(i) \cup kept) > N_DIRECT,
           Grow(i, FreeBlocks, kept), StaysDirect(i)
    PROVE  kept = FreeBlocks
<1>1. Sound /\ TypeOK
  BY DEF MemoryOK, Sound
<1>2. kept \subseteq FreeBlocks /\ FreeBlocks \subseteq DataBlocks /\ Held(i) \subseteq DataBlocks
  BY <1>1, FreeAreOthers, HeldTyped DEF FirstFits
<1> SUFFICES ASSUME FreeBlocks # {} PROVE kept = FreeBlocks
  BY <1>2
<1>3. PICK first : first = IF direct0[i] = 0 /\ FreeBlocks # {} THEN FirstOf(FreeBlocks)
                           ELSE direct0[i]
  OBVIOUS
<1>4. first \in DataBlocks
  <2>1. FirstOf(FreeBlocks) \in FreeBlocks
    <3>1. FreeBlocks \in SUBSET Nat
      BY <1>2, SizesAssumption DEF DataBlocks
    <3> QED
      BY <3>1, FirstOfLeast
  <2> QED
    BY <1>1, <1>2, <1>3, <2>1 DEF TypeOK
<1>5. direct0'[i] = first /\ rest'[i] = rest[i] \cup (kept \ {first})
  BY <1>1, <1>3 DEF Grow, TypeOK
<1>6. PICK S : S = ({direct0'[i]} \ {0}) \cup rest'[i]
  OBVIOUS
<1>7. \A b \in DataBlocks : b # 0
  BY SizesAssumption DEF DataBlocks
<1>8. PICK T : T = Held(i) \cup kept
  OBVIOUS
<1>9. T \subseteq S /\ S \subseteq DataBlocks
  <2>1. S = {first} \cup rest[i] \cup kept
    BY <1>4, <1>5, <1>6, <1>7
  <2>2. T = ({direct0[i]} \ {0}) \cup rest[i] \cup kept
    BY <1>8 DEF Held
  <2>3. direct0[i] = 0 \/ direct0[i] = first
    BY <1>3
  <2>4. rest[i] \subseteq DataBlocks
    BY <1>1 DEF TypeOK
  <2> QED
    BY <1>2, <1>4, <2>1, <2>2, <2>3, <2>4
<1>10. Cardinality(S) \in Nat /\ Cardinality(T) \in Nat /\ Cardinality(T) <= Cardinality(S)
  <2>1. IsFiniteSet(S) /\ Cardinality(S) \in Nat
    BY <1>9, DataFinite
  <2>2. T \in SUBSET DataBlocks
    BY <1>9
  <2>3. Cardinality(T) \in Nat
    BY <2>2, DataFinite
  <2> QED
    BY <1>9, <2>1, <2>3, FS_Subset
<1>11. Cardinality(S) <= N_DIRECT
  BY <1>6 DEF StaysDirect
<1>12. ~(Cardinality(T) > N_DIRECT)
  BY <1>10, <1>11, SizesAssumption
<1> QED
  BY <1>8, <1>12

\* A write takes free blocks, fills them and, when the file stays within its
\* direct pointers, loses none.
LEMMA WriteChanges ==
    ASSUME MemoryOK, NEW p \in Seq(RawNames), Len(p) <= MAX_PATH_LEN, fs_write(p),
           StaysDirect(Inum(p))
    PROVE  /\ Keeps
           /\ UNCHANGED <<inode_map, mode, lost>>
           /\ \A e \in LiveDirs : direct0'[e] = direct0[e]
           /\ block_map \subseteq block_map'
           /\ \A b \in block_map' \ block_map : b \in FreeBlocks /\ disk'[b] = FileBlock
           /\ \A b \in DiskBlocks \ (block_map' \ block_map) : disk'[b] = disk[b]
           /\ \A i \in Inodes : direct0[i] \in {0, direct0'[i]} /\ rest[i] \subseteq rest'[i]
           /\ WithinDirect(direct0', rest')
<1>1. Sound /\ TypeOK
  BY DEF MemoryOK, Sound
<1>2. CASE unchanged
  BY <1>1, <1>2, WriteKeeps DEF unchanged, MemoryOK
<1>3. ASSUME file_error(p) = OK,
             NEW S \in FirstFits, NEW kept \in FirstFits, Grow(Inum(p), S, kept),
             S \subseteq kept
      PROVE  /\ UNCHANGED <<inode_map, mode, lost>>
             /\ \A e \in LiveDirs : direct0'[e] = direct0[e]
             /\ block_map \subseteq block_map'
             /\ \A b \in block_map' \ block_map : b \in FreeBlocks /\ disk'[b] = FileBlock
             /\ \A b \in DiskBlocks \ (block_map' \ block_map) : disk'[b] = disk[b]
             /\ \A i \in Inodes : direct0[i] \in {0, direct0'[i]} /\ rest[i] \subseteq rest'[i]
             /\ WithinDirect(direct0', rest')
  <2>1. Inum(p) \notin LiveDirs
    BY <1>1, <1>3, ResolvesToLive DEF file_error, OK, EISDIR, LiveDirs
  <2>2. S \subseteq FreeBlocks /\ S \subseteq DataBlocks /\ block_map' \ block_map = S
    BY <1>1, <1>3, FreeAreOthers DEF FirstFits, FreeBlocks, Grow
  <2>3. \A b \in DiskBlocks : disk'[b] = IF b \in S THEN FileBlock ELSE disk[b]
    BY <1>1, <1>3 DEF Grow, TypeOK, DiskBlocks
  <2>4. \A e \in LiveDirs : direct0'[e] = direct0[e]
    BY <1>1, <1>3, <2>1 DEF Grow, TypeOK, LiveDirs, Live
  <2>5. UNCHANGED <<inode_map, mode, lost>> /\ block_map \subseteq block_map'
    BY <1>3 DEF Grow
  <2>6. \A i \in Inodes \ {Inum(p)} : direct0'[i] = direct0[i] /\ rest'[i] = rest[i]
    BY <1>1, <1>3 DEF Grow, TypeOK
  <2>7. \A i \in Inodes : direct0[i] \in {0, direct0'[i]} /\ rest[i] \subseteq rest'[i]
    BY <1>1, <1>3 DEF Grow, TypeOK
  <2>8. WithinDirect(direct0', rest')
    BY <2>6 DEF WithinDirect, StaysDirect, MemoryOK
  <2> QED
    BY <2>2, <2>3, <2>4, <2>5, <2>7, <2>8 DEF DiskBlocks
<1>4. CASE ~unchanged
  <2>1. file_error(p) = OK
    BY <1>4 DEF fs_write, Fail
  <2>2. CASE \E S \in FirstFits : Grow(Inum(p), S, S)
    BY <1>1, <1>3, <2>1, <2>2, WriteKeeps
  <2>3. CASE \E kept \in FirstFits :
                /\ \/ kept = FreeBlocks
                   \/ Cardinality(Held(Inum(p)) \cup kept) > N_DIRECT
                /\ Grow(Inum(p), FreeBlocks, kept)
    <3>1. PICK kept \in FirstFits :
                /\ \/ kept = FreeBlocks
                   \/ Cardinality(Held(Inum(p)) \cup kept) > N_DIRECT
                /\ Grow(Inum(p), FreeBlocks, kept)
      BY <2>3
    <3>2. kept = FreeBlocks
      <4>1. Inum(p) \in Inodes
        BY <1>1, <2>1, ResolvesToLive DEF file_error, OK
      <4> QED
        BY <3>1, <4>1, AllKept
    <3> QED
      BY <1>1, <1>3, <2>1, <3>1, <3>2, WriteKeeps
  <2> QED
    BY <1>4, <2>2, <2>3 DEF fs_write, Fail
<1> QED
  BY <1>2, <1>4

\* A write changes no directory.
LEMMA WriteFrame ==
    ASSUME MemoryOK, NEW p \in Seq(RawNames), Len(p) <= MAX_PATH_LEN, fs_write(p),
           StaysDirect(Inum(p))
    PROVE  /\ Frame(ROOT_INODE) /\ MemoryOK'
           /\ block_map' \ block_map \in SUBSET DataBlocks
<1>1. Sound /\ TypeOK
  BY DEF MemoryOK, Sound
<1>2. /\ Keeps
      /\ UNCHANGED <<inode_map, mode, lost>>
      /\ \A e \in LiveDirs : direct0'[e] = direct0[e]
      /\ \A b \in block_map' \ block_map : b \in FreeBlocks /\ disk'[b] = FileBlock
      /\ \A b \in DiskBlocks \ (block_map' \ block_map) : disk'[b] = disk[b]
      /\ WithinDirect(direct0', rest')
  BY WriteChanges
<1>3. ASSUME NEW b \in DiskBlocks PROVE EqualEntries(disk[b], disk'[b])
  <2>1. CASE b \in block_map' \ block_map
    <3>1. b \in FreeBlocks /\ disk'[b] = FileBlock
      BY <1>2, <2>1
    <3>2. ASSUME NEW e \in LiveDirs PROVE direct0[e] # b
      <4>1. direct0[e] \in Held(e) /\ e \in Live
        BY <1>1, DirHasBlock, LiveIsPositive DEF Held, Sound
      <4> QED
        BY <1>1, <3>1, <4>1, FreeAreOthers
    <3>3. NoEntry(disk[b])
      BY <3>2, OtherBlocks
    <3> QED
      BY <3>1, <3>3, PlainBlocks, NoEntriesEqual
  <2>2. CASE b \notin block_map' \ block_map
    BY <1>2, <2>2 DEF EqualEntries
  <2> QED
    BY <2>1, <2>2
<1>4. Frame(ROOT_INODE)
  BY <1>2, <1>3, RootIsDir, FrameInPlace
<1> QED
  BY <1>1, <1>2, <1>4, MemoryKept, FreeAreOthers

\* A write that runs out of blocks leaves the metadata on the image behind.
LEMMA FallsBehind ==
    ASSUME ShortPaths, PInv, Idle, NEW p \in Paths, fs_write(p),
           StaysDirect(Inum(p)),
           NEW o \in Orders(block_map' \ block_map), Writes(block_write(image, o))
    PROVE  PInv'
<1>1. MemoryOK /\ Sound /\ TypeOK
  BY DEF PInv, MemoryOK, Sound
<1>2. p \in Seq(RawNames) /\ Len(p) <= MAX_PATH_LEN
  BY PathTyped
<1>3. /\ Keeps
      /\ UNCHANGED <<inode_map, mode, lost>>
      /\ \A e \in LiveDirs : direct0'[e] = direct0[e]
      /\ block_map \subseteq block_map'
      /\ \A b \in block_map' \ block_map : b \in FreeBlocks
      /\ \A b \in DiskBlocks \ (block_map' \ block_map) : disk'[b] = disk[b]
      /\ \A i \in Inodes : direct0[i] \in {0, direct0'[i]} /\ rest[i] \subseteq rest'[i]
  BY <1>1, <1>2, WriteChanges
<1>4. Frame(ROOT_INODE) /\ MemoryOK' /\ block_map' \ block_map \in SUBSET DataBlocks
  BY <1>1, <1>2, WriteFrame
<1>5. o \in Seq(DiskBlocks) /\ {o[j] : j \in 1 .. Len(o)} = block_map' \ block_map
  BY <1>4, OrderTyped
<1>6. Agree /\ Img!Sound /\ Img!TreeIsConnected /\ Mixed(image)
  BY IdleImage DEF Agree, Mixed
<1>7. TypeOK' /\ disk' \in [DiskBlocks -> [Slots -> SlotValues]]
  BY <1>4 DEF MemoryOK, Sound, TypeOK, DiskBlocks
<1>w. PICK w : w = block_write(image, o)
  OBVIOUS
<1>8. /\ AllMixed(w) /\ Len(w) = Len(o)
      /\ \A k \in 1 .. Len(o) : \E S : w[k] = [image EXCEPT !.disk = Written(@, S)]
      /\ LastOf(image, w) = [image EXCEPT !.disk = Written(@, block_map' \ block_map)]
  <2>1. Mixed(image) /\ TypeOK' /\ o \in Seq(DiskBlocks)
    BY <1>5, <1>6, <1>7
  <2>2. /\ AllMixed(block_write(image, o))
        /\ Len(block_write(image, o)) = Len(o)
        /\ \A k \in 1 .. Len(o) : \E S :
              block_write(image, o)[k] = [image EXCEPT !.disk = Written(@, S)]
        /\ LastOf(image, block_write(image, o)) =
              [image EXCEPT !.disk = Written(@, {o[j] : j \in 1 .. Len(o)})]
    BY <2>1, BlocksWritten
  <2> QED
    BY <1>5, <1>w, <2>2
<1>9. pending' = w /\ image' = image
  BY <1>w DEF Writes
<1>10. image.disk \in [DiskBlocks -> [Slots -> SlotValues]] /\ image.disk = disk
  BY <1>6 DEF Agree, Images, DiskBlocks
<1>11. Img!Sound' /\ Img!TreeIsConnected'
  <2>1. ret' \in Img!Replies
    BY <1>7, SameConstants DEF TypeOK
  <2>2. Img!unchanged
    BY <1>9 DEF Img!unchanged
  <2>3. Img!Keeps
    BY <1>6, <2>1, <2>2, Img!NothingChanges, SizesAssumption, PathsAssumption
  <2> QED
    BY <1>6, <2>3 DEF Img!Keeps
<1>12. LastOf(image', pending').disk = disk'
  <2>1. LastOf(image, w).disk = Written(image.disk, block_map' \ block_map)
    BY <1>6, <1>8 DEF Agree, Images
  <2>2. Written(image.disk, block_map' \ block_map) = disk'
    BY <1>3, <1>7, <1>10 DEF Written
  <2> QED
    BY <1>9, <2>1, <2>2
<1>13. ASSUME NEW k \in 1 .. Len(pending') PROVE SameButFree(pending[k])'
  <2>1. PICK S : w[k] = [image EXCEPT !.disk = Written(@, S)]
    BY <1>8, <1>9
  <2>2. /\ w[k].inode_map = image.inode_map /\ w[k].block_map = image.block_map
        /\ w[k].mode = image.mode /\ w[k].direct0 = image.direct0
        /\ w[k].rest = image.rest /\ w[k].disk = Written(image.disk, S)
    BY <1>6, <2>1 DEF Agree, Images
  <2>3. \A b \in DiskBlocks \cap image.block_map : disk'[b] = image.disk[b]
    BY <1>3, <1>6, <1>10 DEF Agree
  <2>4. \A b \in DiskBlocks \cap image.block_map : w[k].disk[b] = image.disk[b]
    BY <1>10, <2>2, <2>3 DEF Written
  <2> QED
    BY <1>9, <2>2, <2>4 DEF SameButFree
<1>14. Behind'
  <2>1. image.inode_map = inode_map' /\ image.mode = mode'
        /\ image.block_map \subseteq block_map'
    BY <1>3, <1>6 DEF Agree
  <2>2. \A d \in LiveDirs' : image.direct0[d] = direct0'[d]
    BY <1>3, <1>6 DEF Agree, LiveDirs, Live
  <2>3. LeadsToNoOthers'
    <3> SUFFICES ASSUME NEW i \in Inodes
                 PROVE  /\ image.direct0[i] \in {0, direct0'[i]}
                        /\ image.rest[i] \subseteq rest'[i]
      BY <1>9 DEF LeadsToNoOthers
    <3>1. image.direct0[i] \in {0, direct0[i]} /\ image.rest[i] \subseteq rest[i]
      BY <1>6 DEF Agree, LeadsToNoOthers
    <3> QED
      BY <1>3, <3>1
  <2> QED
    BY <1>9, <1>11, <1>12, <1>13, <2>1, <2>2, <2>3 DEF Behind
<1>15. Writes(w)
  BY <1>w
<1> QED
  BY <1>4, <1>8, <1>14, <1>15, CallKeeps

LEMMA WriteCall ==
    ASSUME ShortPaths, PInv, Idle, NEW p \in Paths, PWrite(p), StaysDirect(Inum(p))
    PROVE  PInv'
<1>1. MemoryOK /\ fs_write(p)
  BY DEF PInv, PWrite
<1>2. PICK o \in FirstFitOrder(block_map' \ block_map) :
         Writes(IF Returns(OK) THEN Finish(image, o) ELSE block_write(image, o))
  BY DEF PWrite
<1>3. o \in Orders(block_map' \ block_map)
  BY DEF FirstFitOrder
<1>4. CASE Writes(block_write(image, o))
  BY <1>1, <1>3, <1>4, FallsBehind
<1>5. CASE Writes(Finish(image, o))
  <2>1. p \in Seq(RawNames) /\ Len(p) <= MAX_PATH_LEN
    BY PathTyped
  <2>2. \A b \in DiskBlocks \ (block_map' \ block_map) : disk'[b] = disk[b]
    BY <1>1, <2>1, WriteChanges
  <2>3. Frame(ROOT_INODE) /\ MemoryOK' /\ block_map' \ block_map \in SUBSET DataBlocks
    BY <1>1, <2>1, WriteFrame
  <2>4. o \in Seq(DiskBlocks) /\ {o[j] : j \in 1 .. Len(o)} = block_map' \ block_map
    BY <1>3, <2>3, OrderTyped
  <2> QED
    BY <1>5, <2>2, <2>3, <2>4, SimpleCall
<1> QED
  BY <1>2, <1>4, <1>5

\* truncate leaves nothing behind in a file of direct pointers.
LEMMA NoneSkipped ==
    ASSUME TypeOK, WithinDirect(direct0, rest), NEW i \in Inodes, NEW left \in Skipped(i)
    PROVE  left = {}
<1>1. Held(i) \in SUBSET DataBlocks
  BY HeldTyped
<1>2. Cardinality(Held(i)) \in Nat /\ Cardinality(Held(i)) <= N_DIRECT
  BY <1>1, DataFinite DEF WithinDirect, Held
<1>3. Cardinality(Held(i)) <= OneLevelTwo
  BY <1>2, SizesAssumption DEF OneLevelTwo
<1> QED
  BY <1>3 DEF Skipped

LEMMA TruncateCall ==
    ASSUME ShortPaths, PInv, Idle, NEW p \in Paths, PTruncate(p)
    PROVE  PInv'
<1>1. MemoryOK /\ Sound /\ TypeOK
  BY DEF PInv, MemoryOK, Sound
<1>2. p \in Seq(RawNames) /\ Len(p) <= MAX_PATH_LEN
  BY PathTyped
<1>3. Keeps
  BY <1>1, <1>2, TruncateKeeps DEF PTruncate
<1>i. PICK i : i = Inum(p)
  OBVIOUS
<1>4. /\ file_error(p) = OK
      /\ \E left \in Skipped(i) : /\ disk' = Zeroed(disk, Held(i) \ left)
                                  /\ lost' = lost \cup left
      /\ direct0' = direct0_cleared(i) /\ rest' = rest_cleared(i)
      /\ UNCHANGED <<inode_map, mode>>
  <2>1. ~Fail("truncate", <<p>>, EINVAL) /\ ~Fail("truncate", <<p>>, file_error(p))
    BY DEF PTruncate, Returns, Fail, Reply
  <2> QED
    BY <1>i, <2>1 DEF PTruncate, fs_truncate
<1>5. i \in Live /\ i \in Inodes /\ ~S_ISDIR(mode[i])
  BY <1>1, <1>2, <1>4, <1>i, ResolvesToLive DEF file_error, OK, EISDIR
<1>6. disk' = Zeroed(disk, Held(i)) /\ lost' = lost /\ Held(i) \in SUBSET DataBlocks
  <2>1. \A left \in Skipped(i) : left = {}
    BY <1>1, <1>5, NoneSkipped DEF MemoryOK
  <2>2. PICK left \in Skipped(i) : /\ disk' = Zeroed(disk, Held(i) \ left)
                                   /\ lost' = lost \cup left
    BY <1>4
  <2>3. left = {} /\ Held(i) \ left = Held(i)
    BY <2>1, <2>2
  <2> QED
    BY <1>1, <1>5, <2>2, <2>3, HeldTyped
<1>7. \A b \in DiskBlocks : disk'[b] = IF b \in Held(i) THEN ZeroBlock ELSE disk[b]
  BY <1>1, <1>6, ZeroedDisk DEF DiskBlocks
<1>8. \A e \in LiveDirs : direct0'[e] = direct0[e] /\ e # i
  BY <1>1, <1>4, <1>5, LiveIsPositive DEF direct0_cleared, TypeOK, LiveDirs
<1>9. ASSUME NEW b \in DiskBlocks PROVE EqualEntries(disk[b], disk'[b])
  <2>1. CASE b \in Held(i)
    <3>1. \A e \in LiveDirs : direct0[e] # b
      BY <1>1, <1>5, <1>8, <2>1, DirBlocksDiffer
    <3>2. NoEntry(disk[b])
      BY <1>1, <3>1, OtherBlocks
    <3> QED
      BY <1>7, <2>1, <3>2, PlainBlocks, NoEntriesEqual
  <2>2. CASE b \notin Held(i)
    BY <1>7, <2>2 DEF EqualEntries
  <2> QED
    BY <2>1, <2>2
<1>10. Frame(ROOT_INODE)
  BY <1>1, <1>4, <1>6, <1>8, <1>9, RootIsDir, FrameInPlace
<1>11. MemoryOK'
  <2>1. \A j \in Inodes : direct0'[j] \in {0, direct0[j]} /\ rest'[j] \subseteq rest[j]
    BY <1>1, <1>4 DEF direct0_cleared, rest_cleared, TypeOK
  <2>2. WithinDirect(direct0', rest')
    BY <1>1, <2>1, FewerBlocks DEF MemoryOK
  <2> QED
    BY <1>1, <1>3, <1>10, <2>2, MemoryKept
<1>12. PICK o \in Order(i) : Writes(Finish(image, o))
  BY <1>i DEF PTruncate
<1>13. o \in Seq(DiskBlocks) /\ {o[j] : j \in 1 .. Len(o)} = Held(i)
  <2>1. o \in Orders(Held(i))
    BY DEF Order
  <2> QED
    BY <1>6, <2>1, OrderTyped
<1>14. \A b \in DiskBlocks \ {o[j] : j \in 1 .. Len(o)} : disk'[b] = disk[b]
  BY <1>7, <1>13
<1> QED
  BY <1>10, <1>11, <1>12, <1>13, <1>14, SimpleCall

\* unlink and rmdir: the blocks of the inode and then the parent's change.
LEMMA RemovedFrame ==
    ASSUME MemoryOK,
           NEW p \in Seq(RawNames), p # <<>>, Len(p) <= MAX_PATH_LEN,
           NEW i \in Live, NEW S, NEW d0, NEW dsk, NEW blk,
           Target(p, i, {}, S, d0, dsk, blk),
           Removal(p, i, {}, S, d0, dsk, blk)
    PROVE  /\ Frame(ParentInum(p)) /\ MemoryOK'
           /\ DirBlock(p) \in DataBlocks /\ S = Held(i) /\ S \in SUBSET DataBlocks
           /\ \A b \in DiskBlocks \ (S \cup {DirBlock(p)}) : disk'[b] = disk[b]
<1>1. Sound /\ TypeOK /\ i \in Inodes /\ LiveDirs \subseteq Live
  BY LiveIsPositive DEF MemoryOK, Sound
<1>2. Keeps
  BY <1>1, RemovedKeeps
<1>3. S = Held(i) /\ S \in SUBSET DataBlocks
  BY <1>1, HeldTyped DEF Target
<1>e. PICK d \in LiveDirs \ {i}, s \in Slots : EntryOf(p, i, dsk, blk, d, s)
  BY <1>1, TheEntry
<1>4. /\ d = ParentInum(p) /\ blk = direct0[d]
      /\ <<d, s>> \in Places /\ EntryAt(<<d, s>>).inode = i
      /\ dsk[direct0[d]] = disk[direct0[d]]
      /\ ClearedInodes(disk[direct0[d]], Leaf(p)) = {i}
  BY <1>e DEF EntryOf
<1>5. inode_map' = inode_map \ {i} /\ mode' = mode /\ lost' = lost /\ direct0' = d0
      /\ disk' = [dsk EXCEPT ![direct0[d]] = Invalidated(@, Leaf(p))]
  BY <1>4 DEF Removal
<1>6. Live' = Live \ {i} /\ LiveDirs' = LiveDirs \ {i}
  BY <1>5 DEF Live, LiveDirs
<1>7. ROOT_INODE \in Live' /\ i # ROOT_INODE
  BY <1>1, <1>4, <1>6 DEF Sound, EntriesMatchInodes, Live, ROOT_INODE
<1>8. /\ direct0[d] \in DataBlocks /\ direct0[d] \notin S
      /\ \A e \in LiveDirs \ {i} : direct0'[e] = direct0[e]
  <2>1. direct0[d] \in DataBlocks /\ direct0[d] \notin S
    BY <1>1, <1>3, DirHasBlock, DirBlocksDiffer DEF Sound
  <2>2. \A e \in Inodes \ {i} : direct0'[e] = direct0[e]
    BY <1>1, <1>5 DEF Target, direct0_cleared, TypeOK
  <2> QED
    BY <1>1, <2>1, <2>2, LiveIsPositive
<1>9. ASSUME NEW b \in DiskBlocks \ {direct0[d]}
      PROVE  disk'[b] = IF b \in S THEN ZeroBlock ELSE disk[b]
  <2>1. dsk = Zeroed(disk, S)
    BY DEF Target
  <2>2. dsk[b] = IF b \in S THEN ZeroBlock ELSE disk[b]
    BY <1>1, <1>3, <2>1, ZeroedDisk DEF DiskBlocks
  <2> QED
    BY <1>5, <2>2
<1>10. \A b \in DiskBlocks \ (S \cup {direct0[d]}) : disk'[b] = disk[b]
  BY <1>9
<1>11. S_ISDIR(mode[i]) => NoEntry(disk[direct0[i]])
  BY EmptyListing DEF Target, NoEntry
<1>12. ASSUME NEW b \in S PROVE NoEntry(disk[b])
  <2>0. b \in DiskBlocks
    BY <1>3 DEF DiskBlocks
  <2>1. CASE S_ISDIR(mode[i])
    <3>1. i \in LiveDirs
      BY <2>1 DEF LiveDirs
    <3>2. b = direct0[i]
      BY <1>1, <1>3, <3>1, DirHasBlock DEF Held, Sound
    <3> QED
      BY <1>11, <2>1, <3>2
  <2>2. CASE ~S_ISDIR(mode[i])
    <3>1. ASSUME NEW e \in LiveDirs PROVE direct0[e] # b
      <4>1. e # i
        BY <2>2 DEF LiveDirs
      <4> QED
        BY <1>1, <1>3, <4>1, DirBlocksDiffer
    <3> QED
      BY <2>0, <3>1, OtherBlocks
  <2> QED
    BY <2>1, <2>2
<1>13. ASSUME NEW b \in DiskBlocks \ {direct0[d]} PROVE EqualEntries(disk[b], disk'[b])
  <2>1. CASE b \in S
    BY <1>9, <1>12, <2>1, PlainBlocks, NoEntriesEqual
  <2>2. CASE b \notin S
    BY <1>9, <2>2 DEF EqualEntries
  <2> QED
    BY <2>1, <2>2
<1>14. Frame(d)
  <2>1. \A e \in LiveDirs : IF e \in Live' THEN direct0'[e] = direct0[e]
                            ELSE NoEntry(disk[direct0[e]])
    BY <1>1, <1>6, <1>8, <1>11 DEF LiveDirs
  <2>2. LiveDirs' \ Live = {}
    BY <1>1, <1>6
  <2> QED
    BY <1>5, <1>6, <1>7, <1>13, <2>1, <2>2 DEF Frame
<1>15. MemoryOK'
  <2>1. rest' = rest_cleared(i) /\ d0 = direct0_cleared(i)
    BY DEF Removal, Target
  <2>2. \A j \in Inodes : direct0'[j] \in {0, direct0[j]} /\ rest'[j] \subseteq rest[j]
    BY <1>1, <1>5, <2>1 DEF direct0_cleared, rest_cleared, TypeOK
  <2>3. WithinDirect(direct0', rest')
    BY <1>1, <2>2, FewerBlocks DEF MemoryOK
  <2> QED
    BY <1>2, <1>14, <2>3, MemoryKept
<1> QED
  BY <1>3, <1>4, <1>8, <1>10, <1>14, <1>15 DEF DirBlock

LEMMA RmdirCall ==
    ASSUME ShortPaths, PInv, Idle, NEW p \in Paths, PRmdir(p)
    PROVE  PInv'
<1>1. MemoryOK /\ Sound /\ TypeOK
  BY DEF PInv, MemoryOK, Sound
<1>2. p \in Seq(RawNames) /\ p # <<>> /\ Len(p) <= MAX_PATH_LEN
  BY PathTyped
<1>3. PICK i, d0, dsk, blk :
         /\ i \in Live /\ i = Inum(p)
         /\ Target(p, i, {}, {direct0[i]}, d0, dsk, blk)
         /\ Removal(p, i, {}, {direct0[i]}, d0, dsk, blk)
  BY <1>1, <1>2, RmdirTarget DEF PRmdir, Returns
<1>4. /\ Frame(ParentInum(p)) /\ MemoryOK'
      /\ DirBlock(p) \in DataBlocks /\ direct0[i] \in DataBlocks
      /\ \A b \in DiskBlocks \ ({direct0[i]} \cup {DirBlock(p)}) : disk'[b] = disk[b]
  BY <1>1, <1>2, <1>3, RemovedFrame
<1>o. PICK o : o = <<direct0[i], DirBlock(p)>>
  OBVIOUS
<1>5. o \in Seq(DiskBlocks) /\ Len(o) = 2 /\ o[1] = direct0[i] /\ o[2] = DirBlock(p)
  BY <1>4, <1>o DEF DiskBlocks
<1>6. {o[j] : j \in 1 .. Len(o)} = {direct0[i]} \cup {DirBlock(p)}
  BY <1>5
<1>7. Writes(Finish(image, o))
  BY <1>3, <1>o DEF PRmdir
<1> QED
  BY <1>4, <1>5, <1>6, <1>7, SimpleCall

\* truncate and its update_disk, then the directory's block and update_disk.
LEMMA TwoPhases ==
    ASSUME TypeOK', Mixed(image), image.inode_map = inode_map, inode_map \subseteq Inodes,
           NEW o \in Seq(DiskBlocks), NEW b \in DiskBlocks
    PROVE  LET zero == block_write(image, o)
               truncated == zero \o update_disk(LastOf(image, zero), inode_map)
               w == truncated \o Finish(LastOf(image, truncated), <<b>>)
           IN /\ AllMixed(w) /\ w # <<>>
              /\ AllWritten(w[Len(w)], Written(image.disk, {o[j] : j \in 1 .. Len(o)}), {b})
<1>z. PICK zero : zero = block_write(image, o)
  OBVIOUS
<1>1. AllMixed(zero) /\ Mixed(LastOf(image, zero))
      /\ LastOf(image, zero) = [image EXCEPT !.disk = Written(@, {o[j] : j \in 1 .. Len(o)})]
  BY <1>z, BlocksWritten, LastIsMixed
<1>2. LastOf(image, zero).disk = Written(image.disk, {o[j] : j \in 1 .. Len(o)})
  BY <1>1 DEF Mixed, Images
<1>l. PICK last : last = LastOf(image, zero)
  OBVIOUS
<1>u. PICK u : u = update_disk(last, inode_map)
  OBVIOUS
<1>3. AllMixed(u) /\ u # <<>> /\ u[Len(u)].disk = last.disk
  <2>1. Mixed(last) /\ inode_map \in {image.inode_map, inode_map'}
    BY <1>1, <1>l
  <2>2. /\ AllMixed(u) /\ u # <<>>
        /\ u[Len(u)] = [inode_map |-> inode_map, block_map |-> block_map',
                        mode |-> mode', direct0 |-> direct0',
                        rest |-> rest', disk |-> last.disk]
    BY <2>1, <1>u, MetadataWritten
  <2> QED
    BY <2>2
<1>t. PICK truncated : truncated = zero \o u
  OBVIOUS
<1>4. AllMixed(truncated) /\ LastOf(image, truncated) = u[Len(u)]
  BY <1>1, <1>3, <1>t, OneAfterAnother
<1>5. Mixed(LastOf(image, truncated))
  BY <1>4, LastIsMixed
<1>f. PICK fin : fin = Finish(LastOf(image, truncated), <<b>>)
  OBVIOUS
<1>6. <<b>> \in Seq(DiskBlocks) /\ {<<b>>[j] : j \in 1 .. Len(<<b>>)} = {b}
  OBVIOUS
<1>7. /\ AllMixed(fin) /\ fin # <<>>
      /\ AllWritten(LastOf(image, fin), LastOf(image, truncated).disk, {b})
  BY <1>5, <1>6, <1>f, FinishWrites
<1>8. AllMixed(truncated \o fin) /\ LastOf(image, truncated \o fin) = fin[Len(fin)]
  BY <1>4, <1>7, OneAfterAnother
<1>9. truncated \o fin # <<>> /\ LastOf(image, fin) = fin[Len(fin)]
  BY <1>4, <1>7 DEF AllMixed, LastOf
<1>10. (truncated \o fin)[Len(truncated \o fin)] = LastOf(image, fin)
  BY <1>8, <1>9 DEF LastOf
<1>11. LastOf(image, truncated).disk = Written(image.disk, {o[j] : j \in 1 .. Len(o)})
  BY <1>2, <1>3, <1>4, <1>l
<1> QED
  BY <1>7, <1>8, <1>9, <1>10, <1>11, <1>z, <1>l, <1>u, <1>t, <1>f

LEMMA UnlinkCall ==
    ASSUME ShortPaths, PInv, Idle, NEW p \in Paths, PUnlink(p)
    PROVE  PInv'
<1>1. MemoryOK /\ Sound /\ TypeOK
  BY DEF PInv, MemoryOK, Sound
<1>2. p \in Seq(RawNames) /\ p # <<>> /\ Len(p) <= MAX_PATH_LEN
  BY PathTyped
<1>3. PICK i, left, d0, dsk, blk :
         /\ i \in Live /\ i = Inum(p) /\ left \in Skipped(i)
         /\ Target(p, i, left, Held(i) \ left, d0, dsk, blk)
         /\ Removal(p, i, left, Held(i) \ left, d0, dsk, blk)
  BY <1>1, <1>2, UnlinkTarget DEF PUnlink, Returns
<1>4. left = {} /\ Held(i) \ left = Held(i)
  <2>1. i \in Inodes
    BY <1>1, <1>3, LiveIsPositive
  <2> QED
    BY <1>1, <1>3, <2>1, NoneSkipped DEF MemoryOK
<1>5. /\ Frame(ParentInum(p)) /\ MemoryOK'
      /\ DirBlock(p) \in DataBlocks /\ Held(i) \in SUBSET DataBlocks
      /\ \A b \in DiskBlocks \ (Held(i) \cup {DirBlock(p)}) : disk'[b] = disk[b]
  BY <1>1, <1>2, <1>3, <1>4, RemovedFrame
<1>6. PICK o \in Order(i) :
         LET zero == block_write(image, o)
             truncated == zero \o update_disk(LastOf(image, zero), inode_map)
         IN Writes(truncated \o Finish(LastOf(image, truncated), <<DirBlock(p)>>))
  BY <1>3 DEF PUnlink
<1>7. o \in Seq(DiskBlocks) /\ {o[j] : j \in 1 .. Len(o)} = Held(i)
  <2>1. o \in Orders(Held(i))
    BY DEF Order
  <2> QED
    BY <1>5, <2>1, OrderTyped
<1>8. /\ Agree /\ Mixed(image) /\ image.inode_map = inode_map /\ inode_map \subseteq Inodes
      /\ image.disk = disk /\ DOMAIN disk = DiskBlocks
  BY <1>1, IdleImage DEF Agree, Mixed, TypeOK, DiskBlocks
<1>9. TypeOK' /\ DirBlock(p) \in DiskBlocks
  BY <1>5 DEF MemoryOK, Sound, DiskBlocks
<1>w. PICK w : /\ AllMixed(w) /\ w # <<>> /\ Writes(w)
               /\ AllWritten(w[Len(w)], Written(image.disk, {o[j] : j \in 1 .. Len(o)}),
                             {DirBlock(p)})
  BY <1>6, <1>7, <1>8, <1>9, TwoPhases
<1>10. AllWritten(w[Len(w)], Written(disk, Held(i)), {DirBlock(p)})
  BY <1>7, <1>8, <1>w
<1>11. /\ DOMAIN Written(disk, Held(i)) = DiskBlocks
       /\ \A b \in DiskBlocks \ {DirBlock(p)} : Written(disk, Held(i))[b] = disk'[b]
  BY <1>5, <1>8 DEF Written
<1> QED
  BY <1>5, <1>w, <1>10, <1>11, FinishedCall

\* A new inode changes its parent; a new directory has no entry.
LEMMA CreatedFrame ==
    ASSUME MemoryOK, NEW d \in LiveDirs, NEW slot \in Slots,
           NEW i \in FreeInodes, NEW b \in FreeBlocks,
           NEW isDir \in BOOLEAN, NEW type, NEW v,
           isDir => disk[b] = ZeroBlock,
           type = IF isDir THEN IFDIR ELSE IFREG,
           Creation(d, slot, i, b, v, type, isDir)
    PROVE  /\ Frame(d)
           /\ direct0[d] \in DataBlocks
           /\ \A c \in DiskBlocks \ {direct0[d]} : disk'[c] = disk[c]
           /\ WithinDirect(direct0', rest')
<1>1. /\ Sound /\ TypeOK /\ LiveDirs \subseteq Live /\ Live \subseteq Inodes
      /\ i \in Inodes \ inode_map /\ i # 0 /\ i \notin Live
      /\ ROOT_INODE \in Live
  BY LiveIsPositive, RootIsDir DEF MemoryOK, Sound, EntriesMatchInodes, FreeInodes, Live
<1>2. Live' = Live \cup {i} /\ lost' = lost
  BY <1>1 DEF Creation, Live
<1>3. direct0[d] \in DataBlocks /\ direct0[d] # b
  <2>1. direct0[d] \in Held(d) /\ direct0[d] \in DataBlocks
    BY <1>1, DirHasBlock DEF Held, Sound
  <2> QED
    BY <1>1, <2>1, FreeAreOthers
<1>4. \A c \in DiskBlocks \ {direct0[d]} : disk'[c] = disk[c]
  BY <1>1 DEF Creation, TypeOK, DiskBlocks
<1>5. /\ \A j \in Live : mode'[j] = mode[j] /\ direct0'[j] = direct0[j]
      /\ mode'[i] = {type}
      /\ isDir => direct0'[i] = b
  BY <1>1 DEF Creation, TypeOK
<1>6. ASSUME NEW e \in LiveDirs' \ Live PROVE NoEntry(disk'[direct0'[e]])
  <2>1. e = i /\ S_ISDIR({type})
    BY <1>2, <1>5, <1>6 DEF LiveDirs
  <2>2. isDir
    BY <2>1 DEF S_ISDIR, IFDIR, IFREG
  <2>3. b \in DiskBlocks
    BY <1>1, FreeAreOthers DEF DiskBlocks
  <2>4. disk'[direct0'[e]] = ZeroBlock
    BY <1>3, <1>4, <1>5, <2>1, <2>2, <2>3
  <2> QED
    BY <2>4, PlainBlocks
<1>7. LiveDirs \subseteq LiveDirs'
  BY <1>2, <1>5 DEF LiveDirs
<1>8. Frame(d)
  BY <1>1, <1>2, <1>4, <1>5, <1>6, <1>7 DEF Frame, EqualEntries
<1>9. ASSUME NEW j \in Inodes
      PROVE  Cardinality(({direct0'[j]} \ {0}) \cup rest'[j]) <= N_DIRECT
  <2>1. Held(i) = {} /\ rest' = rest
    BY <1>1 DEF Sound, FreeInodesAreClean, Creation
  <2>2. CASE j = i
    <3>1. PICK S : S = ({direct0'[j]} \ {0}) \cup rest'[j]
      OBVIOUS
    <3>2. direct0[i] = 0 /\ rest[i] = {}
      BY <2>1 DEF Held
    <3>3. direct0'[i] = IF isDir THEN b ELSE 0
      BY <1>1, <3>2 DEF Creation, TypeOK
    <3>4. S = {} \/ S = {b}
      BY <2>1, <2>2, <3>1, <3>2, <3>3
    <3>5. Cardinality({}) = 0 /\ Cardinality({b}) = 1
      BY FS_EmptySet, FS_Singleton
    <3> QED
      BY <3>1, <3>4, <3>5, SizesAssumption
  <2>3. CASE j # i
    <3>1. direct0'[j] = direct0[j] /\ rest'[j] = rest[j]
      BY <1>1, <2>1, <2>3 DEF Creation, TypeOK
    <3> QED
      BY <3>1 DEF MemoryOK, WithinDirect
  <2> QED
    BY <2>2, <2>3
<1> QED
  BY <1>3, <1>4, <1>8, <1>9 DEF WithinDirect

\* create and mkdir write the parent's block only.
LEMMA CreateCall ==
    ASSUME ShortPaths, PInv, Idle, NEW p \in Paths,
           NEW call \in Calls, NEW isDir \in BOOLEAN, NEW type,
           type = IF isDir THEN IFDIR ELSE IFREG,
           isDir => \A b \in FreeBlocks : b = get_next_block => disk[b] = ZeroBlock,
           create(call, p, type, isDir), Returns(OK),
           Writes(Finish(image, <<DirBlock(p)>>))
    PROVE  PInv'
<1>1. MemoryOK /\ Sound /\ TypeOK
  BY DEF PInv, MemoryOK, Sound
<1>2. p \in Seq(RawNames) /\ p # <<>> /\ Len(p) <= MAX_PATH_LEN
  BY PathTyped
<1>3. Keeps
  BY <1>1, <1>2, CreateKeeps
<1>4. PICK d, slot, i, b, v :
         /\ d = ParentInum(p) /\ d \in LiveDirs
         /\ slot \in Slots /\ ~disk[direct0[d]][slot].valid
         /\ i \in FreeInodes /\ b \in FreeBlocks /\ b = get_next_block
         /\ v = Entry(Leaf(p), i, isDir)
         /\ Matches(disk[direct0[d]], Leaf(p)) = {}
         /\ Creation(d, slot, i, b, v, type, isDir)
  BY <1>1, <1>2, Created DEF Returns
<1>5. isDir => disk[b] = ZeroBlock
  BY <1>4
<1>6. /\ Frame(d) /\ direct0[d] \in DataBlocks
      /\ \A c \in DiskBlocks \ {direct0[d]} : disk'[c] = disk[c]
      /\ WithinDirect(direct0', rest')
  BY <1>1, <1>4, <1>5, CreatedFrame
<1>7. Writes(Finish(image, <<direct0[d]>>))
  BY <1>4 DEF DirBlock
<1>8. <<direct0[d]>> \in Seq(DiskBlocks)
      /\ {<<direct0[d]>>[j] : j \in 1 .. Len(<<direct0[d]>>)} = {direct0[d]}
  BY <1>6 DEF DiskBlocks
<1> QED
  BY <1>1, <1>3, <1>6, <1>7, <1>8, MemoryKept, SimpleCall

\* Every call keeps the invariant, or leads beyond what is followed.
LEMMA CallKeepsPInv ==
    ASSUME ShortPaths, PInv, Call
    PROVE  InOrder'
<1> USE DEF InOrder
<1>1. Idle
  BY DEF Call
<1>2. ASSUME NEW p \in Paths, PCreate(p) PROVE InOrder'
  <2>1. create("create", p, IFREG, FALSE) /\ Returns(OK)
        /\ Writes(Finish(image, <<DirBlock(p)>>))
    BY <1>2 DEF PCreate, fs_create
  <2>2. "create" \in Calls
    BY DEF Calls
  <2> QED
    BY <1>1, <2>1, <2>2, CreateCall
<1>3. ASSUME NEW p \in Paths, PMkdir(p) PROVE InOrder'
  <2>1. CASE disk[get_next_block] = ZeroBlock
    <3>1. /\ create("mkdir", p, IFDIR, TRUE) /\ Returns(OK)
          /\ Writes(Finish(image, <<DirBlock(p)>>))
          /\ \A b \in FreeBlocks : b = get_next_block => disk[b] = ZeroBlock
      BY <1>3, <2>1 DEF PMkdir, fs_mkdir
    <3>2. "mkdir" \in Calls
      BY DEF Calls
    <3> QED
      BY <1>1, <3>1, <3>2, CreateCall
  <2>2. CASE disk[get_next_block] # ZeroBlock
    BY <1>3, <2>2 DEF PMkdir, Beyond
  <2> QED
    BY <2>1, <2>2
<1>4. ASSUME NEW p \in Paths, PWrite(p) PROVE InOrder'
  <2>1. CASE StaysDirect(Inum(p))
    BY <1>1, <1>4, <2>1, WriteCall
  <2>2. CASE ~StaysDirect(Inum(p))
    BY <1>4, <2>2 DEF PWrite, Beyond
  <2> QED
    BY <2>1, <2>2
<1> QED
  BY <1>1, <1>2, <1>3, <1>4, ChmodCall, TruncateCall, UnlinkCall, RmdirCall,
     RenameCall DEF Call

\* So does every step.
LEMMA PStepKeeps ==
    ASSUME ShortPaths, InOrder, [PNext]_pvars
    PROVE  InOrder'
<1> SUFFICES ASSUME followed' PROVE PInv'
  BY DEF InOrder
<1>0. CASE ~followed
  BY <1>0 DEF PNext, Call, Flush, Remount, CrashAndMount, Stopped, pvars
<1> SUFFICES ASSUME followed PROVE PInv'
  BY <1>0
<1>i. PInv
  BY DEF InOrder
<1>1. CASE Call
  BY <1>i, <1>1, CallKeepsPInv DEF InOrder
<1>2. CASE Flush
  BY <1>i, <1>2, FlushKeeps
<1>3. CASE Remount
  BY <1>i, <1>3, IdleImage, MountKeeps DEF Remount
<1>4. CASE CrashAndMount
  <2>1. fs_init /\ Image!DiskFormatOK /\ Unchecked
    BY <1>4 DEF CrashAndMount
  <2>2. ImageOK(image) /\ TypeOK
    BY <1>i DEF PInv, MemoryOK, Sound
  <2>3. Img!DiskFormatOK /\ Img!FreeInodesAreClean /\ Img!KindsAgree
    BY <2>1, CheckedImage DEF Unchecked
  <2>4. Img!Sound /\ Img!TreeIsConnected
    BY <2>2, <2>3, AcceptedImage
  <2> QED
    BY <1>i, <2>1, <2>4, MountKeeps
<1>s. CASE Stopped
  BY <1>s DEF Stopped
<1>5. CASE UNCHANGED pvars
  <2>0. /\ UNCHANGED <<inode_map, block_map, mode, direct0, rest, disk, lost, ret>>
        /\ UNCHANGED <<image, pending, before>>
    BY <1>5 DEF pvars, vars
  <2>1. MemoryOK /\ ret \in Replies /\ ret \in Img!Replies
    BY <1>i, SameConstants DEF PInv, MemoryOK, Sound, TypeOK
  <2>2. MemoryOK'
    <3>1. Keeps
      BY <2>0, <2>1, NothingChanges DEF unchanged, MemoryOK
    <3>2. EntriesInDirs'
      BY <2>0, <2>1 DEF EntriesInDirs, LiveDirs, Live, MemoryOK
    <3> QED
      BY <2>0, <2>1, <3>1, <3>2 DEF MemoryOK, Keeps
  <2>3. ASSUME Img!Sound, Img!TreeIsConnected PROVE Img!Sound' /\ Img!TreeIsConnected'
    <3>1. Img!unchanged
      BY <2>0 DEF Img!unchanged
    <3>2. Img!Keeps
      BY <2>0, <2>1, <2>3, <3>1, Img!NothingChanges, SizesAssumption, PathsAssumption
    <3> QED
      BY <2>3, <3>2 DEF Img!Keeps
  <2>4. Where' = Where
    BY <2>0 DEF Where
  <2>5. UpToDate(LastOf(image, pending)) => UpToDate(LastOf(image, pending))'
    BY <2>0 DEF UpToDate
  <2>6. Behind => Behind'
    BY <2>0, <2>3 DEF Behind, SameButFree, LeadsToNoOthers, LiveDirs, Live
  <2> QED
    BY <1>i, <2>0, <2>2, <2>4, <2>5, <2>6 DEF PInv, Idle
<1> QED
  BY <1>1, <1>2, <1>3, <1>4, <1>5, <1>s DEF PNext

-----------------------------------------------------------------------------
(* Theorems.  Each speaks of what Persist follows: of files within their    *)
(* direct pointers, directories made of blank blocks, and images of crashes *)
(* that fsck.hw3 accepts and that Unchecked holds of.                       *)

\* After every call, write, mount and crash that is followed memory is sound,
\* and every image that the writes to come lead to is in order where fsck.hw3
\* does not look and leads as before or after the call.
THEOREM ImageStaysInOrder ==
    ASSUME ShortPaths
    PROVE  PSpec => []InOrder
<1>1. PInit => InOrder
  BY PInvStarts DEF InOrder
<1>2. InOrder /\ [PNext]_pvars => InOrder'
  BY PStepKeeps
<1> QED
  BY <1>1, <1>2, PTL DEF PSpec

\* Between two calls fsck.hw3 accepts the image, also when a write within
\* the direct pointers has just run out of blocks.
THEOREM FsckAlwaysAccepts ==
    ASSUME ShortPaths
    PROVE  PSpec => []FsckAccepts
<1>1. InOrder => FsckAccepts
  <2> SUFFICES ASSUME PInv, Idle PROVE Image!DiskFormatOK
    BY DEF FsckAccepts, InOrder
  <2>1. Img!Sound /\ Img!TreeIsConnected
    BY IdleImage
  <2>2. Img!DiskFormatOK
    BY <2>1, Img!FsckAcceptsSound, SizesAssumption, PathsAssumption
  <2> QED
    BY <2>2, CheckedImage
<1> QED
  BY <1>1, ImageStaysInOrder, PTL

\* Wherever the program dies, every path leads on the image to where it led
\* before the call or to where the call takes it, and all of them alike.
THEOREM CrashAlwaysKeepsNames ==
    ASSUME ShortPaths
    PROVE  PSpec => []CrashKeepsNames
<1>1. InOrder => CrashKeepsNames
  BY DEF InOrder, PInv, CrashKeepsNames, WhereOnImage, LeadsOn
<1> QED
  BY <1>1, ImageStaysInOrder, PTL

\* What a crash leaves is as fsck.hw3 says if it accepts it, although the
\* checker goes by isDir bits and does not test the root's own bits.  Nothing
\* is assumed here of the image but that fsck.hw3 accepts it.
THEOREM FsckIsAlwaysSound ==
    ASSUME ShortPaths
    PROVE  PSpec => []FsckIsSound
<1>1. InOrder => FsckIsSound
  <2> SUFFICES ASSUME PInv, Image!DiskFormatOK
               PROVE  Image!EntriesMatchInodes /\ Image!BlocksMatchOwners
    BY DEF FsckIsSound, InOrder
  <2>1. ImageOK(image) /\ TypeOK /\ Img!DiskFormatOK
    BY CheckedImage DEF PInv, MemoryOK, Sound
  <2> QED
    BY <2>1, AcceptedImage, CheckedImage
<1> QED
  BY <1>1, ImageStaysInOrder, PTL

\* Entries, inodes and the bitmap agree in memory through remounts of an
\* image that a failed write left behind, and through crashes whose image
\* fsck.hw3 accepts, has no pointers in free inodes and has the modes its
\* entries tell.  Without these last two the code does not ensure it.
THEOREM MemorySurvivesCrashes ==
    ASSUME ShortPaths
    PROVE  PSpec => []SurvivesCrashes
<1>1. InOrder => SurvivesCrashes
  BY DEF InOrder, PInv, MemoryOK, Sound, SurvivesCrashes
<1> QED
  BY <1>1, ImageStaysInOrder, PTL

\* When only the root is left all of the space is free again, if no file
\* ever needed more than its direct pointers: then no write, failed or not,
\* no remount, and no crash whose image was in order leaves a block marked.
THEOREM SpaceAlwaysComesBack ==
    ASSUME ShortPaths
    PROVE  PSpec => []SpaceComesBack
<1>1. InOrder => SpaceComesBack
  <2> SUFFICES ASSUME PInv, Live = {ROOT_INODE}
               PROVE  f_bfree = num_blocks - DataStart - 1
    BY DEF SpaceComesBack, InOrder
  <2>1. /\ Sound /\ TypeOK /\ lost = {} /\ direct0[ROOT_INODE] = DataStart
        /\ ROOT_INODE \in LiveDirs
    BY RootIsDir DEF PInv, MemoryOK, Sound
  <2>2. Held(ROOT_INODE) = {DataStart}
    BY <2>1, DirHasBlock, SizesAssumption DEF Held, Sound
  <2>3. \A b : b \in block_map <=> b \in 0 .. DataStart - 1 \/ b = DataStart
    BY <2>1, <2>2, MapOfOwners DEF Sound
  <2>4. FreeBlocks = DataStart + 1 .. num_blocks - 1
    BY <2>3, SizesAssumption DEF FreeBlocks, Blocks
  <2>5. Cardinality(DataStart + 1 .. num_blocks - 1) = num_blocks - DataStart - 1
    <3>1. DataStart + 1 \in Int /\ num_blocks - 1 \in Int
      BY SizesAssumption
    <3>2. Cardinality(DataStart + 1 .. num_blocks - 1)
            = IF DataStart + 1 > num_blocks - 1 THEN 0
              ELSE (num_blocks - 1) - (DataStart + 1) + 1
      BY <3>1, FS_Interval
    <3> QED
      BY <3>2, SizesAssumption
  <2> QED
    BY <2>4, <2>5 DEF f_bfree
<1> QED
  BY <1>1, ImageStaysInOrder, PTL

\* A remount finds the inodes, types and blocks of memory, no block marked
\* that was not, and no inode that leads to a block it did not lead to.
THEOREM RemountAlwaysKeepsState ==
    ASSUME ShortPaths
    PROVE  PSpec => RemountKeepsState
<1>1. InOrder /\ [PNext]_pvars =>
         [Remount => /\ inode_map' = inode_map /\ mode' = mode /\ disk' = disk
                     /\ block_map' \subseteq block_map
                     /\ \A i \in Inodes : /\ direct0'[i] \in {0, direct0[i]}
                                          /\ rest'[i] \subseteq rest[i]]_pvars
  <2> SUFFICES ASSUME InOrder, Remount
               PROVE  /\ inode_map' = inode_map /\ mode' = mode /\ disk' = disk
                      /\ block_map' \subseteq block_map
                      /\ \A i \in Inodes : /\ direct0'[i] \in {0, direct0[i]}
                                           /\ rest'[i] \subseteq rest[i]
    OBVIOUS
  <2>1. Agree
    BY IdleImage DEF Remount, InOrder
  <2> QED
    BY <2>1 DEF Agree, LeadsToNoOthers, Remount, fs_init
<1> QED
  BY <1>1, ImageStaysInOrder, PTL DEF PSpec, RemountKeepsState
=============================================================================
