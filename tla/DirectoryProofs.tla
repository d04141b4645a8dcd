--------------------------- MODULE DirectoryProofs ---------------------------
(***************************************************************************)
(* Proofs about Directory, for every number of inodes, blocks and slots,   *)
(* every set of names and every set of paths that translate reads to the   *)
(* end (ShortPaths).  The last part is about Fsck, which looks at the same *)
(* state: it finds nothing wrong with a sound image that has lost no       *)
(* block, and one it finds nothing wrong with is sound in all it looks at. *)
(***************************************************************************)
EXTENDS Fsck, Loops

\* FirstOf picks the least element: the bit or slot a scan stops at.
LEMMA FirstOfLeast ==
    ASSUME NEW S \in SUBSET Nat, S # {}
    PROVE  FirstOf(S) \in S /\ \A t \in S : FirstOf(S) <= t
BY Minimum DEF FirstOf

-----------------------------------------------------------------------------
(* The loop of translate. *)

\* Walk is the function its definition describes.
IsWalk(w, md, d0, dsk, names, n) ==
    w = [k \in 0 .. n |->
            IF k = 0 THEN ROOT_INODE ELSE Step(md, d0, dsk, w[k - 1], names[k])]

\* There is such a function for every path, by induction on its length.
LEMMA WalkExists ==
    ASSUME NEW md, NEW d0, NEW dsk, NEW names, NEW n \in Nat
    PROVE  \E w : IsWalk(w, md, d0, dsk, names, n)
<1> DEFINE S == {m \in Nat : \E w : IsWalk(w, md, d0, dsk, names, m)}
<1>1. 0 \in S
  <2>1. IsWalk([k \in 0 .. 0 |-> ROOT_INODE], md, d0, dsk, names, 0)
    BY DEF IsWalk
  <2> QED
    BY <2>1
<1>2. ASSUME NEW m \in Nat, m \in S PROVE m + 1 \in S
  <2>1. PICK w : IsWalk(w, md, d0, dsk, names, m)
    BY <1>2
  <2> DEFINE v == [k \in 0 .. m + 1 |->
                     IF k = 0 THEN ROOT_INODE ELSE Step(md, d0, dsk, w[k - 1], names[k])]
  <2>2. \A k \in 0 .. m : v[k] = w[k]
    BY <2>1 DEF IsWalk
  <2>3. ASSUME NEW k \in 0 .. m + 1, k # 0
        PROVE  v[k] = Step(md, d0, dsk, v[k - 1], names[k])
    <3>1. k - 1 \in 0 .. m
      BY <2>3
    <3>2. v[k - 1] = w[k - 1]
      BY <3>1, <2>2
    <3> QED
      BY <3>2, <2>3
  <2>4. v[0] = ROOT_INODE
    OBVIOUS
  <2>5. IsWalk(v, md, d0, dsk, names, m + 1)
    BY <2>3, <2>4 DEF IsWalk
  <2> QED
    BY <2>5
<1> HIDE DEF S
<1>3. \A k \in 0 .. n : k \in S
  BY <1>1, <1>2, UpTo
<1>4. n \in S
  BY <1>3
<1> QED
  BY <1>4 DEF S

\* The loop of translate, turn by turn.
LEMMA WalkEquation ==
    ASSUME NEW md, NEW d0, NEW dsk, NEW names, Len(names) \in Nat
    PROVE  LET w == Walk(md, d0, dsk, names)
           IN /\ w[0] = ROOT_INODE
              /\ \A k \in 1 .. Len(names) :
                    w[k] = Step(md, d0, dsk, w[k - 1], names[k])
<1> DEFINE n == Len(names)
           f == Walk(md, d0, dsk, names)
<1>1. IsWalk(f, md, d0, dsk, names, n)
  <2>1. \E w : IsWalk(w, md, d0, dsk, names, n)
    BY WalkExists
  <2> QED
    BY <2>1 DEF Walk, IsWalk
<1> HIDE DEF f
<1>2. f[0] = ROOT_INODE
  BY <1>1 DEF IsWalk
<1>3. \A k \in 1 .. n : f[k] = Step(md, d0, dsk, f[k - 1], names[k])
  BY <1>1 DEF IsWalk
<1> QED
  BY <1>2, <1>3 DEF f

\* A short path is parsed whole, name by name.
LEMMA ParseLength ==
    ASSUME NEW p \in Seq(RawNames), Len(p) <= MAX_PATH_LEN
    PROVE  /\ parse(p) = [k \in 1 .. Len(p) |-> Cut[p[k]]]
           /\ parse(p) \in Seq(RawNames)
           /\ Len(parse(p)) = Len(p)
<1>1. parse(p) = [k \in 1 .. Len(p) |-> Cut[p[k]]]
  BY PathsAssumption DEF parse, Shorter
<1>2. \A k \in 1 .. Len(p) : Cut[p[k]] \in RawNames
  BY PathsAssumption
<1> QED
  BY <1>1, <1>2

\* The mount point resolves to the root.
LEMMA TranslateRoot ==
    ASSUME NEW md, NEW d0, NEW dsk
    PROVE  translate(md, d0, dsk, <<>>) = ROOT_INODE
<1>1. <<>> \in Seq(RawNames) /\ Len(<<>>) = 0 /\ 0 <= MAX_PATH_LEN
  BY PathsAssumption
<1>2. Len(parse(<<>>)) = 0
  BY <1>1, ParseLength
<1> QED
  BY <1>2, WalkEquation DEF translate

\* What split_path returns as the parent is a path again.
LEMMA ParentSeq ==
    ASSUME NEW p \in Seq(RawNames), p # <<>>
    PROVE  /\ Parent(p) \in Seq(RawNames)
           /\ Len(Parent(p)) = Len(p) - 1
           /\ Len(p) - 1 \in Nat
           /\ \A k \in 1 .. Len(p) - 1 : Parent(p)[k] = p[k]
BY DEF Parent

\* A path resolves by looking its last name up in what its parent resolves to.
LEMMA TranslateStep ==
    ASSUME NEW md, NEW d0, NEW dsk,
           NEW p \in Seq(RawNames), p # <<>>, Len(p) <= MAX_PATH_LEN
    PROVE  translate(md, d0, dsk, p)
               = Step(md, d0, dsk, translate(md, d0, dsk, Parent(p)), Leaf(p))
<1> DEFINE n == Len(p)
           q == Parent(p)
           w == Walk(md, d0, dsk, parse(p))
           v == Walk(md, d0, dsk, parse(q))
<1>1. n \in Nat /\ n > 0 /\ q \in Seq(RawNames) /\ Len(q) = n - 1
  BY ParentSeq
<1>2. Len(parse(p)) = n /\ Len(parse(q)) = n - 1
  <2>1. Len(q) <= MAX_PATH_LEN
    BY <1>1, PathsAssumption
  <2> QED
    BY <2>1, <1>1, ParseLength
<1>3. \A k \in 1 .. n - 1 : parse(q)[k] = parse(p)[k]
  <2>1. parse(p) = [k \in 1 .. n |-> Cut[p[k]]]
    BY ParseLength
  <2>2. parse(q) = [k \in 1 .. n - 1 |-> Cut[q[k]]]
    BY <1>1, ParseLength, PathsAssumption
  <2>3. \A k \in 1 .. n - 1 : q[k] = p[k]
    BY ParentSeq
  <2> QED
    BY <2>1, <2>2, <2>3
<1>4. parse(p)[n] = Leaf(p)
  BY <1>1, ParseLength DEF Leaf
<1>5. /\ w[0] = ROOT_INODE
      /\ \A k \in 1 .. n : w[k] = Step(md, d0, dsk, w[k - 1], parse(p)[k])
  BY <1>1, <1>2, WalkEquation
<1>6. /\ v[0] = ROOT_INODE
      /\ \A k \in 1 .. n - 1 : v[k] = Step(md, d0, dsk, v[k - 1], parse(q)[k])
  BY <1>1, <1>2, WalkEquation
<1> HIDE DEF w, v, n, q
<1>7. \A k \in 0 .. n - 1 : k \in {j \in 0 .. n - 1 : w[j] = v[j]}
  <2> DEFINE S == {j \in 0 .. n - 1 : w[j] = v[j]}
  <2>1. 0 \in S
    BY <1>1, <1>5, <1>6
  <2>2. ASSUME NEW k \in 0 .. n - 1, k \in S, k < n - 1 PROVE k + 1 \in S
    <3>1. k + 1 \in 1 .. n - 1 /\ k + 1 \in 1 .. n /\ (k + 1) - 1 = k
      BY <1>1, <2>2
    <3>2. w[k] = v[k] /\ parse(q)[k + 1] = parse(p)[k + 1]
      BY <2>2, <3>1, <1>3
    <3>3. w[k + 1] = Step(md, d0, dsk, w[k], parse(p)[k + 1])
      BY <3>1, <1>5
    <3>4. v[k + 1] = Step(md, d0, dsk, v[k], parse(q)[k + 1])
      BY <3>1, <1>6
    <3> QED
      BY <3>1, <3>2, <3>3, <3>4
  <2>3. n - 1 \in Nat
    BY <1>1
  <2> HIDE DEF S
  <2>4. \A k \in 0 .. n - 1 : k \in S
    BY <2>1, <2>2, <2>3, UpTo
  <2> QED
    BY <2>4 DEF S
<1>8. w[n] = Step(md, d0, dsk, v[n - 1], Leaf(p))
  BY <1>1, <1>4, <1>5, <1>7
<1>9. translate(md, d0, dsk, p) = w[n] /\ translate(md, d0, dsk, q) = v[n - 1]
  BY <1>2 DEF translate, w, v
<1> QED
  BY <1>8, <1>9 DEF q

\* What holds of the root and passes from a directory to what its entries
\* lead to holds of whatever a path resolves to.
LEMMA TranslateKeeps ==
    ASSUME NEW md, NEW d0, NEW dsk, NEW Good, ROOT_INODE \in Good,
           \A i \in Good, n \in RawNames : Step(md, d0, dsk, i, n) \in Good,
           NEW p \in Seq(RawNames), Len(p) <= MAX_PATH_LEN
    PROVE  translate(md, d0, dsk, p) \in Good
<1> DEFINE S == {k \in 0 .. MAX_PATH_LEN :
                    \A q \in Seq(RawNames) :
                        Len(q) = k => translate(md, d0, dsk, q) \in Good}
<1>1. 0 \in S
  <2>1. ASSUME NEW q \in Seq(RawNames), Len(q) = 0
        PROVE  translate(md, d0, dsk, q) \in Good
    <3>1. q = <<>>
      BY <2>1
    <3> QED
      BY <3>1, TranslateRoot
  <2> QED
    BY <2>1, PathsAssumption
<1>2. ASSUME NEW k \in 0 .. MAX_PATH_LEN, k \in S, k < MAX_PATH_LEN
      PROVE  k + 1 \in S
  <2>1. ASSUME NEW q \in Seq(RawNames), Len(q) = k + 1
        PROVE  translate(md, d0, dsk, q) \in Good
    <3>1. q # <<>> /\ Len(q) <= MAX_PATH_LEN
      BY <2>1, <1>2, PathsAssumption
    <3>2. Parent(q) \in Seq(RawNames) /\ Len(Parent(q)) = k
      BY <3>1, <2>1, ParentSeq
    <3>3. translate(md, d0, dsk, Parent(q)) \in Good
      BY <3>2, <1>2
    <3>4. Leaf(q) \in RawNames
      BY <3>1, <2>1, PathsAssumption DEF Leaf
    <3> QED
      BY <3>1, <3>3, <3>4, TranslateStep
  <2> QED
    BY <2>1, <1>2, PathsAssumption
<1> HIDE DEF S
<1>3. \A k \in 0 .. MAX_PATH_LEN : k \in S
  BY <1>1, <1>2, UpTo, PathsAssumption
<1>4. Len(p) \in S
  BY <1>3
<1> QED
  BY <1>4 DEF S

\* Two disks on which every step gives the same resolve every path alike.
SameSteps(md, d0, dsk, md1, d1, dsk1, Good) ==
    /\ ROOT_INODE \in Good
    /\ \A i \in Good, n \in RawNames :
          /\ Step(md, d0, dsk, i, n) \in Good
          /\ Step(md1, d1, dsk1, i, n) = Step(md, d0, dsk, i, n)

\* Changing the inode table and the disk changes no translation if every
\* turn of the loop goes the same way as before.
LEMMA TranslateSame ==
    ASSUME NEW md, NEW d0, NEW dsk, NEW md1, NEW d1, NEW dsk1, NEW Good,
           SameSteps(md, d0, dsk, md1, d1, dsk1, Good),
           NEW p \in Seq(RawNames), Len(p) <= MAX_PATH_LEN
    PROVE  translate(md1, d1, dsk1, p) = translate(md, d0, dsk, p)
<1> USE DEF SameSteps
<1> DEFINE S == {k \in 0 .. MAX_PATH_LEN :
                    \A q \in Seq(RawNames) :
                        Len(q) = k => translate(md1, d1, dsk1, q) = translate(md, d0, dsk, q)}
<1>1. 0 \in S
  <2>1. ASSUME NEW q \in Seq(RawNames), Len(q) = 0
        PROVE  translate(md1, d1, dsk1, q) = translate(md, d0, dsk, q)
    <3>1. q = <<>>
      BY <2>1
    <3> QED
      BY <3>1, TranslateRoot
  <2> QED
    BY <2>1, PathsAssumption
<1>2. ASSUME NEW k \in 0 .. MAX_PATH_LEN, k \in S, k < MAX_PATH_LEN
      PROVE  k + 1 \in S
  <2>1. ASSUME NEW q \in Seq(RawNames), Len(q) = k + 1
        PROVE  translate(md1, d1, dsk1, q) = translate(md, d0, dsk, q)
    <3>1. q # <<>> /\ Len(q) <= MAX_PATH_LEN
      BY <2>1, <1>2, PathsAssumption
    <3>2. Parent(q) \in Seq(RawNames) /\ Len(Parent(q)) = k /\ k <= MAX_PATH_LEN
      BY <3>1, <2>1, ParentSeq
    <3>3. translate(md1, d1, dsk1, Parent(q)) = translate(md, d0, dsk, Parent(q))
      BY <3>2, <1>2
    <3>4. translate(md, d0, dsk, Parent(q)) \in Good
      BY <3>2, TranslateKeeps
    <3>5. Leaf(q) \in RawNames
      BY <3>1, <2>1, PathsAssumption DEF Leaf
    <3>6. translate(md, d0, dsk, q) = Step(md, d0, dsk, translate(md, d0, dsk, Parent(q)), Leaf(q))
      BY <3>1, TranslateStep
    <3>7. translate(md1, d1, dsk1, q) = Step(md1, d1, dsk1, translate(md1, d1, dsk1, Parent(q)), Leaf(q))
      BY <3>1, TranslateStep
    <3> QED
      BY <3>3, <3>4, <3>5, <3>6, <3>7
  <2> QED
    BY <2>1, <1>2, PathsAssumption
<1> HIDE DEF S
<1>3. \A k \in 0 .. MAX_PATH_LEN : k \in S
  BY <1>1, <1>2, UpTo, PathsAssumption
<1>4. Len(p) \in S
  BY <1>3
<1> QED
  BY <1>4 DEF S

-----------------------------------------------------------------------------
(* What a consistent state gives the handlers. *)

\* An inode in use has a positive number, unlike an error.
LEMMA LiveIsPositive ==
    ASSUME TypeOK
    PROVE  /\ Live \subseteq Inodes
           /\ \A i \in Live : i > 0 /\ i \in Int
           /\ \A e \in Errors : e < 0 /\ e \in Int
           /\ LiveDirs \subseteq Live
BY SizesAssumption
   DEF TypeOK, Live, LiveDirs, Inodes, Errors, ENOENT, EEXIST, ENOTDIR, EISDIR,
       EINVAL, ENOSPC, ENOTEMPTY

\* A directory in use has a data block, which is not block 0.
LEMMA DirHasBlock ==
    ASSUME TypeOK, DirectoriesHaveOneBlock, NEW d \in LiveDirs
    PROVE  /\ direct0[d] \in DataBlocks /\ direct0[d] # 0
           /\ rest[d] = {}
           /\ disk[direct0[d]] \in [Slots -> SlotValues]
BY LiveIsPositive DEF TypeOK, DirectoriesHaveOneBlock, LiveDirs

\* The slots a name matches are places of entries.
LEMMA MatchIsPlace ==
    ASSUME NEW d \in LiveDirs, NEW n
    PROVE  \A s : s \in Matches(disk[direct0[d]], n)
                    <=> <<d, s>> \in Places /\ EntryAt(<<d, s>>).name = n
BY DEF Matches, Places, EntryAt

\* lookup leads from an inode in use to an inode in use or to an error.
LEMMA StepStaysLive ==
    ASSUME Sound, NEW i \in Live \cup Errors, NEW n \in RawNames
    PROVE  Step(mode, direct0, disk, i, n) \in Live \cup Errors
<1> USE DEF Sound
<1>1. CASE i \in Errors
  BY <1>1, LiveIsPositive DEF Step
<1>2. CASE i \in Live /\ ~S_ISDIR(mode[i])
  BY <1>2, LiveIsPositive DEF Step, lookup, Errors
<1>3. CASE i \in Live /\ S_ISDIR(mode[i])
  <2> DEFINE hits == Matches(disk[direct0[i]], n)
  <2>1. i \in LiveDirs /\ i > 0
    BY <1>3, LiveIsPositive DEF LiveDirs
  <2>2. Step(mode, direct0, disk, i, n)
          = IF hits = {} THEN ENOENT ELSE disk[direct0[i]][FirstOf(hits)].inode
    BY <1>3, <2>1 DEF Step, lookup
  <2>3. CASE hits = {}
    BY <2>2, <2>3 DEF Errors
  <2>4. CASE hits # {}
    <3>1. hits \in SUBSET Nat
      BY SizesAssumption DEF Matches, Slots
    <3> HIDE DEF hits
    <3>2. FirstOf(hits) \in hits
      BY <2>4, <3>1, FirstOfLeast
    <3>3. <<i, FirstOf(hits)>> \in Places
      BY <2>1, <3>2, MatchIsPlace DEF hits
    <3>4. EntryAt(<<i, FirstOf(hits)>>).inode \in Live
      BY <3>3 DEF EntriesMatchInodes
    <3> QED
      BY <2>2, <2>4, <3>4 DEF EntryAt
  <2> QED
    BY <2>3, <2>4
<1> QED
  BY <1>1, <1>2, <1>3

\* A path resolves to an inode in use or to an error.
LEMMA Resolves ==
    ASSUME Sound, NEW p \in Seq(RawNames), Len(p) <= MAX_PATH_LEN
    PROVE  Inum(p) \in Live \cup Errors
<1>1. ROOT_INODE \in Live \cup Errors
  BY DEF Sound, EntriesMatchInodes, Live, ROOT_INODE
<1>2. \A i \in Live \cup Errors, n \in RawNames :
         Step(mode, direct0, disk, i, n) \in Live \cup Errors
  BY StepStaysLive
<1> QED
  BY <1>1, <1>2, TranslateKeeps DEF Inum

\* The last name of a path that resolves is an entry of its parent.
LEMMA Found ==
    ASSUME Sound,
           NEW p \in Seq(RawNames), p # <<>>, Len(p) <= MAX_PATH_LEN,
           Inum(p) > 0
    PROVE  /\ ParentInum(p) \in LiveDirs
           /\ \E s \in Slots : /\ <<ParentInum(p), s>> \in Places
                               /\ EntryAt(<<ParentInum(p), s>>).name = Leaf(p)
                               /\ EntryAt(<<ParentInum(p), s>>).inode = Inum(p)
<1> DEFINE d == ParentInum(p)
           hits == Matches(disk[direct0[d]], Leaf(p))
<1>1. d \in Live \cup Errors
  <2>1. Parent(p) \in Seq(RawNames) /\ Len(Parent(p)) <= MAX_PATH_LEN
    BY ParentSeq, PathsAssumption
  <2> QED
    BY <2>1, Resolves DEF ParentInum, Inum
<1>2. Inum(p) = Step(mode, direct0, disk, d, Leaf(p))
  BY TranslateStep DEF Inum, ParentInum
<1>3. d \in Live /\ S_ISDIR(mode[d])
  BY <1>1, <1>2, LiveIsPositive DEF Step, lookup, Sound, ENOTDIR
<1>4. hits # {} /\ Inum(p) = disk[direct0[d]][FirstOf(hits)].inode
  BY <1>2, <1>3, LiveIsPositive DEF Step, lookup, Sound, ENOENT
<1>5. hits \in SUBSET Nat /\ hits \subseteq Slots
  BY SizesAssumption DEF Matches, Slots
<1> HIDE DEF hits, d
<1>6. FirstOf(hits) \in hits /\ FirstOf(hits) \in Slots
  BY <1>4, <1>5, FirstOfLeast
<1>7. d \in LiveDirs
  BY <1>3 DEF LiveDirs
<1>8. <<d, FirstOf(hits)>> \in Places /\ EntryAt(<<d, FirstOf(hits)>>).name = Leaf(p)
  BY <1>6, <1>7, MatchIsPlace DEF hits
<1>9. EntryAt(<<d, FirstOf(hits)>>).inode = Inum(p)
  BY <1>4 DEF EntryAt
<1> QED
  BY <1>6, <1>7, <1>8, <1>9 DEF d

\* A name that does not resolve is the name of no entry of its directory.
LEMMA NotFound ==
    ASSUME Sound,
           NEW p \in Seq(RawNames), p # <<>>, Len(p) <= MAX_PATH_LEN,
           ParentInum(p) \in LiveDirs, ~(Inum(p) > 0)
    PROVE  Matches(disk[direct0[ParentInum(p)]], Leaf(p)) = {}
<1> DEFINE d == ParentInum(p)
           hits == Matches(disk[direct0[d]], Leaf(p))
<1> SUFFICES ASSUME hits # {} PROVE FALSE
  OBVIOUS
<1>1. Inum(p) = Step(mode, direct0, disk, d, Leaf(p))
  BY TranslateStep DEF Inum, ParentInum
<1>2. d > 0 /\ S_ISDIR(mode[d])
  BY LiveIsPositive DEF Sound, LiveDirs
<1>3. Inum(p) = disk[direct0[d]][FirstOf(hits)].inode
  BY <1>1, <1>2 DEF Step, lookup
<1>4. hits \in SUBSET Nat
  BY SizesAssumption DEF Matches, Slots
<1> HIDE DEF hits, d
<1>5. FirstOf(hits) \in hits
  BY <1>4, FirstOfLeast
<1>6. <<d, FirstOf(hits)>> \in Places
  BY <1>5, MatchIsPlace DEF hits, d
<1>7. EntryAt(<<d, FirstOf(hits)>>).inode \in Live
  BY <1>6 DEF Sound, EntriesMatchInodes
<1> QED
  BY <1>3, <1>7, LiveIsPositive DEF EntryAt, Sound

\* An entry is the only one of its directory with its name.
LEMMA OnlyMatch ==
    ASSUME NamesAreUnique, NEW d \in LiveDirs, NEW s,
           <<d, s>> \in Places
    PROVE  Matches(disk[direct0[d]], EntryAt(<<d, s>>).name) = {s}
<1>1. \A t : <<d, t>> \in Places /\ EntryAt(<<d, t>>).name = EntryAt(<<d, s>>).name
              => t = s
  BY DEF NamesAreUnique
<1> DEFINE hits == Matches(disk[direct0[d]], EntryAt(<<d, s>>).name)
<1>2. \A t : t \in hits <=> /\ <<d, t>> \in Places
                            /\ EntryAt(<<d, t>>).name = EntryAt(<<d, s>>).name
  BY MatchIsPlace
<1> HIDE DEF hits
<1>3. \A t : t \in hits <=> t = s
  BY <1>1, <1>2
<1>4. hits = {s}
  BY <1>3
<1> QED
  BY <1>4 DEF hits

-----------------------------------------------------------------------------
(* What a step keeps. *)

\* The step leads to a sound state, leaves free blocks zero if they were, and
\* cuts nothing off from the root.
Keeps ==
    /\ Sound'
    /\ FreeBlocksAreZero => FreeBlocksAreZero'
    /\ TreeIsConnected => TreeIsConnected'

\* What leads by which name from a directory to an inode.
Edges == {<<ds[1], EntryAt(ds).name, EntryAt(ds).inode>> : ds \in Places}

\* The step leaves what leads where, and which inodes are directories.
SameShape ==
    /\ Edges' = Edges /\ Live' = Live
    /\ \A i \in Live : S_ISDIR(mode'[i]) <=> S_ISDIR(mode[i])

\* Entries that stay where they are keep the tree connected.
LEMMA SameEntries ==
    ASSUME Live' = Live, Places' = Places,
           \A ds \in Places : EntryAt(ds)'.inode = EntryAt(ds).inode,
           TreeIsConnected
    PROVE  TreeIsConnected'
<1> SUFFICES ASSUME NEW S \in SUBSET Live, ClosedUnderEntries(S)'
             PROVE  S = Live
  BY DEF TreeIsConnected
<1>1. ClosedUnderEntries(S)
  BY DEF ClosedUnderEntries
<1> QED
  BY <1>1 DEF TreeIsConnected

-----------------------------------------------------------------------------
(* Steps that change no entry and no inode's kind. *)

\* What changes no directory leaves every entry where it was.
LEMMA SameTree ==
    ASSUME EntriesMatchInodes, NamesAreUnique, KindsAgree,
           inode_map' = inode_map,
           \A i \in Live : S_ISDIR(mode'[i]) <=> S_ISDIR(mode[i]),
           \A d \in LiveDirs : disk'[direct0'[d]] = disk[direct0[d]]
    PROVE  /\ EntriesMatchInodes' /\ NamesAreUnique' /\ KindsAgree'
           /\ TreeIsConnected => TreeIsConnected'
           /\ SameShape
<1>1. Live' = Live
  BY DEF Live
<1>2. LiveDirs' = LiveDirs
  BY <1>1 DEF LiveDirs
<1>3. Places' = Places
  BY <1>2 DEF Places
<1>4. \A ds \in Places : EntryAt(ds)' = EntryAt(ds) /\ EntryAt(ds).inode \in Live
  BY DEF EntryAt, Places, EntriesMatchInodes
<1>5. S_ISDIR(mode[ROOT_INODE])' /\ ROOT_INODE \in Live
  BY DEF EntriesMatchInodes, Live, ROOT_INODE
<1>6. EntriesMatchInodes'
  BY <1>1, <1>3, <1>4, <1>5 DEF EntriesMatchInodes
<1>7. NamesAreUnique'
  BY <1>3, <1>4 DEF NamesAreUnique
<1>8. KindsAgree'
  BY <1>3, <1>4 DEF KindsAgree
<1>9. TreeIsConnected => TreeIsConnected'
  BY <1>1, <1>3, <1>4, SameEntries
<1>10. SameShape
  BY <1>1, <1>3, <1>4 DEF SameShape, Edges
<1> QED
  BY <1>6, <1>7, <1>8, <1>9, <1>10

-----------------------------------------------------------------------------
(* The initial state, and the steps that change nothing or a mode. *)

\* readdir returns names.
LEMMA ListingNames ==
    ASSUME NEW blk \in [Slots -> SlotValues]
    PROVE  Listing(blk) \subseteq RawNames
<1> SUFFICES ASSUME NEW s \in Slots, blk[s].valid PROVE blk[s].name \in RawNames
  BY DEF Listing
<1>1. blk[s] \in Entries
  BY DEF SlotValues, Zero, Stale, Bytes, Unused
<1> QED
  BY <1>1 DEF Entries, Entry

\* rmdir's scan finds nothing only if no slot is in use.
LEMMA EmptyListing ==
    ASSUME NEW blk, Listing(blk) = {}
    PROVE  /\ \A s \in Slots : ~blk[s].valid
           /\ \A n : Matches(blk, n) = {}
<1>1. ASSUME NEW s \in Slots, blk[s].valid PROVE FALSE
  <2>1. blk[s].name \in Listing(blk)
    BY <1>1 DEF Listing
  <2> QED
    BY <2>1
<1> QED
  BY <1>1 DEF Matches

\* The paths of a call.
LEMMA ArgumentLists ==
    /\ \A p \in Seq(RawNames) : <<p>> \in Seq(Seq(RawNames))
    /\ \A p, q \in Seq(RawNames) : <<p, q>> \in Seq(Seq(RawNames))
OBVIOUS

\* What a handler returns has the type of a reply.
LEMMA Replied ==
    ASSUME NEW call \in Calls, NEW paths \in Seq(Seq(RawNames)),
           NEW code \in Errors \cup {OK}, NEW names \in SUBSET RawNames
    PROVE  Reply(call, paths, code, names) \in Replies
BY DEF Reply, Replies

\* A call that succeeds lists no names, unless it is readdir.
LEMMA RepliedOK ==
    /\ \A call \in Calls, p \in Seq(RawNames) : Reply(call, <<p>>, OK, {}) \in Replies
    /\ \A call \in Calls, p, q \in Seq(RawNames) :
          Reply(call, <<p, q>>, OK, {}) \in Replies
BY Replied, ArgumentLists

\* A new image is consistent.
LEMMA InitConsistent == Init => Consistent
<1> SUFFICES ASSUME Init PROVE Consistent
  OBVIOUS
<1> USE SizesAssumption
<1>1. Live = {ROOT_INODE} /\ LiveDirs = {ROOT_INODE}
  BY DEF Init, Live, LiveDirs, ROOT_INODE, S_ISDIR, Inodes
<1>2. /\ direct0[ROOT_INODE] = DataStart /\ rest[ROOT_INODE] = {}
      /\ ROOT_INODE \in Inodes /\ DataStart \in DataBlocks
  BY DEF Init, ROOT_INODE, Inodes, DataBlocks
<1>3. disk[DataStart] = ZeroBlock
  BY <1>2 DEF Init
<1>4. Places = {}
  BY <1>1, <1>2, <1>3 DEF Places, ZeroBlock, Zero, Unused
<1>5. TypeOK
  <2>1. \A b \in {0} \cup DataBlocks : disk[b] \in [Slots -> SlotValues]
    BY DEF Init, ZeroBlock, SuperBlock, SlotValues
  <2>2. disk \in [{0} \cup DataBlocks -> [Slots -> SlotValues]]
    BY <2>1 DEF Init
  <2>3. ret \in Replies
    <3>1. /\ <<>> \in Seq(RawNames) /\ {} \in SUBSET RawNames
          /\ "attr" \in Calls /\ OK \in Errors \cup {OK}
      BY DEF Calls
    <3> QED
      BY <3>1, Replied, ArgumentLists DEF Init
  <2>4. inode_map \subseteq Inodes /\ block_map \subseteq Blocks
    BY DEF Init, Inodes, Blocks, ROOT_INODE
  <2>5. direct0 \in [Inodes -> {0} \cup DataBlocks]
    BY <1>2 DEF Init
  <2> QED
    BY <2>2, <2>3, <2>4, <2>5 DEF TypeOK, Init
<1>6. EntriesMatchInodes
  BY <1>1, <1>4 DEF EntriesMatchInodes, Init, LiveDirs
<1>7. BlocksMatchOwners
  <2>1. Held(ROOT_INODE) = {DataStart}
    BY <1>2 DEF Held
  <2>2. UNION {Held(i) : i \in Live} = {DataStart}
    BY <2>1, <1>1
  <2> QED
    BY <1>1, <1>2, <2>1, <2>2 DEF BlocksMatchOwners, Init
<1>8. FreeBlocksAreZero
  BY DEF FreeBlocksAreZero, FreeBlocks, Blocks, DataBlocks, Init
<1>9. FreeInodesAreClean
  BY DEF FreeInodesAreClean, FreeInodes, Held, Init
<1>10. DirectoriesHaveOneBlock
  <2>1. Listing(disk[0]) = {}
    BY DEF Listing, Init, SuperBlock, Stale, Zero, Unused
  <2> QED
    BY <1>1, <1>2, <2>1 DEF DirectoriesHaveOneBlock
<1>11. NamesAreUnique /\ KindsAgree
  BY <1>4 DEF NamesAreUnique, KindsAgree
<1> QED
  BY <1>5, <1>6, <1>7, <1>8, <1>9, <1>10, <1>11 DEF Consistent, Sound

\* The root alone is a tree.
LEMMA InitConnected == Init => TreeIsConnected
<1> SUFFICES ASSUME Init, NEW S \in SUBSET Live, ClosedUnderEntries(S)
             PROVE  S = Live
  BY DEF TreeIsConnected
<1>1. Live = {ROOT_INODE}
  BY DEF Init, Live, ROOT_INODE
<1> QED
  BY <1>1 DEF ClosedUnderEntries

\* A step that changes at most the reply keeps the file system sound.
LEMMA NothingChanges ==
    ASSUME Sound, unchanged, ret' \in Replies
    PROVE  Keeps /\ SameShape
<1>1. Live' = Live /\ LiveDirs' = LiveDirs /\ Places' = Places
  BY DEF unchanged, Live, LiveDirs, Places
<1>2. \A ds : EntryAt(ds)' = EntryAt(ds)
  BY DEF unchanged, EntryAt
<1>3. \A i : Held(i)' = Held(i)
  BY DEF unchanged, Held
<1>4. FreeBlocks' = FreeBlocks /\ FreeInodes' = FreeInodes
  BY DEF unchanged, FreeBlocks, FreeInodes
<1>5. TypeOK'
  BY DEF unchanged, TypeOK, Sound
<1>6. /\ EntriesMatchInodes' /\ NamesAreUnique' /\ KindsAgree'
      /\ TreeIsConnected => TreeIsConnected'
      /\ SameShape
  BY <1>1, SameTree DEF unchanged, Sound
<1>7. BlocksMatchOwners'
  BY <1>1, <1>3 DEF BlocksMatchOwners, unchanged, Sound
<1>8. (FreeBlocksAreZero => FreeBlocksAreZero') /\ FreeInodesAreClean'
  BY <1>3, <1>4 DEF FreeBlocksAreZero, FreeInodesAreClean, unchanged, Sound
<1>9. DirectoriesHaveOneBlock'
  BY <1>1 DEF DirectoriesHaveOneBlock, unchanged, Sound
<1> QED
  BY <1>5, <1>6, <1>7, <1>8, <1>9 DEF Sound, Keeps

\* A refused call changes nothing.
LEMMA FailKeeps ==
    ASSUME Sound, NEW call \in Calls, NEW paths \in Seq(Seq(RawNames)),
           NEW code \in Errors \cup {OK}, Fail(call, paths, code)
    PROVE  Keeps /\ SameShape
<1>1. ret' \in Replies
  BY Replied DEF Fail
<1> QED
  BY <1>1, NothingChanges DEF Fail

-----------------------------------------------------------------------------
(* The calls that move no block and no inode. *)

\* The early returns are errno values.
LEMMA ErrorCodes ==
    ASSUME Sound, NEW p \in Seq(RawNames), Len(p) <= MAX_PATH_LEN
    PROVE  /\ resolve_error(p) \in Errors \cup {OK}
           /\ readdir_error(p) \in Errors \cup {OK}
           /\ file_error(p) \in Errors \cup {OK}
           /\ rmdir_error(p) \in Errors \cup {OK}
<1>1. Inum(p) < 0 => Inum(p) \in Errors
  BY Resolves, LiveIsPositive DEF Sound
<1>2. /\ ENOTDIR \in Errors /\ EISDIR \in Errors /\ ENOTEMPTY \in Errors
  BY DEF Errors
<1> QED
  BY <1>1, <1>2 DEF resolve_error, readdir_error, file_error, rmdir_error

\* A call that is not refused works on an inode in use.
LEMMA ResolvesToLive ==
    ASSUME Sound, NEW p \in Seq(RawNames), Len(p) <= MAX_PATH_LEN,
           ~(Inum(p) < 0)
    PROVE  Inum(p) \in Live /\ Inum(p) \in Inodes /\ Inum(p) > 0
BY Resolves, LiveIsPositive DEF Sound

\* The blocks in use depend only on the inodes, their pointers and the losses.
LEMMA SameBlocks ==
    ASSUME BlocksMatchOwners, FreeInodesAreClean,
           UNCHANGED <<inode_map, block_map, direct0, rest, lost>>
    PROVE  BlocksMatchOwners' /\ FreeInodesAreClean'
<1>1. Live' = Live /\ FreeInodes' = FreeInodes
  BY DEF Live, FreeInodes
<1>2. \A i : Held(i)' = Held(i)
  BY DEF Held
<1> QED
  BY <1>1, <1>2 DEF BlocksMatchOwners, FreeInodesAreClean

\* getattr, readdir, utime and read change nothing.
LEMMA ReadKeeps ==
    ASSUME Sound, NEW p \in Seq(RawNames), Len(p) <= MAX_PATH_LEN,
           fs_getattr(p) \/ fs_readdir(p) \/ fs_utime(p) \/ fs_read(p)
    PROVE  Keeps /\ SameShape
<1>0. <<p>> \in Seq(Seq(RawNames)) /\ {"attr", "readdir", "read"} \subseteq Calls
  BY ArgumentLists DEF Calls
<1>1. CASE fs_getattr(p) \/ fs_utime(p)
  <2>1. \/ Fail("attr", <<p>>, resolve_error(p))
        \/ unchanged /\ ret' = Reply("attr", <<p>>, OK, {})
    BY <1>1 DEF fs_getattr, fs_utime
  <2>2. Reply("attr", <<p>>, OK, {}) \in Replies
    BY <1>0, RepliedOK
  <2> QED
    BY <1>0, <2>1, <2>2, NothingChanges, FailKeeps, ErrorCodes
<1>2. CASE Fail("readdir", <<p>>, readdir_error(p))
  BY <1>0, <1>2, FailKeeps, ErrorCodes
<1>3. CASE /\ readdir_error(p) = OK
           /\ unchanged
           /\ ret' = Reply("readdir", <<p>>, OK, Listing(disk[direct0[Inum(p)]]))
  <2>1. ~(Inum(p) < 0) /\ S_ISDIR(mode[Inum(p)])
    BY <1>3, LiveIsPositive DEF readdir_error, OK, ENOTDIR, Sound
  <2>2. Inum(p) \in LiveDirs
    BY <2>1, ResolvesToLive DEF LiveDirs
  <2>3. Listing(disk[direct0[Inum(p)]]) \subseteq RawNames
    BY <2>2, DirHasBlock, ListingNames DEF Sound
  <2>4. ret' \in Replies
    BY <1>0, <1>3, <2>3, Replied
  <2> QED
    BY <1>3, <2>4, NothingChanges
<1>4. CASE fs_read(p)
  <2>1. \/ Fail("read", <<p>>, file_error(p))
        \/ unchanged /\ ret' = Reply("read", <<p>>, OK, {})
    BY <1>4 DEF fs_read
  <2>2. Reply("read", <<p>>, OK, {}) \in Replies
    BY <1>0, RepliedOK
  <2> QED
    BY <1>0, <2>1, <2>2, NothingChanges, FailKeeps, ErrorCodes
<1> QED
  BY <1>1, <1>2, <1>3, <1>4 DEF fs_readdir

\* chmod never turns a file into a directory or back.
LEMMA KindStays ==
    ASSUME TypeOK, NEW i \in Inodes, NEW m \in {{}, mode[i]},
           mode' = [mode EXCEPT ![i] = chmod_type(i, m)]
    PROVE  /\ mode' \in [Inodes -> SUBSET {IFDIR, IFREG}]
           /\ \A j \in Inodes : S_ISDIR(mode'[j]) <=> S_ISDIR(mode[j])
<1>1. mode[i] \in SUBSET {IFDIR, IFREG} /\ mode \in [Inodes -> SUBSET {IFDIR, IFREG}]
  BY DEF TypeOK
<1>2. /\ chmod_type(i, m) \in SUBSET {IFDIR, IFREG}
      /\ S_ISDIR(chmod_type(i, m)) <=> S_ISDIR(mode[i])
  BY <1>1 DEF chmod_type, S_ISDIR, IFDIR, IFREG
<1> QED
  BY <1>1, <1>2

\* chmod changes the mode of an inode that resolves, and nothing else.
LEMMA ChmodKeeps ==
    ASSUME Sound, NEW p \in Seq(RawNames), Len(p) <= MAX_PATH_LEN,
           fs_chmod(p)
    PROVE  Keeps /\ SameShape
<1>1. CASE Fail("attr", <<p>>, resolve_error(p))
  BY <1>1, FailKeeps, ErrorCodes, ArgumentLists DEF Calls
<1>2. CASE /\ resolve_error(p) = OK
           /\ \E m \in {{}, mode[Inum(p)]} :
                 mode' = [mode EXCEPT ![Inum(p)] = chmod_type(Inum(p), m)]
           /\ ret' = Reply("attr", <<p>>, OK, {})
           /\ UNCHANGED <<inode_map, block_map, direct0, rest, disk, lost>>
  <2> DEFINE i == Inum(p)
  <2>1. i \in Live /\ i \in Inodes
    BY <1>2, ResolvesToLive DEF resolve_error, OK
  <2>2. PICK m \in {{}, mode[i]} : mode' = [mode EXCEPT ![i] = chmod_type(i, m)]
    BY <1>2
  <2> HIDE DEF i
  <2>5. \A j \in Inodes : S_ISDIR(mode'[j]) <=> S_ISDIR(mode[j])
    BY <2>1, <2>2, KindStays DEF Sound
  <2>6. mode' \in [Inodes -> SUBSET {IFDIR, IFREG}]
    BY <2>1, <2>2, KindStays DEF Sound
  <2>7. Live \subseteq Inodes /\ Live' = Live
    BY <1>2, LiveIsPositive DEF Sound, Live
  <2>8. TypeOK'
    <3>1. ret' \in Replies
      BY <1>2, RepliedOK DEF Calls
    <3> QED
      BY <1>2, <2>6, <3>1 DEF Sound, TypeOK
  <2>9. /\ EntriesMatchInodes' /\ NamesAreUnique' /\ KindsAgree'
        /\ TreeIsConnected => TreeIsConnected'
        /\ SameShape
    BY <1>2, <2>5, <2>7, SameTree DEF Sound
  <2>10. BlocksMatchOwners' /\ FreeInodesAreClean'
    BY <1>2, SameBlocks DEF Sound
  <2>11. FreeBlocksAreZero => FreeBlocksAreZero'
    BY <1>2 DEF FreeBlocksAreZero, FreeBlocks, Sound
  <2>12. DirectoriesHaveOneBlock'
    <3>1. \A j \in Live : IF S_ISDIR(mode'[j])
                           THEN direct0[j] # 0 /\ rest[j] = {}
                           ELSE direct0[j] = 0 => rest[j] = {}
      BY <2>5, <2>7 DEF DirectoriesHaveOneBlock, Sound
    <3> QED
      BY <1>2, <2>7, <3>1 DEF DirectoriesHaveOneBlock, Sound
  <2> QED
    BY <2>8, <2>9, <2>10, <2>11, <2>12 DEF Sound, Keeps
<1> QED
  BY <1>1, <1>2 DEF fs_chmod

-----------------------------------------------------------------------------
(* One slot of one directory changes. *)

\* The blocks an inode leads to are data blocks.
LEMMA HeldTyped ==
    ASSUME TypeOK
    PROVE  /\ \A i \in Inodes : Held(i) \subseteq DataBlocks
           /\ DataBlocks \subseteq Blocks
           /\ \A b \in DataBlocks : b \notin 0 .. DataStart - 1 /\ b # 0
BY SizesAssumption DEF TypeOK, Held, DataBlocks, Blocks

\* Two directories in use have different blocks.
LEMMA DirBlocksDiffer ==
    ASSUME Sound, NEW d \in LiveDirs, NEW i \in Live, i # d
    PROVE  direct0[d] \notin Held(i) /\ direct0[i] # direct0[d]
<1>1. direct0[d] \in Held(d)
  BY DirHasBlock DEF Held, Sound
<1>2. Held(d) \cap Held(i) = {}
  BY LiveIsPositive DEF BlocksMatchOwners, Sound
<1>3. direct0[d] # 0
  BY DirHasBlock DEF Sound
<1> QED
  BY <1>1, <1>2, <1>3 DEF Held

\* Slot s of the block of d now holds v, and the other directories of D
\* have the block they had.
SlotSet(D, d, s, v) ==
    /\ \A e \in D : direct0'[e] = direct0[e]
    /\ \A e \in D \ {d} : disk'[direct0[e]] = disk[direct0[e]]
    /\ \A t \in Slots : disk'[direct0[d]][t]
                          = IF t = s THEN v ELSE disk[direct0[d]][t]

\* Writing one slot of a directory block changes that slot only.
LEMMA OneSlot ==
    ASSUME NEW D, NEW d, NEW s, NEW v, SlotSet(D, d, s, v)
    PROVE  \A ds \in D \X Slots :
              EntryAt(ds)' = IF ds = <<d, s>> THEN v ELSE EntryAt(ds)
<1> USE DEF SlotSet
<1> SUFFICES ASSUME NEW e \in D, NEW t \in Slots
             PROVE  EntryAt(<<e, t>>)' = IF <<e, t>> = <<d, s>> THEN v
                                         ELSE EntryAt(<<e, t>>)
  OBVIOUS
<1>1. EntryAt(<<e, t>>)' = disk'[direct0[e]][t] /\ EntryAt(<<e, t>>) = disk[direct0[e]][t]
  BY DEF EntryAt
<1>2. CASE e # d
  BY <1>1, <1>2
<1>3. CASE e = d
  BY <1>1, <1>3
<1> QED
  BY <1>2, <1>3

\* The fields of an entry have their types.
LEMMA EntryTyped ==
    ASSUME NEW e \in Entries
    PROVE  /\ e = Entry(e.name, e.inode, e.isDir) /\ e.valid
           /\ e.name \in RawNames /\ e.inode \in Inodes /\ e.isDir \in BOOLEAN
<1>1. PICK n \in RawNames, i \in Inodes, k \in BOOLEAN : e = Entry(n, i, k)
  BY DEF Entries
<1>2. e.name = n /\ e.inode = i /\ e.isDir = k /\ e.valid
  BY <1>1 DEF Entry
<1> QED
  BY <1>1, <1>2

\* A slot in use holds an entry.
LEMMA SlotTyped ==
    ASSUME TypeOK, DirectoriesHaveOneBlock, NEW ds \in Places
    PROVE  /\ ds[1] \in LiveDirs /\ ds[2] \in Slots /\ ds = <<ds[1], ds[2]>>
           /\ EntryAt(ds) \in Entries /\ EntryAt(ds).valid
<1>1. ds[1] \in LiveDirs /\ ds[2] \in Slots /\ ds = <<ds[1], ds[2]>>
      /\ EntryAt(ds).valid
  BY DEF Places, EntryAt
<1>2. EntryAt(ds) \in SlotValues
  BY <1>1, DirHasBlock DEF EntryAt
<1> QED
  BY <1>1, <1>2 DEF SlotValues, Zero, Stale, Bytes, Unused

\* The last component of a path is a name.
LEMMA LeafTyped ==
    ASSUME NEW p \in Seq(RawNames), p # <<>>
    PROVE  Leaf(p) \in RawNames
BY PathsAssumption DEF Leaf

\* rename gives an entry a name that is free, and changes nothing else.
LEMMA RenameKeeps ==
    ASSUME Sound,
           NEW p \in Seq(RawNames), p # <<>>, Len(p) <= MAX_PATH_LEN,
           NEW q \in Seq(RawNames), q # <<>>, Len(q) <= MAX_PATH_LEN,
           fs_rename(p, q)
    PROVE  /\ Keeps
           /\ ret'.code = OK =>
                Edges' = (Edges \ {<<ParentInum(p), Leaf(p), Inum(p)>>})
                            \cup {<<ParentInum(p), Leaf(q), Inum(p)>>}
<1>1. CASE Fail("rename", <<p, q>>, rename_error(p, q))
  <2>1. rename_error(p, q) \in Errors \cup {OK}
    BY DEF rename_error, Errors
  <2> QED
    BY <1>1, <2>1, FailKeeps, ArgumentLists DEF Calls, Fail, Reply
<1>2. CASE /\ rename_error(p, q) = OK
           /\ disk' = [disk EXCEPT ![direct0[ParentInum(p)]] =
                                      Renamed(@, Leaf(p), Leaf(q))]
           /\ ret' = Reply("rename", <<p, q>>, OK, {})
           /\ UNCHANGED <<inode_map, block_map, mode, direct0, rest, lost>>
  <2>d. PICK d : d = ParentInum(p)
    OBVIOUS
  <2>b. PICK b : b = direct0[d]
    OBVIOUS
  <2>n. PICK n : n = Leaf(q)
    OBVIOUS
  <2>1. ~(Inum(p) < 0) /\ ~(Inum(q) > 0) /\ ParentInum(q) = d
    BY <1>2, <2>d DEF rename_error, OK, ENOENT, EEXIST, EINVAL
  <2>2. Inum(p) > 0
    BY <2>1, ResolvesToLive
  <2>3. d \in LiveDirs
    BY <2>d, <2>2, Found
  <2>4. PICK s \in Slots : /\ <<d, s>> \in Places /\ EntryAt(<<d, s>>).name = Leaf(p)
                           /\ EntryAt(<<d, s>>).inode = Inum(p)
    BY <2>d, <2>2, Found
  <2>5. Matches(disk[b], Leaf(p)) = {s}
    BY <2>b, <2>3, <2>4, OnlyMatch DEF Sound
  <2>6. Matches(disk[b], n) = {}
    BY <2>b, <2>n, <2>1, <2>3, NotFound
  <2>7. /\ b \in DataBlocks /\ disk[b] \in [Slots -> SlotValues]
        /\ b # 0 /\ b \in Held(d) /\ d \in Live
    BY <2>b, <2>3, DirHasBlock, LiveIsPositive DEF Held, Sound
  <2>8. n \in RawNames
    BY <2>n, LeafTyped
  <2>v. PICK v : v = Entry(n, disk[b][s].inode, disk[b][s].isDir)
    OBVIOUS
  <2>9. /\ v \in Entries /\ v.valid /\ v.name = n
        /\ v.inode = EntryAt(<<d, s>>).inode
        /\ v.isDir = EntryAt(<<d, s>>).isDir
    <3>1. disk[b][s] \in Entries /\ EntryAt(<<d, s>>) = disk[b][s]
      BY <2>b, <2>4, SlotTyped DEF EntryAt, Sound
    <3>2. disk[b][s].inode \in Inodes /\ disk[b][s].isDir \in BOOLEAN
      BY <3>1, EntryTyped
    <3>3. v \in Entries
      BY <2>8, <2>v, <3>2 DEF Entries
    <3> QED
      BY <2>v, <3>1, <3>3 DEF Entry
  <2>10. disk' = [disk EXCEPT ![b] = [t \in Slots |-> IF t = s THEN v ELSE disk[b][t]]]
    BY <1>2, <2>5, <2>d, <2>b, <2>n, <2>v DEF Renamed
  <2>11. TypeOK'
    <3>1. disk' \in [{0} \cup DataBlocks -> [Slots -> SlotValues]]
      BY <2>7, <2>9, <2>10 DEF TypeOK, Sound, SlotValues
    <3>2. ret' \in Replies
      BY <1>2, RepliedOK DEF Calls
    <3> QED
      BY <1>2, <3>1, <3>2 DEF Sound, TypeOK
  <2>12. Live' = Live /\ LiveDirs' = LiveDirs
    BY <1>2 DEF Live, LiveDirs
  <2>13. \A ds \in LiveDirs \X Slots :
            EntryAt(ds)' = IF ds = <<d, s>> THEN v ELSE EntryAt(ds)
    <3>1. \A e \in LiveDirs \ {d} : disk'[direct0[e]] = disk[direct0[e]]
      BY <2>b, <2>3, <2>10, DirBlocksDiffer DEF LiveDirs
    <3>2. \A t \in Slots : disk'[direct0[d]][t]
                             = IF t = s THEN v ELSE disk[direct0[d]][t]
      BY <2>b, <2>7, <2>10 DEF Sound, TypeOK
    <3>3. SlotSet(LiveDirs, d, s, v)
      BY <1>2, <3>1, <3>2 DEF SlotSet
    <3> QED
      BY <3>3, OneSlot
  <2>14. Places' = Places
    <3>1. Places = {ds \in LiveDirs \X Slots : EntryAt(ds).valid}
      BY DEF Places, EntryAt
    <3>2. Places' = {ds \in LiveDirs \X Slots : EntryAt(ds)'.valid}
      BY <2>12 DEF Places, EntryAt
    <3> QED
      BY <3>1, <3>2, <2>4, <2>9, <2>13
  <2>15. /\ \A ds \in Places : /\ EntryAt(ds)'.inode = EntryAt(ds).inode
                                /\ EntryAt(ds)'.isDir = EntryAt(ds).isDir
         /\ EntryAt(<<d, s>>)'.name = n
         /\ \A ds \in Places : ds # <<d, s>> => EntryAt(ds)'.name = EntryAt(ds).name
    <3>1. Places \subseteq LiveDirs \X Slots
      BY DEF Places
    <3>2. \A ds \in Places :
             EntryAt(ds)' = IF ds = <<d, s>> THEN v ELSE EntryAt(ds)
      BY <2>13, <3>1
    <3>3. EntryAt(<<d, s>>)' = v
      BY <2>4, <3>2
    <3> QED
      BY <2>9, <3>2, <3>3
  <2>16. EntriesMatchInodes' /\ KindsAgree'
    BY <1>2, <2>12, <2>14, <2>15 DEF EntriesMatchInodes, KindsAgree, Sound
  <2>17. \A ds \in Places : ds[1] = d => EntryAt(ds).name # n
    <3>1. \A t : <<d, t>> \in Places => EntryAt(<<d, t>>).name # n
      BY <2>b, <2>3, <2>6, MatchIsPlace
    <3> QED
      BY <3>1 DEF Places
  <2>18. NamesAreUnique'
    <3> SUFFICES ASSUME NEW ds \in Places, NEW et \in Places, ds[1] = et[1],
                        EntryAt(ds)'.name = EntryAt(et)'.name
                 PROVE  ds = et
      BY <2>14 DEF NamesAreUnique
    <3>1. CASE ds # <<d, s>> /\ et # <<d, s>>
      BY <2>15, <3>1 DEF NamesAreUnique, Sound
    <3>2. CASE ds = <<d, s>> /\ et # <<d, s>>
      BY <2>15, <2>17, <3>2
    <3>3. CASE ds # <<d, s>> /\ et = <<d, s>>
      BY <2>15, <2>17, <3>3
    <3> QED
      BY <3>1, <3>2, <3>3
  <2>19. BlocksMatchOwners' /\ FreeInodesAreClean'
    BY <1>2, SameBlocks DEF Sound
  <2>20. FreeBlocksAreZero => FreeBlocksAreZero'
    <3>1. b \notin FreeBlocks
      BY <2>7 DEF BlocksMatchOwners, FreeBlocks, Sound
    <3> QED
      BY <1>2, <2>10, <3>1 DEF FreeBlocksAreZero, FreeBlocks, Sound
  <2>21. DirectoriesHaveOneBlock'
    BY <1>2, <2>7, <2>10, <2>12 DEF DirectoriesHaveOneBlock, Sound
  <2>22. TreeIsConnected => TreeIsConnected'
    BY <2>12, <2>14, <2>15, SameEntries
  <2>23. Edges' = (Edges \ {<<d, Leaf(p), Inum(p)>>}) \cup {<<d, n, Inum(p)>>}
    <3>1. Edges' = {<<ds[1], EntryAt(ds)'.name, EntryAt(ds).inode>> : ds \in Places}
      BY <2>14, <2>15 DEF Edges
    <3>2. \A ds \in Places : EntryAt(ds).inode = Inum(p) <=> ds = <<d, s>>
      BY <2>4 DEF Sound, EntriesMatchInodes
    <3>o. PICK others : others = Places \ {<<d, s>>}
      OBVIOUS
    <3>3. /\ Edges = {<<ds[1], EntryAt(ds).name, EntryAt(ds).inode>> : ds \in others}
                       \cup {<<d, Leaf(p), Inum(p)>>}
          /\ \A ds \in others : EntryAt(ds).inode # Inum(p)
      BY <2>4, <3>2, <3>o DEF Edges
    <3>4. Edges' = {<<ds[1], EntryAt(ds).name, EntryAt(ds).inode>> : ds \in others}
                     \cup {<<d, n, Inum(p)>>}
      <4>e. PICK e : e = <<d, s>>
        OBVIOUS
      <4>1. Places = others \cup {e}
        BY <2>4, <3>o, <4>e
      <4>2. e[1] = d /\ EntryAt(e)'.name = n /\ EntryAt(e).inode = Inum(p)
        BY <2>4, <2>15, <4>e
      <4>3. \A ds \in others : EntryAt(ds)'.name = EntryAt(ds).name
        BY <2>15, <3>o
      <4> QED
        BY <3>1, <4>1, <4>2, <4>3
    <3> QED
      BY <3>3, <3>4
  <2> QED
    BY <2>d, <2>n, <2>11, <2>16, <2>18, <2>19, <2>20, <2>21, <2>22, <2>23 DEF Sound, Keeps
<1> QED
  BY <1>1, <1>2 DEF fs_rename

-----------------------------------------------------------------------------
(* Blocks taken and given back. *)

\* What it takes for a block to be marked in use.
LEMMA MapOfOwners ==
    ASSUME BlocksMatchOwners
    PROVE  \A b : b \in block_map <=> \/ b \in 0 .. DataStart - 1
                                     \/ b \in lost
                                     \/ \E i \in Live : b \in Held(i)
BY DEF BlocksMatchOwners

\* Inode i gives back what its pointers lead to, except the blocks in left:
\* the block bitmap stays exact and free blocks and inodes stay blank,
\* whether i stays in use or not.
LEMMA GiveBack ==
    ASSUME Sound, NEW i \in Live, NEW left \in SUBSET rest[i],
           block_map' = block_map \ (Held(i) \ left),
           lost' = lost \cup left,
           direct0' = direct0_cleared(i), rest' = rest_cleared(i),
           inode_map' = inode_map \/ inode_map' = inode_map \ {i},
           \A b \in Held(i) \ left : disk'[b] = ZeroBlock,
           \A b \in FreeBlocks : disk'[b] = disk[b]
    PROVE  BlocksMatchOwners' /\ (FreeBlocksAreZero => FreeBlocksAreZero') /\ FreeInodesAreClean'
<1>1. i \in Inodes /\ Live \subseteq Inodes /\ direct0[i] \notin rest[i]
      /\ i \in inode_map /\ i # 0
  BY LiveIsPositive DEF Sound, BlocksMatchOwners, Live
<1>2. direct0 \in [Inodes -> {0} \cup DataBlocks] /\ rest \in [Inodes -> SUBSET DataBlocks]
  BY DEF Sound, TypeOK
<1>3. direct0'[i] = 0 /\ rest'[i] = {}
  BY <1>1, <1>2 DEF direct0_cleared, rest_cleared
<1>4. \A j \in Inodes \ {i} : direct0'[j] = direct0[j] /\ rest'[j] = rest[j]
  BY <1>1, <1>2 DEF direct0_cleared, rest_cleared
<1>5. Held(i)' = {} /\ \A j \in Inodes \ {i} : Held(j)' = Held(j)
  BY <1>3, <1>4 DEF Held
<1>6. Live' \subseteq Live /\ Live \ {i} \subseteq Live'
  BY <1>1 DEF Live
<1>7. /\ \A j \in Live \ {i} : Held(j) \cap Held(i) = {}
      /\ Held(i) \cap lost = {} /\ left \subseteq Held(i)
      /\ Held(i) \subseteq DataBlocks
      /\ \A b \in DataBlocks : b \notin 0 .. DataStart - 1
  BY <1>1, HeldTyped DEF Sound, BlocksMatchOwners, Held
<1>8. block_map' = (0 .. DataStart - 1) \cup lost' \cup UNION {Held(j)' : j \in Live'}
  <2> SUFFICES ASSUME NEW b
               PROVE  b \in block_map' <=> \/ b \in 0 .. DataStart - 1
                                           \/ b \in lost'
                                           \/ \E j \in Live' : b \in Held(j)'
    OBVIOUS
  <2>1. b \in block_map <=> \/ b \in 0 .. DataStart - 1
                            \/ b \in lost
                            \/ \E j \in Live : b \in Held(j)
    BY MapOfOwners DEF Sound
  <2>2. (\E j \in Live : b \in Held(j))
          <=> b \in Held(i) \/ \E j \in Live \ {i} : b \in Held(j)
    OBVIOUS
  <2>3. (\E j \in Live' : b \in Held(j)') <=> \E j \in Live \ {i} : b \in Held(j)
    BY <1>1, <1>5, <1>6
  <2> QED
    BY <2>1, <2>2, <2>3, <1>7
<1>9. BlocksMatchOwners'
  <2>1. \A j, k \in Live' : j # k => Held(j)' \cap Held(k)' = {}
    BY <1>1, <1>5, <1>6 DEF Sound, BlocksMatchOwners
  <2>2. \A j \in Live' : Held(j)' \cap lost' = {} /\ direct0'[j] \notin rest'[j]
    <3> SUFFICES ASSUME NEW j \in Live'
                 PROVE  Held(j)' \cap lost' = {} /\ direct0'[j] \notin rest'[j]
      OBVIOUS
    <3>1. CASE j = i
      BY <1>3, <1>5, <3>1
    <3>2. CASE j # i
      <4>1. j \in Live \ {i} /\ Held(j)' = Held(j)
            /\ direct0'[j] = direct0[j] /\ rest'[j] = rest[j]
        BY <3>2, <1>1, <1>4, <1>5, <1>6
      <4>2. Held(j) \cap lost = {} /\ direct0[j] \notin rest[j]
        BY <4>1 DEF Sound, BlocksMatchOwners
      <4> QED
        BY <4>1, <4>2, <1>7
    <3> QED
      BY <3>1, <3>2
  <2> QED
    BY <1>8, <2>1, <2>2 DEF BlocksMatchOwners
<1>10. FreeBlocksAreZero => FreeBlocksAreZero'
  BY DEF FreeBlocksAreZero, FreeBlocks, Sound
<1>11. FreeInodesAreClean'
  BY <1>1, <1>5 DEF FreeInodesAreClean, FreeInodes, Sound
<1> QED
  BY <1>9, <1>10, <1>11

\* Zeroing blocks keeps the disk's type.
LEMMA ZeroedDisk ==
    ASSUME TypeOK, NEW S \in SUBSET DataBlocks
    PROVE  /\ Zeroed(disk, S) \in [{0} \cup DataBlocks -> [Slots -> SlotValues]]
           /\ \A b \in S : Zeroed(disk, S)[b] = ZeroBlock
           /\ \A b \in ({0} \cup DataBlocks) \ S : Zeroed(disk, S)[b] = disk[b]
<1>1. disk \in [{0} \cup DataBlocks -> [Slots -> SlotValues]]
  BY DEF TypeOK
<1>2. ZeroBlock \in [Slots -> SlotValues]
  BY DEF ZeroBlock, SlotValues
<1> QED
  BY <1>1, <1>2 DEF Zeroed

\* Nulling the pointers of an inode keeps their types.
LEMMA ClearedTyped ==
    ASSUME TypeOK, NEW i
    PROVE  /\ direct0_cleared(i) \in [Inodes -> {0} \cup DataBlocks]
           /\ rest_cleared(i) \in [Inodes -> SUBSET DataBlocks]
BY DEF TypeOK, direct0_cleared, rest_cleared

\* A free block belongs to no inode in use.
LEMMA FreeAreOthers ==
    ASSUME Sound
    PROVE  /\ FreeBlocks \subseteq DataBlocks
           /\ \A i \in Live : FreeBlocks \cap Held(i) = {}
<1>1. \A b \in FreeBlocks : b \in Blocks /\ b \notin block_map
  BY DEF FreeBlocks
<1>2. \A b \in FreeBlocks : b \notin 0 .. DataStart - 1
                           /\ \A i \in Live : b \notin Held(i)
  BY <1>1, MapOfOwners DEF Sound
<1> QED
  BY <1>1, <1>2, SizesAssumption DEF Blocks, DataBlocks

\* What the free blocks hold does not matter to the rest.
LEMMA FreeContents ==
    ASSUME Sound, UNCHANGED <<inode_map, block_map, mode, direct0, rest, lost>>,
           ret' \in Replies,
           disk' \in [{0} \cup DataBlocks -> [Slots -> SlotValues]],
           \A b \in ({0} \cup DataBlocks) \ FreeBlocks : disk'[b] = disk[b]
    PROVE  Sound' /\ (TreeIsConnected => TreeIsConnected')
<1>1. TypeOK'
  BY DEF Sound, TypeOK
<1>2. BlocksMatchOwners' /\ FreeInodesAreClean'
  BY SameBlocks DEF Sound
<1>3. \A d \in LiveDirs : disk'[direct0'[d]] = disk[direct0[d]]
  <2> SUFFICES ASSUME NEW d \in LiveDirs PROVE disk'[direct0[d]] = disk[direct0[d]]
    OBVIOUS
  <2>1. direct0[d] \in DataBlocks /\ direct0[d] \in Held(d) /\ d \in Live
    BY DirHasBlock, LiveIsPositive DEF Held, Sound
  <2>2. direct0[d] \notin FreeBlocks
    BY <2>1, FreeAreOthers
  <2> QED
    BY <2>1, <2>2
<1>4. /\ EntriesMatchInodes' /\ NamesAreUnique' /\ KindsAgree'
      /\ TreeIsConnected => TreeIsConnected'
  BY <1>3, SameTree DEF Sound
<1>5. DirectoriesHaveOneBlock'
  <2>1. 0 \notin FreeBlocks
    BY FreeAreOthers, SizesAssumption DEF DataBlocks
  <2>2. disk'[0] = disk[0]
    BY <2>1
  <2>3. Live' = Live
    BY DEF Live
  <2> QED
    BY <2>2, <2>3 DEF Sound, DirectoriesHaveOneBlock
<1> QED
  BY <1>1, <1>2, <1>4, <1>5 DEF Sound

\* truncate frees, zeroes and forgets a file's blocks together.
LEMMA TruncateKeeps ==
    ASSUME Sound, NEW p \in Seq(RawNames), Len(p) <= MAX_PATH_LEN,
           fs_truncate(p)
    PROVE  Keeps /\ SameShape
<1>1. CASE Fail("truncate", <<p>>, EINVAL) \/ Fail("truncate", <<p>>, file_error(p))
  BY <1>1, FailKeeps, ErrorCodes, ArgumentLists DEF Calls, Errors
<1>2. ASSUME file_error(p) = OK,
             NEW left \in Skipped(Inum(p)),
             block_map' = block_map \ (Held(Inum(p)) \ left),
             disk' = Zeroed(disk, Held(Inum(p)) \ left),
             lost' = lost \cup left,
             direct0' = direct0_cleared(Inum(p)),
             rest' = rest_cleared(Inum(p)),
             ret' = Reply("truncate", <<p>>, OK, {}),
             UNCHANGED <<inode_map, mode>>
      PROVE  Keeps /\ SameShape
  <2>i. PICK i : i = Inum(p)
    OBVIOUS
  <2>1. i \in Live /\ i \in Inodes /\ ~S_ISDIR(mode[i])
    BY <1>2, <2>i, ResolvesToLive DEF file_error, OK, EISDIR
  <2>2. left \in SUBSET rest[i]
    BY <1>2, <2>i DEF Skipped
  <2>s. PICK S : S = Held(i) \ left
    OBVIOUS
  <2>3. S \in SUBSET DataBlocks /\ lost' \subseteq DataBlocks
    BY <1>2, <2>1, <2>2, <2>s, HeldTyped DEF Sound, TypeOK, Held
  <2>4. /\ disk' \in [{0} \cup DataBlocks -> [Slots -> SlotValues]]
        /\ \A b \in S : disk'[b] = ZeroBlock
        /\ \A b \in ({0} \cup DataBlocks) \ S : disk'[b] = disk[b]
    BY <1>2, <2>i, <2>s, <2>3, ZeroedDisk DEF Sound
  <2>5. TypeOK'
    <3>1. ret' \in Replies
      BY <1>2, RepliedOK DEF Calls
    <3>2. block_map' \subseteq Blocks
      BY <1>2 DEF Sound, TypeOK
    <3> QED
      BY <1>2, <2>3, <2>4, <3>1, <3>2, ClearedTyped DEF Sound, TypeOK
  <2>6. BlocksMatchOwners' /\ (FreeBlocksAreZero => FreeBlocksAreZero') /\ FreeInodesAreClean'
    <3>1. \A b \in FreeBlocks : disk'[b] = disk[b]
      BY <2>1, <2>4, <2>s, FreeAreOthers
    <3> QED
      BY <1>2, <2>i, <2>s, <2>1, <2>2, <2>4, <3>1, GiveBack
  <2>7. /\ direct0'[i] = 0 /\ rest'[i] = {}
        /\ \A j \in Inodes \ {i} : direct0'[j] = direct0[j] /\ rest'[j] = rest[j]
    BY <1>2, <2>i, <2>1 DEF direct0_cleared, rest_cleared, Sound, TypeOK
  <2>8. /\ EntriesMatchInodes' /\ NamesAreUnique' /\ KindsAgree'
        /\ TreeIsConnected => TreeIsConnected'
        /\ SameShape
    <3>1. \A d \in LiveDirs : disk'[direct0'[d]] = disk[direct0[d]]
      <4> SUFFICES ASSUME NEW d \in LiveDirs
                   PROVE  disk'[direct0'[d]] = disk[direct0[d]]
        OBVIOUS
      <4>1. d # i /\ d \in Inodes
        BY <2>1, LiveIsPositive DEF LiveDirs, Sound
      <4>2. direct0[d] \in DataBlocks \ S
        BY <2>1, <2>s, <4>1, DirHasBlock, DirBlocksDiffer DEF Sound
      <4> QED
        BY <2>4, <2>7, <4>1, <4>2
    <3> QED
      BY <1>2, <3>1, SameTree DEF Sound
  <2>9. DirectoriesHaveOneBlock'
    <3>1. Listing(disk'[0]) = {}
      BY <2>3, <2>4, HeldTyped DEF DirectoriesHaveOneBlock, Sound
    <3>2. Live' = Live /\ Live \subseteq Inodes
      BY <1>2, LiveIsPositive DEF Live, Sound
    <3> QED
      BY <1>2, <2>1, <2>7, <3>1, <3>2 DEF DirectoriesHaveOneBlock, Sound
  <2> QED
    BY <2>5, <2>6, <2>8, <2>9 DEF Sound, Keeps
<1> QED
  BY <1>1, <1>2 DEF fs_truncate

-----------------------------------------------------------------------------
(* Removal: unlink and rmdir. *)

\* Only the empty directory i, or a file i, reads differently in d0 and dsk.
OnlyChanged(i, d0, dsk) ==
    /\ \A e \in LiveDirs \ {i} :
          d0[e] = direct0[e] /\ dsk[direct0[e]] = disk[direct0[e]]
    /\ S_ISDIR(mode[i]) => /\ Listing(disk[direct0[i]]) = {}
                           /\ Listing(dsk[d0[i]]) = {}

\* Clearing the pointers and blocks of a file, or of an empty directory,
\* does not change how the parent of the path resolves, not even when i is
\* on the way there: its entries are none, before and after.
LEMMA SameParent ==
    ASSUME Sound, NEW i \in Live, NEW d0, NEW dsk,
           OnlyChanged(i, d0, dsk),
           NEW p \in Seq(RawNames), p # <<>>, Len(p) <= MAX_PATH_LEN
    PROVE  translate(mode, d0, dsk, Parent(p)) = ParentInum(p)
<1> USE DEF OnlyChanged
<1>1. ASSUME NEW e \in Live \cup Errors, NEW n \in RawNames
      PROVE  Step(mode, d0, dsk, e, n) = Step(mode, direct0, disk, e, n)
  <2>1. CASE e \in Errors
    BY <2>1, LiveIsPositive DEF Step, Sound
  <2>2. CASE e \in Live /\ ~S_ISDIR(mode[e])
    BY <2>2 DEF Step, lookup
  <2>3. CASE e \in LiveDirs /\ e # i
    BY <2>3 DEF Step, lookup
  <2>4. CASE e \in LiveDirs /\ e = i
    <3>1. Matches(disk[direct0[i]], n) = {} /\ Matches(dsk[d0[i]], n) = {}
      BY <2>4, EmptyListing DEF LiveDirs
    <3> QED
      BY <2>4, <3>1 DEF Step, lookup
  <2> QED
    BY <2>1, <2>2, <2>3, <2>4 DEF LiveDirs
<1>2. ROOT_INODE \in Live \cup Errors
  BY DEF Sound, EntriesMatchInodes, Live, ROOT_INODE
<1>3. SameSteps(mode, direct0, disk, mode, d0, dsk, Live \cup Errors)
  BY <1>1, <1>2, StepStaysLive DEF SameSteps
<1>4. Parent(p) \in Seq(RawNames) /\ Len(Parent(p)) <= MAX_PATH_LEN
  BY ParentSeq, PathsAssumption
<1>5. translate(mode, d0, dsk, Parent(p)) = translate(mode, direct0, disk, Parent(p))
  BY <1>3, <1>4, TranslateSame
<1> QED
  BY <1>5 DEF ParentInum

\* The local variables of a removal: inode i, its blocks S, the inode table
\* and the disk once they are cleared, and the parent's block found in these.
Target(p, i, left, S, d0, dsk, blk) ==
    /\ i = Inum(p) /\ left \subseteq rest[i] /\ S = Held(i) \ left
    /\ d0 = direct0_cleared(i) /\ dsk = Zeroed(disk, S)
    /\ blk = d0[translate(mode, d0, dsk, Parent(p))]
    /\ S_ISDIR(mode[i]) => Listing(disk[direct0[i]]) = {}

\* Slot s of the parent d, whose block blk is as it was, is the one entry with
\* the name and leads to i.
EntryOf(p, i, dsk, blk, d, s) ==
    /\ d = ParentInum(p) /\ blk = direct0[d]
    /\ dsk[direct0[d]] = disk[direct0[d]]
    /\ <<d, s>> \in Places /\ EntryAt(<<d, s>>).inode = i
    /\ Matches(disk[direct0[d]], Leaf(p)) = {s}
    /\ ClearedInodes(disk[direct0[d]], Leaf(p)) = {i}

\* The entry that unlink and rmdir clear is that of the path's inode.
LEMMA TheEntry ==
    ASSUME Sound,
           NEW p \in Seq(RawNames), p # <<>>, Len(p) <= MAX_PATH_LEN,
           NEW i \in Live, NEW left, NEW S, NEW d0, NEW dsk, NEW blk,
           Target(p, i, left, S, d0, dsk, blk)
    PROVE  \E d \in LiveDirs \ {i}, s \in Slots : EntryOf(p, i, dsk, blk, d, s)
<1>1. i \in Inodes /\ Live \subseteq Inodes /\ i > 0 /\ LiveDirs \subseteq Live
  BY LiveIsPositive DEF Sound
<1>2. S \subseteq Held(i) /\ S \in SUBSET DataBlocks /\ 0 \notin DataBlocks
  BY <1>1, HeldTyped DEF Sound, Target
<1>3. /\ \A b \in ({0} \cup DataBlocks) \ S : dsk[b] = disk[b]
      /\ dsk[0] = disk[0]
  BY <1>2, ZeroedDisk DEF Sound, Target
<1>4. d0[i] = 0 /\ \A e \in Inodes \ {i} : d0[e] = direct0[e]
  BY <1>1 DEF direct0_cleared, Sound, TypeOK, Target
<1>5. ASSUME NEW e \in LiveDirs \ {i}
      PROVE  d0[e] = direct0[e] /\ dsk[direct0[e]] = disk[direct0[e]]
  <2>1. direct0[e] \in DataBlocks \ S
    BY <1>2, DirHasBlock, DirBlocksDiffer DEF Sound
  <2> QED
    BY <1>1, <1>3, <1>4, <2>1
<1>6. Listing(dsk[d0[i]]) = {}
  BY <1>3, <1>4 DEF Sound, DirectoriesHaveOneBlock
<1>7. translate(mode, d0, dsk, Parent(p)) = ParentInum(p)
  <2>1. OnlyChanged(i, d0, dsk)
    BY <1>5, <1>6 DEF OnlyChanged, Target
  <2> QED
    BY <2>1, SameParent
<1>d. PICK d : d = ParentInum(p)
  OBVIOUS
<1>8. PICK s \in Slots : /\ d \in LiveDirs /\ <<d, s>> \in Places
                        /\ EntryAt(<<d, s>>).name = Leaf(p)
                        /\ EntryAt(<<d, s>>).inode = i
  BY <1>1, <1>d, Found DEF Target
<1>9. d # i
  <2> SUFFICES ASSUME d = i PROVE FALSE
    OBVIOUS
  <2>1. s \in Slots /\ disk[direct0[i]][s].valid /\ S_ISDIR(mode[i])
    BY <1>8 DEF Places, LiveDirs
  <2> QED
    BY <2>1, EmptyListing DEF Target
<1>10. Matches(disk[direct0[d]], Leaf(p)) = {s}
  BY <1>8, OnlyMatch DEF Sound
<1>11. ClearedInodes(disk[direct0[d]], Leaf(p)) = {i}
  BY <1>8, <1>10 DEF ClearedInodes, EntryAt
<1>12. blk = direct0[d] /\ dsk[direct0[d]] = disk[direct0[d]]
  BY <1>5, <1>7, <1>8, <1>9, <1>d DEF Target
<1> QED
  BY <1>d, <1>8, <1>9, <1>10, <1>11, <1>12 DEF EntryOf

\* Slot s of directory d, the entry of inode i, is given up with i.
LEMMA RemoveEntry ==
    ASSUME Sound, NEW i, NEW d \in LiveDirs \ {i}, NEW s \in Slots,
           <<d, s>> \in Places, EntryAt(<<d, s>>).inode = i,
           inode_map' = inode_map \ {i}, mode' = mode,
           \A ds \in Places : ds[1] # i,
           SlotSet(LiveDirs \ {i}, d, s, Stale)
    PROVE  /\ EntriesMatchInodes' /\ NamesAreUnique' /\ KindsAgree'
           /\ TreeIsConnected => TreeIsConnected'
           /\ Edges' = Edges \ {<<d, EntryAt(<<d, s>>).name, i>>}
<1>1. i \in Live \ {ROOT_INODE} /\ i # 0
  BY DEF Sound, EntriesMatchInodes, Live
<1>2. Live' = Live \ {i} /\ LiveDirs' = LiveDirs \ {i}
  BY DEF Live, LiveDirs
<1>3. \A ds \in (LiveDirs \ {i}) \X Slots :
         EntryAt(ds)' = IF ds = <<d, s>> THEN Stale ELSE EntryAt(ds)
  BY OneSlot
<1>4. Places = {ds \in (LiveDirs \ {i}) \X Slots : EntryAt(ds).valid}
  BY DEF Places, EntryAt
<1>5. Places' = {ds \in (LiveDirs \ {i}) \X Slots : EntryAt(ds)'.valid}
  BY <1>2 DEF Places, EntryAt
<1>6. Places' = Places \ {<<d, s>>}
  BY <1>3, <1>4, <1>5 DEF Stale, Unused
<1>7. \A ds \in Places' : EntryAt(ds)' = EntryAt(ds) /\ EntryAt(ds).inode # i
  <2>1. \A ds \in Places \ {<<d, s>>} : EntryAt(ds)' = EntryAt(ds)
    BY <1>3, <1>4
  <2>2. \A ds \in Places \ {<<d, s>>} : EntryAt(ds).inode # i
    BY DEF Sound, EntriesMatchInodes
  <2> QED
    BY <1>6, <2>1, <2>2
<1>8. EntriesMatchInodes'
  <2>1. {0, ROOT_INODE} \subseteq inode_map' /\ S_ISDIR(mode'[ROOT_INODE])
    BY <1>1 DEF Sound, EntriesMatchInodes
  <2>2. \A ds \in Places' : EntryAt(ds)'.inode \in Live' \ {ROOT_INODE}
    BY <1>2, <1>6, <1>7 DEF Sound, EntriesMatchInodes
  <2>3. \A ds, et \in Places' : EntryAt(ds)'.inode = EntryAt(et)'.inode => ds = et
    BY <1>6, <1>7 DEF Sound, EntriesMatchInodes
  <2>4. ASSUME NEW j \in Live' \ {ROOT_INODE}
        PROVE  \E ds \in Places' : EntryAt(ds)'.inode = j
    <3>1. PICK ds \in Places : EntryAt(ds).inode = j
      BY <1>2 DEF Sound, EntriesMatchInodes
    <3>2. ds \in Places'
      BY <1>2, <1>6, <3>1
    <3> QED
      BY <1>7, <3>1, <3>2
  <2> QED
    BY <2>1, <2>2, <2>3, <2>4 DEF EntriesMatchInodes
<1>9. NamesAreUnique'
  BY <1>6, <1>7 DEF NamesAreUnique, Sound
<1>10. KindsAgree'
  BY <1>6, <1>7 DEF KindsAgree, Sound
\* What is closed without i and its entry is closed with both.
<1>11. ASSUME TreeIsConnected PROVE TreeIsConnected'
  <2> SUFFICES ASSUME NEW S \in SUBSET Live', ClosedUnderEntries(S)'
               PROVE  S = Live'
    BY DEF TreeIsConnected
  <2>1. \A ds \in Places : ds[1] \in S \cup {i} => EntryAt(ds).inode \in S \cup {i}
    <3> SUFFICES ASSUME NEW ds \in Places, ds[1] \in S
                 PROVE  EntryAt(ds).inode \in S \cup {i}
      OBVIOUS
    <3>1. CASE ds = <<d, s>>
      BY <3>1
    <3>2. CASE ds # <<d, s>>
      BY <1>6, <1>7, <3>2 DEF ClosedUnderEntries
    <3> QED
      BY <3>1, <3>2
  <2>2. ClosedUnderEntries(S \cup {i})
    BY <2>1 DEF ClosedUnderEntries
  <2>3. S \cup {i} = Live
    BY <1>1, <1>2, <1>11, <2>2 DEF TreeIsConnected
  <2> QED
    BY <1>2, <2>3
<1>12. Edges' = Edges \ {<<d, EntryAt(<<d, s>>).name, i>>}
  <2>1. Edges' = {<<ds[1], EntryAt(ds).name, EntryAt(ds).inode>> : ds \in Places'}
    BY <1>7 DEF Edges
  <2>2. \A ds \in Places : EntryAt(ds).inode = i <=> ds = <<d, s>>
    BY <1>6, <1>7
  <2> QED
    BY <1>6, <2>1, <2>2 DEF Edges
<1> QED
  BY <1>8, <1>9, <1>10, <1>11, <1>12

\* What unlink and rmdir do: i goes, with the blocks S its pointers lead to
\* and the slots of block blk that carry the name.
Removal(p, i, left, S, d0, dsk, blk) ==
    /\ block_map' = block_map \ S /\ lost' = lost \cup left
    /\ direct0' = d0 /\ rest' = rest_cleared(i)
    /\ disk' = [dsk EXCEPT ![blk] = Invalidated(@, Leaf(p))]
    /\ \/ inode_map' = inode_map \ ClearedInodes(dsk[blk], Leaf(p))
       \/ inode_map' = inode_map \ ({i} \cup ClearedInodes(dsk[blk], Leaf(p)))
    /\ mode' = mode /\ ret' \in Replies

\* Clearing an entry, its inode's bit and the inode's blocks together.
LEMMA RemovedKeeps ==
    ASSUME Sound,
           NEW p \in Seq(RawNames), p # <<>>, Len(p) <= MAX_PATH_LEN,
           NEW i \in Live, NEW left, NEW S, NEW d0, NEW dsk, NEW blk,
           Target(p, i, left, S, d0, dsk, blk),
           Removal(p, i, left, S, d0, dsk, blk)
    PROVE  /\ Keeps /\ inode_map' = inode_map \ {i}
           /\ Edges' = Edges \ {<<ParentInum(p), Leaf(p), i>>}
<1>1. i \in Inodes /\ Live \subseteq Inodes /\ i > 0 /\ LiveDirs \subseteq Live
  BY LiveIsPositive DEF Sound
<1>2. S \subseteq Held(i) /\ S \in SUBSET DataBlocks /\ left \subseteq DataBlocks
      /\ 0 \notin DataBlocks
  BY <1>1, HeldTyped DEF Sound, Held, Target
<1>e. PICK d \in LiveDirs \ {i}, s \in Slots : EntryOf(p, i, dsk, blk, d, s)
  BY TheEntry
<1>3. /\ blk = direct0[d]
      /\ dsk[direct0[d]] = disk[direct0[d]]
      /\ <<d, s>> \in Places /\ EntryAt(<<d, s>>).inode = i
      /\ Matches(disk[direct0[d]], Leaf(p)) = {s}
      /\ ClearedInodes(disk[direct0[d]], Leaf(p)) = {i}
  BY <1>e DEF EntryOf
<1>4. inode_map' = inode_map \ {i}
  BY <1>3 DEF Removal
<1>5. /\ dsk \in [{0} \cup DataBlocks -> [Slots -> SlotValues]]
      /\ \A b \in S : dsk[b] = ZeroBlock
      /\ \A b \in ({0} \cup DataBlocks) \ S : dsk[b] = disk[b]
  <2>1. TypeOK /\ dsk = Zeroed(disk, S)
    BY DEF Sound, Target
  <2> QED
    BY <1>2, <2>1, ZeroedDisk
<1>6. blk \in DataBlocks /\ blk # 0 /\ blk \notin S /\ blk \notin FreeBlocks
      /\ disk[blk] \in [Slots -> SlotValues]
  <2>1. blk \in Held(d) /\ d \in Live /\ blk # 0 /\ blk \in DataBlocks
        /\ disk[blk] \in [Slots -> SlotValues]
    BY <1>1, <1>3, DirHasBlock DEF Held, Sound
  <2>2. blk \notin S
    BY <1>2, <1>3, DirBlocksDiffer
  <2> QED
    BY <2>1, <2>2, FreeAreOthers
<1>7. disk' = [dsk EXCEPT ![blk] = [t \in Slots |-> IF t = s THEN Stale ELSE disk[blk][t]]]
  BY <1>3 DEF Invalidated, Removal
<1>8. /\ d0[i] = 0 /\ rest'[i] = {}
      /\ \A e \in Inodes \ {i} : d0[e] = direct0[e] /\ rest'[e] = rest[e]
  BY <1>1 DEF direct0_cleared, rest_cleared, Sound, TypeOK, Removal, Target
<1>9. TypeOK'
  <2>1. [t \in Slots |-> IF t = s THEN Stale ELSE disk[blk][t]] \in [Slots -> SlotValues]
    BY <1>6 DEF SlotValues
  <2>2. disk' \in [{0} \cup DataBlocks -> [Slots -> SlotValues]]
    BY <1>5, <1>6, <1>7, <2>1
  <2>3. inode_map' \subseteq Inodes /\ block_map' \subseteq Blocks /\ lost' \subseteq DataBlocks
    BY <1>2, <1>4 DEF Sound, TypeOK, Removal
  <2> QED
    BY <2>2, <2>3, ClearedTyped DEF Sound, TypeOK, Removal, Target
<1>10. BlocksMatchOwners' /\ (FreeBlocksAreZero => FreeBlocksAreZero') /\ FreeInodesAreClean'
  <2>1. \A b \in Held(i) \ left : disk'[b] = ZeroBlock
    BY <1>2, <1>5, <1>6, <1>7 DEF Target
  <2>2. \A b \in FreeBlocks : disk'[b] = disk[b]
    BY <1>2, <1>5, <1>6, <1>7, FreeAreOthers
  <2> QED
    BY <1>4, <2>1, <2>2, GiveBack DEF Removal, Target
<1>11. /\ EntriesMatchInodes' /\ NamesAreUnique' /\ KindsAgree'
       /\ TreeIsConnected => TreeIsConnected'
       /\ Edges' = Edges \ {<<d, EntryAt(<<d, s>>).name, i>>}
  <2>1. \A e \in LiveDirs \ {i} : direct0'[e] = direct0[e]
    BY <1>1, <1>8 DEF Removal
  <2>2. \A e \in (LiveDirs \ {i}) \ {d} : disk'[direct0[e]] = disk[direct0[e]]
    <3> SUFFICES ASSUME NEW e \in (LiveDirs \ {i}) \ {d}
                 PROVE  disk'[direct0[e]] = disk[direct0[e]]
      OBVIOUS
    <3>1. direct0[e] \in DataBlocks \ S
      BY <1>2, DirHasBlock, DirBlocksDiffer DEF Sound
    <3>2. direct0[e] # blk
      BY <1>1, <1>3, DirBlocksDiffer
    <3> QED
      BY <1>5, <1>7, <3>1, <3>2
  <2>3. \A t \in Slots : disk'[direct0[d]][t]
                          = IF t = s THEN Stale ELSE disk[direct0[d]][t]
    BY <1>3, <1>5, <1>6, <1>7
  <2>4. SlotSet(LiveDirs \ {i}, d, s, Stale)
    BY <2>1, <2>2, <2>3 DEF SlotSet
  <2>5. \A ds \in Places : ds[1] # i
    <3> SUFFICES ASSUME NEW ds \in Places, ds[1] = i PROVE FALSE
      OBVIOUS
    <3>1. S_ISDIR(mode[i]) /\ ds[2] \in Slots /\ disk[direct0[i]][ds[2]].valid
      BY DEF Places, LiveDirs
    <3> QED
      BY <3>1, EmptyListing DEF Target
  <2>6. mode' = mode
    BY DEF Removal
  <2> QED
    BY <1>3, <1>4, <2>4, <2>5, <2>6, RemoveEntry
<1>12. DirectoriesHaveOneBlock'
  <2>1. Listing(disk'[0]) = {}
    BY <1>2, <1>5, <1>6, <1>7 DEF DirectoriesHaveOneBlock, Sound
  <2>2. Live' = Live \ {i}
    BY <1>4 DEF Live
  <2>3. \A j \in Live \ {i} : direct0'[j] = direct0[j] /\ rest'[j] = rest[j]
    BY <1>1, <1>8 DEF Removal
  <2> QED
    BY <2>1, <2>2, <2>3 DEF DirectoriesHaveOneBlock, Sound, Removal
<1>13. d = ParentInum(p) /\ EntryAt(<<d, s>>).name = Leaf(p)
  <2>1. d = ParentInum(p) /\ s \in Matches(disk[direct0[d]], Leaf(p))
    BY <1>3, <1>e DEF EntryOf
  <2> QED
    BY <2>1 DEF Matches, EntryAt
<1> QED
  BY <1>4, <1>9, <1>10, <1>11, <1>12, <1>13 DEF Sound, Keeps

\* What unlink works on, when it is not refused, and what it does.
LEMMA UnlinkTarget ==
    ASSUME Sound,
           NEW p \in Seq(RawNames), p # <<>>, Len(p) <= MAX_PATH_LEN,
           fs_unlink(p), ret'.code = OK
    PROVE  \E i, left, d0, dsk, blk :
              /\ i \in Live /\ i = Inum(p) /\ left \in Skipped(i)
              /\ Target(p, i, left, Held(i) \ left, d0, dsk, blk)
              /\ Removal(p, i, left, Held(i) \ left, d0, dsk, blk)
<1>1. file_error(p) = OK /\ ~Fail("unlink", <<p>>, file_error(p))
  BY DEF fs_unlink, Fail, Reply
<1>i. PICK i : i = Inum(p)
  OBVIOUS
<1>2. i \in Live /\ ~S_ISDIR(mode[i])
  BY <1>1, <1>i, ResolvesToLive DEF file_error, OK, EISDIR
<1>3. ret' \in Replies
  BY <1>1, RepliedOK DEF fs_unlink, Calls
<1>d. PICK d0 : d0 = direct0_cleared(i)
  OBVIOUS
<1>4. PICK left, dsk, blk :
        /\ left \in Skipped(i)
        /\ dsk = Zeroed(disk, Held(i) \ left)
        /\ blk = d0[translate(mode, d0, dsk, Parent(p))]
        /\ Removal(p, i, left, Held(i) \ left, d0, dsk, blk)
  BY <1>1, <1>i, <1>d, <1>3 DEF fs_unlink, Removal
<1>5. Target(p, i, left, Held(i) \ left, d0, dsk, blk)
  BY <1>i, <1>d, <1>2, <1>4 DEF Skipped, Target
<1> QED
  BY <1>2, <1>4, <1>5, <1>i

\* unlink removes the one entry of the file with its inode and blocks.
LEMMA UnlinkKeeps ==
    ASSUME Sound,
           NEW p \in Seq(RawNames), p # <<>>, Len(p) <= MAX_PATH_LEN,
           fs_unlink(p)
    PROVE  Keeps
<1>1. CASE Fail("unlink", <<p>>, file_error(p))
  BY <1>1, FailKeeps, ErrorCodes, ArgumentLists DEF Calls
<1>2. CASE ~Fail("unlink", <<p>>, file_error(p))
  <2>1. ret'.code = OK
    BY <1>2 DEF fs_unlink, Reply
  <2> QED
    BY <2>1, UnlinkTarget, RemovedKeeps
<1> QED
  BY <1>1, <1>2

\* What rmdir works on, when it is not refused, and what it does.
LEMMA RmdirTarget ==
    ASSUME Sound,
           NEW p \in Seq(RawNames), p # <<>>, Len(p) <= MAX_PATH_LEN,
           fs_rmdir(p), ret'.code = OK
    PROVE  \E i, d0, dsk, blk :
              /\ i \in Live /\ i = Inum(p)
              /\ Target(p, i, {}, {direct0[i]}, d0, dsk, blk)
              /\ Removal(p, i, {}, {direct0[i]}, d0, dsk, blk)
<1>1. rmdir_error(p) = OK /\ ~Fail("rmdir", <<p>>, rmdir_error(p))
  BY DEF fs_rmdir, Fail, Reply
<1>i. PICK i : i = Inum(p)
  OBVIOUS
<1>2. ~(i < 0) /\ S_ISDIR(mode[i]) /\ Listing(disk[direct0[i]]) = {}
  BY <1>1, <1>i DEF rmdir_error, OK, ENOTDIR, ENOTEMPTY
<1>3. i \in LiveDirs /\ i \in Live
  BY <1>i, <1>2, ResolvesToLive DEF LiveDirs
<1>4. Held(i) = {direct0[i]} /\ rest[i] = {}
  BY <1>3, DirHasBlock DEF Held, Sound
<1>5. ret' \in Replies
  BY <1>1, RepliedOK DEF fs_rmdir, Calls
<1>6. rest_cleared(i) = rest
  BY <1>4 DEF rest_cleared, Sound, TypeOK
<1>d. PICK d0 : d0 = direct0_cleared(i)
  OBVIOUS
<1>e. PICK dsk : dsk = Zeroed(disk, {direct0[i]})
  OBVIOUS
<1>b. PICK blk : blk = d0[translate(mode, d0, dsk, Parent(p))]
  OBVIOUS
<1>7. Target(p, i, {}, {direct0[i]}, d0, dsk, blk)
  BY <1>i, <1>d, <1>e, <1>b, <1>2, <1>4 DEF Target
<1>8. Removal(p, i, {}, {direct0[i]}, d0, dsk, blk)
  BY <1>1, <1>i, <1>d, <1>e, <1>b, <1>4, <1>5, <1>6 DEF fs_rmdir, Removal
<1> QED
  BY <1>3, <1>7, <1>8, <1>i

\* rmdir removes an empty directory, its entry, inode and block.
LEMMA RmdirKeeps ==
    ASSUME Sound,
           NEW p \in Seq(RawNames), p # <<>>, Len(p) <= MAX_PATH_LEN,
           fs_rmdir(p)
    PROVE  Keeps
<1>1. CASE Fail("rmdir", <<p>>, rmdir_error(p))
  BY <1>1, FailKeeps, ErrorCodes, ArgumentLists DEF Calls
<1>2. CASE ~Fail("rmdir", <<p>>, rmdir_error(p))
  <2>1. ret'.code = OK
    BY <1>2 DEF fs_rmdir, Reply
  <2> QED
    BY <2>1, RmdirTarget, RemovedKeeps
<1> QED
  BY <1>1, <1>2

-----------------------------------------------------------------------------
(* Creation: create and mkdir. *)

\* Slot s of directory d, which was free, names the new inode i.
LEMMA AddEntry ==
    ASSUME Sound, NEW d \in LiveDirs, NEW s \in Slots,
           NEW i \in Inodes \ inode_map, NEW n, NEW isDir, NEW v,
           v = Entry(n, i, isDir), isDir <=> S_ISDIR(mode'[i]),
           Matches(disk[direct0[d]], n) = {}, ~disk[direct0[d]][s].valid,
           inode_map' = inode_map \cup {i},
           \A j \in Live : mode'[j] = mode[j],
           SlotSet(LiveDirs, d, s, v),
           isDir => \A t \in Slots : ~disk'[direct0'[i]][t].valid
    PROVE  /\ EntriesMatchInodes' /\ NamesAreUnique' /\ KindsAgree'
           /\ TreeIsConnected => TreeIsConnected'
           /\ Edges' = Edges \cup {<<d, n, i>>}
<1>1. /\ i # 0 /\ i # ROOT_INODE /\ i \notin Live /\ ROOT_INODE \in Live
      /\ Live' = Live \cup {i}
  BY DEF Sound, EntriesMatchInodes, Live, ROOT_INODE
<1>2. /\ v.valid /\ v.inode = i /\ v.name = n /\ v.isDir = isDir
  BY DEF Entry
<1>3. LiveDirs \subseteq LiveDirs' /\ LiveDirs' \subseteq LiveDirs \cup {i}
      /\ (i \in LiveDirs' => isDir)
  BY <1>1 DEF LiveDirs
<1>4. \A ds \in LiveDirs \X Slots :
         EntryAt(ds)' = IF ds = <<d, s>> THEN v ELSE EntryAt(ds)
  BY OneSlot
<1>5. Places = {ds \in LiveDirs \X Slots : EntryAt(ds).valid}
  BY DEF Places, EntryAt
<1>6. Places' = {ds \in LiveDirs \X Slots : EntryAt(ds)'.valid}
  <2> DEFINE P == {ds \in LiveDirs \X Slots : EntryAt(ds)'.valid}
  <2>1. Places' = {ds \in LiveDirs' \X Slots : EntryAt(ds)'.valid}
    BY DEF Places, EntryAt
  <2>2. \A ds \in LiveDirs' \X Slots : EntryAt(ds)'.valid => ds[1] # i
    <3> SUFFICES ASSUME NEW t \in Slots, i \in LiveDirs', EntryAt(<<i, t>>)'.valid
                 PROVE  FALSE
      OBVIOUS
    <3> QED
      BY <1>3 DEF EntryAt
  <2> QED
    BY <1>3, <2>1, <2>2
<1>7. Places' = Places \cup {<<d, s>>} /\ <<d, s>> \notin Places
  <2>1. ~EntryAt(<<d, s>>).valid
    BY DEF EntryAt
  <2> QED
    BY <1>2, <1>4, <1>5, <1>6, <2>1
<1>8. /\ \A ds \in Places : /\ EntryAt(ds)' = EntryAt(ds)
                            /\ EntryAt(ds).inode \in Live \ {ROOT_INODE}
      /\ \A ds \in Places' : ds = <<d, s>> => EntryAt(ds)' = v
  <2>1. \A ds \in Places : EntryAt(ds)' = EntryAt(ds)
    BY <1>4, <1>5, <1>7
  <2>2. \A ds \in Places : EntryAt(ds).inode \in Live \ {ROOT_INODE}
    BY DEF Sound, EntriesMatchInodes
  <2>3. \A ds \in Places' : ds = <<d, s>> => EntryAt(ds)' = v
    BY <1>4, <1>6
  <2> QED
    BY <2>1, <2>2, <2>3
<1>9. EntriesMatchInodes'
  <2>1. {0, ROOT_INODE} \subseteq inode_map' /\ S_ISDIR(mode'[ROOT_INODE])
    BY <1>1 DEF Sound, EntriesMatchInodes
  <2>2. \A ds \in Places' : EntryAt(ds)'.inode \in Live' \ {ROOT_INODE}
    BY <1>1, <1>2, <1>7, <1>8
  <2>3. \A ds, et \in Places' : EntryAt(ds)'.inode = EntryAt(et)'.inode => ds = et
    <3> SUFFICES ASSUME NEW ds \in Places', NEW et \in Places',
                        EntryAt(ds)'.inode = EntryAt(et)'.inode
                 PROVE  ds = et
      OBVIOUS
    <3>1. CASE ds \in Places /\ et \in Places
      BY <1>8, <3>1 DEF Sound, EntriesMatchInodes
    <3>2. CASE ds \notin Places \/ et \notin Places
      BY <1>1, <1>2, <1>7, <1>8, <3>2
    <3> QED
      BY <3>1, <3>2
  <2>4. ASSUME NEW j \in Live' \ {ROOT_INODE}
        PROVE  \E ds \in Places' : EntryAt(ds)'.inode = j
    <3>1. CASE j = i
      BY <1>2, <1>7, <1>8, <3>1
    <3>2. CASE j # i
      <4>1. PICK ds \in Places : EntryAt(ds).inode = j
        BY <1>1, <3>2 DEF Sound, EntriesMatchInodes
      <4> QED
        BY <1>7, <1>8, <4>1
    <3> QED
      BY <3>1, <3>2
  <2> QED
    BY <2>1, <2>2, <2>3, <2>4 DEF EntriesMatchInodes
<1>10. NamesAreUnique'
  <2>1. \A ds \in Places : ds[1] = d => EntryAt(ds).name # n
    <3>1. \A t : <<d, t>> \in Places => EntryAt(<<d, t>>).name # n
      BY MatchIsPlace
    <3> QED
      BY <3>1 DEF Places
  <2> SUFFICES ASSUME NEW ds \in Places', NEW et \in Places', ds[1] = et[1],
                      EntryAt(ds)'.name = EntryAt(et)'.name
               PROVE  ds = et
    BY DEF NamesAreUnique
  <2>2. CASE ds \in Places /\ et \in Places
    BY <1>8, <2>2 DEF NamesAreUnique, Sound
  <2>3. CASE ds \notin Places /\ et \in Places
    BY <1>2, <1>7, <1>8, <2>1, <2>3
  <2>4. CASE ds \in Places /\ et \notin Places
    BY <1>2, <1>7, <1>8, <2>1, <2>4
  <2>5. CASE ds \notin Places /\ et \notin Places
    BY <1>7, <2>5
  <2> QED
    BY <2>2, <2>3, <2>4, <2>5
<1>11. KindsAgree'
  <2> SUFFICES ASSUME NEW ds \in Places'
               PROVE  EntryAt(ds)'.isDir <=> S_ISDIR(mode'[EntryAt(ds)'.inode])
    BY DEF KindsAgree
  <2>1. CASE ds \in Places
    BY <1>8, <2>1 DEF KindsAgree, Sound
  <2>2. CASE ds = <<d, s>>
    BY <1>2, <1>8, <2>2
  <2> QED
    BY <1>7, <2>1, <2>2
\* What is closed with the new entry is closed without it and i, so it has
\* the directory of the entry, and i.
<1>12. ASSUME TreeIsConnected PROVE TreeIsConnected'
  <2> SUFFICES ASSUME NEW S \in SUBSET Live', ClosedUnderEntries(S)'
               PROVE  S = Live'
    BY DEF TreeIsConnected
  <2>1. \A ds \in Places : ds[1] \in S \cap Live => EntryAt(ds).inode \in S \cap Live
    BY <1>7, <1>8 DEF ClosedUnderEntries
  <2>2. ClosedUnderEntries(S \cap Live)
    BY <1>1, <2>1 DEF ClosedUnderEntries
  <2>3. S \cap Live = Live
    BY <1>12, <2>2 DEF TreeIsConnected
  <2>4. i \in S
    <3>1. d \in S
      BY <2>3 DEF LiveDirs
    <3> QED
      BY <1>2, <1>7, <1>8, <3>1 DEF ClosedUnderEntries
  <2> QED
    BY <1>1, <2>3, <2>4
<1>13. Edges' = Edges \cup {<<d, n, i>>}
  <2>1. EntryAt(<<d, s>>)' = v
    BY <1>7, <1>8
  <2>2. Edges' = {<<ds[1], EntryAt(ds)'.name, EntryAt(ds)'.inode>> : ds \in Places}
                   \cup {<<d, n, i>>}
    BY <1>2, <1>7, <2>1 DEF Edges
  <2>3. {<<ds[1], EntryAt(ds)'.name, EntryAt(ds)'.inode>> : ds \in Places} = Edges
    BY <1>8 DEF Edges
  <2> QED
    BY <2>2, <2>3
<1> QED
  BY <1>9, <1>10, <1>11, <1>12, <1>13

\* create returns an errno value or OK.
LEMMA CreateErrorCode ==
    ASSUME Sound, NEW p \in Seq(RawNames), p # <<>>, Len(p) <= MAX_PATH_LEN
    PROVE  create_error(p) \in Errors \cup {OK}
<1>1. Parent(p) \in Seq(RawNames) /\ Len(Parent(p)) <= MAX_PATH_LEN
  BY ParentSeq, PathsAssumption
<1>2. ParentInum(p) \in Live \cup Errors
  BY <1>1, Resolves DEF ParentInum, Inum
<1>3. ParentInum(p) < 0 => ParentInum(p) \in Errors
  BY <1>2, LiveIsPositive DEF Sound
<1>4. ENOTDIR \in Errors /\ EEXIST \in Errors /\ ENOSPC \in Errors
  BY DEF Errors
<1> QED
  BY <1>3, <1>4 DEF create_error

\* What create gets when it is not refused.
LEMMA Allotted ==
    ASSUME Sound, NEW p \in Seq(RawNames), p # <<>>, Len(p) <= MAX_PATH_LEN,
           create_error(p) = OK
    PROVE  LET d == ParentInum(p)
               free == FreeSlots(disk[direct0[d]])
           IN /\ d \in LiveDirs
              /\ Matches(disk[direct0[d]], Leaf(p)) = {}
              /\ FirstOf(free) \in Slots
              /\ ~disk[direct0[d]][FirstOf(free)].valid
              /\ get_next_inode \in FreeInodes
              /\ get_next_block \in FreeBlocks
<1> DEFINE d == ParentInum(p)
           free == FreeSlots(disk[direct0[d]])
<1>1. /\ ~(d < 0) /\ S_ISDIR(mode[d]) /\ ~(Inum(p) > 0) /\ free # {}
      /\ ~(get_next_inode < 0) /\ ~(get_next_block < 0)
  BY DEF create_error, OK, ENOTDIR, EEXIST, ENOSPC
<1>2. Parent(p) \in Seq(RawNames) /\ Len(Parent(p)) <= MAX_PATH_LEN
  BY ParentSeq, PathsAssumption
<1>3. d \in LiveDirs
  <2>1. d \in Live \cup Errors
    BY <1>2, Resolves DEF ParentInum, Inum
  <2> QED
    BY <1>1, <2>1, LiveIsPositive DEF Sound, LiveDirs
<1>4. Matches(disk[direct0[d]], Leaf(p)) = {}
  BY <1>1, <1>3, NotFound
<1>5. FirstOf(free) \in free
  <2>1. free \in SUBSET Nat
    BY SizesAssumption DEF FreeSlots, Slots
  <2> QED
    BY <1>1, <2>1, FirstOfLeast
<1>6. get_next_inode \in FreeInodes
  <2>1. FreeInodes \in SUBSET Nat
    BY DEF FreeInodes, Inodes
  <2>2. FreeInodes # {}
    BY <1>1 DEF get_next_inode, ENOSPC
  <2> QED
    BY <2>1, <2>2, FirstOfLeast DEF get_next_inode
<1>7. get_next_block \in FreeBlocks
  <2>1. FreeBlocks \in SUBSET Nat
    BY DEF FreeBlocks, Blocks
  <2>2. FreeBlocks # {}
    BY <1>1 DEF get_next_block, ENOSPC
  <2> QED
    BY <2>1, <2>2, FirstOfLeast DEF get_next_block
<1> QED
  BY <1>3, <1>4, <1>5, <1>6, <1>7 DEF FreeSlots

\* The assignments of a successful create, given what it found.
Creation(d, slot, i, b, v, type, isDir) ==
    /\ inode_map' = inode_map \cup {i}
    /\ mode' = [mode EXCEPT ![i] = {type}]
    /\ disk' = [disk EXCEPT ![direct0[d]] = [@ EXCEPT ![slot] = v]]
    /\ block_map' = IF isDir THEN block_map \cup {b} ELSE block_map
    /\ direct0' = IF isDir THEN [direct0 EXCEPT ![i] = b] ELSE direct0
    /\ rest' = rest /\ lost' = lost /\ ret' \in Replies

\* A new entry, its inode and, for a directory, its block together.
LEMMA CreationKeeps ==
    ASSUME Sound, NEW d \in LiveDirs, NEW slot \in Slots,
           NEW i \in FreeInodes, NEW b \in FreeBlocks,
           NEW n \in RawNames, NEW isDir \in BOOLEAN, NEW type, NEW v,
           isDir => disk[b] = ZeroBlock,
           v = Entry(n, i, isDir),
           type = IF isDir THEN IFDIR ELSE IFREG,
           Matches(disk[direct0[d]], n) = {}, ~disk[direct0[d]][slot].valid,
           Creation(d, slot, i, b, v, type, isDir)
    PROVE  Keeps /\ Edges' = Edges \cup {<<d, n, i>>}
<1>1. /\ i \in Inodes \ inode_map /\ i # 0 /\ i \notin Live
      /\ Live \subseteq Inodes /\ LiveDirs \subseteq Live
      /\ Live' = Live \cup {i}
  BY LiveIsPositive
     DEF FreeInodes, Sound, EntriesMatchInodes, Live, Creation
<1>2. /\ b \in DataBlocks /\ b \in Blocks /\ b # 0 /\ b \notin block_map
      /\ \A j \in Live : b \notin Held(j)
  BY FreeAreOthers, HeldTyped DEF FreeBlocks, Sound
<1>3. Held(i) = {} /\ direct0[i] = 0 /\ rest[i] = {}
  BY DEF FreeInodesAreClean, Sound, Held
<1>4. /\ direct0[d] \in DataBlocks /\ direct0[d] # 0 /\ direct0[d] # b
      /\ direct0[d] \notin FreeBlocks
      /\ disk[direct0[d]] \in [Slots -> SlotValues]
  <2>1. direct0[d] \in Held(d)
    BY DirHasBlock DEF Held, Sound
  <2> QED
    BY <1>1, <1>2, <2>1, DirHasBlock, FreeAreOthers DEF Sound
<1>5. disk \in [{0} \cup DataBlocks -> [Slots -> SlotValues]]
      /\ 0 \notin DataBlocks
  BY HeldTyped DEF Sound, TypeOK
<1>6. /\ disk'[direct0[d]] = [disk[direct0[d]] EXCEPT ![slot] = v]
      /\ \A c \in ({0} \cup DataBlocks) \ {direct0[d]} : disk'[c] = disk[c]
  BY <1>4, <1>5 DEF Creation
<1>7. /\ mode'[i] = {type} /\ \A j \in Live : mode'[j] = mode[j]
      /\ isDir <=> S_ISDIR(mode'[i])
  <2>1. mode'[i] = {type} /\ \A j \in Live : mode'[j] = mode[j]
    BY <1>1 DEF Creation, Sound, TypeOK
  <2>2. {IFREG} # {IFDIR}
    BY DEF IFREG, IFDIR
  <2> QED
    BY <2>1, <2>2 DEF S_ISDIR
<1>8. /\ direct0'[i] = IF isDir THEN b ELSE 0
      /\ rest'[i] = {}
      /\ \A j \in Inodes \ {i} : direct0'[j] = direct0[j] /\ rest'[j] = rest[j]
  BY <1>1, <1>3 DEF Creation, Sound, TypeOK
<1>9. TypeOK'
  <2>1. v \in SlotValues
    BY <1>1 DEF SlotValues, Entries
  <2>2. disk'[direct0[d]] \in [Slots -> SlotValues]
    BY <1>4, <1>6, <2>1
  <2>3. disk' \in [{0} \cup DataBlocks -> [Slots -> SlotValues]]
    BY <1>5, <1>6, <2>2 DEF Creation
  <2>4. mode' \in [Inodes -> SUBSET {IFDIR, IFREG}]
    BY <1>1 DEF Creation, Sound, TypeOK
  <2>5. direct0' \in [Inodes -> {0} \cup DataBlocks]
    BY <1>1, <1>2 DEF Creation, Sound, TypeOK
  <2>6. inode_map' \subseteq Inodes /\ block_map' \subseteq Blocks
    BY <1>1, <1>2 DEF Creation, Sound, TypeOK
  <2>7. rest' = rest /\ lost' = lost /\ ret' \in Replies
    BY DEF Creation
  <2> QED
    BY <2>3, <2>4, <2>5, <2>6, <2>7 DEF Sound, TypeOK
<1>10. /\ EntriesMatchInodes' /\ NamesAreUnique' /\ KindsAgree'
       /\ TreeIsConnected => TreeIsConnected'
       /\ Edges' = Edges \cup {<<d, n, i>>}
  <2>1. \A e \in LiveDirs : direct0'[e] = direct0[e]
    BY <1>1, <1>8
  <2>2. \A e \in LiveDirs \ {d} : disk'[direct0[e]] = disk[direct0[e]]
    <3> SUFFICES ASSUME NEW e \in LiveDirs \ {d}
                 PROVE  disk'[direct0[e]] = disk[direct0[e]]
      OBVIOUS
    <3>1. direct0[e] \in DataBlocks
      BY DirHasBlock DEF Sound
    <3>2. direct0[e] # direct0[d]
      BY <1>1, DirBlocksDiffer
    <3> QED
      BY <1>6, <3>1, <3>2
  <2>3. \A t \in Slots : disk'[direct0[d]][t]
                          = IF t = slot THEN v ELSE disk[direct0[d]][t]
    BY <1>4, <1>6
  <2>4. SlotSet(LiveDirs, d, slot, v)
    BY <2>1, <2>2, <2>3 DEF SlotSet
  <2>5. isDir => \A t \in Slots : ~disk'[direct0'[i]][t].valid
    <3> SUFFICES ASSUME isDir, NEW t \in Slots
                 PROVE  ~disk'[direct0'[i]][t].valid
      OBVIOUS
    <3>1. disk'[direct0'[i]] = disk[b]
      BY <1>2, <1>4, <1>6, <1>8
    <3> QED
      BY <3>1 DEF ZeroBlock, Zero, Unused
  <2>6. inode_map' = inode_map \cup {i}
    BY DEF Creation
  <2> QED
    BY <1>1, <1>7, <2>4, <2>5, <2>6, AddEntry
<1>11. /\ Held(i)' = IF isDir THEN {b} ELSE {}
       /\ \A j \in Inodes \ {i} : Held(j)' = Held(j)
  BY <1>2, <1>8 DEF Held
<1>12. BlocksMatchOwners'
  <2>1. block_map' = (0 .. DataStart - 1) \cup lost' \cup UNION {Held(j)' : j \in Live'}
    <3> SUFFICES ASSUME NEW c
                 PROVE  c \in block_map' <=> \/ c \in 0 .. DataStart - 1
                                             \/ c \in lost'
                                             \/ \E j \in Live' : c \in Held(j)'
      OBVIOUS
    <3>1. c \in block_map <=> \/ c \in 0 .. DataStart - 1
                              \/ c \in lost
                              \/ \E j \in Live : c \in Held(j)
      BY MapOfOwners DEF Sound
    <3>2. (\E j \in Live' : c \in Held(j)')
            <=> c \in Held(i)' \/ \E j \in Live : c \in Held(j)
      BY <1>1, <1>11
    <3>3. lost' = lost /\ (c \in block_map' <=> c \in block_map \/ (isDir /\ c = b))
      BY DEF Creation
    <3> QED
      BY <1>11, <3>1, <3>2, <3>3
  <2>2. \A j, k \in Live' : j # k => Held(j)' \cap Held(k)' = {}
    BY <1>1, <1>2, <1>11 DEF Sound, BlocksMatchOwners
  <2>3. b \notin lost /\ lost' = lost
    BY <1>2, MapOfOwners DEF Sound, Creation
  <2>4. \A j \in Live' : Held(j)' \cap lost' = {} /\ direct0'[j] \notin rest'[j]
    BY <1>1, <1>8, <1>11, <2>3 DEF Sound, BlocksMatchOwners
  <2> QED
    BY <2>1, <2>2, <2>4 DEF BlocksMatchOwners
<1>13. FreeBlocksAreZero => FreeBlocksAreZero'
  <2>1. FreeBlocks' \subseteq FreeBlocks
    BY DEF FreeBlocks, Creation
  <2>2. \A c \in FreeBlocks : disk'[c] = disk[c]
    BY <1>4, <1>6, FreeAreOthers
  <2> QED
    BY <2>1, <2>2 DEF FreeBlocksAreZero, Sound
<1>14. FreeInodesAreClean'
  <2>1. FreeInodes' = FreeInodes \ {i} /\ FreeInodes \subseteq Inodes
    BY DEF FreeInodes, Creation
  <2> QED
    BY <1>11, <2>1 DEF FreeInodesAreClean, Sound
<1>15. DirectoriesHaveOneBlock'
  <2>1. Listing(disk'[0]) = {}
    BY <1>4, <1>5, <1>6 DEF DirectoriesHaveOneBlock, Sound
  <2>2. \A j \in Live' : IF S_ISDIR(mode'[j])
                         THEN direct0'[j] # 0 /\ rest'[j] = {}
                         ELSE direct0'[j] = 0 => rest'[j] = {}
    <3> SUFFICES ASSUME NEW j \in Live'
                 PROVE  IF S_ISDIR(mode'[j]) THEN direct0'[j] # 0 /\ rest'[j] = {}
                        ELSE direct0'[j] = 0 => rest'[j] = {}
      OBVIOUS
    <3>1. CASE j = i
      BY <1>2, <1>7, <1>8, <3>1
    <3>2. CASE j \in Live
      <4>1. mode'[j] = mode[j] /\ direct0'[j] = direct0[j] /\ rest'[j] = rest[j]
        BY <1>1, <1>7, <1>8, <3>2
      <4> QED
        BY <3>2, <4>1 DEF DirectoriesHaveOneBlock, Sound
    <3> QED
      BY <1>1, <3>1, <3>2
  <2> QED
    BY <2>1, <2>2 DEF DirectoriesHaveOneBlock
<1> QED
  BY <1>9, <1>10, <1>12, <1>13, <1>14, <1>15 DEF Sound, Keeps

\* What create takes, when it is not refused, and what it does with it.
LEMMA Created ==
    ASSUME Sound,
           NEW p \in Seq(RawNames), p # <<>>, Len(p) <= MAX_PATH_LEN,
           NEW call \in Calls, NEW isDir, NEW type,
           create(call, p, type, isDir), ret'.code = OK
    PROVE  \E d, slot, i, b, v :
              /\ d = ParentInum(p) /\ d \in LiveDirs
              /\ slot \in Slots /\ ~disk[direct0[d]][slot].valid
              /\ i \in FreeInodes /\ b \in FreeBlocks /\ b = get_next_block
              /\ v = Entry(Leaf(p), i, isDir)
              /\ Matches(disk[direct0[d]], Leaf(p)) = {}
              /\ Creation(d, slot, i, b, v, type, isDir)
<1>1. create_error(p) = OK /\ ~Fail(call, <<p>>, create_error(p))
  BY DEF create, Fail, Reply
<1>d. PICK d : d = ParentInum(p)
  OBVIOUS
<1>s. PICK slot : slot = FirstOf(FreeSlots(disk[direct0[d]]))
  OBVIOUS
<1>i. PICK i : i = get_next_inode
  OBVIOUS
<1>b. PICK b : b = get_next_block
  OBVIOUS
<1>v. PICK v : v = Entry(Leaf(p), i, isDir)
  OBVIOUS
<1>2. /\ d \in LiveDirs /\ Matches(disk[direct0[d]], Leaf(p)) = {}
      /\ slot \in Slots /\ ~disk[direct0[d]][slot].valid
      /\ i \in FreeInodes /\ b \in FreeBlocks
  BY <1>1, <1>d, <1>s, <1>i, <1>b, Allotted
<1>3. ret' \in Replies
  BY <1>1, RepliedOK DEF create
<1>4. Creation(d, slot, i, b, v, type, isDir)
  BY <1>1, <1>d, <1>s, <1>i, <1>b, <1>v, <1>3
     DEF create, CreatedMap, Creation
<1> QED
  BY <1>2, <1>4, <1>d, <1>b, <1>v

\* create and mkdir, which needs a block that is zero.
LEMMA CreateKeeps ==
    ASSUME Sound,
           NEW p \in Seq(RawNames), p # <<>>, Len(p) <= MAX_PATH_LEN,
           NEW call \in Calls, NEW isDir \in BOOLEAN, NEW type,
           type = IF isDir THEN IFDIR ELSE IFREG,
           isDir => \A b \in FreeBlocks : b = get_next_block => disk[b] = ZeroBlock,
           create(call, p, type, isDir)
    PROVE  Keeps
<1>1. CASE Fail(call, <<p>>, create_error(p))
  BY <1>1, FailKeeps, CreateErrorCode, ArgumentLists
<1>2. CASE ~Fail(call, <<p>>, create_error(p))
  <2>1. ret'.code = OK
    BY <1>2 DEF create, Reply
  <2>2. PICK d, slot, i, b, v :
           /\ d = ParentInum(p) /\ d \in LiveDirs
           /\ slot \in Slots /\ ~disk[direct0[d]][slot].valid
           /\ i \in FreeInodes /\ b \in FreeBlocks /\ b = get_next_block
           /\ v = Entry(Leaf(p), i, isDir)
           /\ Matches(disk[direct0[d]], Leaf(p)) = {}
           /\ Creation(d, slot, i, b, v, type, isDir)
    BY <2>1, Created
  <2>3. Leaf(p) \in RawNames
    BY LeafTyped
  <2>4. isDir => disk[b] = ZeroBlock
    BY <2>2
  <2> QED
    BY <2>2, <2>3, <2>4, CreationKeeps
<1> QED
  BY <1>1, <1>2

-----------------------------------------------------------------------------
(* Growth: write. *)

\* A file that takes free blocks, of which it may lose some.
LEMMA GrowKeeps ==
    ASSUME Sound, NEW i \in Live, ~S_ISDIR(mode[i]),
           NEW S \in SUBSET FreeBlocks, NEW kept \in SUBSET S,
           Grow(i, S, kept), ret' \in Replies
    PROVE  Keeps /\ SameShape
<1>1. /\ i \in Inodes /\ Live \subseteq Inodes /\ LiveDirs \subseteq Live
      /\ i \notin LiveDirs
      /\ Live' = Live /\ mode' = mode /\ inode_map' = inode_map
  BY LiveIsPositive DEF Sound, Live, LiveDirs, Grow
<1>f. PICK first : first = IF direct0[i] = 0 /\ S # {} THEN FirstOf(S) ELSE direct0[i]
  OBVIOUS
<1>2. /\ S \subseteq DataBlocks /\ DataBlocks \subseteq Blocks
      /\ \A j \in Live : S \cap Held(j) = {}
      /\ 0 \notin DataBlocks /\ 0 \notin S /\ S \cap block_map = {}
  BY FreeAreOthers, HeldTyped DEF Sound, FreeBlocks
<1>3. /\ direct0[i] # 0 => first = direct0[i] /\ first \notin S
      /\ direct0[i] = 0 => \/ first \in S
                           \/ first = 0 /\ S = {}
  <2>1. S # {} => FirstOf(S) \in S
    <3>1. S \in SUBSET Nat
      BY DEF FreeBlocks, Blocks
    <3> QED
      BY <3>1, FirstOfLeast
  <2>2. direct0[i] # 0 => direct0[i] \in Held(i)
    BY DEF Held
  <2> QED
    BY <1>2, <1>f, <2>1, <2>2
<1>4. /\ direct0'[i] = first /\ rest'[i] = rest[i] \cup (kept \ {first})
      /\ \A j \in Inodes \ {i} : direct0'[j] = direct0[j] /\ rest'[j] = rest[j]
      /\ block_map' = block_map \cup S
      /\ lost' = lost \cup (S \ (kept \cup {first}))
  BY <1>1, <1>f DEF Grow, Sound, TypeOK
<1>5. /\ \A b \in ({0} \cup DataBlocks) \ S : disk'[b] = disk[b]
      /\ disk' \in [{0} \cup DataBlocks -> [Slots -> SlotValues]]
  <2>1. FileBlock \in [Slots -> SlotValues]
    BY DEF FileBlock, SlotValues
  <2>2. disk \in [{0} \cup DataBlocks -> [Slots -> SlotValues]]
    BY DEF Sound, TypeOK
  <2>3. disk' = [b \in {0} \cup DataBlocks |-> IF b \in S THEN FileBlock ELSE disk[b]]
    BY <2>2 DEF Grow
  <2> QED
    BY <2>1, <2>2, <2>3
<1>k. PICK K : K = kept \cup ({first} \cap S)
  OBVIOUS
<1>6. /\ K \subseteq S /\ lost' = lost \cup (S \ K)
      /\ Held(i)' = Held(i) \cup K
      /\ \A j \in Inodes \ {i} : Held(j)' = Held(j)
  <2>1. K \subseteq S /\ lost' = lost \cup (S \ K)
    BY <1>4, <1>k
  <2>2. Held(i)' = ({first} \ {0}) \cup rest[i] \cup (kept \ {first})
    BY <1>4 DEF Held
  <2>3. Held(i) = ({direct0[i]} \ {0}) \cup rest[i]
    BY DEF Held
  <2>4. Held(i)' = Held(i) \cup K
    <3>1. CASE direct0[i] # 0
      <4>1. first = direct0[i] /\ first \notin S /\ K = kept
        BY <1>3, <1>k, <3>1
      <4> QED
        BY <2>2, <2>3, <3>1, <4>1
    <3>2. CASE direct0[i] = 0 /\ first \in S
      <4>1. K = kept \cup {first} /\ first # 0
        BY <1>2, <1>k, <3>2
      <4> QED
        BY <2>2, <2>3, <3>2, <4>1
    <3>3. CASE direct0[i] = 0 /\ first = 0 /\ S = {}
      <4>1. K = {} /\ kept = {}
        BY <1>k, <3>3
      <4> QED
        BY <2>2, <2>3, <3>3, <4>1
    <3> QED
      BY <1>3, <3>1, <3>2, <3>3
  <2>5. \A j \in Inodes \ {i} : Held(j)' = Held(j)
    BY <1>4 DEF Held
  <2> QED
    BY <2>1, <2>4, <2>5
<1>7. TypeOK'
  <2>1. first \in {0} \cup DataBlocks
    BY <1>1, <1>2, <1>3 DEF Sound, TypeOK
  <2>2. direct0' \in [Inodes -> {0} \cup DataBlocks]
    BY <1>1, <1>f, <2>1 DEF Grow, Sound, TypeOK
  <2>3. rest' \in [Inodes -> SUBSET DataBlocks]
    BY <1>1, <1>2 DEF Grow, Sound, TypeOK
  <2>4. block_map' \subseteq Blocks /\ lost' \subseteq DataBlocks
    BY <1>2, <1>4 DEF Sound, TypeOK
  <2> QED
    BY <1>1, <1>5, <2>2, <2>3, <2>4 DEF Sound, TypeOK
<1>8. BlocksMatchOwners'
  <2>1. block_map' = (0 .. DataStart - 1) \cup lost' \cup UNION {Held(j)' : j \in Live'}
    <3> SUFFICES ASSUME NEW b
                 PROVE  b \in block_map' <=> \/ b \in 0 .. DataStart - 1
                                             \/ b \in lost'
                                             \/ \E j \in Live' : b \in Held(j)'
      OBVIOUS
    <3>1. b \in block_map <=> \/ b \in 0 .. DataStart - 1
                              \/ b \in lost
                              \/ \E j \in Live : b \in Held(j)
      BY MapOfOwners DEF Sound
    <3>2. (\E j \in Live' : b \in Held(j)') <=> b \in K \/ \E j \in Live : b \in Held(j)
      BY <1>1, <1>6
    <3> QED
      BY <1>4, <1>6, <3>1, <3>2
  <2>2. \A j, k \in Live' : j # k => Held(j)' \cap Held(k)' = {}
    BY <1>1, <1>2, <1>6 DEF Sound, BlocksMatchOwners
  <2>3. S \cap lost = {}
    BY <1>2, MapOfOwners DEF Sound
  <2>4. \A j \in Live' : Held(j)' \cap lost' = {}
    <3> SUFFICES ASSUME NEW j \in Live PROVE Held(j)' \cap lost' = {}
      BY <1>1
    <3>1. Held(j) \cap lost = {} /\ Held(j) \cap S = {}
      BY <1>2 DEF Sound, BlocksMatchOwners
    <3>2. CASE j = i
      BY <1>6, <2>3, <3>1, <3>2
    <3>3. CASE j # i
      BY <1>1, <1>6, <3>1, <3>3
    <3> QED
      BY <3>2, <3>3
  <2>5. \A j \in Live' : direct0'[j] \notin rest'[j]
    <3>1. \A j \in Live : direct0[j] \notin rest[j]
      BY DEF Sound, BlocksMatchOwners
    <3>2. first \notin rest[i]
      <4>1. rest[i] \subseteq Held(i)
        BY DEF Held
      <4> QED
        BY <1>2, <1>3, <3>1, <4>1
    <3> QED
      BY <1>1, <1>4, <3>1, <3>2
  <2> QED
    BY <2>1, <2>2, <2>4, <2>5 DEF BlocksMatchOwners
<1>9. FreeBlocksAreZero => FreeBlocksAreZero'
  <2>1. FreeBlocks' = FreeBlocks \ S
    BY <1>4 DEF FreeBlocks
  <2>2. \A b \in FreeBlocks \ S : disk'[b] = disk[b]
    BY <1>5, FreeAreOthers
  <2> QED
    BY <2>1, <2>2 DEF FreeBlocksAreZero, Sound
<1>10. FreeInodesAreClean'
  <2>1. FreeInodes' = FreeInodes /\ i \notin FreeInodes /\ FreeInodes \subseteq Inodes
    BY <1>1 DEF FreeInodes, Live
  <2> QED
    BY <1>6, <2>1 DEF FreeInodesAreClean, Sound
<1>11. /\ EntriesMatchInodes' /\ NamesAreUnique' /\ KindsAgree'
       /\ TreeIsConnected => TreeIsConnected'
       /\ SameShape
  <2>1. ASSUME NEW d \in LiveDirs PROVE disk'[direct0'[d]] = disk[direct0[d]]
    <3>1. direct0[d] \in DataBlocks /\ direct0[d] \in Held(d)
      BY DirHasBlock DEF Held, Sound
    <3>2. direct0[d] \notin S /\ direct0'[d] = direct0[d]
      BY <1>1, <1>2, <1>4, <3>1
    <3> QED
      BY <1>5, <3>1, <3>2
  <2> QED
    BY <1>1, <2>1, SameTree DEF Sound
<1>12. DirectoriesHaveOneBlock'
  <2>1. Listing(disk'[0]) = {}
    BY <1>2, <1>5 DEF DirectoriesHaveOneBlock, Sound
  <2>2. direct0'[i] = 0 => rest'[i] = {}
    BY <1>2, <1>3, <1>4 DEF DirectoriesHaveOneBlock, Sound
  <2> QED
    BY <1>1, <1>4, <2>1, <2>2 DEF DirectoriesHaveOneBlock, Sound
<1> QED
  BY <1>7, <1>8, <1>9, <1>10, <1>11, <1>12 DEF Sound, Keeps

\* write, also when it ends with ENOSPC.
LEMMA WriteKeeps ==
    ASSUME Sound, NEW p \in Seq(RawNames), Len(p) <= MAX_PATH_LEN,
           fs_write(p)
    PROVE  Keeps /\ SameShape
<1>1. CASE Fail("write", <<p>>, EINVAL) \/ Fail("write", <<p>>, file_error(p))
  BY <1>1, FailKeeps, ErrorCodes, ArgumentLists DEF Calls, Errors
<1>2. ASSUME file_error(p) = OK,
             NEW S \in SUBSET FreeBlocks, NEW kept \in SUBSET S,
             Grow(Inum(p), S, kept), ret' \in Replies
      PROVE  Keeps /\ SameShape
  <2>1. Inum(p) \in Live /\ ~S_ISDIR(mode[Inum(p)])
    BY <1>2, ResolvesToLive DEF file_error, OK, EISDIR
  <2> QED
    BY <1>2, <2>1, GrowKeeps
<1>3. \A S \in FirstFits : S \in SUBSET FreeBlocks
  BY DEF FirstFits
<1>4. /\ Reply("write", <<p>>, OK, {}) \in Replies
      /\ Reply("write", <<p>>, ENOSPC, {}) \in Replies
  BY Replied, ArgumentLists DEF Calls, Errors
<1> QED
  BY <1>1, <1>2, <1>3, <1>4 DEF fs_write

-----------------------------------------------------------------------------
(* Theorems. *)

\* No step of the file system breaks its consistency.
LEMMA NextKeeps ==
    ASSUME ShortPaths, Consistent, Next
    PROVE  Keeps
<1>1. /\ \A p \in Paths : /\ p \in Seq(RawNames) /\ p # <<>>
                          /\ Len(p) <= MAX_PATH_LEN
      /\ <<>> \in Seq(RawNames) /\ Len(<<>>) <= MAX_PATH_LEN
  BY PathsAssumption DEF ShortPaths
<1>2. CASE Read
  BY <1>1, <1>2, ReadKeeps DEF Read, Consistent
<1>3. CASE Chmod
  BY <1>1, <1>3, ChmodKeeps DEF Chmod, Consistent
<1>4. CASE Create
  <2>1. PICK p \in Paths : create("create", p, IFREG, FALSE)
    BY <1>4 DEF Create, fs_create
  <2> QED
    BY <1>1, <2>1, CreateKeeps DEF Calls, Consistent
<1>5. CASE Mkdir
  <2>1. PICK p \in Paths : create("mkdir", p, IFDIR, TRUE)
    BY <1>5 DEF Mkdir, fs_mkdir
  <2> QED
    BY <1>1, <2>1, CreateKeeps DEF Calls, Consistent, FreeBlocksAreZero
<1>6. CASE Write
  BY <1>1, <1>6, WriteKeeps DEF Write, Consistent
<1>7. CASE Truncate
  BY <1>1, <1>7, TruncateKeeps DEF Truncate, Consistent
<1>8. CASE Unlink
  BY <1>1, <1>8, UnlinkKeeps DEF Unlink, Consistent
<1>9. CASE Rmdir
  BY <1>1, <1>9, RmdirKeeps DEF Rmdir, Consistent
<1>10. CASE Rename
  BY <1>1, <1>10, RenameKeeps DEF Rename, Consistent
<1> QED
  BY <1>2, <1>3, <1>4, <1>5, <1>6, <1>7, <1>8, <1>9, <1>10 DEF Next

\* Nor does a step that stutters.
LEMMA StepKeeps ==
    ASSUME ShortPaths, Consistent, [Next]_vars
    PROVE  Keeps
<1>1. CASE UNCHANGED vars
  <2>1. unchanged /\ ret' \in Replies
    BY <1>1 DEF vars, unchanged, Consistent, Sound, TypeOK
  <2> QED
    BY <2>1, NothingChanges DEF Consistent
<1>2. CASE Next
  BY <1>2, NextKeeps
<1> QED
  BY <1>1, <1>2

\* The inductive invariant: bitmaps, inode table and directories agree in
\* every state the handlers can reach.
THEOREM AlwaysConsistent ==
    ASSUME ShortPaths
    PROVE  Spec => []Consistent
<1>1. Init => Consistent
  BY InitConsistent
<1>2. Consistent /\ [Next]_vars => Consistent'
  BY StepKeeps DEF Keeps, Consistent
<1> QED
  BY <1>1, <1>2, PTL DEF Spec

\* Every inode in use is below the root: removing, renaming and making
\* entries cuts nothing off and makes no cycle of directories.
THEOREM TreeStaysConnected ==
    ASSUME ShortPaths
    PROVE  Spec => []TreeIsConnected
<1>1. Init => Consistent /\ TreeIsConnected
  BY InitConsistent, InitConnected
<1>2. Consistent /\ TreeIsConnected /\ [Next]_vars
         => Consistent' /\ TreeIsConnected'
  BY StepKeeps DEF Keeps, Consistent
<1> QED
  BY <1>1, <1>2, PTL DEF Spec

\* The bitmaps mark only inodes and blocks that exist.
THEOREM AlwaysTyped ==
    ASSUME ShortPaths
    PROVE  Spec => []TypeOK
<1>1. Consistent => TypeOK
  BY DEF Consistent, Sound
<1> QED
  BY <1>1, AlwaysConsistent, PTL

\* No inode is lost, freed while an entry names it, or named twice.
THEOREM NoInodeIsLost ==
    ASSUME ShortPaths
    PROVE  Spec => []EntriesMatchInodes
<1>1. Consistent => EntriesMatchInodes
  BY DEF Consistent, Sound
<1> QED
  BY <1>1, AlwaysConsistent, PTL

\* The block bitmap is exact, and no block has two owners.
THEOREM NoBlockIsShared ==
    ASSUME ShortPaths
    PROVE  Spec => []BlocksMatchOwners
<1>1. Consistent => BlocksMatchOwners
  BY DEF Consistent, Sound
<1> QED
  BY <1>1, AlwaysConsistent, PTL

\* A block that get_next_block hands out needs no clearing: it is zero.
THEOREM FreeBlocksStayZero ==
    ASSUME ShortPaths
    PROVE  Spec => []FreeBlocksAreZero
<1>1. Consistent => FreeBlocksAreZero
  BY DEF Consistent
<1> QED
  BY <1>1, AlwaysConsistent, PTL

\* An inode that get_next_inode hands out has no pointer of a former life.
THEOREM FreeInodesStayClean ==
    ASSUME ShortPaths
    PROVE  Spec => []FreeInodesAreClean
<1>1. Consistent => FreeInodesAreClean
  BY DEF Consistent, Sound
<1> QED
  BY <1>1, AlwaysConsistent, PTL

\* lookup and readdir never read a directory through a null pointer.
THEOREM DirectoriesAreReadable ==
    ASSUME ShortPaths
    PROVE  Spec => []DirectoriesHaveOneBlock
<1>1. Consistent => DirectoriesHaveOneBlock
  BY DEF Consistent, Sound
<1> QED
  BY <1>1, AlwaysConsistent, PTL

\* A name is that of one entry, whatever names the callers use.
THEOREM NamesStayUnique ==
    ASSUME ShortPaths
    PROVE  Spec => []NamesAreUnique
<1>1. Consistent => NamesAreUnique
  BY DEF Consistent, Sound
<1> QED
  BY <1>1, AlwaysConsistent, PTL

\* The entry's isDir bit and the inode's mode agree.
THEOREM KindsAlwaysAgree ==
    ASSUME ShortPaths
    PROVE  Spec => []KindsAgree
<1>1. Consistent => KindsAgree
  BY DEF Consistent, Sound
<1> QED
  BY <1>1, AlwaysConsistent, PTL

-----------------------------------------------------------------------------
(* The verdict of fsck.hw3, for images of every size. *)

\* The directories fsck visits are the least closed set: they are in every
\* closed set, and with a directory they have those its entries lead to.
LEMMA LeastClosed ==
    ASSUME NEW S \in SUBSET Inodes, Closed(S)
    PROVE  /\ DirsVisited \subseteq S
           /\ ROOT_INODE \in DirsVisited
           /\ \A ds \in EntriesSeen :
                 EntryAt(ds).isDir /\ EntryAt(ds).inode \in Inodes
                     => EntryAt(ds).inode \in DirsVisited
<1>1. DirsVisited \subseteq S
  BY DEF DirsVisited
<1>2. ROOT_INODE \in DirsVisited
  BY SizesAssumption DEF DirsVisited, Closed, ROOT_INODE, Inodes
<1>3. ASSUME NEW ds \in EntriesSeen, EntryAt(ds).isDir,
             EntryAt(ds).inode \in Inodes
      PROVE  EntryAt(ds).inode \in DirsVisited
  <2> SUFFICES ASSUME NEW T \in SUBSET Inodes, Closed(T)
               PROVE  EntryAt(ds).inode \in T
    BY <1>3 DEF DirsVisited
  <2>1. DirsVisited \subseteq T
    BY DEF DirsVisited
  <2>2. ds \in EntriesOf(T)
    BY <2>1 DEF EntriesSeen, EntriesOf
  <2> QED
    BY <1>3, <2>2 DEF Closed
<1> QED
  BY <1>1, <1>2, <1>3

\* What the entries of visited directories lead to is visited, even if no
\* closed set is known.
LEMMA DirHasRest ==
    ASSUME NEW ds \in EntriesSeen, EntryAt(ds).isDir, EntryAt(ds).inode \in Inodes
    PROVE  EntryAt(ds).inode \in DirsVisited
<1> SUFFICES ASSUME NEW T \in SUBSET Inodes, Closed(T)
             PROVE  EntryAt(ds).inode \in T
  BY DEF DirsVisited
<1>1. ds \in EntriesOf(T)
  BY DEF DirsVisited, EntriesSeen, EntriesOf
<1> QED
  BY <1>1 DEF Closed

-----------------------------------------------------------------------------
(* From a sound image to the verdict. *)

\* On a sound image dir_iter visits the directories in use, all of them.
LEMMA VisitsAll ==
    ASSUME Sound, TreeIsConnected
    PROVE  DirsVisited = LiveDirs /\ EntriesSeen = Places
<1>1. LiveDirs \in SUBSET Inodes /\ Live \subseteq Inodes /\ LiveDirs \subseteq Live
  BY LiveIsPositive DEF Sound
<1>2. EntriesOf(LiveDirs) = Places
  BY DEF EntriesOf, Places, EntryAt
<1>3. /\ ROOT_INODE \in LiveDirs
      /\ \A ds \in Places : /\ EntryAt(ds).inode \in Live
                            /\ EntryAt(ds).isDir <=> EntryAt(ds).inode \in LiveDirs
  BY DEF Sound, EntriesMatchInodes, KindsAgree, Live, LiveDirs, ROOT_INODE
<1>4. DirsVisited \subseteq LiveDirs
  BY <1>1, <1>2, <1>3 DEF DirsVisited, Closed
<1>5. LiveDirs \subseteq DirsVisited
  <2> SUFFICES ASSUME NEW S \in SUBSET Inodes, Closed(S) PROVE LiveDirs \subseteq S
    BY <1>1 DEF DirsVisited
  <2> DEFINE T == {i \in Live : i \in LiveDirs => i \in S}
  <2>1. ASSUME NEW ds \in Places, ds[1] \in T PROVE EntryAt(ds).inode \in T
    <3>1. ds[1] \in S
      BY <2>1 DEF Places
    <3>2. ds \in EntriesOf(S)
      BY <3>1 DEF EntriesOf, Places, EntryAt
    <3> QED
      BY <1>3, <3>2 DEF Closed
  <2>2. ROOT_INODE \in T
    BY <1>1, <1>3 DEF Closed
  <2>3. T = Live
    <3>1. T \in SUBSET Live
      OBVIOUS
    <3>2. ClosedUnderEntries(T)
      BY <2>1, <2>2 DEF ClosedUnderEntries
    <3> QED
      BY <3>1, <3>2 DEF TreeIsConnected
  <2> QED
    BY <1>1, <2>3
<1>6. DirsVisited = LiveDirs
  BY <1>4, <1>5
<1> QED
  BY <1>2, <1>6 DEF EntriesSeen

\* fsck.hw3 reports nothing on a sound image whose inodes are all below
\* the root, except that blocks were lost.
THEOREM FsckAcceptsSound ==
    ASSUME Sound, TreeIsConnected
    PROVE  DiskFormatOK <=> lost = {}
<1> USE DEF Sound
<1>1. DirsVisited = LiveDirs /\ EntriesSeen = Places
  BY VisitsAll
<1>2. /\ LiveDirs \subseteq Live /\ Live \subseteq Inodes
      /\ \A ds \in Places : EntryAt(ds).inode \in Live \ {ROOT_INODE}
  BY LiveIsPositive DEF EntriesMatchInodes
<1>3. found_inodes = Live
  BY <1>1 DEF found_inodes, EntriesMatchInodes, Live, ROOT_INODE
<1>4. found_blocks = UNION {Held(i) : i \in Live}
  BY <1>3 DEF found_blocks
<1>5. DirectoriesReadable
  BY <1>1, <1>2 DEF DirectoriesReadable, DirectoriesHaveOneBlock, LiveDirs
<1>6. InodesMarked /\ InodesUsedOnce
  BY <1>1, <1>2 DEF InodesMarked, InodesUsedOnce, EntriesMatchInodes, Live
<1>7. BlocksMarked
  <2> SUFFICES ASSUME NEW i \in Live, NEW b \in Held(i)
               PROVE  b \in block_map /\ b >= DataStart
    BY <1>1, <1>2 DEF BlocksMarked
  <2>1. b \in block_map
    BY DEF BlocksMatchOwners
  <2>2. b \in DataBlocks
    BY <1>2, HeldTyped
  <2> QED
    BY <2>1, <2>2 DEF DataBlocks
<1>8. BlocksUsedOnce
  BY <1>1, <1>2, <1>3 DEF BlocksUsedOnce, BlocksMatchOwners
<1>9. MetadataMarked
  BY DEF MetadataMarked, BlocksMatchOwners
<1>10. MarkedAreFound <=> lost = {}
  <2>1. inode_map \ {0} \subseteq found_inodes
    BY <1>3 DEF Live
  <2>2. block_map \cap DataBlocks = lost \cup found_blocks
    <3>1. block_map = (0 .. DataStart - 1) \cup lost \cup found_blocks
      BY <1>4 DEF BlocksMatchOwners
    <3>2. lost \subseteq DataBlocks /\ found_blocks \subseteq DataBlocks
      BY <1>2, <1>4, HeldTyped DEF TypeOK
    <3>3. (0 .. DataStart - 1) \cap DataBlocks = {}
      BY HeldTyped
    <3> QED
      BY <3>1, <3>2, <3>3
  <2>3. lost \cap found_blocks = {}
    BY <1>4 DEF BlocksMatchOwners
  <2> QED
    BY <2>1, <2>2, <2>3 DEF MarkedAreFound
<1> QED
  BY <1>5, <1>6, <1>7, <1>8, <1>9, <1>10 DEF DiskFormatOK

\* So the checker, run on what the handlers have in memory, reports exactly
\* the blocks that the two leaks have lost, and nothing else.
THEOREM FsckFindsLeaksOnly ==
    ASSUME ShortPaths
    PROVE  Spec => [](DiskFormatOK <=> lost = {})
<1>1. Consistent /\ TreeIsConnected => (DiskFormatOK <=> lost = {})
  BY FsckAcceptsSound DEF Consistent
<1> QED
  BY <1>1, AlwaysConsistent, TreeStaysConnected, PTL

-----------------------------------------------------------------------------
(* From the verdict to a sound image. *)

\* What fsck.hw3 does not look at: the root's own bits and the pointers of
\* the root but direct[0], whether block 0 holds an entry, whether an entry
\* leads to the reserved inode 0, and whether the mode of a file's inode is
\* that of a file.  Where it is a directory's, a null direct[0] is enough.
NotLookedAt ==
    /\ {0, ROOT_INODE} \subseteq inode_map
    /\ direct0[ROOT_INODE] \in block_map /\ rest[ROOT_INODE] = {}
    /\ Listing(disk[0]) = {}
    /\ \A ds \in EntriesSeen :
          /\ EntryAt(ds).inode \in Inodes \ {0}
          /\ ~EntryAt(ds).isDir /\ S_ISDIR(mode[EntryAt(ds).inode])
                => direct0[EntryAt(ds).inode] = 0

\* Given these, what the checker has found is what is in use.
LEMMA FoundIsInUse ==
    ASSUME TypeOK, NotLookedAt, DiskFormatOK
    PROVE  /\ found_inodes = Live
           /\ DirsVisited \subseteq LiveDirs /\ EntriesSeen = Places
           /\ \A i \in LiveDirs \ DirsVisited : direct0[i] = 0
<1> USE DEF NotLookedAt
<1>1. found_inodes \subseteq Live
  BY DEF found_inodes, DiskFormatOK, InodesMarked, Live, ROOT_INODE
<1>2. Live \subseteq found_inodes
  BY DEF DiskFormatOK, MarkedAreFound, Live
<1>3. Live \subseteq Inodes /\ ROOT_INODE \in Live
  BY DEF TypeOK, Live, ROOT_INODE
<1>4. DirsVisited \subseteq found_inodes
  <2> DEFINE D == {i \in DirsVisited : i \in found_inodes}
  <2>1. D \in SUBSET Inodes
    BY DEF DirsVisited
  <2>2. ROOT_INODE \in D
    BY <1>3 DEF found_inodes, DirsVisited, Closed
  <2>3. ASSUME NEW ds \in EntriesOf(D), EntryAt(ds).isDir
        PROVE  EntryAt(ds).inode \in D
    <3>1. ds \in EntriesSeen
      BY DEF EntriesOf, EntriesSeen
    <3>2. EntryAt(ds).inode \in found_inodes /\ EntryAt(ds).inode \in Inodes
      BY <3>1 DEF found_inodes
    <3>3. EntryAt(ds).inode \in DirsVisited
      <4> SUFFICES ASSUME NEW S \in SUBSET Inodes, Closed(S)
                   PROVE  EntryAt(ds).inode \in S
        BY <3>2 DEF DirsVisited
      <4> QED
        BY <2>3, <3>1, <3>2, LeastClosed DEF Closed, EntriesSeen, EntriesOf
    <3> QED
      BY <3>2, <3>3
  <2>4. Closed(D)
    BY <2>2, <2>3 DEF Closed
  <2>5. DirsVisited \subseteq D
    BY <2>1, <2>4, LeastClosed
  <2> QED
    BY <2>5
<1>5. DirsVisited \subseteq LiveDirs
  BY <1>1, <1>4 DEF DiskFormatOK, DirectoriesReadable, LiveDirs
<1>6. ASSUME NEW i \in LiveDirs \ DirsVisited PROVE direct0[i] = 0
  <2>1. i \in found_inodes /\ S_ISDIR(mode[i]) /\ i \in Inodes
    BY <1>2, <1>3 DEF LiveDirs
  <2>2. i # ROOT_INODE
    BY <1>3 DEF DirsVisited, Closed
  <2>3. PICK ds \in EntriesSeen : EntryAt(ds).inode = i
    BY <2>1, <2>2 DEF found_inodes
  <2>4. ~EntryAt(ds).isDir
    <3> SUFFICES ASSUME EntryAt(ds).isDir, NEW S \in SUBSET Inodes, Closed(S)
                 PROVE  i \in S
      BY <2>1 DEF DirsVisited
    <3>1. ds \in EntriesOf(S)
      BY LeastClosed DEF EntriesSeen, EntriesOf
    <3> QED
      BY <2>3, <3>1 DEF Closed
  <2> QED
    BY <2>1, <2>3, <2>4
<1>7. EntriesSeen = Places
  <2>1. \A i \in LiveDirs, s \in Slots : disk[direct0[i]][s].valid => i \in DirsVisited
    BY <1>6 DEF Listing
  <2> QED
    BY <1>5, <2>1 DEF EntriesSeen, EntriesOf, Places, EntryAt
<1> QED
  BY <1>1, <1>2, <1>5, <1>6, <1>7

\* An image that fsck.hw3 finds in order has its entries match its inodes,
\* its block bitmap exact and its inodes all below the root, as the handlers
\* keep them, if what the checker does not look at is in order.
THEOREM FsckIsTrustworthy ==
    ASSUME TypeOK, NotLookedAt, lost = {}, DiskFormatOK
    PROVE  EntriesMatchInodes /\ BlocksMatchOwners /\ TreeIsConnected
<1> USE DEF NotLookedAt
<1>1. /\ found_inodes = Live /\ EntriesSeen = Places
      /\ DirsVisited \subseteq LiveDirs
  BY FoundIsInUse
<1>2. ROOT_INODE \in Live /\ Live \subseteq Inodes
  BY DEF TypeOK, Live, ROOT_INODE
<1>3. ROOT_INODE \in LiveDirs
  <2>1. ROOT_INODE \in DirsVisited
    BY <1>2 DEF DirsVisited, Closed
  <2> QED
    BY <1>1, <2>1
<1>4. EntriesMatchInodes
  <2>1. \A ds \in Places : EntryAt(ds).inode \in Live \ {ROOT_INODE}
    BY <1>1 DEF DiskFormatOK, InodesMarked, InodesUsedOnce, Live
  <2>2. \A ds, et \in Places : EntryAt(ds).inode = EntryAt(et).inode => ds = et
    BY <1>1 DEF DiskFormatOK, InodesUsedOnce
  <2>3. \A i \in Live \ {ROOT_INODE} : \E ds \in Places : EntryAt(ds).inode = i
    BY <1>1 DEF found_inodes
  <2> QED
    BY <1>3, <2>1, <2>2, <2>3 DEF EntriesMatchInodes, LiveDirs
<1>5. BlocksMatchOwners
  <2>1. \A i \in Live : Held(i) \subseteq block_map /\ direct0[i] \notin rest[i]
    <3> SUFFICES ASSUME NEW i \in Live
                 PROVE  Held(i) \subseteq block_map /\ direct0[i] \notin rest[i]
      OBVIOUS
    <3>1. CASE i = ROOT_INODE
      BY <3>1 DEF Held
    <3>2. CASE i # ROOT_INODE
      <4>1. PICK ds \in EntriesSeen : EntryAt(ds).inode = i
        BY <1>1, <3>2 DEF found_inodes
      <4>2. Held(i) \subseteq block_map
        BY <4>1 DEF DiskFormatOK, BlocksMarked
      <4>3. direct0[i] \notin rest[i]
        BY <4>1 DEF DiskFormatOK, BlocksUsedOnce
      <4> QED
        BY <4>2, <4>3
    <3> QED
      BY <3>1, <3>2
  <2>2. \A b \in block_map : b \in 0 .. DataStart - 1 \/ b \in DataBlocks
    BY SizesAssumption DEF TypeOK, Blocks, DataBlocks
  <2>3. block_map \cap DataBlocks \subseteq UNION {Held(i) : i \in Live}
    BY <1>1 DEF DiskFormatOK, MarkedAreFound, found_blocks
  <2>4. 0 .. DataStart - 1 \subseteq block_map
    BY DEF DiskFormatOK, MetadataMarked
  <2>5. block_map = (0 .. DataStart - 1) \cup lost \cup UNION {Held(i) : i \in Live}
    BY <2>1, <2>2, <2>3, <2>4
  <2>6. \A i, j \in Live : i # j => Held(i) \cap Held(j) = {}
    BY <1>1 DEF DiskFormatOK, BlocksUsedOnce
  <2> QED
    BY <2>1, <2>5, <2>6 DEF BlocksMatchOwners
<1>6. TreeIsConnected
  <2> SUFFICES ASSUME NEW S \in SUBSET Live, ClosedUnderEntries(S) PROVE Live \subseteq S
    BY DEF TreeIsConnected
  <2> DEFINE D == {d \in DirsVisited : d \in S}
  <2>1. \A ds \in Places : ds[1] \in S => EntryAt(ds).inode \in S
    BY DEF ClosedUnderEntries
  <2>2. D \in SUBSET Inodes /\ ROOT_INODE \in D
    BY <1>2 DEF ClosedUnderEntries, DirsVisited, Closed
  <2>3. ASSUME NEW ds \in EntriesOf(D), EntryAt(ds).isDir
        PROVE  EntryAt(ds).inode \in D
    <3>1. ds \in EntriesSeen /\ ds[1] \in S
      BY DEF EntriesOf, EntriesSeen
    <3>2. EntryAt(ds).inode \in S
      BY <1>1, <2>1, <3>1
    <3>3. EntryAt(ds).inode \in Inodes
      BY <3>1
    <3>4. EntryAt(ds).inode \in DirsVisited
      BY <2>2, <2>3, <3>1, <3>3, DirHasRest
    <3> QED
      BY <3>2, <3>4
  <2>4. DirsVisited \subseteq S
    BY <2>2, <2>3, LeastClosed DEF Closed
  <2>5. ASSUME NEW i \in Live, i # ROOT_INODE PROVE i \in S
    <3>1. PICK ds \in EntriesSeen : EntryAt(ds).inode = i
      BY <1>1, <2>5 DEF found_inodes
    <3>2. ds[1] \in S
      BY <2>4 DEF EntriesSeen, EntriesOf
    <3> QED
      BY <1>1, <2>1, <3>1, <3>2
  <2> QED
    BY <2>5 DEF ClosedUnderEntries
<1> QED
  BY <1>4, <1>5, <1>6

\* With the rest of what the checker does not look at, the accepted image is
\* one the handlers can work on: this is what fs_init relies on.
THEOREM AcceptedIsSound ==
    ASSUME TypeOK, NotLookedAt, lost = {}, DiskFormatOK,
           FreeInodesAreClean, NamesAreUnique, KindsAgree,
           \A i \in Live : S_ISDIR(mode[i]) \/ direct0[i] = 0 => rest[i] = {}
    PROVE  Sound /\ TreeIsConnected
<1>1. EntriesMatchInodes /\ BlocksMatchOwners /\ TreeIsConnected
  BY FsckIsTrustworthy
<1>2. DirectoriesHaveOneBlock
  <2>1. ASSUME NEW i \in LiveDirs PROVE direct0[i] # 0
    <3>1. i \in Live /\ i \in Inodes /\ S_ISDIR(mode[i])
      BY LiveIsPositive DEF LiveDirs
    <3>2. i \in DirsVisited
      <4>1. CASE i = ROOT_INODE
        BY <3>1, <4>1 DEF DirsVisited, Closed
      <4>2. CASE i # ROOT_INODE
        <5>1. PICK ds \in Places : EntryAt(ds).inode = i
          BY <1>1, <3>1, <4>2 DEF EntriesMatchInodes
        <5>2. EntryAt(ds).isDir /\ ds \in EntriesSeen
          BY <3>1, <5>1, FoundIsInUse DEF KindsAgree
        <5> QED
          BY <3>1, <5>1, <5>2, DirHasRest
      <4> QED
        BY <4>1, <4>2
    <3> QED
      BY <3>2 DEF DiskFormatOK, DirectoriesReadable
  <2> QED
    BY <2>1 DEF DirectoriesHaveOneBlock, NotLookedAt, LiveDirs
<1> QED
  BY <1>1, <1>2 DEF Sound
=============================================================================
