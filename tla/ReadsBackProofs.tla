---------------------------- MODULE ReadsBackProofs ----------------------------
(***************************************************************************)
(* Proofs about FileBlocks, for every size of blocks, tables and disk: a   *)
(* read returns what was written.                                          *)
(*                                                                         *)
(* A file has a region of bytes for each table of pointers to its data:    *)
(* region 0 is that of direct[], region 1 that of indir_1, and the others  *)
(* are those of the second-level blocks.                                   *)
(***************************************************************************)
EXTENDS FileBlocksProofs

Regions == 0 .. PtrsPerBlock + 1
SlotsIn(r) == IF r = 0 THEN 1 .. N_DIRECT ELSE Ptrs

\* The bytes of the file before region r, and before slot k of it.
Base(r) == IF r = 0 THEN 0 ELSE FS_BLOCK_SIZE * N_DIRECT + Span1 * (r - 1)
Start(r, k) == Base(r) + FS_BLOCK_SIZE * (k - 1)

\* The second-level blocks, as in memory if their table has been read.
Upper(w) == IF w.tbl2 = <<>> THEN w.disk[w.indir_2].ptrs ELSE w.tbl2

\* The holder of the table of region r, 0 if there is none.
Root(w, r) ==
    CASE r = 0 -> Inode
      [] r = 1 -> w.indir_1
      [] OTHER -> IF w.indir_2 = 0 THEN 0 ELSE Upper(w)[r - 1]

\* What leads to the data of slot k of region r, while the table of region a
\* is in memory.
Pointer(w, a, r, k) == IF r = a THEN w.tbl[k] ELSE Stored(w, Root(w, r))[k]
None == -1

\* The bytes that need asks for can be found and are those of val.
Holds(w, a, need, val) ==
    \A r \in Regions : \A k \in SlotsIn(r), j \in Bytes :
        Start(r, k) + j \in need =>
            /\ Root(w, r) # 0 /\ Pointer(w, a, r, k) # 0
            /\ w.disk[Pointer(w, a, r, k)].bytes[j] = val[Start(r, k) + j]

\* The file between two calls, seen as a write sees it.
AtRest == [map |-> block_map, disk |-> disk, direct |-> direct,
           indir_1 |-> indir_1, indir_2 |-> indir_2, tbl |-> <<>>, tbl2 |-> <<>>,
           offset_cnt |-> 0, cnt |-> 0, len |-> 0, full |-> FALSE]

\* The inductive invariant.
ReadInv ==
    /\ FileInv
    /\ contents \in Seq(Int) /\ Len(contents) = size
    /\ Holds(AtRest, None, 1 .. size, contents)

-----------------------------------------------------------------------------
(* Where the slots lie in the file. *)

LEMMA Products ==
    ASSUME NEW c \in Nat, NEW m \in Int, NEW n \in Int, m <= n
    PROVE  /\ c * m \in Int /\ c * n \in Int /\ c * m <= c * n
           /\ c * (m + 1) = c * m + c
<1>1. n - m \in Nat
  OBVIOUS
<1>2. c * (n - m) >= 0
  BY <1>1
<1>3. c * (n - m) = c * n - c * m
  OBVIOUS
<1> QED
  BY <1>2, <1>3

LEMMA Bases ==
    /\ Base(0) = 0 /\ Base(1) = FS_BLOCK_SIZE * N_DIRECT
    /\ \A r \in Regions : Base(r) \in Nat /\ Base(r + 1) \in Nat
    /\ \A r \in Regions \ {0} : Base(r + 1) = Base(r) + Span1
    /\ Base(PtrsPerBlock + 2) = MaxSize
<1> DEFINE d == FS_BLOCK_SIZE * N_DIRECT
<1>1. d \in Nat /\ Span1 \in Nat /\ PtrsPerBlock \in Nat
  BY Sizes, Spans
<1>2. Base(0) = 0 /\ \A r \in Nat \ {0} : Base(r) = d + Span1 * (r - 1)
  BY DEF Base
<1>3. MaxSize = d + Span1 + Span1 * PtrsPerBlock
  BY Spans DEF Span2
<1> HIDE DEF d
<1>4. Base(1) = d
  BY <1>1, <1>2
<1>5. ASSUME NEW r \in Nat, r # 0 PROVE Base(r) \in Nat /\ Base(r + 1) = Base(r) + Span1
  <2>1. Base(r) = d + Span1 * (r - 1) /\ Base(r + 1) = d + Span1 * ((r + 1) - 1)
    BY <1>2, <1>5
  <2> DEFINE m == r - 1
  <2>2. m \in Nat /\ (r + 1) - 1 = m + 1 /\ r - 1 = m
    BY <1>5
  <2> HIDE DEF m
  <2>3. Span1 * m \in Nat /\ Span1 * (m + 1) = Span1 * m + Span1
    BY <1>1, <2>2, OneMore
  <2>4. Base(r) = d + Span1 * m /\ Base(r + 1) = d + Span1 * (m + 1)
    BY <2>1, <2>2
  <2> QED
    BY <1>1, <2>3, <2>4
<1>6. Base(PtrsPerBlock + 2) = MaxSize
  <2>1. PtrsPerBlock + 2 \in Nat \ {0} /\ (PtrsPerBlock + 2) - 1 = PtrsPerBlock + 1
    BY <1>1
  <2>2. Base(PtrsPerBlock + 2) = d + Span1 * (PtrsPerBlock + 1)
    BY <1>2, <2>1
  <2>3. Span1 * PtrsPerBlock \in Nat /\ Span1 * (PtrsPerBlock + 1) = Span1 * PtrsPerBlock + Span1
    BY <1>1, OneMore
  <2> QED
    BY <1>1, <1>3, <2>2, <2>3
<1>7. ASSUME NEW r \in Regions PROVE Base(r) \in Nat /\ Base(r + 1) \in Nat
  <2>1. r \in Nat /\ r + 1 \in Nat /\ r + 1 # 0
    BY <1>1, <1>7 DEF Regions
  <2> QED
    BY <1>2, <1>5, <2>1
<1> QED
  BY <1>1, <1>2, <1>4, <1>5, <1>6, <1>7 DEF Regions, d

\* The slots of a region are one block apart and fill it.
LEMMA Starts ==
    ASSUME NEW r \in Regions
    PROVE  /\ SlotsIn(r) \subseteq Nat \ {0} /\ 1 \in SlotsIn(r)
           /\ \E n \in Nat : /\ n > 0 /\ SlotsIn(r) = 1 .. n
                             /\ Base(r + 1) = Base(r) + FS_BLOCK_SIZE * n
           /\ \A k \in Nat \ {0} : /\ Start(r, k) \in Nat
                                   /\ Start(r, k + 1) = Start(r, k) + FS_BLOCK_SIZE
                                   /\ Start(r, k + 1) = Base(r) + FS_BLOCK_SIZE * k
           /\ Start(r, 1) = Base(r)
           /\ \A k \in SlotsIn(r) : /\ Base(r) <= Start(r, k)
                                    /\ Start(r, k) + FS_BLOCK_SIZE <= Base(r + 1)
<1> DEFINE B == FS_BLOCK_SIZE
           n == IF r = 0 THEN N_DIRECT ELSE PtrsPerBlock
<1>1. n \in Nat /\ n > 0 /\ SlotsIn(r) = 1 .. n /\ B \in Nat /\ Base(r) \in Nat
  BY Sizes, Bases DEF SlotsIn, Ptrs
<1>2. Base(r + 1) = Base(r) + B * n
  BY Bases, Sizes DEF Span1
<1> HIDE DEF n
<1>3. ASSUME NEW k \in Nat \ {0}
      PROVE  /\ Start(r, k) \in Nat
             /\ Start(r, k + 1) = Start(r, k) + B
             /\ Start(r, k + 1) = Base(r) + B * k
             /\ Base(r) <= Start(r, k)
  <2> DEFINE m == k - 1
  <2>1. m \in Nat /\ k - 1 = m /\ k = m + 1 /\ (k + 1) - 1 = k
    BY <1>3
  <2>2. Start(r, k) = Base(r) + B * m /\ Start(r, k + 1) = Base(r) + B * k
    BY <2>1 DEF Start
  <2> HIDE DEF m, B
  <2>3. B * m \in Nat /\ B * k = B * m + B
    BY <1>1, <2>1, OneMore
  <2> QED
    BY <1>1, <2>2, <2>3
<1>4. Start(r, 1) = Base(r)
  <2>1. B * (1 - 1) = 0
    BY <1>1
  <2> QED
    BY <1>1, <2>1 DEF Start
<1>5. ASSUME NEW k \in 1 .. n PROVE Start(r, k) + B <= Base(r + 1)
  <2>1. B * k <= B * n /\ B * k \in Int /\ B * n \in Int
    BY <1>1, Products
  <2>2. Start(r, k) + B = Base(r) + B * k
    BY <1>3
  <2> HIDE DEF B
  <2> QED
    BY <1>1, <1>2, <2>1, <2>2
<1>6. SlotsIn(r) \subseteq Nat \ {0} /\ 1 \in SlotsIn(r)
  BY <1>1
<1>7. \E m \in Nat : /\ m > 0 /\ SlotsIn(r) = 1 .. m
                     /\ Base(r + 1) = Base(r) + FS_BLOCK_SIZE * m
  BY <1>1, <1>2, Zenon
<1>8. \A k \in SlotsIn(r) : /\ Base(r) <= Start(r, k)
                            /\ Start(r, k) + FS_BLOCK_SIZE <= Base(r + 1)
  <2> SUFFICES ASSUME NEW k \in SlotsIn(r)
               PROVE  Base(r) <= Start(r, k) /\ Start(r, k) + B <= Base(r + 1)
    OBVIOUS
  <2>1. k \in Nat \ {0} /\ k \in 1 .. n
    BY <1>1
  <2> HIDE DEF B
  <2> QED
    BY <1>3, <1>5, <2>1
<1> QED
  BY <1>3, <1>4, <1>6, <1>7, <1>8, Zenon

LEMMA SlotTypes ==
    ASSUME NEW r \in Regions, NEW k \in SlotsIn(r)
    PROVE  /\ k \in Nat \ {0} /\ Start(r, k) \in Nat
           /\ Start(r, k + 1) = Start(r, k) + FS_BLOCK_SIZE
           /\ \A j \in Bytes : j \in 1 .. FS_BLOCK_SIZE /\ Start(r, k) + j \in Nat
<1>1. k \in Nat \ {0}
  BY Starts
<1>2. Start(r, k) \in Nat /\ Start(r, k + 1) = Start(r, k) + FS_BLOCK_SIZE
  BY <1>1, Starts
<1>3. \A j \in Bytes : j \in 1 .. FS_BLOCK_SIZE /\ j \in Nat
  BY Sizes DEF Bytes
<1> QED
  BY <1>1, <1>2, <1>3

\* A later region begins where the earlier one has ended.
LEMMA BasesGrow ==
    ASSUME NEW r \in Regions, NEW s \in Regions, r < s
    PROVE  Base(r + 1) <= Base(s)
<1>1. r \in Nat /\ s \in Nat /\ Span1 \in Nat /\ FS_BLOCK_SIZE * N_DIRECT \in Nat
  BY Sizes, Spans DEF Regions
<1>2. /\ Base(r + 1) = FS_BLOCK_SIZE * N_DIRECT + Span1 * r
      /\ Base(s) = FS_BLOCK_SIZE * N_DIRECT + Span1 * (s - 1)
  <2>1. r + 1 # 0 /\ s # 0 /\ (r + 1) - 1 = r
    BY <1>1
  <2> QED
    BY <2>1 DEF Base
<1>3. Span1 * r <= Span1 * (s - 1) /\ Span1 * r \in Int /\ Span1 * (s - 1) \in Int
  BY <1>1, Products
<1> QED
  BY <1>1, <1>2, <1>3

\* Different slots hold different bytes of the file.
LEMMA SlotsApart ==
    ASSUME NEW r \in Regions, NEW k \in SlotsIn(r), NEW s \in Regions, NEW i \in SlotsIn(s),
           r # s \/ k # i
    PROVE  \/ Start(r, k) + FS_BLOCK_SIZE <= Start(s, i)
           \/ Start(s, i) + FS_BLOCK_SIZE <= Start(r, k)
<1>1. r \in Nat /\ s \in Nat /\ FS_BLOCK_SIZE \in Nat
  BY Sizes DEF Regions
<1>2. /\ Start(r, k) \in Nat /\ Start(s, i) \in Nat
      /\ Base(r) <= Start(r, k) /\ Start(r, k) + FS_BLOCK_SIZE <= Base(r + 1)
      /\ Base(s) <= Start(s, i) /\ Start(s, i) + FS_BLOCK_SIZE <= Base(s + 1)
      /\ Base(r) \in Nat /\ Base(s) \in Nat /\ Base(r + 1) \in Nat /\ Base(s + 1) \in Nat
      /\ k \in Nat \ {0} /\ i \in Nat \ {0}
  BY Starts, Bases
<1>3. CASE r < s
  BY <1>1, <1>2, <1>3, BasesGrow
<1>4. CASE s < r
  BY <1>1, <1>2, <1>4, BasesGrow
<1>5. CASE r = s
  <2>1. ASSUME NEW t \in Regions, NEW m \in Nat \ {0}, NEW n \in Nat \ {0}, m < n
        PROVE  Start(t, m) + FS_BLOCK_SIZE <= Start(t, n)
    <3>1. /\ Start(t, m) + FS_BLOCK_SIZE = Base(t) + FS_BLOCK_SIZE * m
          /\ Start(t, n) = Base(t) + FS_BLOCK_SIZE * (n - 1)
          /\ Base(t) \in Nat
      BY Starts, Bases DEF Start
    <3>2. /\ FS_BLOCK_SIZE * m <= FS_BLOCK_SIZE * (n - 1)
          /\ FS_BLOCK_SIZE * m \in Int /\ FS_BLOCK_SIZE * (n - 1) \in Int
      BY <1>1, <2>1, Products
    <3> QED
      BY <3>1, <3>2
  <2> QED
    BY <1>2, <1>5, <2>1
<1> QED
  BY <1>1, <1>3, <1>4, <1>5

-----------------------------------------------------------------------------
(* The tables of pointers. *)

LEMMA RootTypes ==
    ASSUME NEW w \in WriteStates, NEW r \in Regions
    PROVE  /\ Root(w, r) \in Holders
           /\ r # 0 => Root(w, r) \in Blocks
           /\ Upper(w) \in [Ptrs -> Blocks]
           /\ Stored(w, Root(w, r)) \in [SlotsIn(r) -> Blocks]
<1>1. /\ w.indir_1 \in Blocks /\ w.indir_2 \in Blocks
      /\ w.direct \in [1 .. N_DIRECT -> Blocks]
      /\ \A b \in Blocks : w.disk[b].ptrs \in [Ptrs -> Blocks]
      /\ w.tbl2 \in {<<>>} \cup [Ptrs -> Blocks]
  BY DEF WriteStates, BlockValues
<1>2. Upper(w) \in [Ptrs -> Blocks]
  BY <1>1 DEF Upper
<1>3. r # 0 /\ r # 1 => r - 1 \in Ptrs
  BY Sizes DEF Regions, Ptrs
<1>4. r # 0 => Root(w, r) \in Blocks
  BY <1>1, <1>2, <1>3, Sizes DEF Root
<1>5. Root(w, r) \in Holders
  BY <1>4 DEF Root, Holders
<1>6. Stored(w, Root(w, r)) \in [SlotsIn(r) -> Blocks]
  <2>1. CASE r = 0
    BY <1>1, <2>1 DEF Stored, SlotsIn, Root
  <2>2. CASE r # 0
    <3>1. Root(w, r) \in Blocks /\ Root(w, r) # Inode /\ SlotsIn(r) = Ptrs
      BY <1>4, <2>2, Sizes DEF SlotsIn
    <3> QED
      BY <1>1, <3>1 DEF Stored
  <2> QED
    BY <2>1, <2>2
<1> QED
  BY <1>2, <1>4, <1>5, <1>6

\* Where the block that holds the table of region r is found.
RootPlace(w, r) == IF r = 1 THEN <<Inode, N_DIRECT + 1>> ELSE <<w.indir_2, r - 1>>

LEMMA RootsMarked ==
    ASSUME NEW w \in WriteStates, NEW q, Tracked(q, w),
           NEW r \in Regions, r # 0, Root(w, r) # 0
    PROVE  /\ RootPlace(w, r) \in Places /\ q[RootPlace(w, r)] = Root(w, r)
           /\ Root(w, r) \in w.map \ other /\ Root(w, r) # w.indir_2
           /\ r > 1 => w.indir_2 # 0 /\ w.indir_2 \in w.map \ other
<1>1. /\ Under(q, w) /\ Apart(q, w.map) /\ Copied(q, w, w.tbl2, w.indir_2)
      /\ w.indir_1 \in Blocks /\ w.indir_2 \in Blocks
      /\ w.tbl2 \in {<<>>} \cup [Ptrs -> Blocks]
  BY DEF Tracked, WriteStates
<1>2. RootPlace(w, r) \in Places /\ q[RootPlace(w, r)] = Root(w, r)
  <2>1. CASE r = 1
    BY <1>1, <2>1, Sizes DEF Root, Under, Places, Holders, RootPlace
  <2>2. CASE r # 1
    <3>1. r - 1 \in Ptrs /\ r - 1 \in Nat
      BY <2>2, Sizes DEF Regions, Ptrs
    <3>2. w.indir_2 # 0 /\ Root(w, r) = Upper(w)[r - 1]
      BY <2>2 DEF Root
    <3>3. Upper(w)[r - 1] \in {0, q[<<w.indir_2, r - 1>>]}
      <4>1. CASE w.tbl2 = <<>>
        BY <1>1, <3>1, <4>1 DEF Upper, Under
      <4>2. CASE w.tbl2 # <<>>
        BY <1>1, <3>1, <4>2 DEF Upper, Copied
      <4> QED
        BY <4>1, <4>2
    <3>4. <<w.indir_2, r - 1>> \in Places
      BY <1>1, <3>1 DEF Places, Holders
    <3> QED
      BY <2>2, <3>2, <3>3, <3>4 DEF RootPlace
  <2> QED
    BY <2>1, <2>2
<1>3. RootPlace(w, r) # <<Inode, N_DIRECT + 2>>
  BY <1>1, Sizes DEF RootPlace
<1>4. /\ <<Inode, N_DIRECT + 2>> \in Places
      /\ w.indir_2 \in {0, q[<<Inode, N_DIRECT + 2>>]}
  BY <1>1, Sizes DEF Places, Holders, Under
<1>5. Root(w, r) \in w.map \ other /\ Root(w, r) # w.indir_2
  <2> HIDE DEF RootPlace
  <2>1. q[RootPlace(w, r)] # 0
    BY <1>2
  <2> QED
    BY <1>1, <1>2, <1>3, <1>4, <2>1 DEF Apart
<1>6. r > 1 => w.indir_2 # 0 /\ w.indir_2 \in w.map \ other
  <2> SUFFICES ASSUME r > 1 PROVE w.indir_2 # 0 /\ w.indir_2 \in w.map \ other
    OBVIOUS
  <2>1. w.indir_2 # 0
    BY DEF Root, Regions
  <2> QED
    BY <1>1, <1>4, <2>1 DEF Apart
<1> QED
  BY <1>2, <1>5, <1>6

\* The tables of different regions are found in different places.
LEMMA RootsApart ==
    ASSUME NEW w \in WriteStates, NEW q, Tracked(q, w),
           NEW r \in Regions, NEW s \in Regions,
           Root(w, r) = Root(w, s), Root(w, r) # 0
    PROVE  r = s
<1>1. Apart(q, w.map) /\ w.indir_2 # Inode
  BY Sizes DEF Tracked, WriteStates
<1>2. r = 0 <=> s = 0
  BY RootTypes, Sizes DEF Root
<1>3. CASE r # 0
  <2>1. RootPlace(w, r) = RootPlace(w, s)
    <3>1. /\ RootPlace(w, r) \in Places /\ RootPlace(w, s) \in Places
          /\ q[RootPlace(w, r)] = q[RootPlace(w, s)] /\ q[RootPlace(w, r)] # 0
      BY <1>2, <1>3, RootsMarked
    <3> QED
      BY <1>1, <3>1 DEF Apart
  <2> QED
    BY <1>1, <2>1, Sizes DEF Regions, RootPlace
<1> QED
  BY <1>2, <1>3

\* The table of region a is in memory; with None, no table is.
InMemory(q, w, a) ==
    /\ Tracked(q, w)
    /\ a # None => /\ a \in Regions
                   /\ w.tbl \in [SlotsIn(a) -> Blocks]
                   /\ Copied(q, w, w.tbl, Root(w, a))

\* A slot that leads somewhere leads where q does.
LEMMA PointersFollow ==
    ASSUME NEW w \in WriteStates, NEW q, NEW a, InMemory(q, w, a),
           NEW r \in Regions, NEW k \in SlotsIn(r)
    PROVE  /\ <<Root(w, r), k>> \in Places
           /\ Pointer(w, a, r, k) \in {0, q[<<Root(w, r), k>>]}
           /\ Pointer(w, a, r, k) \in Blocks /\ Pointer(w, a, r, k) \in w.map \cup {0}
<1>1. Under(q, w) /\ Apart(q, w.map)
  BY DEF InMemory, Tracked
<1>2. /\ Root(w, r) \in Holders
      /\ r # 0 => Root(w, r) \in Blocks
      /\ Stored(w, Root(w, r)) \in [SlotsIn(r) -> Blocks]
  BY RootTypes
<1>3. <<Root(w, r), k>> \in Places
  <2>1. k \in Nat
    BY Starts
  <2> QED
    BY <1>2, <2>1 DEF Places
<1>4. Stored(w, Root(w, r))[k] \in {0, q[<<Root(w, r), k>>]}
  <2>1. CASE r = 0
    BY <1>1, <2>1 DEF Under, Stored, Root, SlotsIn
  <2>2. CASE r # 0
    <3>1. Root(w, r) \in Blocks /\ Root(w, r) # Inode /\ k \in Ptrs
      BY <1>2, <2>2, Sizes DEF SlotsIn
    <3> QED
      BY <1>1, <3>1 DEF Under, Stored
  <2> QED
    BY <2>1, <2>2
<1>5. Pointer(w, a, r, k) \in {0, q[<<Root(w, r), k>>]}
  <2>1. CASE r = a
    <3>1. w.tbl \in [SlotsIn(r) -> Blocks] /\ Copied(q, w, w.tbl, Root(w, r))
      BY <2>1 DEF InMemory, Regions, None
    <3>2. w.tbl[k] \in {0, q[<<Root(w, r), k>>]}
      BY <3>1 DEF Copied
    <3> QED
      BY <2>1, <3>2 DEF Pointer
  <2>2. CASE r # a
    BY <1>4, <2>2 DEF Pointer
  <2> QED
    BY <2>1, <2>2
<1>6. q[<<Root(w, r), k>>] \in Blocks
      /\ (q[<<Root(w, r), k>>] # 0 => q[<<Root(w, r), k>>] \in w.map)
  BY <1>1, <1>3 DEF Apart
<1> QED
  BY <1>3, <1>5, <1>6, Sizes

\* Two slots that lead to the same block are one.
LEMMA PointersDiffer ==
    ASSUME NEW w \in WriteStates, NEW q, NEW a, InMemory(q, w, a),
           NEW r \in Regions, NEW k \in SlotsIn(r), NEW s \in Regions, NEW i \in SlotsIn(s),
           Root(w, r) # 0, Root(w, s) # 0, Pointer(w, a, r, k) # 0,
           Pointer(w, a, r, k) = Pointer(w, a, s, i)
    PROVE  r = s /\ k = i
<1>1. Tracked(q, w) /\ Apart(q, w.map)
  BY DEF InMemory, Tracked
<1>2. /\ <<Root(w, r), k>> \in Places /\ <<Root(w, s), i>> \in Places
      /\ Pointer(w, a, r, k) = q[<<Root(w, r), k>>]
      /\ Pointer(w, a, s, i) = q[<<Root(w, s), i>>]
  BY PointersFollow
<1>3. <<Root(w, r), k>> = <<Root(w, s), i>>
  BY <1>1, <1>2 DEF Apart
<1> QED
  BY <1>1, <1>3, RootsApart

-----------------------------------------------------------------------------
(* What a write may not lose: the pointers to the bytes before the end. *)

Kept(w) ==
    \A r \in Regions : \A k \in SlotsIn(r) :
        Start(r, k) < size =>
            /\ Root(w, r) # 0 /\ Stored(w, Root(w, r))[k] # 0
            /\ r > 1 => w.disk[w.indir_2].ptrs[r - 1] # 0

LEMMA SameRoots ==
    ASSUME NEW w \in WriteStates, NEW x, SameTables(w, x)
    PROVE  /\ \A r \in Regions : /\ Root(x, r) = Root(w, r)
                                 /\ Stored(x, Root(x, r)) = Stored(w, Root(w, r))
           /\ Kept(w) => Kept(x)
<1>1. w.indir_2 \in Blocks /\ x.disk[w.indir_2].ptrs = w.disk[w.indir_2].ptrs
  BY DEF WriteStates, SameTables
<1>2. Upper(x) = Upper(w)
  BY <1>1 DEF Upper, SameTables
<1>3. \A r \in Regions : Root(x, r) = Root(w, r)
  BY <1>2 DEF Root, SameTables
<1>4. ASSUME NEW r \in Regions
      PROVE  Stored(x, Root(x, r)) = Stored(w, Root(w, r))
  BY <1>3, RootTypes DEF Stored, SameTables, Holders
<1>5. Kept(w) => Kept(x)
  BY <1>1, <1>3, <1>4 DEF Kept, SameTables
<1> QED
  BY <1>3, <1>4, <1>5

\* Holds depends on nothing else than these.
LEMMA HoldsAlike ==
    ASSUME NEW w, NEW a, NEW need, NEW val, Holds(w, a, need, val),
           NEW x, NEW b, NEW need2, NEW val2,
           \A y \in need2 : y \in need /\ val2[y] = val[y],
           \A r \in Regions : \A k \in SlotsIn(r) :
              (\E j \in Bytes : Start(r, k) + j \in need2) =>
                 /\ Root(w, r) # 0 => Root(x, r) # 0
                 /\ Root(w, r) # 0 => Pointer(x, b, r, k) = Pointer(w, a, r, k),
           \A r \in Regions : \A k \in SlotsIn(r), j \in Bytes :
              Start(r, k) + j \in need2 /\ Root(w, r) # 0 /\ Pointer(w, a, r, k) # 0 =>
                 x.disk[Pointer(w, a, r, k)].bytes[j] = w.disk[Pointer(w, a, r, k)].bytes[j]
    PROVE  Holds(x, b, need2, val2)
BY DEF Holds

-----------------------------------------------------------------------------
(* What a write has done when it has passed p bytes of the file. *)

Call(offset, len, appends) ==
    /\ offset \in Nat /\ len \in Nat /\ len > 0 /\ appends \in BOOLEAN
    /\ size \in Nat /\ offset <= size

NeedAt(w, p, offset, len) ==
    {x \in Nat : x <= size \/ (~w.full /\ x <= p /\ x <= offset + len)}
ValAt(p, offset, len, appends) ==
    [x \in Nat |-> IF offset < x /\ x <= offset + len /\ x <= p THEN Byte(x - 1, appends)
                   ELSE contents[x]]

\* Where the running sums are.
Reached(w, p, offset) ==
    \/ w.full /\ size <= p
    \/ ~w.full /\ w.offset_cnt = p /\ w.cnt = 0 /\ p <= offset
    \/ ~w.full /\ w.offset_cnt = offset /\ offset + w.cnt = p
    \/ ~w.full /\ w.offset_cnt = offset /\ w.len = 0 /\ offset + w.cnt <= p

Wrote(w, a, p, offset, len, appends) ==
    /\ Reached(w, p, offset)
    /\ Holds(w, a, NeedAt(w, p, offset, len), ValAt(p, offset, len, appends))
    /\ Kept(w)

\* The table of region a is in memory.
Held(w, a) ==
    IF a = None THEN Between(w)
    ELSE a \in Regions /\ Root(w, a) # 0 /\ Working(w, Root(w, a))

Progress(w, a, p, offset, len, appends) ==
    Going(w, offset, len) /\ Held(w, a) /\ Wrote(w, a, p, offset, len, appends)

LEMMA SlotsOfRoot ==
    ASSUME NEW w \in WriteStates, NEW a \in Regions, Root(w, a) # 0
    PROVE  SlotsOf(Root(w, a)) = SlotsIn(a)
<1>1. CASE a = 0
  BY <1>1 DEF Root, SlotsOf, SlotsIn
<1>2. CASE a # 0
  <2>1. Root(w, a) # Inode
    BY <1>2, RootTypes, Sizes
  <2> QED
    BY <1>2, <2>1 DEF SlotsOf, SlotsIn
<1> QED
  BY <1>1, <1>2

LEMMA HeldMeans ==
    ASSUME NEW w \in WriteStates, NEW a, Held(w, a)
    PROVE  \E q : InMemory(q, w, a)
<1>1. CASE a = None
  BY <1>1 DEF Held, Between, InMemory
<1>2. CASE a # None
  <2>1. a \in Regions /\ Root(w, a) # 0 /\ Working(w, Root(w, a))
    BY <1>2 DEF Held
  <2>2. SlotsOf(Root(w, a)) = SlotsIn(a)
    BY <2>1, SlotsOfRoot
  <2>3. PICK q : Tracked(q, w) /\ Copied(q, w, w.tbl, Root(w, a))
    BY <2>1 DEF Working
  <2>4. w.tbl \in [SlotsIn(a) -> Blocks]
    BY <2>1, <2>2 DEF Working
  <2> QED
    BY <2>1, <2>3, <2>4 DEF InMemory
<1> QED
  BY <1>1, <1>2

LEMMA InProgress ==
    ASSUME NEW offset, NEW len, NEW appends, NEW p, NEW a \in Regions,
           NEW w, Progress(w, a, p, offset, len, appends)
    PROVE  /\ w \in WriteStates /\ Going(w, offset, len)
           /\ Wrote(w, a, p, offset, len, appends)
           /\ Root(w, a) # 0 /\ Working(w, Root(w, a)) /\ a # None
<1>1. a # None
  BY Sizes DEF Regions, None
<1>2. Going(w, offset, len) /\ Held(w, a) /\ Wrote(w, a, p, offset, len, appends)
  BY DEF Progress
<1>3. w \in WriteStates
  BY <1>2 DEF Going
<1> QED
  BY <1>1, <1>2, <1>3 DEF Held

LEMMA PutsExactly ==
    ASSUME NEW w \in WriteStates, NEW b \in Blocks, NEW offset \in Nat, NEW appends,
           w.offset_cnt <= offset, offset <= w.offset_cnt + FS_BLOCK_SIZE
    PROVE  LET x == PutBytes(w, b, offset, appends)
               start == offset - w.offset_cnt
           IN \E n \in Nat :
              /\ n = Smaller(w.len, FS_BLOCK_SIZE - start)
              /\ x.cnt = w.cnt + n /\ x.len = w.len - n
              /\ \A j \in Bytes :
                    x.disk[b].bytes[j] = IF j \in start + 1 .. start + n
                                         THEN Byte(offset + w.cnt + (j - start) - 1, appends)
                                         ELSE w.disk[b].bytes[j]
<1> DEFINE start == offset - w.offset_cnt
           n == Smaller(w.len, FS_BLOCK_SIZE - start)
           bytes == [j \in Bytes |-> IF j \in start + 1 .. start + n
                                     THEN Byte(offset + w.cnt + (j - start) - 1, appends)
                                     ELSE w.disk[b].bytes[j]]
           x == PutBytes(w, b, offset, appends)
           dsk == [w.disk EXCEPT ![b].bytes = bytes]
<1>1. /\ w.offset_cnt \in Nat /\ w.cnt \in Nat /\ w.len \in Nat
      /\ w.disk \in [Blocks -> BlockValues]
  BY DEF WriteStates
<1>2. n \in Nat
  BY <1>1, Sizes DEF Smaller
<1>3. dsk[b].bytes = bytes
  BY <1>1 DEF BlockValues
<1>4. \A j \in Bytes : bytes[j] = IF j \in start + 1 .. start + n
                                  THEN Byte(offset + w.cnt + (j - start) - 1, appends)
                                  ELSE w.disk[b].bytes[j]
  OBVIOUS
<1> HIDE DEF bytes, n
<1>5. x = [w EXCEPT !.disk = dsk, !.offset_cnt = offset, !.cnt = @ + n, !.len = @ - n]
  BY DEF PutBytes, bytes, n, WriteStates
<1> HIDE DEF x, dsk, start
<1>6. x.cnt = w.cnt + n /\ x.len = w.len - n /\ x.disk = dsk
  BY <1>5 DEF WriteStates
<1>7. /\ n \in Nat /\ n = Smaller(w.len, FS_BLOCK_SIZE - start)
      /\ x.cnt = w.cnt + n /\ x.len = w.len - n
      /\ \A j \in Bytes : x.disk[b].bytes[j] = IF j \in start + 1 .. start + n
                                  THEN Byte(offset + w.cnt + (j - start) - 1, appends)
                                  ELSE w.disk[b].bytes[j]
  BY <1>2, <1>3, <1>4, <1>6 DEF n
<1> QED
  BY <1>7 DEF x, start

\* The block of slot k gets the bytes of the call that belong there.
LEMMA FillsWrote ==
    ASSUME NEW offset, NEW len, NEW appends, Call(offset, len, appends),
           NEW a \in Regions, NEW k \in SlotsIn(a),
           NEW w, Progress(w, a, Start(a, k), offset, len, appends),
           ~w.full, w.len # 0, w.tbl[k] # 0, offset <= w.offset_cnt + FS_BLOCK_SIZE
    PROVE  Wrote(PutBytes(w, w.tbl[k], offset, appends), a, Start(a, k) + FS_BLOCK_SIZE,
                 offset, len, appends)
<1> DEFINE p == Start(a, k)
           b == w.tbl[k]
           x == PutBytes(w, b, offset, appends)
           start == offset - w.offset_cnt
           B == FS_BLOCK_SIZE
<1>1. /\ offset \in Nat /\ len \in Nat /\ len > 0 /\ appends \in BOOLEAN
      /\ size \in Nat /\ offset <= size
      /\ MaxSize \in Nat /\ B \in Nat /\ B > 0
  BY Sizes DEF Call
<1>2. /\ w \in WriteStates /\ w.offset_cnt \in Nat /\ w.cnt \in Nat /\ w.len \in Nat
      /\ w.offset_cnt <= offset /\ w.cnt + w.len = len
  BY DEF Progress, Going, WriteStates
<1>3. PICK q : InMemory(q, w, a)
  BY <1>2, HeldMeans DEF Progress
<1>4. /\ Root(w, a) # 0 /\ Wrote(w, a, p, offset, len, appends) /\ a # None
  <2>1. a # None
    BY Sizes DEF Regions, None
  <2> QED
    BY <2>1 DEF Progress, Held
<1>5. p \in Nat /\ k \in Nat \ {0}
  BY SlotTypes
<1>6. b = Pointer(w, a, a, k) /\ b \in Blocks
  <2>1. b = Pointer(w, a, a, k)
    BY DEF Pointer
  <2> HIDE DEF b
  <2> QED
    BY <1>2, <1>3, <2>1, PointersFollow
<1>7. /\ x \in WriteStates /\ SameTables(w, x) /\ x.tbl = w.tbl /\ x.full = w.full
      /\ x.offset_cnt = offset
      /\ \A c \in Blocks : c # b => x.disk[c] = w.disk[c]
  <2> HIDE DEF b
  <2>2. /\ x \in WriteStates
        /\ x.direct = w.direct /\ x.indir_1 = w.indir_1
        /\ x.indir_2 = w.indir_2 /\ x.tbl = w.tbl /\ x.tbl2 = w.tbl2
        /\ x.full = w.full /\ x.offset_cnt = offset
        /\ \A c \in Blocks : /\ c # b => x.disk[c] = w.disk[c]
                             /\ x.disk[c].ptrs = w.disk[c].ptrs
    BY <1>1, <1>2, <1>6, PutsBytes
  <2> QED
    BY <2>2 DEF SameTables
<1>8. PICK n \in Nat :
        /\ n = Smaller(w.len, B - start)
        /\ x.cnt = w.cnt + n /\ x.len = w.len - n
        /\ \A j \in Bytes : x.disk[b].bytes[j] = IF j \in start + 1 .. start + n
                                  THEN Byte(offset + w.cnt + (j - start) - 1, appends)
                                  ELSE w.disk[b].bytes[j]
  <2> HIDE DEF b
  <2> QED
    BY <1>1, <1>2, <1>6, PutsExactly
<1> HIDE DEF x, b, p, B
<1>9. start \in 0 .. B /\ p + start = offset + w.cnt
      /\ (start = 0 \/ (w.cnt = 0 /\ p <= offset))
  <2>1. Reached(w, p, offset) /\ ~w.full /\ w.len # 0
    BY <1>4 DEF Wrote
  <2>2. start = offset - w.offset_cnt /\ start \in 0 .. B
    BY <1>1, <1>2 DEF B
  <2> HIDE DEF start
  <2>3. CASE w.offset_cnt = p /\ w.cnt = 0 /\ p <= offset
    BY <1>1, <1>2, <1>5, <2>2, <2>3
  <2>4. CASE w.offset_cnt = offset /\ offset + w.cnt = p
    BY <1>1, <1>2, <1>5, <2>2, <2>4
  <2> QED
    BY <2>1, <2>3, <2>4 DEF Reached
<1> HIDE DEF start
<1>10. n \in 0 .. B - start /\ n <= w.len /\ (n = B - start \/ n = w.len)
  BY <1>1, <1>2, <1>8, <1>9 DEF Smaller
<1>11. Reached(x, p + B, offset)
  <2>1. CASE n = B - start
    <3>1. offset + x.cnt = p + B
      <4>1. x.cnt = w.cnt + n /\ p + start = offset + w.cnt
        BY <1>8, <1>9
      <4> QED
        BY <1>1, <1>2, <1>5, <1>9, <2>1, <4>1
    <3> QED
      BY <1>7, <3>1 DEF Reached
  <2>2. CASE n = w.len
    <3>1. x.len = 0 /\ offset + x.cnt <= p + B
      BY <1>1, <1>2, <1>5, <1>8, <1>9, <1>10, <2>2
    <3> QED
      BY <1>7, <3>1 DEF Reached
  <2> QED
    BY <1>10, <2>1, <2>2
<1>12. Kept(x) /\ \A r \in Regions : /\ Root(x, r) = Root(w, r)
                                    /\ Stored(x, Root(x, r)) = Stored(w, Root(w, r))
  BY <1>2, <1>4, <1>7, SameRoots DEF Wrote
<1>13. \A r \in Regions : \A i \in SlotsIn(r) : Pointer(x, a, r, i) = Pointer(w, a, r, i)
  BY <1>7, <1>12 DEF Pointer
<1>14. ASSUME NEW r \in Regions, NEW i \in SlotsIn(r), NEW j \in Bytes,
              Start(r, i) + j \in NeedAt(x, p + B, offset, len)
       PROVE  /\ Root(x, r) # 0 /\ Pointer(x, a, r, i) # 0
              /\ x.disk[Pointer(x, a, r, i)].bytes[j]
                    = ValAt(p + B, offset, len, appends)[Start(r, i) + j]
  <2> DEFINE y == Start(r, i) + j
  <2>1. j \in 1 .. B /\ Start(r, i) \in Nat /\ y \in Nat
    BY <1>1, SlotTypes DEF B
  <2>2. y <= size \/ (y <= p + B /\ y <= offset + len)
    BY <1>14 DEF NeedAt
  <2>3. y \in NeedAt(w, p, offset, len) =>
          /\ Root(w, r) # 0 /\ Pointer(w, a, r, i) # 0
          /\ w.disk[Pointer(w, a, r, i)].bytes[j] = ValAt(p, offset, len, appends)[y]
    BY <1>4 DEF Wrote, Holds
  <2>4. /\ ValAt(p, offset, len, appends)[y]
              = IF offset < y /\ y <= offset + len /\ y <= p THEN Byte(y - 1, appends)
                ELSE contents[y]
        /\ ValAt(p + B, offset, len, appends)[y]
              = IF offset < y /\ y <= offset + len /\ y <= p + B THEN Byte(y - 1, appends)
                ELSE contents[y]
    BY <2>1 DEF ValAt
  <2>5. y \in NeedAt(w, p, offset, len) <=> y <= size \/ (y <= p /\ y <= offset + len)
    BY <2>1 DEF NeedAt
  <2>6. CASE r = a /\ i = k
    <3>1. y = p + j /\ Pointer(x, a, r, i) = b /\ Root(x, r) # 0 /\ b # 0
      BY <1>4, <1>6, <1>12, <1>13, <2>6 DEF p, b
    <3> HIDE DEF y
    <3>2. CASE j \in start + 1 .. start + n
      <4>1. offset + w.cnt + (j - start) - 1 = y - 1
        BY <1>1, <1>2, <1>5, <1>9, <2>1, <3>1, <3>2
      <4>2. offset < y /\ y <= offset + len /\ y <= p + B
        BY <1>1, <1>2, <1>5, <1>9, <1>10, <2>1, <3>1, <3>2
      <4> QED
        BY <1>8, <2>4, <3>1, <3>2, <4>1, <4>2 DEF y
    <3>3. CASE j \notin start + 1 .. start + n
      <4>1. x.disk[b].bytes[j] = w.disk[b].bytes[j]
        BY <1>8, <3>3
      <4>2. y <= size /\ ~(offset < y /\ y <= offset + len)
        <5>1. CASE j <= start
          BY <1>1, <1>2, <1>5, <1>9, <2>1, <3>1, <5>1
        <5>2. CASE j > start + n
          BY <1>1, <1>2, <1>5, <1>9, <1>10, <2>1, <2>2, <3>1, <5>2
        <5> QED
          BY <1>9, <1>10, <2>1, <3>3, <5>1, <5>2
      <4>3. w.disk[b].bytes[j] = contents[y]
        BY <1>6, <2>3, <2>4, <2>5, <2>6, <4>2
      <4> QED
        BY <2>4, <3>1, <4>1, <4>2, <4>3 DEF y
    <3> QED
      BY <3>2, <3>3
  <2>7. CASE ~(r = a /\ i = k)
    <3>1. y <= p \/ p + B < y
      <4>1. \/ Start(r, i) + B <= p
            \/ p + B <= Start(r, i)
        BY <2>7, SlotsApart DEF p, B
      <4> QED
        BY <1>1, <1>5, <2>1, <4>1
    <3> HIDE DEF y
    <3>2. y \in NeedAt(w, p, offset, len)
      BY <1>1, <1>5, <2>1, <2>2, <2>5, <3>1
    <3>3. ValAt(p + B, offset, len, appends)[y] = ValAt(p, offset, len, appends)[y]
      BY <1>1, <1>5, <2>1, <2>4, <3>1
    <3>4. Pointer(w, a, r, i) # b
      BY <1>2, <1>3, <1>4, <1>6, <2>3, <2>7, <3>2, PointersDiffer
    <3>5. Pointer(w, a, r, i) \in Blocks
      BY <1>2, <1>3, PointersFollow
    <3>6. x.disk[Pointer(x, a, r, i)] = w.disk[Pointer(w, a, r, i)]
      BY <1>7, <1>13, <3>4, <3>5
    <3> QED
      BY <1>12, <1>13, <2>3, <3>2, <3>3, <3>6 DEF y
  <2> QED
    BY <2>6, <2>7
<1>15. Holds(x, a, NeedAt(x, p + B, offset, len), ValAt(p + B, offset, len, appends))
  BY <1>14 DEF Holds
<1> QED
  BY <1>11, <1>12, <1>15 DEF Wrote, x, b, p, B

\* What touches no table and no block only has to move on.
LEMMA MovesOn ==
    ASSUME NEW offset, NEW len, NEW appends, Call(offset, len, appends),
           NEW a, NEW p \in Nat, NEW p2 \in Nat,
           NEW w, Progress(w, a, p, offset, len, appends),
           NEW x, SameTables(w, x), x.tbl = w.tbl, x.disk = w.disk,
           Reached(x, p2, offset),
           \A y \in NeedAt(x, p2, offset, len) :
              /\ y \in NeedAt(w, p, offset, len)
              /\ ValAt(p2, offset, len, appends)[y] = ValAt(p, offset, len, appends)[y]
    PROVE  Wrote(x, a, p2, offset, len, appends)
<1>1. w \in WriteStates /\ Wrote(w, a, p, offset, len, appends)
  BY DEF Progress, Going
<1>2. Kept(x) /\ \A r \in Regions : /\ Root(x, r) = Root(w, r)
                                   /\ Stored(x, Root(x, r)) = Stored(w, Root(w, r))
  BY <1>1, SameRoots DEF Wrote
<1>3. \A r \in Regions : \A k \in SlotsIn(r) : Pointer(x, a, r, k) = Pointer(w, a, r, k)
  BY <1>2 DEF Pointer
<1>4. Holds(w, a, NeedAt(w, p, offset, len), ValAt(p, offset, len, appends))
  BY <1>1 DEF Wrote
<1>5. Holds(x, a, NeedAt(x, p2, offset, len), ValAt(p2, offset, len, appends))
  BY <1>2, <1>3, <1>4, HoldsAlike
<1> QED
  BY <1>2, <1>5 DEF Wrote

\* A write that has ended.
LEMMA RestsWrote ==
    ASSUME NEW offset, NEW len, NEW appends, Call(offset, len, appends),
           NEW a, NEW p \in Nat, NEW p2 \in Nat, p <= p2,
           NEW w, Progress(w, a, p, offset, len, appends), w.full \/ w.len = 0
    PROVE  Wrote(w, a, p2, offset, len, appends)
<1>1. /\ w.offset_cnt \in Nat /\ w.cnt \in Nat /\ w.len \in Nat
      /\ w.cnt + w.len = len /\ Reached(w, p, offset)
  BY DEF Progress, Going, WriteStates, Wrote
<1>2. /\ offset \in Nat /\ len \in Nat /\ len > 0 /\ size \in Nat /\ offset <= size
  BY DEF Call
<1>3. \/ w.full /\ size <= p
      \/ ~w.full /\ w.offset_cnt = offset /\ w.len = 0 /\ offset + len <= p
  BY <1>1, <1>2 DEF Reached
<1>4. Reached(w, p2, offset)
  BY <1>1, <1>2, <1>3 DEF Reached
<1>5. ASSUME NEW y \in NeedAt(w, p2, offset, len)
      PROVE  /\ y \in NeedAt(w, p, offset, len)
             /\ ValAt(p2, offset, len, appends)[y] = ValAt(p, offset, len, appends)[y]
  <2>1. y \in Nat /\ (y <= size \/ (~w.full /\ y <= p2 /\ y <= offset + len))
    BY DEF NeedAt
  <2>2. y <= size \/ (~w.full /\ y <= p /\ y <= offset + len)
    BY <1>2, <1>3, <2>1
  <2>3. (offset < y /\ y <= offset + len /\ y <= p2)
          <=> (offset < y /\ y <= offset + len /\ y <= p)
    BY <1>2, <1>3, <2>1, <2>2
  <2> QED
    BY <2>1, <2>2, <2>3 DEF NeedAt, ValAt
<1>6. SameTables(w, w)
  BY DEF SameTables
<1> QED
  BY <1>4, <1>5, <1>6, MovesOn

\* The walk passes what lies before offset.
LEMMA PassesWrote ==
    ASSUME NEW offset, NEW len, NEW appends, Call(offset, len, appends),
           NEW a, NEW p \in Nat, NEW span \in Nat,
           NEW w, Progress(w, a, p, offset, len, appends), ~w.full, w.len # 0,
           Before(w.offset_cnt, span, offset)
    PROVE  Wrote(Passed(w, span), a, p + span, offset, len, appends)
<1> DEFINE x == Passed(w, span)
<1>1. /\ w \in WriteStates /\ w.offset_cnt \in Nat /\ w.cnt \in Nat
      /\ Reached(w, p, offset) /\ w.offset_cnt + span < offset
  BY DEF Progress, Going, WriteStates, Wrote, Before
<1>2. /\ offset \in Nat /\ len \in Nat /\ len > 0 /\ size \in Nat /\ offset <= size
  BY DEF Call
<1>3. w.offset_cnt = p /\ w.cnt = 0
  BY <1>1, <1>2 DEF Reached
<1>4. /\ x.disk = w.disk /\ x.direct = w.direct
      /\ x.indir_1 = w.indir_1 /\ x.indir_2 = w.indir_2 /\ x.tbl = w.tbl
      /\ x.tbl2 = w.tbl2 /\ x.cnt = w.cnt /\ x.len = w.len /\ x.full = w.full
      /\ x.offset_cnt = w.offset_cnt + span
  BY <1>1 DEF WriteStates, Passed
<1> HIDE DEF x
<1>5. SameTables(w, x)
  BY <1>4 DEF SameTables
<1>6. Reached(x, p + span, offset)
  BY <1>1, <1>2, <1>3, <1>4 DEF Reached
<1>7. ASSUME NEW y \in NeedAt(x, p + span, offset, len)
      PROVE  /\ y \in NeedAt(w, p, offset, len)
             /\ ValAt(p + span, offset, len, appends)[y] = ValAt(p, offset, len, appends)[y]
  <2>1. y \in Nat /\ y <= size
    BY <1>1, <1>2, <1>3, <1>4 DEF NeedAt
  <2>2. ~(offset < y /\ y <= p + span) /\ ~(offset < y /\ y <= p)
    BY <1>1, <1>2, <1>3, <2>1
  <2> QED
    BY <2>1, <2>2 DEF NeedAt, ValAt
<1>8. Wrote(x, a, p + span, offset, len, appends)
  BY <1>4, <1>5, <1>6, <1>7, MovesOn
<1> QED
  BY <1>8 DEF x

\* No block is free, and the bytes before the end have been passed.
LEMMA RunsOutWrote ==
    ASSUME NEW offset, NEW len, NEW appends, Call(offset, len, appends),
           NEW a, NEW p \in Nat, NEW p2 \in Nat, p <= p2, size <= p,
           NEW w, Progress(w, a, p, offset, len, appends), ~w.full
    PROVE  Wrote(RanOut(w), a, p2, offset, len, appends)
<1> DEFINE x == RanOut(w)
<1>1. w \in WriteStates
  BY DEF Progress, Going
<1>2. offset \in Nat /\ len \in Nat /\ len > 0 /\ size \in Nat /\ offset <= size
  BY DEF Call
<1>3. /\ x.disk = w.disk /\ x.direct = w.direct
      /\ x.indir_1 = w.indir_1 /\ x.indir_2 = w.indir_2 /\ x.tbl = w.tbl
      /\ x.tbl2 = w.tbl2 /\ x.full
  BY <1>1 DEF WriteStates, RanOut
<1> HIDE DEF x
<1>4. SameTables(w, x)
  BY <1>3 DEF SameTables
<1>5. Reached(x, p2, offset)
  BY <1>2, <1>3 DEF Reached
<1>6. ASSUME NEW y \in NeedAt(x, p2, offset, len)
      PROVE  /\ y \in NeedAt(w, p, offset, len)
             /\ ValAt(p2, offset, len, appends)[y] = ValAt(p, offset, len, appends)[y]
  <2>1. y \in Nat /\ y <= size
    BY <1>3 DEF NeedAt
  <2>2. y <= p2 /\ y <= p
    BY <1>2, <2>1
  <2> QED
    BY <2>1, <2>2 DEF NeedAt, ValAt
<1>7. Wrote(x, a, p2, offset, len, appends)
  BY <1>3, <1>4, <1>5, <1>6, MovesOn
<1> QED
  BY <1>7 DEF x

\* A slot that gets a block had no byte that is asked for.
LEMMA TakesWrote ==
    ASSUME NEW offset, NEW len, NEW appends, Call(offset, len, appends),
           NEW a \in Regions, NEW k \in SlotsIn(a), NEW p \in Nat,
           NEW w, Progress(w, a, p, offset, len, appends),
           w.tbl[k] = 0, NEW b \in Blocks \ w.map
    PROVE  Progress(Took(w, k, b), a, p, offset, len, appends)
<1> DEFINE x == Took(w, k, b)
<1>1. /\ w \in WriteStates /\ Going(w, offset, len) /\ Wrote(w, a, p, offset, len, appends)
      /\ Root(w, a) # 0 /\ Working(w, Root(w, a)) /\ a # None
  BY InProgress
<1>2. SlotsOf(Root(w, a)) = SlotsIn(a)
  BY <1>1, SlotsOfRoot
<1>3. Going(x, offset, len) /\ Working(x, Root(w, a)) /\ SameTables(w, x)
  BY <1>1, <1>2, TakesBlock
<1>4. /\ x.disk = w.disk /\ x.tbl = [w.tbl EXCEPT ![k] = b]
      /\ x.offset_cnt = w.offset_cnt /\ x.cnt = w.cnt /\ x.len = w.len /\ x.full = w.full
  BY <1>1 DEF WriteStates, Took
<1> HIDE DEF x
<1>5. Kept(x) /\ \A r \in Regions : /\ Root(x, r) = Root(w, r)
                                   /\ Stored(x, Root(x, r)) = Stored(w, Root(w, r))
  BY <1>1, <1>3, SameRoots DEF Wrote
<1>6. Reached(x, p, offset)
  BY <1>1, <1>4 DEF Wrote, Reached
<1>7. NeedAt(x, p, offset, len) = NeedAt(w, p, offset, len)
  BY <1>4 DEF NeedAt
<1>8. Holds(w, a, NeedAt(w, p, offset, len), ValAt(p, offset, len, appends))
  BY <1>1 DEF Wrote
<1>9. ASSUME NEW r \in Regions, NEW i \in SlotsIn(r),
             \E j \in Bytes : Start(r, i) + j \in NeedAt(x, p, offset, len)
      PROVE  Root(w, r) # 0 => Pointer(x, a, r, i) = Pointer(w, a, r, i)
  <2>1. Pointer(w, a, r, i) # 0
    BY <1>7, <1>8, <1>9 DEF Holds
  <2>2. CASE r = a
    <3>1. i # k
      BY <1>1, <2>1, <2>2 DEF Pointer
    <3> QED
      BY <1>4, <2>2, <3>1 DEF Pointer
  <2>3. CASE r # a
    BY <1>5, <2>3 DEF Pointer
  <2> QED
    BY <2>2, <2>3
<1>10. Holds(x, a, NeedAt(x, p, offset, len), ValAt(p, offset, len, appends))
  BY <1>4, <1>5, <1>7, <1>8, <1>9, HoldsAlike
<1>11. Held(x, a)
  BY <1>1, <1>3, <1>5 DEF Held
<1> QED
  BY <1>3, <1>5, <1>6, <1>10, <1>11 DEF Progress, Wrote, x

\* One turn of write_helper.
LEMMA TurnWrites ==
    ASSUME NEW offset, NEW len, NEW appends, Call(offset, len, appends),
           NEW a \in Regions, NEW k \in SlotsIn(a),
           NEW w, Progress(w, a, Start(a, k), offset, len, appends)
    PROVE  LET x == WriteBlock(w, k, offset, appends)
           IN Progress(x, a, Start(a, k + 1), offset, len, appends) /\ SameTables(w, x)
<1> DEFINE x == WriteBlock(w, k, offset, appends)
           p == Start(a, k)
           c == Allocated(w, w.tbl[k])
<1>1. /\ w \in WriteStates /\ Going(w, offset, len) /\ Wrote(w, a, p, offset, len, appends)
      /\ Root(w, a) # 0 /\ Working(w, Root(w, a)) /\ a # None
  BY InProgress
<1>2. /\ offset \in Nat /\ len \in Nat /\ appends \in BOOLEAN
      /\ size \in Nat /\ FS_BLOCK_SIZE \in Nat
  BY Sizes DEF Call
<1>3. /\ SlotsOf(Root(w, a)) = SlotsIn(a) /\ p \in Nat /\ p + FS_BLOCK_SIZE \in Nat
      /\ Start(a, k + 1) = p + FS_BLOCK_SIZE /\ p <= p + FS_BLOCK_SIZE
      /\ w.tbl \in [SlotsIn(a) -> Blocks]
  <2>1. SlotsOf(Root(w, a)) = SlotsIn(a) /\ p \in Nat /\ Start(a, k + 1) = p + FS_BLOCK_SIZE
    BY <1>1, SlotsOfRoot, SlotTypes
  <2> QED
    BY <1>1, <1>2, <2>1 DEF Working
<1>4. Going(x, offset, len) /\ Working(x, Root(w, a)) /\ SameTables(w, x)
  BY <1>1, <1>2, <1>3, TurnKeeps
<1> HIDE DEF p
<1>5. Wrote(x, a, p + FS_BLOCK_SIZE, offset, len, appends)
  <2>1. CASE w.full \/ w.len = 0
    <3>1. x = w
      BY <2>1 DEF WriteBlock
    <3> HIDE DEF x
    <3> QED
      BY <1>3, <2>1, <3>1, RestsWrote DEF p
  <2>2. CASE ~(w.full \/ w.len = 0) /\ Before(w.offset_cnt, FS_BLOCK_SIZE, offset)
    <3>1. x = Passed(w, FS_BLOCK_SIZE)
      BY <2>2 DEF WriteBlock, Passed
    <3> HIDE DEF x
    <3> QED
      BY <1>2, <1>3, <2>2, <3>1, PassesWrote DEF p
  <2>3. CASE ~(w.full \/ w.len = 0) /\ ~Before(w.offset_cnt, FS_BLOCK_SIZE, offset)
    <3>1. offset <= w.offset_cnt + FS_BLOCK_SIZE
      BY <1>1, <1>2, <2>3 DEF Before, WriteStates
    <3>2. x = IF c.w.full THEN c.w
              ELSE PutBytes([c.w EXCEPT !.tbl[k] = c.ptr], c.ptr, offset, appends)
      BY <2>3 DEF WriteBlock
    <3>3. CASE w.tbl[k] # 0
      <4>1. c.w = w /\ c.ptr = w.tbl[k]
        BY <3>3 DEF Allocated
      <4>2. [w EXCEPT !.tbl[k] = w.tbl[k]] = w
        BY <1>1, <1>3 DEF WriteStates
      <4>3. x = PutBytes(w, w.tbl[k], offset, appends)
        BY <2>3, <3>2, <4>1, <4>2
      <4> HIDE DEF x
      <4> QED
        BY <2>3, <3>1, <3>3, <4>3, FillsWrote DEF p
    <3>4. CASE w.tbl[k] = 0 /\ Free(w.map) = {}
      <4>1. c.w = RanOut(w)
        BY <3>4 DEF Allocated, RanOut
      <4>2. RanOut(w).full
        BY <1>1, RunsOut
      <4>3. x = RanOut(w)
        BY <3>2, <4>1, <4>2
      <4>4. size <= p
        <5>1. PICK q : InMemory(q, w, a)
          BY <1>1, HeldMeans DEF Progress
        <5>2. Stored(w, Root(w, a))[k] = 0
          BY <1>1, <1>3, <3>4, <5>1 DEF InMemory, Copied
        <5>3. ~(p < size)
          BY <1>1, <5>2 DEF Wrote, Kept, p
        <5> QED
          BY <1>2, <1>3, <5>3
      <4> HIDE DEF x
      <4> QED
        BY <1>3, <2>3, <4>3, <4>4, RunsOutWrote DEF p
    <3>5. CASE w.tbl[k] = 0 /\ Free(w.map) # {}
      <4> DEFINE b == get_next_block(w.map)
                 v == Took(w, k, b)
      <4>1. c.w = [w EXCEPT !.map = @ \cup {b}] /\ c.ptr = b
        BY <3>5 DEF Allocated
      <4>2. b \in Blocks \ w.map
        BY <3>5, NextBlockIsFree
      <4> HIDE DEF b
      <4>3. ~c.w.full /\ [c.w EXCEPT !.tbl[k] = c.ptr] = v
        BY <1>1, <2>3, <4>1 DEF WriteStates, Took
      <4>4. x = PutBytes(v, b, offset, appends)
        BY <3>2, <4>1, <4>3
      <4> HIDE DEF x, c
      <4>5. Progress(v, a, Start(a, k), offset, len, appends)
        BY <1>3, <3>5, <4>2, TakesWrote DEF p
      <4>6. /\ v.tbl[k] = b /\ v.full = w.full /\ v.len = w.len /\ v.offset_cnt = w.offset_cnt
            /\ b # 0
        BY <1>1, <1>3, <4>2, Sizes DEF WriteStates, Took, Going
      <4> HIDE DEF v
      <4>7. /\ ~v.full /\ v.len # 0 /\ v.tbl[k] # 0 /\ offset <= v.offset_cnt + FS_BLOCK_SIZE
        BY <2>3, <3>1, <4>6
      <4>8. Wrote(PutBytes(v, v.tbl[k], offset, appends), a, Start(a, k) + FS_BLOCK_SIZE,
                  offset, len, appends)
        BY <4>5, <4>7, FillsWrote
      <4> QED
        BY <4>4, <4>6, <4>8 DEF p
    <3> QED
      BY <3>3, <3>4, <3>5
  <2> QED
    BY <2>1, <2>2, <2>3
<1> HIDE DEF x
<1>6. Root(x, a) = Root(w, a)
  BY <1>1, <1>4, SameRoots
<1>7. Held(x, a)
  BY <1>1, <1>4, <1>6 DEF Held
<1> QED
  BY <1>3, <1>4, <1>5, <1>7 DEF Progress, x

-----------------------------------------------------------------------------
(* A table is read, used and written back. *)

LEMMA HelperWrites ==
    ASSUME NEW offset, NEW len, NEW appends, Call(offset, len, appends),
           NEW a \in Regions, NEW n \in Nat, SlotsIn(a) = 1 .. n,
           NEW w, Progress(w, a, Base(a), offset, len, appends), ~w.full, w.len # 0
    PROVE  LET x == write_helper(w, n, offset, appends)
           IN Progress(x, a, Base(a + 1), offset, len, appends) /\ SameTables(w, x)
<1> DEFINE x == write_helper(w, n, offset, appends)
<1>1. /\ w \in WriteStates /\ Going(w, offset, len) /\ Root(w, a) # 0
      /\ Working(w, Root(w, a))
  BY InProgress
<1>2. /\ offset \in Nat /\ len \in Nat /\ appends \in BOOLEAN
      /\ FS_BLOCK_SIZE \in Nat
  BY Sizes DEF Call
<1>3. SlotsOf(Root(w, a)) = 1 .. n
  BY <1>1, SlotsOfRoot
<1>4. /\ n > 0 /\ n \in Nat \ {0} /\ Base(a) \in Nat /\ FS_BLOCK_SIZE * n \in Nat
      /\ Start(a, 1) = Base(a) /\ Start(a, n + 1) = Base(a) + FS_BLOCK_SIZE * n
      /\ Base(a + 1) = Base(a) + FS_BLOCK_SIZE * n
  <2>1. PICK m \in Nat : /\ m > 0 /\ SlotsIn(a) = 1 .. m
                         /\ Base(a + 1) = Base(a) + FS_BLOCK_SIZE * m
    BY Starts
  <2>2. m = n
    BY <2>1
  <2>3. n \in Nat \ {0} /\ n > 0
    BY <2>1, <2>2
  <2> QED
    BY <1>2, <2>1, <2>2, <2>3, Starts, Bases, OneMore
<1>5. Going(x, offset, len) /\ Working(x, Root(w, a)) /\ SameTables(w, x)
  BY <1>1, <1>2, <1>3, HelperKeeps
<1>6. Root(x, a) = Root(w, a)
  BY <1>1, <1>5, SameRoots
<1>7. Progress(x, a, Base(a) + FS_BLOCK_SIZE * n, offset, len, appends)
  <2>1. CASE Before(w.offset_cnt, FS_BLOCK_SIZE * n, offset)
    <3> DEFINE span == FS_BLOCK_SIZE * n
    <3>1. x = Passed(w, span)
      BY <2>1 DEF write_helper, Passed
    <3>2. span \in Nat /\ Before(w.offset_cnt, span, offset)
      BY <1>4, <2>1
    <3> HIDE DEF x, span
    <3>3. Wrote(x, a, Base(a) + span, offset, len, appends)
      BY <1>4, <3>1, <3>2, PassesWrote
    <3>4. Held(x, a)
      <4>1. Held(w, a) /\ a # None
        BY InProgress DEF Progress
      <4> QED
        BY <1>1, <1>5, <1>6, <4>1 DEF Held
    <3> QED
      BY <1>5, <3>3, <3>4 DEF Progress, span
  <2>2. CASE ~Before(w.offset_cnt, FS_BLOCK_SIZE * n, offset)
    <3>1. x = WriteTurns(w, n, offset, appends)[n]
      BY <2>2 DEF write_helper
    <3> HIDE DEF x
    <3> DEFINE t == WriteTurns(w, n, offset, appends)
               K == {k \in 0 .. n : Progress(t[k], a, Start(a, k + 1), offset, len, appends)}
    <3>2. /\ t[0] = w
          /\ \A k \in 1 .. n : t[k] = WriteBlock(t[k - 1], k, offset, appends)
      <4>1. TurnsKept(t, w, Root(w, a), n, offset, len, appends)
        BY <1>1, <1>2, <1>3, TurnsKeep
      <4> HIDE DEF t
      <4> QED
        BY <4>1 DEF TurnsKept
    <3> HIDE DEF t
    <3>3. 0 \in K
      BY <1>4, <3>2
    <3>4. ASSUME NEW k \in 0 .. n, k \in K, k < n PROVE k + 1 \in K
      <4>1. k + 1 \in 1 .. n /\ (k + 1) - 1 = k /\ k + 1 \in SlotsIn(a) /\ k + 1 \in 0 .. n
        BY <3>4
      <4>2. t[k + 1] = WriteBlock(t[k], k + 1, offset, appends)
        BY <3>2, <4>1
      <4>3. Progress(t[k], a, Start(a, k + 1), offset, len, appends)
        BY <3>4
      <4>4. Progress(t[k + 1], a, Start(a, (k + 1) + 1), offset, len, appends)
        BY <4>1, <4>2, <4>3, TurnWrites
      <4> QED
        BY <4>1, <4>4
    <3> HIDE DEF K
    <3>5. \A k \in 0 .. n : k \in K
      BY <3>3, <3>4, UpTo
    <3>6. n \in K
      BY <3>5
    <3> QED
      BY <1>4, <3>1, <3>6 DEF K, t
  <2> QED
    BY <2>1, <2>2
<1> HIDE DEF x
<1> QED
  BY <1>4, <1>5, <1>7 DEF x

\* The table of region a is read.
LEMMA LoadsWrote ==
    ASSUME NEW offset, NEW len, NEW appends, Call(offset, len, appends),
           NEW a \in Regions, NEW p \in Nat,
           NEW w, Progress(w, None, p, offset, len, appends), Root(w, a) # 0
    PROVE  LET x == Loaded(w, Stored(w, Root(w, a)))
           IN /\ Progress(x, a, p, offset, len, appends) /\ SameTables(w, x)
              /\ SameCounts(w, x) /\ Root(x, a) = Root(w, a)
<1> DEFINE x == Loaded(w, Stored(w, Root(w, a)))
<1>1. /\ w \in WriteStates /\ Going(w, offset, len) /\ Between(w)
      /\ Wrote(w, None, p, offset, len, appends)
  BY DEF Progress, Held, Going
<1>2. PICK q : Tracked(q, w)
  BY <1>1 DEF Between
<1>3. Root(w, a) \in w.map \cup {Inode} /\ Root(w, a) # w.indir_2
  <2>1. CASE a = 0
    BY <1>1, <2>1, Sizes DEF Root, WriteStates
  <2>2. CASE a # 0
    BY <1>1, <1>2, <2>2, RootsMarked
  <2> QED
    BY <2>1, <2>2
<1>4. /\ Going(x, offset, len) /\ Working(x, Root(w, a)) /\ SameTables(w, x)
      /\ x.offset_cnt = w.offset_cnt /\ x.cnt = w.cnt
      /\ x.len = w.len /\ x.full = w.full
  BY <1>1, <1>3, LoadsTable
<1>5. x.tbl = Stored(w, Root(w, a)) /\ x.disk = w.disk
  BY <1>1 DEF WriteStates, Loaded
<1> HIDE DEF x
<1>6. Kept(x) /\ \A r \in Regions : /\ Root(x, r) = Root(w, r)
                                   /\ Stored(x, Root(x, r)) = Stored(w, Root(w, r))
  BY <1>1, <1>4, SameRoots DEF Wrote
<1>7. ASSUME NEW r \in Regions, NEW k \in SlotsIn(r)
      PROVE  Pointer(x, a, r, k) = Pointer(w, None, r, k)
  <2>1. r # None
    BY Sizes DEF Regions, None
  <2> QED
    BY <1>5, <1>6, <2>1 DEF Pointer
<1>8. NeedAt(x, p, offset, len) = NeedAt(w, p, offset, len)
  BY <1>4 DEF NeedAt
<1>9. Holds(w, None, NeedAt(w, p, offset, len), ValAt(p, offset, len, appends))
  BY <1>1 DEF Wrote
<1>10. Holds(x, a, NeedAt(x, p, offset, len), ValAt(p, offset, len, appends))
  BY <1>5, <1>6, <1>7, <1>8, <1>9, HoldsAlike
<1>11. Reached(x, p, offset)
  BY <1>1, <1>4 DEF Wrote, Reached
<1>12. Held(x, a)
  <2>1. a # None
    BY Sizes DEF Regions, None
  <2> QED
    BY <1>4, <1>6, <2>1 DEF Held
<1> QED
  BY <1>4, <1>6, <1>10, <1>11, <1>12 DEF Progress, Wrote, SameCounts, x

\* A call that has failed or not passed the end asks for nothing beyond it.
LEMMA NeedInside ==
    ASSUME NEW offset, NEW len, NEW appends, Call(offset, len, appends), NEW p \in Nat,
           NEW w, Going(w, offset, len), Reached(w, p, offset),
           w.full \/ w.offset_cnt + w.cnt <= size,
           NEW y \in NeedAt(w, p, offset, len)
    PROVE  y \in Nat /\ y <= size
<1>1. /\ offset \in Nat /\ len \in Nat /\ size \in Nat /\ offset <= size
      /\ w.offset_cnt \in Nat /\ w.cnt \in Nat /\ w.len \in Nat /\ w.cnt + w.len = len
  BY DEF Call, Going, WriteStates
<1>2. y \in Nat /\ (y <= size \/ (~w.full /\ y <= p /\ y <= offset + len))
  BY DEF NeedAt
<1> QED
  BY <1>1, <1>2 DEF Reached

\* The slot of a byte before the end begins before it.
LEMMA StartsInside ==
    ASSUME NEW r \in Regions, NEW k \in SlotsIn(r), NEW j \in Bytes,
           size \in Nat, Start(r, k) + j <= size
    PROVE  Start(r, k) < size
<1>1. j \in 1 .. FS_BLOCK_SIZE /\ Start(r, k) \in Nat /\ FS_BLOCK_SIZE \in Nat
  BY SlotTypes, Sizes
<1> QED
  BY <1>1

\* What was read from a table on disk is there unless it is new.
LEMMA FlushesWrote ==
    ASSUME NEW offset, NEW len, NEW appends, Call(offset, len, appends),
           NEW a \in Regions, a # 0, NEW p \in Nat,
           NEW w, Progress(w, a, p, offset, len, appends)
    PROVE  LET x == Flushed(w, Root(w, a))
           IN Progress(x, None, p, offset, len, appends) /\ SameUpper(w, x)
<1> DEFINE b == Root(w, a)
           x == Flushed(w, b)
<1>1. /\ w \in WriteStates /\ Going(w, offset, len)
      /\ Wrote(w, a, p, offset, len, appends)
      /\ b # 0 /\ Working(w, b) /\ a # None
  BY InProgress
<1>2. PICK q : InMemory(q, w, a)
  BY <1>1, HeldMeans DEF Progress
<1>3. /\ Tracked(q, w) /\ Copied(q, w, w.tbl, b) /\ w.tbl \in [SlotsIn(a) -> Blocks]
  BY <1>1, <1>2 DEF InMemory
<1>4. b \in Blocks /\ b # Inode /\ b \in w.map /\ b # w.indir_2 /\ SlotsIn(a) = Ptrs
  BY <1>1, <1>3, RootTypes, RootsMarked, Sizes DEF SlotsIn
<1> HIDE DEF x
<1>5. /\ Going(x, offset, len) /\ Between(x) /\ SameUpper(w, x) /\ SameCounts(w, x)
  BY <1>1, <1>4, Flushes DEF x
<1>6. size \in Nat /\ Kept(w) /\ Reached(w, p, offset)
      /\ Holds(w, a, NeedAt(w, p, offset, len), ValAt(p, offset, len, appends))
  BY <1>1 DEF Call, Wrote
<1>7. NeedAt(x, p, offset, len) = NeedAt(w, p, offset, len) /\ Reached(x, p, offset)
  BY <1>5, <1>6 DEF NeedAt, Reached, SameCounts
<1>8. CASE ~w.full /\ w.offset_cnt + w.cnt > size
  <2>1. x = PutTable(w, b, w.tbl)
    BY <1>8 DEF Flushed, PutTable, x
  <2> HIDE DEF b
  <2>2. LET v == PutTable(w, b, w.tbl)
        IN /\ v.direct = w.direct /\ v.indir_1 = w.indir_1
           /\ v.indir_2 = w.indir_2 /\ v.tbl2 = w.tbl2
           /\ \A c \in Blocks : /\ v.disk[c].bytes = w.disk[c].bytes
                                /\ v.disk[c].ptrs = IF c = b THEN w.tbl ELSE w.disk[c].ptrs
    BY <1>1, <1>3, <1>4, PutsTable
  <2>3. /\ x.direct = w.direct /\ x.indir_1 = w.indir_1
        /\ x.indir_2 = w.indir_2 /\ x.tbl2 = w.tbl2
        /\ \A c \in Blocks : /\ x.disk[c].bytes = w.disk[c].bytes
                             /\ x.disk[c].ptrs = IF c = b THEN w.tbl ELSE w.disk[c].ptrs
    BY <2>1, <2>2
  <2>4. w.indir_2 \in Blocks /\ x.disk[w.indir_2].ptrs = w.disk[w.indir_2].ptrs
    BY <1>1, <1>4, <2>3 DEF WriteStates
  <2>5. \A r \in Regions : Root(x, r) = Root(w, r)
    BY <2>3, <2>4 DEF Root, Upper
  <2>6. ASSUME NEW r \in Regions, Root(w, r) # 0
        PROVE  Stored(x, Root(x, r)) = IF r = a THEN w.tbl ELSE Stored(w, Root(w, r))
    <3>1. CASE r = a
      BY <1>4, <2>3, <2>5, <3>1 DEF Stored, b
    <3>2. CASE r # a
      <4>1. Root(w, r) # b
        BY <1>1, <1>3, <2>6, <3>2, RootsApart DEF b
      <4>2. Root(w, r) \in Holders
        BY <1>1, RootTypes
      <4> QED
        BY <2>3, <2>5, <3>2, <4>1, <4>2 DEF Stored, Holders
    <3> QED
      BY <3>1, <3>2
  <2>7. ASSUME NEW r \in Regions, NEW k \in SlotsIn(r), Root(w, r) # 0
        PROVE  Pointer(x, None, r, k) = Pointer(w, a, r, k)
    <3>1. r # None
      BY Sizes DEF Regions, None
    <3> QED
      BY <2>6, <2>7, <3>1 DEF Pointer
  <2>8. ASSUME NEW r \in Regions, NEW k \in SlotsIn(r)
        PROVE  Pointer(w, a, r, k) \in Blocks
    BY <1>1, <1>2, PointersFollow
  <2>9. Holds(x, None, NeedAt(x, p, offset, len), ValAt(p, offset, len, appends))
    BY <1>6, <1>7, <2>3, <2>5, <2>7, <2>8, HoldsAlike
  <2>10. Kept(x)
    <3>1. SUFFICES ASSUME NEW r \in Regions, NEW k \in SlotsIn(r), Start(r, k) < size
                   PROVE  /\ Root(x, r) # 0 /\ Stored(x, Root(x, r))[k] # 0
                          /\ r > 1 => x.disk[x.indir_2].ptrs[r - 1] # 0
      BY DEF Kept
    <3>2. /\ Root(w, r) # 0 /\ Stored(w, Root(w, r))[k] # 0
          /\ r > 1 => w.disk[w.indir_2].ptrs[r - 1] # 0
      BY <1>6, <3>1 DEF Kept
    <3>3. r = a => w.tbl[k] # 0
      BY <1>3, <3>2 DEF Copied, b
    <3> QED
      BY <2>3, <2>4, <2>5, <2>6, <3>2, <3>3
  <2> QED
    BY <1>5, <1>7, <2>9, <2>10 DEF Progress, Held, Wrote, x, b
<1>9. CASE ~(~w.full /\ w.offset_cnt + w.cnt > size)
  <2>1. x = w
    BY <1>9 DEF Flushed, x
  <2>2. w.full \/ w.offset_cnt + w.cnt <= size
    BY <1>1, <1>6, <1>9 DEF WriteStates
  <2>3. ASSUME NEW r \in Regions, NEW k \in SlotsIn(r),
               \E j \in Bytes : Start(r, k) + j \in NeedAt(w, p, offset, len)
        PROVE  Pointer(w, None, r, k) = Pointer(w, a, r, k)
    <3>1. r # None
      BY Sizes DEF Regions, None
    <3>2. CASE r # a
      BY <3>1, <3>2 DEF Pointer
    <3>3. CASE r = a
      <4>1. PICK j \in Bytes : Start(r, k) + j \in NeedAt(w, p, offset, len)
        BY <2>3
      <4>2. Start(r, k) + j <= size
        BY <1>1, <1>6, <2>2, <4>1, NeedInside
      <4>3. Start(r, k) < size
        BY <1>6, <4>2, StartsInside
      <4>4. Stored(w, b)[k] # 0
        BY <1>6, <3>3, <4>3 DEF Kept
      <4>5. w.tbl[k] # 0 /\ w.tbl[k] \in {0, q[<<b, k>>]}
        BY <1>3, <3>3, <4>4 DEF Copied
      <4>6. Stored(w, b)[k] \in {0, q[<<b, k>>]}
        BY <1>3, <1>4, <3>3 DEF Tracked, Under, Stored
      <4>7. w.tbl[k] = Stored(w, b)[k]
        BY <4>4, <4>5, <4>6
      <4> QED
        BY <3>1, <3>3, <4>7 DEF Pointer
    <3> QED
      BY <3>2, <3>3
  <2>4. Holds(w, None, NeedAt(w, p, offset, len), ValAt(p, offset, len, appends))
    BY <1>6, <2>3, HoldsAlike
  <2> QED
    BY <1>5, <1>6, <2>1, <2>4 DEF Progress, Held, Wrote, x
<1> QED
  BY <1>8, <1>9

\* The table of direct[] goes back to the inode.
LEMMA DirectWrites ==
    ASSUME NEW offset, NEW len, NEW appends, Call(offset, len, appends),
           NEW w, Progress(w, None, 0, offset, len, appends), ~w.full, w.len # 0
    PROVE  LET x == WriteDirect(w, offset, appends)
           IN Progress(x, None, Base(1), offset, len, appends) /\ SameUpper(w, x)
<1> DEFINE y == Loaded(w, w.direct)
           z == write_helper(y, N_DIRECT, offset, appends)
           x == WriteDirect(w, offset, appends)
<1>1. /\ w \in WriteStates /\ Going(w, offset, len) /\ Between(w)
      /\ offset \in Nat /\ appends \in BOOLEAN
  BY DEF Progress, Held, Going, Call
<1>2. /\ 0 \in Regions /\ SlotsIn(0) = 1 .. N_DIRECT /\ N_DIRECT \in Nat
      /\ Root(w, 0) = Inode /\ Inode # 0 /\ 0 # None /\ Base(0) = 0
      /\ Stored(w, Root(w, 0)) = w.direct
  BY Sizes, Bases DEF Regions, SlotsIn, Root, Stored, Inode, None
<1>3. /\ Progress(y, 0, Base(0), offset, len, appends) /\ SameTables(w, y)
      /\ SameCounts(w, y)
  <2>1. /\ Progress(Loaded(w, Stored(w, Root(w, 0))), 0, 0, offset, len, appends)
        /\ SameTables(w, Loaded(w, Stored(w, Root(w, 0))))
        /\ SameCounts(w, Loaded(w, Stored(w, Root(w, 0))))
    BY <1>2, LoadsWrote
  <2> QED
    BY <1>2, <2>1
<1> HIDE DEF y
<1>4. ~y.full /\ y.len # 0
  BY <1>3 DEF SameCounts
<1>5. Progress(z, 0, Base(1), offset, len, appends) /\ SameTables(y, z)
  <2>1. 0 + 1 = 1
    OBVIOUS
  <2>2. Progress(z, 0, Base(0 + 1), offset, len, appends) /\ SameTables(y, z)
    BY <1>2, <1>3, <1>4, HelperWrites
  <2> QED
    BY <2>1, <2>2
<1>6. x = StoreDirect(z) /\ Going(x, offset, len) /\ Between(x)
  <2>1. x = StoreDirect(z)
    BY DEF WriteDirect, Loaded, StoreDirect, y
  <2> HIDE DEF z
  <2>2. Going(x, offset, len) /\ Between(x)
    BY <1>1, DirectKeeps
  <2> QED
    BY <2>1, <2>2
<1> HIDE DEF z, x
<1>7. z \in WriteStates /\ Wrote(z, 0, Base(1), offset, len, appends)
  BY <1>2, <1>5, InProgress
<1>8. PICK q : InMemory(q, z, 0)
  BY <1>5, <1>7, HeldMeans DEF Progress
<1>9. /\ x.disk = z.disk /\ x.direct = z.tbl
      /\ x.indir_1 = z.indir_1 /\ x.indir_2 = z.indir_2
      /\ x.tbl2 = z.tbl2 /\ x.cnt = z.cnt /\ x.len = z.len
      /\ x.offset_cnt = z.offset_cnt /\ x.full = z.full
  BY <1>6, <1>7 DEF WriteStates, StoreDirect
<1>10. SameUpper(w, x)
  BY <1>3, <1>5, <1>9 DEF SameTables, SameUpper
<1>11. \A r \in Regions : Root(x, r) = Root(z, r)
  BY <1>9 DEF Root, Upper
<1>12. ASSUME NEW r \in Regions
       PROVE  Stored(x, Root(x, r)) = IF r = 0 THEN z.tbl ELSE Stored(z, Root(z, r))
  <2>1. CASE r = 0
    BY <1>9, <2>1 DEF Root, Stored
  <2>2. CASE r # 0
    <3>1. Root(z, r) # Inode
      BY <1>7, <2>2, RootTypes, Sizes
    <3> QED
      BY <1>9, <1>11, <2>2, <3>1 DEF Stored
  <2> QED
    BY <2>1, <2>2
<1>13. ASSUME NEW r \in Regions, NEW k \in SlotsIn(r)
       PROVE  Pointer(x, None, r, k) = Pointer(z, 0, r, k)
  <2>1. r # None
    BY Sizes DEF Regions, None
  <2> QED
    BY <1>12, <2>1 DEF Pointer
<1>14. /\ Holds(z, 0, NeedAt(z, Base(1), offset, len), ValAt(Base(1), offset, len, appends))
       /\ Kept(z) /\ Reached(z, Base(1), offset)
  BY <1>7 DEF Wrote
<1>15. NeedAt(x, Base(1), offset, len) = NeedAt(z, Base(1), offset, len)
       /\ Reached(x, Base(1), offset)
  BY <1>9, <1>14 DEF NeedAt, Reached
<1>16. Holds(x, None, NeedAt(x, Base(1), offset, len), ValAt(Base(1), offset, len, appends))
  BY <1>9, <1>11, <1>13, <1>14, <1>15, HoldsAlike
<1>17. Kept(x)
  <2>1. SUFFICES ASSUME NEW r \in Regions, NEW k \in SlotsIn(r), Start(r, k) < size
                 PROVE  /\ Root(x, r) # 0 /\ Stored(x, Root(x, r))[k] # 0
                        /\ r > 1 => x.disk[x.indir_2].ptrs[r - 1] # 0
    BY DEF Kept
  <2>2. /\ Root(z, r) # 0 /\ Stored(z, Root(z, r))[k] # 0
        /\ r > 1 => z.disk[z.indir_2].ptrs[r - 1] # 0
    BY <1>14, <2>1 DEF Kept
  <2>3. r = 0 => z.tbl[k] # 0
    BY <1>2, <1>8, <2>2 DEF InMemory, Copied
  <2> QED
    BY <1>9, <1>11, <1>12, <2>2, <2>3
<1> QED
  BY <1>6, <1>10, <1>15, <1>16, <1>17 DEF Progress, Held, Wrote, x

LEMMA TableWrites ==
    ASSUME NEW offset, NEW len, NEW appends, Call(offset, len, appends),
           NEW a \in Regions, a # 0,
           NEW w, Progress(w, None, Base(a), offset, len, appends), ~w.full, w.len # 0,
           Root(w, a) # 0
    PROVE  LET x == WriteTable(w, Root(w, a), offset, appends)
           IN Progress(x, None, Base(a + 1), offset, len, appends) /\ SameUpper(w, x)
<1> DEFINE b == Root(w, a)
           y == Loaded(w, w.disk[b].ptrs)
           z == write_helper(y, PtrsPerBlock, offset, appends)
           x == WriteTable(w, b, offset, appends)
<1>1. w \in WriteStates
  BY DEF Progress, Going
<1>2. /\ SlotsIn(a) = 1 .. PtrsPerBlock /\ PtrsPerBlock \in Nat /\ Base(a) \in Nat
      /\ Base(a + 1) \in Nat
  BY Sizes, Bases DEF SlotsIn, Ptrs
<1>3. b # Inode
  BY <1>1, RootTypes, Sizes
<1>4. Stored(w, b) = w.disk[b].ptrs
  BY <1>3 DEF Stored
<1>5. /\ Progress(y, a, Base(a), offset, len, appends) /\ SameTables(w, y)
      /\ SameCounts(w, y) /\ Root(y, a) = b
  <2>1. LET v == Loaded(w, Stored(w, Root(w, a)))
        IN /\ Progress(v, a, Base(a), offset, len, appends) /\ SameTables(w, v)
           /\ SameCounts(w, v) /\ Root(v, a) = Root(w, a)
    BY <1>2, LoadsWrote
  <2> QED
    BY <1>4, <2>1
<1>6. x = Flushed(z, b)
  BY DEF WriteTable, Loaded
<1> HIDE DEF y, x, b
<1>7. ~y.full /\ y.len # 0
  BY <1>5 DEF SameCounts
<1>8. Progress(z, a, Base(a + 1), offset, len, appends) /\ SameTables(y, z)
  BY <1>2, <1>5, <1>7, HelperWrites
<1> HIDE DEF z
<1>9. Root(z, a) = b
  <2>1. y \in WriteStates
    BY <1>5 DEF Progress, Going
  <2> QED
    BY <1>5, <1>8, <2>1, SameRoots
<1>10. Progress(x, None, Base(a + 1), offset, len, appends) /\ SameUpper(z, x)
  BY <1>2, <1>6, <1>8, <1>9, FlushesWrote
<1>11. SameUpper(w, x)
  BY <1>5, <1>8, <1>10 DEF SameTables, SameUpper
<1> QED
  BY <1>10, <1>11 DEF x, b

\* A table is given a block: no byte of its region was asked for before.
LEMMA OpensWrote ==
    ASSUME NEW offset, NEW len, NEW appends, NEW p,
           NEW w, Progress(w, None, p, offset, len, appends),
           NEW x, Going(x, offset, len), Between(x), SameCounts(w, x),
           x.disk = w.disk, x.direct = w.direct,
           \A r \in Regions : Root(w, r) # 0 => /\ Root(x, r) = Root(w, r)
                                                /\ r > 1 => x.indir_2 = w.indir_2
    PROVE  Progress(x, None, p, offset, len, appends)
<1>1. /\ Holds(w, None, NeedAt(w, p, offset, len), ValAt(p, offset, len, appends))
      /\ Kept(w) /\ Reached(w, p, offset)
  BY DEF Progress, Wrote
<1>2. NeedAt(x, p, offset, len) = NeedAt(w, p, offset, len) /\ Reached(x, p, offset)
  BY <1>1 DEF NeedAt, Reached, SameCounts
<1>3. \A h : Stored(x, h) = Stored(w, h)
  BY DEF Stored
<1>4. ASSUME NEW r \in Regions, NEW k \in SlotsIn(r), Root(w, r) # 0
      PROVE  Pointer(x, None, r, k) = Pointer(w, None, r, k)
  <2>1. r # None
    BY Sizes DEF Regions, None
  <2> QED
    BY <1>3, <1>4, <2>1 DEF Pointer
<1>5. Holds(x, None, NeedAt(x, p, offset, len), ValAt(p, offset, len, appends))
  BY <1>1, <1>2, <1>4, HoldsAlike
<1>6. Kept(x)
  BY <1>1, <1>3 DEF Kept
<1> QED
  BY <1>2, <1>5, <1>6 DEF Progress, Held, Wrote

\* Where a region has no table, the file has ended before.
LEMMA NoRoot ==
    ASSUME NEW w, Kept(w), NEW r \in Regions, Root(w, r) = 0, size \in Nat
    PROVE  size <= Base(r)
<1>1. 1 \in SlotsIn(r) /\ Start(r, 1) = Base(r) /\ Base(r) \in Nat
  BY Starts, Bases
<1>2. ~(Start(r, 1) < size)
  BY <1>1 DEF Kept
<1> QED
  BY <1>1, <1>2

\* The bytes of indir_1.
LEMMA Indir1Writes ==
    ASSUME NEW offset, NEW len, NEW appends, Call(offset, len, appends),
           NEW w, Progress(w, None, Base(1), offset, len, appends)
    PROVE  LET x == WriteIndir1(w, offset, appends)
           IN Progress(x, None, Base(2), offset, len, appends) /\ SameUpper(w, x)
<1> DEFINE x == WriteIndir1(w, offset, appends)
           a == Allocated(w, w.indir_1)
<1>1. /\ w \in WriteStates /\ Going(w, offset, len) /\ Between(w)
      /\ Wrote(w, None, Base(1), offset, len, appends) /\ Kept(w)
      /\ size \in Nat
  BY DEF Progress, Held, Going, Wrote, Call
<1>2. /\ 1 \in Regions /\ 1 # 0 /\ Root(w, 1) = w.indir_1 /\ 1 + 1 = 2
      /\ Base(1) \in Nat /\ Base(2) \in Nat /\ Base(1) <= Base(2)
  <2>1. 1 \in Regions /\ 1 # 0 /\ 1 + 1 = 2 /\ 2 \in Regions /\ Span1 \in Nat
    BY Sizes, Spans DEF Regions
  <2>2. Base(1) \in Nat /\ Base(1 + 1) = Base(1) + Span1
    BY <2>1, Bases
  <2> QED
    BY <2>1, <2>2 DEF Root
<1>3. CASE w.full \/ w.len = 0
  <2>1. x = w
    BY <1>3 DEF WriteIndir1
  <2> HIDE DEF x
  <2>2. Wrote(w, None, Base(2), offset, len, appends)
    BY <1>2, <1>3, RestsWrote
  <2> QED
    BY <1>1, <2>1, <2>2 DEF Progress, Held, SameUpper, x
<1>4. CASE ~(w.full \/ w.len = 0)
  <2>1. x = IF a.w.full THEN a.w
            ELSE WriteTable([a.w EXCEPT !.indir_1 = a.ptr], a.ptr, offset, appends)
    BY <1>4 DEF WriteIndir1
  <2>2. ASSUME NEW b, x = WriteTable(OpenIndir1(w, b), b, offset, appends),
               \/ b = w.indir_1 /\ b # 0
               \/ w.indir_1 = 0 /\ b \in Blocks \ w.map
        PROVE  Progress(x, None, Base(2), offset, len, appends) /\ SameUpper(w, x)
    <3> DEFINE v == OpenIndir1(w, b)
    <3>1. Going(v, offset, len) /\ Between(v) /\ SameCounts(w, v) /\ b \in v.map
      BY <1>1, <2>2, OpensIndir1
    <3>2. /\ v.disk = w.disk /\ v.direct = w.direct /\ v.indir_1 = b
          /\ v.indir_2 = w.indir_2 /\ v.tbl2 = w.tbl2
      BY <1>1 DEF WriteStates, OpenIndir1
    <3> HIDE DEF v, x
    <3>3. \A r \in Regions : Root(w, r) # 0 => Root(v, r) = Root(w, r)
      BY <2>2, <3>2 DEF Root, Upper
    <3>4. Progress(v, None, Base(1), offset, len, appends)
      BY <3>1, <3>2, <3>3, OpensWrote
    <3>5. b # 0 /\ Root(v, 1) = b
      BY <1>1, <2>2, <3>2, Sizes DEF Root, Going
    <3>6. ~v.full /\ v.len # 0
      BY <1>4, <3>1 DEF SameCounts
    <3>7. Progress(WriteTable(v, Root(v, 1), offset, appends), None, Base(1 + 1),
                   offset, len, appends)
          /\ SameUpper(v, WriteTable(v, Root(v, 1), offset, appends))
      BY <1>2, <3>4, <3>5, <3>6, TableWrites
    <3>8. x = WriteTable(v, Root(v, 1), offset, appends)
      BY <2>2, <3>5 DEF v
    <3> QED
      BY <1>2, <3>2, <3>7, <3>8 DEF SameUpper
  <2>3. CASE w.indir_1 # 0
    <3>1. a.w = w /\ a.ptr = w.indir_1
      BY <2>3 DEF Allocated
    <3>2. w.indir_1 \in w.map
      BY <1>1, UpperMarked
    <3>3. [w EXCEPT !.indir_1 = w.indir_1] = OpenIndir1(w, w.indir_1)
      BY <1>1, <3>2 DEF WriteStates, OpenIndir1
    <3>4. x = WriteTable(OpenIndir1(w, w.indir_1), w.indir_1, offset, appends)
      BY <1>4, <2>1, <3>1, <3>3
    <3> QED
      BY <2>2, <2>3, <3>4
  <2>4. CASE w.indir_1 = 0 /\ Free(w.map) = {}
    <3>1. a.w = RanOut(w)
      BY <2>4 DEF Allocated, RanOut
    <3>2. Going(RanOut(w), offset, len) /\ Between(RanOut(w)) /\ RanOut(w).full
          /\ SameTables(w, RanOut(w))
      BY <1>1, RunsOut
    <3>3. x = RanOut(w)
      BY <2>1, <3>1, <3>2
    <3> HIDE DEF x
    <3>4. size <= Base(1)
      BY <1>1, <1>2, <2>4, NoRoot
    <3>5. Wrote(RanOut(w), None, Base(2), offset, len, appends)
      BY <1>2, <1>4, <3>4, RunsOutWrote
    <3> QED
      BY <3>2, <3>3, <3>5 DEF x, Progress, Held, SameTables, SameUpper
  <2>5. CASE w.indir_1 = 0 /\ Free(w.map) # {}
    <3> DEFINE b == get_next_block(w.map)
    <3>1. a.w = [w EXCEPT !.map = @ \cup {b}] /\ a.ptr = b
      BY <2>5 DEF Allocated
    <3>2. b \in Blocks \ w.map
      BY <2>5, NextBlockIsFree
    <3> HIDE DEF b
    <3>3. ~a.w.full /\ [a.w EXCEPT !.indir_1 = a.ptr] = OpenIndir1(w, b)
      BY <1>1, <1>4, <3>1 DEF WriteStates, OpenIndir1
    <3>4. x = WriteTable(OpenIndir1(w, b), b, offset, appends)
      BY <2>1, <3>1, <3>3
    <3> QED
      BY <2>2, <2>5, <3>2, <3>4
  <2> QED
    BY <2>3, <2>4, <2>5
<1> QED
  BY <1>3, <1>4

-----------------------------------------------------------------------------
(* The second level. *)

\* One turn of the loop over the table of indir_2.
LEMMA SecondWrites ==
    ASSUME NEW offset, NEW len, NEW appends, Call(offset, len, appends),
           NEW k \in Ptrs, NEW d, d # 0,
           NEW w, Progress(w, None, Base(k + 1), offset, len, appends),
           InSecond(w, d, offset, len)
    PROVE  LET x == WriteSecond(w, k, offset, appends)
           IN /\ Progress(x, None, Base(k + 2), offset, len, appends)
              /\ InSecond(x, d, offset, len)
<1> DEFINE x == WriteSecond(w, k, offset, appends)
           a == Allocated(w, w.tbl2[k])
           s == k + 1
<1>1. /\ w \in WriteStates /\ Going(w, offset, len) /\ Between(w)
      /\ Wrote(w, None, Base(s), offset, len, appends) /\ Kept(w)
      /\ size \in Nat /\ w.indir_2 = d /\ w.tbl2 \in [Ptrs -> Blocks]
      /\ offset \in Nat /\ appends \in BOOLEAN
  BY DEF Progress, Held, Going, Wrote, Call, InSecond
<1>2. /\ s \in Regions /\ s # 0 /\ s # 1 /\ s - 1 = k /\ k + 2 = s + 1 /\ Span1 \in Nat
      /\ k \in Nat
  BY Sizes, Spans DEF Regions, Ptrs
<1>3. /\ Base(s) \in Nat /\ Base(s + 1) \in Nat /\ Base(s + 1) = Base(s) + Span1
      /\ Base(s) <= Base(s + 1)
  <2>1. Base(s) \in Nat /\ Base(s + 1) = Base(s) + Span1
    BY <1>2, Bases
  <2> QED
    BY <1>2, <2>1
<1>4. Root(w, s) = w.tbl2[k]
  <2>1. Upper(w) = w.tbl2
    BY <1>1 DEF Upper
  <2> QED
    BY <1>1, <1>2, <2>1 DEF Root
<1>5. InSecond(x, d, offset, len)
  BY <1>1, SecondKeeps
<1> HIDE DEF s
<1>6. Progress(x, None, Base(s + 1), offset, len, appends)
  <2>1. CASE w.full \/ w.len = 0
    <3>1. x = w
      BY <2>1 DEF WriteSecond
    <3> HIDE DEF x
    <3>2. Wrote(w, None, Base(s + 1), offset, len, appends)
      BY <1>3, <2>1, RestsWrote DEF s
    <3> QED
      BY <1>1, <3>1, <3>2 DEF Progress, Held
  <2>2. CASE ~(w.full \/ w.len = 0) /\ Before(w.offset_cnt, PtrsPerBlock * FS_BLOCK_SIZE, offset)
    <3>1. x = Passed(w, PtrsPerBlock * FS_BLOCK_SIZE)
      BY <2>2 DEF WriteSecond, Passed
    <3> HIDE DEF x
    <3>2. PtrsPerBlock * FS_BLOCK_SIZE = Span1
      BY Spans
    <3>3. Wrote(x, None, Base(s) + Span1, offset, len, appends)
      BY <1>2, <1>3, <2>2, <3>1, <3>2, PassesWrote DEF s
    <3> QED
      BY <1>3, <1>5, <3>3 DEF Progress, Held, InSecond
  <2>3. CASE ~(w.full \/ w.len = 0) /\ ~Before(w.offset_cnt, PtrsPerBlock * FS_BLOCK_SIZE, offset)
    <3>1. x = IF a.w.full THEN a.w
              ELSE WriteTable([a.w EXCEPT !.tbl2[k] = a.ptr], a.ptr, offset, appends)
      BY <2>3 DEF WriteSecond
    <3>2. ASSUME NEW b, x = WriteTable(OpenSecond(w, k, b), b, offset, appends),
                 \/ b = w.tbl2[k] /\ b # 0
                 \/ w.tbl2[k] = 0 /\ b \in Blocks \ w.map
          PROVE  Progress(x, None, Base(s + 1), offset, len, appends)
      <4> DEFINE v == OpenSecond(w, k, b)
      <4>1. Going(v, offset, len) /\ Between(v) /\ SameCounts(w, v)
            /\ v.tbl2 \in [Ptrs -> Blocks]
        BY <1>1, <3>2, OpensSecond
      <4>2. /\ v.disk = w.disk /\ v.direct = w.direct /\ v.indir_1 = w.indir_1
            /\ v.indir_2 = w.indir_2 /\ v.tbl2 = [w.tbl2 EXCEPT ![k] = b]
        BY <1>1 DEF WriteStates, OpenSecond
      <4> HIDE DEF v, x
      <4>3. Upper(v) = [Upper(w) EXCEPT ![k] = b] /\ Upper(w) = w.tbl2
        BY <1>1, <4>1, <4>2 DEF Upper
      <4>4. ASSUME NEW r \in Regions, Root(w, r) # 0 PROVE Root(v, r) = Root(w, r)
        <5>1. CASE r = 0 \/ r = 1
          BY <4>2, <5>1 DEF Root
        <5>2. CASE r # 0 /\ r # 1
          <6>1. r - 1 \in Ptrs
            BY <5>2, Sizes DEF Regions, Ptrs
          <6>2. Root(w, r) = Upper(w)[r - 1] /\ Root(v, r) = Upper(v)[r - 1]
            BY <4>2, <4>4, <5>2 DEF Root
          <6>3. CASE r - 1 = k
            BY <1>1, <3>2, <4>3, <4>4, <6>1, <6>2, <6>3
          <6>4. CASE r - 1 # k
            BY <1>1, <4>3, <6>1, <6>2, <6>4
          <6> QED
            BY <6>3, <6>4
        <5> QED
          BY <5>1, <5>2
      <4>5. Progress(v, None, Base(s), offset, len, appends)
        BY <4>1, <4>2, <4>4, OpensWrote DEF s
      <4>6. b # 0 /\ Root(v, s) = b
        <5>1. b # 0
          BY <1>1, <3>2, Sizes DEF Going
        <5>2. Upper(v)[k] = b
          BY <1>1, <4>3
        <5> QED
          BY <1>1, <1>2, <4>2, <5>1, <5>2 DEF Root
      <4>7. ~v.full /\ v.len # 0
        BY <2>3, <4>1 DEF SameCounts
      <4>8. Progress(WriteTable(v, Root(v, s), offset, appends), None, Base(s + 1),
                     offset, len, appends)
        BY <1>2, <4>5, <4>6, <4>7, TableWrites
      <4>9. x = WriteTable(v, Root(v, s), offset, appends)
        BY <3>2, <4>6 DEF v
      <4> QED
        BY <4>8, <4>9
    <3>3. CASE w.tbl2[k] # 0
      <4>1. a.w = w /\ a.ptr = w.tbl2[k]
        BY <3>3 DEF Allocated
      <4>2. w.map \cup {w.tbl2[k]} = w.map
        BY <1>1, UpperMarked
      <4>3. [w EXCEPT !.tbl2[k] = w.tbl2[k]] = OpenSecond(w, k, w.tbl2[k])
        BY <1>1, <4>2 DEF WriteStates, OpenSecond
      <4>4. x = WriteTable(OpenSecond(w, k, w.tbl2[k]), w.tbl2[k], offset, appends)
        BY <2>3, <3>1, <4>1, <4>3
      <4> QED
        BY <3>2, <3>3, <4>4
    <3>4. CASE w.tbl2[k] = 0 /\ Free(w.map) = {}
      <4>1. a.w = RanOut(w)
        BY <3>4 DEF Allocated, RanOut
      <4>2. RanOut(w).full
        BY <1>1, RunsOut
      <4>3. x = RanOut(w)
        BY <3>1, <4>1, <4>2
      <4> HIDE DEF x
      <4>4. size <= Base(s)
        BY <1>1, <1>2, <1>4, <3>4, NoRoot
      <4>5. Wrote(RanOut(w), None, Base(s + 1), offset, len, appends)
        BY <1>3, <2>3, <4>4, RunsOutWrote DEF s
      <4> QED
        BY <1>5, <4>3, <4>5 DEF Progress, Held, InSecond
    <3>5. CASE w.tbl2[k] = 0 /\ Free(w.map) # {}
      <4> DEFINE b == get_next_block(w.map)
      <4>1. a.w = [w EXCEPT !.map = @ \cup {b}] /\ a.ptr = b
        BY <3>5 DEF Allocated
      <4>2. b \in Blocks \ w.map
        BY <3>5, NextBlockIsFree
      <4> HIDE DEF b
      <4>3. ~a.w.full /\ [a.w EXCEPT !.tbl2[k] = a.ptr] = OpenSecond(w, k, b)
        BY <1>1, <2>3, <4>1 DEF WriteStates, OpenSecond
      <4>4. x = WriteTable(OpenSecond(w, k, b), b, offset, appends)
        BY <3>1, <4>1, <4>3
      <4> QED
        BY <3>2, <3>5, <4>2, <4>4
    <3> QED
      BY <3>3, <3>4, <3>5
  <2> QED
    BY <2>1, <2>2, <2>3
<1> HIDE DEF x
<1> QED
  BY <1>2, <1>5, <1>6 DEF x

LEMMA SecondTurnsWrite ==
    ASSUME NEW offset, NEW len, NEW appends, Call(offset, len, appends),
           NEW d, d # 0,
           NEW w, Progress(w, None, Base(2), offset, len, appends),
           InSecond(w, d, offset, len)
    PROVE  LET x == SecondTurns(w, offset, appends)[PtrsPerBlock]
           IN /\ Progress(x, None, MaxSize, offset, len, appends)
              /\ InSecond(x, d, offset, len)
<1> DEFINE n == PtrsPerBlock
           t == SecondTurns(w, offset, appends)
           K == {k \in 0 .. n : /\ Progress(t[k], None, Base(k + 2), offset, len, appends)
                                /\ InSecond(t[k], d, offset, len)}
<1>1. offset \in Nat /\ appends \in BOOLEAN
  BY DEF Call
<1>2. n \in Nat /\ Ptrs = 1 .. n /\ Base(n + 2) = MaxSize
  BY Sizes, Bases DEF Ptrs
<1>3. t[0] = w /\ \A k \in 1 .. n : t[k] = WriteSecond(t[k - 1], k, offset, appends)
  <2>1. SecondsFollow(t, w, offset, appends)
    BY <1>1, SecondTurnsFollow
  <2> HIDE DEF t
  <2> QED
    BY <2>1 DEF SecondsFollow
<1> HIDE DEF t
<1>4. 0 \in K
  <2>1. 0 + 2 = 2 /\ 0 \in 0 .. n
    BY <1>2
  <2>2. Progress(t[0], None, Base(0 + 2), offset, len, appends)
    BY <1>3, <2>1
  <2> QED
    BY <1>3, <2>1, <2>2
<1>5. ASSUME NEW k \in 0 .. n, k \in K, k < n PROVE k + 1 \in K
  <2>1. k + 1 \in Ptrs /\ k + 1 \in 0 .. n /\ (k + 1) - 1 = k /\ (k + 1) + 1 = k + 2
    BY <1>2, <1>5
  <2>2. t[k + 1] = WriteSecond(t[k], k + 1, offset, appends)
    BY <1>2, <1>3, <2>1
  <2>3. Progress(t[k], None, Base((k + 1) + 1), offset, len, appends)
        /\ InSecond(t[k], d, offset, len)
    BY <1>5, <2>1
  <2>4. /\ Progress(t[k + 1], None, Base((k + 1) + 2), offset, len, appends)
        /\ InSecond(t[k + 1], d, offset, len)
    BY <2>1, <2>2, <2>3, SecondWrites
  <2> QED
    BY <2>1, <2>4
<1> HIDE DEF K
<1>6. \A k \in 0 .. n : k \in K
  BY <1>2, <1>4, <1>5, UpTo
<1>7. n \in K
  BY <1>2, <1>6
<1> QED
  BY <1>2, <1>7 DEF K, t

\* The file as it is found after the call, without the table in memory.
Rested(w) == [w EXCEPT !.tbl2 = <<>>]

LEMMA Rest ==
    ASSUME NEW w \in WriteStates
    PROVE  LET x == Rested(w)
           IN /\ x.disk = w.disk /\ x.direct = w.direct
              /\ x.indir_1 = w.indir_1 /\ x.indir_2 = w.indir_2 /\ x.tbl2 = <<>>
              /\ SameCounts(w, x)
              /\ Upper(x) = w.disk[w.indir_2].ptrs
              /\ \A h : Stored(x, h) = Stored(w, h)
<1> DEFINE x == Rested(w)
<1>1. /\ x.disk = w.disk /\ x.direct = w.direct
      /\ x.indir_1 = w.indir_1 /\ x.indir_2 = w.indir_2 /\ x.tbl2 = <<>>
      /\ SameCounts(w, x)
  BY DEF WriteStates, Rested, SameCounts
<1> HIDE DEF x
<1>2. Upper(x) = w.disk[w.indir_2].ptrs /\ \A h : Stored(x, h) = Stored(w, h)
  BY <1>1 DEF Upper, Stored
<1> QED
  BY <1>1, <1>2 DEF x

\* The table of indir_2 is written back, or its new pointers are forgotten.
LEMMA FinishesWrote ==
    ASSUME NEW offset, NEW len, NEW appends, Call(offset, len, appends),
           NEW p \in Nat, NEW d, d # 0,
           NEW w, Progress(w, None, p, offset, len, appends),
           InSecond(w, d, offset, len)
    PROVE  Wrote(Rested(Flushed(Loaded(w, w.tbl2), d)), None, p, offset, len, appends)
<1> DEFINE y == Loaded(w, w.tbl2)
           z == Flushed(y, d)
           x == Rested(z)
<1>1. /\ w \in WriteStates /\ Going(w, offset, len) /\ Between(w) /\ size \in Nat
      /\ w.indir_2 = d /\ w.tbl2 \in [Ptrs -> Blocks] /\ d \in Blocks /\ d # Inode
  BY Sizes DEF InSecond, Going, Call, WriteStates
<1>2. /\ Holds(w, None, NeedAt(w, p, offset, len), ValAt(p, offset, len, appends))
      /\ Kept(w) /\ Reached(w, p, offset)
  BY DEF Progress, Wrote
<1>3. PICK q : Tracked(q, w)
  BY <1>1 DEF Between
<1>4. /\ y.map = w.map /\ y.disk = w.disk /\ y.direct = w.direct
      /\ y.indir_1 = w.indir_1 /\ y.indir_2 = w.indir_2 /\ y.tbl = w.tbl2
      /\ y.tbl2 = w.tbl2 /\ y.cnt = w.cnt /\ y.len = w.len /\ y.full = w.full
      /\ y.offset_cnt = w.offset_cnt
  BY <1>1 DEF WriteStates, Loaded
<1>5. y \in WriteStates
  BY <1>1 DEF WriteStates, Loaded
<1>6. Going(z, offset, len) /\ SameCounts(w, z) /\ z \in WriteStates
  BY <1>1, FlushesSecond DEF Going
<1> HIDE DEF y
<1>7. Upper(w) = w.tbl2
  <2>1. 1 \in Ptrs
    BY Sizes DEF Ptrs
  <2>2. w.tbl2 # <<>>
    BY <1>1, <2>1
  <2> QED
    BY <2>2 DEF Upper
<1>8. ASSUME NEW r \in Regions, Root(w, r) # 0, r # 0
      PROVE  Root(w, r) \in Blocks /\ Root(w, r) # d /\ Root(w, r) # Inode
  BY <1>1, <1>3, <1>8, RootsMarked, RootTypes, Sizes
<1>9. ASSUME NEW r \in Regions, r > 1
      PROVE  r - 1 \in Ptrs /\ r # 0 /\ r # 1
  BY <1>9, Sizes DEF Regions, Ptrs
<1>10. /\ x.disk = z.disk /\ x.direct = z.direct
       /\ x.indir_1 = z.indir_1 /\ x.indir_2 = z.indir_2
       /\ SameCounts(z, x)
       /\ Upper(x) = z.disk[z.indir_2].ptrs
       /\ \A h : Stored(x, h) = Stored(z, h)
  BY <1>6, Rest
<1> HIDE DEF x, z
<1>11. NeedAt(x, p, offset, len) = NeedAt(w, p, offset, len) /\ Reached(x, p, offset)
  BY <1>2, <1>6, <1>10 DEF NeedAt, Reached, SameCounts
<1>12. CASE ~y.full /\ y.offset_cnt + y.cnt > size
  <2>1. z = PutTable(y, d, y.tbl)
    BY <1>12 DEF Flushed, PutTable, z
  <2>2. Going(y, offset, len) /\ Tracked(q, y)
    <3>1. \A h : Stored(y, h) = Stored(w, h)
      BY <1>4 DEF Stored
    <3>2. Tracked(q, y)
      BY <1>3, <1>4, <3>1 DEF Tracked, Under, Copied
    <3> QED
      BY <1>1, <1>4, <1>5, <3>2 DEF Going
  <2>3. d \in y.map /\ y.tbl \in [Ptrs -> Blocks] /\ Copied(q, y, y.tbl, d) /\ y.tbl = y.tbl2
    BY <1>1, <1>4, <2>2, UpperMarked DEF Tracked
  <2>4. LET v == PutTable(y, d, y.tbl)
        IN /\ v.direct = y.direct /\ v.indir_1 = y.indir_1 /\ v.indir_2 = y.indir_2
           /\ \A c \in Blocks : /\ v.disk[c].bytes = y.disk[c].bytes
                                /\ v.disk[c].ptrs = IF c = d THEN y.tbl ELSE y.disk[c].ptrs
    BY <2>2, <2>3, PutsTable
  <2>5. /\ x.direct = w.direct /\ x.indir_1 = w.indir_1 /\ x.indir_2 = d
        /\ \A c \in Blocks : /\ x.disk[c].bytes = w.disk[c].bytes
                             /\ x.disk[c].ptrs = IF c = d THEN w.tbl2 ELSE w.disk[c].ptrs
    BY <1>1, <1>4, <1>10, <2>1, <2>4
  <2>6. Upper(x) = Upper(w)
    BY <1>1, <1>7, <1>10, <2>5
  <2>7. \A r \in Regions : Root(x, r) = Root(w, r)
    BY <1>1, <2>5, <2>6 DEF Root
  <2>8. ASSUME NEW r \in Regions, Root(w, r) # 0
        PROVE  Stored(x, Root(x, r)) = Stored(w, Root(w, r))
    <3>1. CASE r = 0
      BY <2>5, <3>1 DEF Root, Stored
    <3>2. CASE r # 0
      <4>1. Root(w, r) \in Blocks /\ Root(w, r) # d /\ Root(w, r) # Inode
        BY <1>8, <2>8, <3>2
      <4> QED
        BY <2>5, <2>7, <4>1 DEF Stored
    <3> QED
      BY <3>1, <3>2
  <2>9. ASSUME NEW r \in Regions, NEW k \in SlotsIn(r), Root(w, r) # 0
        PROVE  Pointer(x, None, r, k) = Pointer(w, None, r, k)
    <3>1. r # None
      BY Sizes DEF Regions, None
    <3> QED
      BY <2>8, <2>9, <3>1 DEF Pointer
  <2>10. ASSUME NEW r \in Regions, NEW k \in SlotsIn(r)
         PROVE  Pointer(w, None, r, k) \in Blocks
    <3>1. InMemory(q, w, None)
      BY <1>3 DEF InMemory
    <3> QED
      BY <1>1, <3>1, PointersFollow
  <2>11. Holds(x, None, NeedAt(x, p, offset, len), ValAt(p, offset, len, appends))
    BY <1>2, <1>11, <2>5, <2>7, <2>9, <2>10, HoldsAlike
  <2>12. Kept(x)
    <3>1. SUFFICES ASSUME NEW r \in Regions, NEW k \in SlotsIn(r), Start(r, k) < size
                   PROVE  /\ Root(x, r) # 0 /\ Stored(x, Root(x, r))[k] # 0
                          /\ r > 1 => x.disk[x.indir_2].ptrs[r - 1] # 0
      BY DEF Kept
    <3>2. Root(w, r) # 0 /\ Stored(w, Root(w, r))[k] # 0
      BY <1>2, <3>1 DEF Kept
    <3>3. ASSUME r > 1 PROVE x.disk[x.indir_2].ptrs[r - 1] # 0
      <4>1. x.disk[x.indir_2].ptrs = w.tbl2
        BY <1>1, <2>5
      <4>2. Root(w, r) = w.tbl2[r - 1]
        BY <1>1, <1>7, <1>9, <3>3 DEF Root
      <4> QED
        BY <3>2, <4>1, <4>2
    <3> QED
      BY <2>7, <2>8, <3>2, <3>3
  <2> QED
    BY <1>11, <2>11, <2>12 DEF Wrote, x, y, z
<1>13. CASE ~(~y.full /\ y.offset_cnt + y.cnt > size)
  <2>1. z = y
    BY <1>13 DEF Flushed, z
  <2>2. w.full \/ w.offset_cnt + w.cnt <= size
    BY <1>1, <1>4, <1>13 DEF WriteStates
  <2>3. /\ x.disk = w.disk /\ x.direct = w.direct /\ x.indir_1 = w.indir_1
        /\ x.indir_2 = d /\ Upper(x) = w.disk[d].ptrs
        /\ \A h : Stored(x, h) = Stored(w, h)
    BY <1>1, <1>4, <1>10, <2>1 DEF Stored
  <2>4. ASSUME NEW r \in Regions, NEW k \in SlotsIn(r), Start(r, k) < size
        PROVE  Root(x, r) = Root(w, r)
    <3>1. CASE r > 1
      <4>1. r - 1 \in Ptrs /\ r # 0 /\ r # 1
        BY <1>9, <3>1
      <4>2. Root(w, r) # 0 /\ w.disk[d].ptrs[r - 1] # 0
        BY <1>1, <1>2, <2>4, <3>1 DEF Kept
      <4>3. Root(w, r) = w.tbl2[r - 1] /\ Root(x, r) = w.disk[d].ptrs[r - 1]
        BY <1>1, <1>7, <2>3, <4>1 DEF Root
      <4>4. w.tbl2[r - 1] \in {0, q[<<d, r - 1>>]}
        BY <1>1, <1>3, <4>1 DEF Tracked, Copied
      <4>5. w.disk[d].ptrs[r - 1] \in {0, q[<<d, r - 1>>]}
        BY <1>1, <1>3, <4>1 DEF Tracked, Under
      <4> QED
        BY <4>2, <4>3, <4>4, <4>5
    <3>2. CASE ~(r > 1)
      <4>1. r = 0 \/ r = 1
        BY <3>2, Sizes DEF Regions
      <4> QED
        BY <2>3, <4>1 DEF Root
    <3> QED
      BY <3>1, <3>2
  <2>5. ASSUME NEW r \in Regions, NEW k \in SlotsIn(r),
               \E j \in Bytes : Start(r, k) + j \in NeedAt(x, p, offset, len)
        PROVE  /\ Root(w, r) # 0 => Root(x, r) # 0
               /\ Root(w, r) # 0 => Pointer(x, None, r, k) = Pointer(w, None, r, k)
    <3>1. PICK j \in Bytes : Start(r, k) + j \in NeedAt(w, p, offset, len)
      BY <1>11, <2>5
    <3>2. Start(r, k) + j <= size
      BY <1>1, <1>2, <2>2, <3>1, NeedInside
    <3>3. Start(r, k) < size
      BY <1>1, <3>2, StartsInside
    <3>4. r # None
      BY Sizes DEF Regions, None
    <3> QED
      BY <2>3, <2>4, <3>3, <3>4 DEF Pointer
  <2>6. Holds(x, None, NeedAt(x, p, offset, len), ValAt(p, offset, len, appends))
    BY <1>2, <1>11, <2>3, <2>5, HoldsAlike
  <2>7. Kept(x)
    BY <1>1, <1>2, <2>3, <2>4 DEF Kept
  <2> QED
    BY <1>11, <2>6, <2>7 DEF Wrote, x, y, z
<1> QED
  BY <1>12, <1>13

\* The bytes of indir_2.
LEMMA Indir2Writes ==
    ASSUME NEW offset, NEW len, NEW appends, Call(offset, len, appends),
           NEW w, Progress(w, None, Base(2), offset, len, appends), w.tbl2 = <<>>
    PROVE  Wrote(Rested(WriteIndir2(w, offset, appends)), None, MaxSize,
                 offset, len, appends)
<1> DEFINE x == WriteIndir2(w, offset, appends)
           a == Allocated(w, w.indir_2)
           first == [a.w EXCEPT !.indir_2 = a.ptr, !.tbl2 = a.w.disk[a.ptr].ptrs]
           last(v) == SecondTurns(v, offset, appends)[PtrsPerBlock]
<1>1. /\ w \in WriteStates /\ Going(w, offset, len) /\ Between(w)
      /\ Wrote(w, None, Base(2), offset, len, appends) /\ Kept(w)
      /\ size \in Nat
  BY DEF Progress, Held, Going, Wrote, Call
<1>2. /\ Base(2) \in Nat /\ MaxSize \in Nat /\ Base(2) <= MaxSize /\ 2 \in Regions
  <2>1. 1 \in Regions /\ 1 # 0 /\ 1 + 1 = 2 /\ 2 \in Regions
    BY Sizes DEF Regions
  <2>2. Base(1) = FS_BLOCK_SIZE * N_DIRECT /\ Base(1) \in Nat /\ Base(1 + 1) = Base(1) + Span1
    BY <2>1, Bases
  <2>3. MaxSize = FS_BLOCK_SIZE * N_DIRECT + Span1 + Span2 /\ Span1 \in Nat /\ Span2 \in Nat
    BY Spans
  <2> QED
    BY <2>1, <2>2, <2>3, Sizes
<1>3. Rested(w) = w
  BY <1>1 DEF WriteStates, Rested
<1>4. x = IF w.full \/ w.len = 0 THEN w
          ELSE IF a.w.full THEN a.w
          ELSE Flushed(Loaded(last(first), last(first).tbl2), a.ptr)
  BY DEF WriteIndir2, Loaded
<1>5. CASE w.full \/ w.len = 0
  <2> HIDE DEF x, first, last, a
  <2>1. x = w
    BY <1>4, <1>5
  <2>2. Wrote(w, None, MaxSize, offset, len, appends)
    BY <1>2, <1>5, RestsWrote
  <2> QED
    BY <1>3, <2>1, <2>2 DEF x
<1>6. CASE ~(w.full \/ w.len = 0)
  <2>1. x = IF a.w.full THEN a.w
            ELSE Flushed(Loaded(last(first), last(first).tbl2), a.ptr)
    BY <1>4, <1>6
  <2> HIDE DEF x
  <2>2. ASSUME NEW b, \/ b = w.indir_2 /\ b # 0
                      \/ w.indir_2 = 0 /\ b \in Blocks \ w.map,
               x = LET v == last(OpenIndir2(w, b)) IN Flushed(Loaded(v, v.tbl2), b)
        PROVE  Wrote(Rested(x), None, MaxSize, offset, len, appends)
    <3> DEFINE u == OpenIndir2(w, b)
               v == last(u)
    <3>1. /\ Going(u, offset, len) /\ Between(u) /\ SameCounts(w, u)
          /\ u.indir_2 = b /\ u.tbl2 \in [Ptrs -> Blocks]
      BY <1>1, <2>2, OpensIndir2
    <3>2. x = Flushed(Loaded(v, v.tbl2), b)
      BY <2>2
    <3>3. /\ u.disk = w.disk /\ u.direct = w.direct /\ u.indir_1 = w.indir_1
          /\ u.tbl2 = w.disk[b].ptrs
      BY <1>1 DEF WriteStates, OpenIndir2
    <3> HIDE DEF u
    <3>4. b # 0
      BY <1>1, <2>2, Sizes DEF Going
    <3>5. Upper(w) = w.disk[w.indir_2].ptrs /\ Upper(u) = w.disk[b].ptrs
      <4>1. 1 \in Ptrs
        BY Sizes DEF Ptrs
      <4>2. u.tbl2 # <<>>
        BY <3>1, <4>1
      <4> QED
        BY <3>3, <4>2 DEF Upper
    <3>6. ASSUME NEW r \in Regions, Root(w, r) # 0
          PROVE  Root(u, r) = Root(w, r) /\ (r > 1 => u.indir_2 = w.indir_2)
      BY <2>2, <3>1, <3>3, <3>4, <3>5, <3>6 DEF Root, Regions
    <3>7. Progress(u, None, Base(2), offset, len, appends)
      BY <3>1, <3>3, <3>6, OpensWrote
    <3>8. InSecond(u, b, offset, len)
      BY <3>1 DEF InSecond
    <3>9. Progress(v, None, MaxSize, offset, len, appends) /\ InSecond(v, b, offset, len)
      BY <3>4, <3>7, <3>8, SecondTurnsWrite
    <3> HIDE DEF v
    <3>10. Wrote(Rested(Flushed(Loaded(v, v.tbl2), b)), None, MaxSize, offset, len, appends)
      BY <1>2, <3>4, <3>9, FinishesWrote
    <3> QED
      BY <3>2, <3>10
  <2>3. CASE w.indir_2 # 0
    <3>1. a.w = w /\ a.ptr = w.indir_2
      BY <2>3 DEF Allocated
    <3>2. w.map \cup {w.indir_2} = w.map
      BY <1>1, UpperMarked
    <3>3. first = OpenIndir2(w, w.indir_2)
      BY <1>1, <3>1, <3>2 DEF WriteStates, OpenIndir2
    <3>4. ~a.w.full
      BY <1>6, <3>1
    <3> HIDE DEF a, first
    <3>5. x = LET v == last(OpenIndir2(w, w.indir_2))
              IN Flushed(Loaded(v, v.tbl2), w.indir_2)
      BY <2>1, <3>1, <3>3, <3>4
    <3> QED
      BY <2>2, <2>3, <3>5 DEF x
  <2>4. CASE w.indir_2 = 0 /\ Free(w.map) = {}
    <3> DEFINE v == RanOut(w)
    <3>1. a.w = v
      BY <2>4 DEF Allocated, RanOut
    <3>2. v.full /\ Rested(v) = v
      BY <1>1 DEF WriteStates, RanOut, Rested
    <3>3. Root(w, 2) = 0
      BY <2>4 DEF Root
    <3>4. size <= Base(2)
      BY <1>1, <1>2, <3>3, NoRoot
    <3>5. Wrote(v, None, MaxSize, offset, len, appends)
      BY <1>2, <1>6, <3>4, RunsOutWrote
    <3> HIDE DEF a, first, v
    <3>6. x = v
      BY <2>1, <3>1, <3>2
    <3> QED
      BY <3>2, <3>5, <3>6 DEF x
  <2>5. CASE w.indir_2 = 0 /\ Free(w.map) # {}
    <3> DEFINE b == get_next_block(w.map)
    <3>1. a.w = [w EXCEPT !.map = @ \cup {b}] /\ a.ptr = b
      BY <2>5 DEF Allocated
    <3>2. b \in Blocks \ w.map
      BY <2>5, NextBlockIsFree
    <3> HIDE DEF b
    <3>3. a.w.disk = w.disk /\ ~a.w.full
      BY <1>1, <1>6, <3>1 DEF WriteStates
    <3>4. first = OpenIndir2(w, b)
      BY <1>1, <3>1, <3>3 DEF WriteStates, OpenIndir2
    <3> HIDE DEF a, first
    <3>5. x = LET v == last(OpenIndir2(w, b)) IN Flushed(Loaded(v, v.tbl2), b)
      BY <2>1, <3>1, <3>3, <3>4
    <3> QED
      BY <2>2, <2>5, <3>2, <3>5 DEF x
  <2> QED
    BY <2>3, <2>4, <2>5 DEF x
<1> QED
  BY <1>5, <1>6

-----------------------------------------------------------------------------
(* write. *)

\* The bytes before the end have pointers that lead to them.
LEMMA KeptAtRest ==
    ASSUME size \in Nat, Holds(AtRest, None, 1 .. size, contents)
    PROVE  Kept(AtRest)
<1>1. SUFFICES ASSUME NEW r \in Regions, NEW k \in SlotsIn(r), Start(r, k) < size
               PROVE  /\ Root(AtRest, r) # 0 /\ Stored(AtRest, Root(AtRest, r))[k] # 0
                      /\ r > 1 => AtRest.disk[AtRest.indir_2].ptrs[r - 1] # 0
  BY DEF Kept
<1>2. 1 \in Bytes /\ Start(r, k) \in Nat /\ r # None
  BY SlotTypes, Sizes DEF Bytes, Regions, None
<1>3. Start(r, k) + 1 \in 1 .. size
  BY <1>1, <1>2
<1>4. Root(AtRest, r) # 0 /\ Pointer(AtRest, None, r, k) # 0
  BY <1>2, <1>3 DEF Holds
<1>5. Stored(AtRest, Root(AtRest, r))[k] # 0
  BY <1>2, <1>4 DEF Pointer
<1>6. ASSUME r > 1 PROVE AtRest.disk[AtRest.indir_2].ptrs[r - 1] # 0
  <2>1. r # 0 /\ r # 1 /\ AtRest.tbl2 = <<>>
    BY <1>6 DEF AtRest, Regions
  <2> QED
    BY <1>4, <2>1 DEF Root, Upper
<1> QED
  BY <1>4, <1>5, <1>6

LEMMA WrittenWrites ==
    ASSUME ReadInv, NEW offset, NEW len, NEW appends, Call(offset, len, appends)
    PROVE  LET w == Written(offset, len, appends)
           IN /\ Wrote(Rested(w), None, MaxSize, offset, len, appends)
              /\ Going(w, offset, len) /\ Between(w)
              /\ w.full \/ w.cnt = 0 \/ offset + w.cnt <= MaxSize
<1> DEFINE v == [map |-> block_map, disk |-> disk, direct |-> direct,
                 indir_1 |-> indir_1, indir_2 |-> indir_2, tbl |-> <<>>,
                 tbl2 |-> <<>>, offset_cnt |-> 0, cnt |-> 0, len |-> len,
                 full |-> FALSE]
           x == WriteDirect(v, offset, appends)
           y == WriteIndir1(x, offset, appends)
           z == WriteIndir2(y, offset, appends)
           w == Written(offset, len, appends)
<1>1. /\ FileInv /\ TypeOK /\ size \in Nat /\ Holds(AtRest, None, 1 .. size, contents)
      /\ offset \in Nat /\ len \in Nat /\ len > 0
      /\ appends \in BOOLEAN
  BY DEF ReadInv, FileInv, Call
<1>2. w = z
  BY DEF Written
<1> HIDE DEF w
<1>3. Going(v, offset, len)
  <2>1. v \in WriteStates
    BY <1>1 DEF WriteStates, TypeOK
  <2> QED
    BY <1>1, <2>1 DEF Going, FileInv, FreeBlocksAreZero
<1>4. Between(v)
  <2>1. PICK q : Apart(q, block_map) /\ Under(q, Now)
    BY <1>1 DEF FileInv
  <2>2. Under(q, v)
    BY <2>1 DEF Under, Now
  <2>3. Copied(q, v, v.tbl2, v.indir_2)
    BY DEF Copied
  <2> QED
    BY <2>1, <2>2, <2>3 DEF Between, Tracked
<1>5. /\ v.disk = AtRest.disk /\ v.direct = AtRest.direct /\ v.indir_1 = AtRest.indir_1
      /\ v.indir_2 = AtRest.indir_2 /\ v.tbl2 = AtRest.tbl2 /\ v.tbl2 = <<>>
      /\ v.offset_cnt = 0 /\ v.cnt = 0 /\ v.len = len /\ ~v.full
  BY DEF AtRest
<1> HIDE DEF v
<1>6. \A r \in Regions : Root(v, r) = Root(AtRest, r)
  BY <1>5 DEF Root, Upper
<1>7. \A h : Stored(v, h) = Stored(AtRest, h)
  BY <1>5 DEF Stored
<1>8. Kept(v)
  <2>1. Kept(AtRest)
    BY <1>1, KeptAtRest
  <2> QED
    BY <1>5, <1>6, <1>7, <2>1 DEF Kept
<1>9. Holds(v, None, NeedAt(v, 0, offset, len), ValAt(0, offset, len, appends))
  <2>1. SUFFICES ASSUME NEW r \in Regions, NEW k \in SlotsIn(r), NEW j \in Bytes,
                        Start(r, k) + j \in NeedAt(v, 0, offset, len)
                 PROVE  /\ Root(v, r) # 0 /\ Pointer(v, None, r, k) # 0
                        /\ v.disk[Pointer(v, None, r, k)].bytes[j]
                              = ValAt(0, offset, len, appends)[Start(r, k) + j]
    BY DEF Holds
  <2> DEFINE i == Start(r, k) + j
  <2>2. i \in Nat /\ i > 0 /\ r # None
    BY SlotTypes DEF Regions, None
  <2> HIDE DEF i
  <2>3. i \in 1 .. size
    BY <1>1, <2>1, <2>2 DEF NeedAt, i
  <2>4. ValAt(0, offset, len, appends)[i] = contents[i]
    BY <1>1, <2>2 DEF ValAt
  <2>5. Pointer(v, None, r, k) = Pointer(AtRest, None, r, k)
    BY <1>6, <1>7, <2>2 DEF Pointer
  <2> QED
    BY <1>1, <1>5, <1>6, <2>3, <2>4, <2>5 DEF Holds, i
<1>10. Progress(v, None, 0, offset, len, appends)
  <2>1. Reached(v, 0, offset)
    BY <1>1, <1>5 DEF Reached
  <2> QED
    BY <1>3, <1>4, <1>8, <1>9, <2>1 DEF Progress, Held, Wrote
<1>11. Progress(x, None, Base(1), offset, len, appends) /\ SameUpper(v, x)
  BY <1>1, <1>5, <1>10, DirectWrites
<1> HIDE DEF x
<1>12. Progress(y, None, Base(2), offset, len, appends) /\ SameUpper(x, y)
  BY <1>11, Indir1Writes
<1> HIDE DEF y
<1>13. y.tbl2 = <<>>
  BY <1>5, <1>11, <1>12 DEF SameUpper
<1>14. Wrote(Rested(z), None, MaxSize, offset, len, appends)
  BY <1>12, <1>13, Indir2Writes
<1>15. /\ Going(w, offset, len) /\ Between(w)
       /\ w.full \/ w.cnt = 0 \/ offset + w.cnt <= MaxSize
  BY <1>1, WrittenKeeps DEF w
<1> QED
  BY <1>2, <1>14, <1>15 DEF w

\* The contents after n bytes of a call.
LEMMA OverlaidIs ==
    ASSUME size \in Nat, contents \in Seq(Int), Len(contents) = size,
           NEW offset \in 0 .. size, NEW n \in Nat, NEW appends
    PROVE  LET c == Overlaid(offset, n, appends)
           IN /\ c \in Seq(Int) /\ Len(c) = Larger(size, offset + n)
              /\ \A x \in 1 .. Larger(size, offset + n) :
                    c[x] = IF offset < x /\ x <= offset + n THEN Byte(x - 1, appends)
                           ELSE contents[x]
<1> DEFINE m == Larger(size, offset + n)
           c == Overlaid(offset, n, appends)
<1>1. size \in Nat /\ offset \in Nat /\ m \in Nat /\ (m = size \/ m = offset + n)
  BY DEF Larger
<1>2. c = [x \in 1 .. m |-> IF x \in offset + 1 .. offset + n THEN Byte(x - 1, appends)
                            ELSE contents[x]]
  BY DEF Overlaid
<1> HIDE DEF m, c
<1>3. ASSUME NEW x \in 1 .. m
      PROVE  /\ c[x] = IF offset < x /\ x <= offset + n THEN Byte(x - 1, appends)
                       ELSE contents[x]
             /\ c[x] \in Int
  <2>1. x \in offset + 1 .. offset + n <=> offset < x /\ x <= offset + n
    BY <1>1
  <2>2. c[x] = IF offset < x /\ x <= offset + n THEN Byte(x - 1, appends) ELSE contents[x]
    BY <1>2, <2>1
  <2>3. CASE offset < x /\ x <= offset + n
    BY <1>1, <2>2, <2>3 DEF Byte
  <2>4. CASE ~(offset < x /\ x <= offset + n)
    <3>1. x \in 1 .. size
      BY <1>1, <2>4
    <3> QED
      BY <2>2, <2>4, <3>1
  <2> QED
    BY <2>2, <2>3, <2>4
<1>4. c \in [1 .. m -> Int]
  BY <1>2, <1>3
<1>5. c \in Seq(Int) /\ Len(c) = m
  BY <1>1, <1>4
<1> QED
  BY <1>3, <1>5 DEF m, c

LEMMA WriteHolds ==
    ASSUME ReadInv, NEW offset \in 0 .. size, NEW len \in Lens,
           offset < size => overwrites < MaxOverwrites,
           fs_write(offset, len)
    PROVE  ReadInv'
<1> DEFINE appends == offset = size
           w == Written(offset, len, appends)
           v == Rested(w)
<1>1. /\ FileInv /\ size \in 0 .. MaxSize /\ MaxSize \in Nat /\ size \in Nat
      /\ offset \in Nat /\ offset <= size
      /\ len \in Nat /\ len > 0 /\ appends \in BOOLEAN
      /\ contents \in Seq(Int) /\ Len(contents) = size
  BY Sizes, SizesAssumption DEF ReadInv, FileInv, TypeOK
<1>2. FileInv'
  BY <1>1, WriteKeeps
<1>3. Call(offset, len, appends)
  BY <1>1 DEF Call
<1> HIDE DEF appends
<1>4. /\ Wrote(v, None, MaxSize, offset, len, appends) /\ Going(w, offset, len)
      /\ w.full \/ w.cnt = 0 \/ offset + w.cnt <= MaxSize
  BY <1>3, WrittenWrites
<1>5. /\ disk' = w.disk /\ direct' = w.direct /\ indir_1' = w.indir_1 /\ indir_2' = w.indir_2
      /\ w.full => /\ contents' = SubSeq(Overlaid(offset, len, appends), 1, size)
                   /\ size' = size
      /\ ~w.full => /\ contents' = Overlaid(offset, w.cnt, appends)
                    /\ size' = Larger(offset + w.cnt, size)
  BY DEF fs_write, appends
<1> HIDE DEF w
<1>6. w \in WriteStates /\ w.cnt \in Nat /\ w.len \in Nat /\ w.cnt + w.len = len
  BY <1>4 DEF Going, WriteStates
<1>7. /\ v.disk = w.disk /\ v.direct = w.direct
      /\ v.indir_1 = w.indir_1 /\ v.indir_2 = w.indir_2 /\ v.tbl2 = <<>>
      /\ SameCounts(w, v)
  BY <1>6, Rest
<1> HIDE DEF v
<1>8. /\ contents' \in Seq(Int) /\ Len(contents') = size' /\ size' \in Nat
      /\ \A x \in 1 .. size' : /\ x \in NeedAt(v, MaxSize, offset, len)
                               /\ contents'[x] = ValAt(MaxSize, offset, len, appends)[x]
  <2>1. CASE w.full
    <3> DEFINE c == Overlaid(offset, len, appends)
    <3>1. /\ c \in Seq(Int) /\ Len(c) = Larger(size, offset + len)
          /\ \A x \in 1 .. Larger(size, offset + len) :
                c[x] = IF offset < x /\ x <= offset + len THEN Byte(x - 1, appends)
                       ELSE contents[x]
      BY <1>1, OverlaidIs
    <3> HIDE DEF c
    <3>2. size <= Larger(size, offset + len) /\ Larger(size, offset + len) \in Nat
      BY <1>1 DEF Larger
    <3>3. contents' = SubSeq(c, 1, size) /\ size' = size
      BY <1>5, <2>1 DEF c
    <3>4. /\ contents' \in Seq(Int) /\ Len(contents') = size
          /\ \A x \in 1 .. size : contents'[x] = c[x]
      BY <1>1, <3>1, <3>2, <3>3
    <3>5. ASSUME NEW x \in 1 .. size
          PROVE  /\ x \in NeedAt(v, MaxSize, offset, len)
                 /\ contents'[x] = ValAt(MaxSize, offset, len, appends)[x]
      <4>1. x \in Nat /\ x <= size /\ x <= MaxSize /\ x \in 1 .. Larger(size, offset + len)
        BY <1>1, <3>2
      <4>2. contents'[x] = IF offset < x /\ x <= offset + len THEN Byte(x - 1, appends)
                           ELSE contents[x]
        BY <3>1, <3>4, <4>1
      <4> QED
        BY <4>1, <4>2 DEF NeedAt, ValAt
    <3> QED
      BY <1>1, <3>3, <3>4, <3>5
  <2>2. CASE ~w.full
    <3> DEFINE c == Overlaid(offset, w.cnt, appends)
    <3>1. /\ c \in Seq(Int) /\ Len(c) = Larger(size, offset + w.cnt)
          /\ \A x \in 1 .. Larger(size, offset + w.cnt) :
                c[x] = IF offset < x /\ x <= offset + w.cnt THEN Byte(x - 1, appends)
                       ELSE contents[x]
      <4>1. offset \in 0 .. size
        BY <1>1
      <4> HIDE DEF c
      <4>2. PICK m, d : m = w.cnt /\ d = Overlaid(offset, m, appends)
        OBVIOUS
      <4>3. m \in Nat /\ c = d
        BY <1>6, <4>2 DEF c
      <4>4. /\ d \in Seq(Int) /\ Len(d) = Larger(size, offset + m)
            /\ \A x \in 1 .. Larger(size, offset + m) :
                  d[x] = IF offset < x /\ x <= offset + m THEN Byte(x - 1, appends)
                         ELSE contents[x]
        BY <1>1, <4>1, <4>2, <4>3, OverlaidIs
      <4> QED
        BY <4>2, <4>3, <4>4
    <3>2. contents' = c
      BY <1>5, <2>2
    <3> HIDE DEF c
    <3>3. size' = Larger(size, offset + w.cnt) /\ size' \in Nat
      <4>1. size' = Larger(offset + w.cnt, size)
        BY <1>5, <2>2
      <4> QED
        BY <1>1, <1>6, <4>1 DEF Larger
    <3>4. Reached(v, MaxSize, offset) /\ ~v.full
      BY <1>4, <1>7, <2>2 DEF Wrote, SameCounts
    <3>5. /\ v.offset_cnt = w.offset_cnt /\ v.cnt = w.cnt /\ v.len = w.len
      BY <1>7 DEF SameCounts
    <3>6. ASSUME NEW x \in 1 .. size'
          PROVE  /\ x \in NeedAt(v, MaxSize, offset, len)
                 /\ contents'[x] = ValAt(MaxSize, offset, len, appends)[x]
      <4>1. x \in Nat /\ x > 0 /\ (x <= size \/ x <= offset + w.cnt)
        BY <1>1, <1>6, <3>3 DEF Larger
      <4>2. contents'[x] = IF offset < x /\ x <= offset + w.cnt THEN Byte(x - 1, appends)
                           ELSE contents[x]
        BY <3>1, <3>2, <3>3
      <4>3. x <= MaxSize
        BY <1>1, <1>4, <1>6, <2>2, <4>1
      <4>4. (offset < x /\ x <= offset + len) <=> (offset < x /\ x <= offset + w.cnt)
        <5>1. \/ w.cnt = 0 /\ MaxSize <= offset
              \/ offset + w.cnt = MaxSize
              \/ w.len = 0
          BY <3>4, <3>5 DEF Reached
        <5>2. w.len = 0 => w.cnt = len
          BY <1>1, <1>6
        <5> QED
          BY <1>1, <1>6, <4>1, <4>3, <5>1, <5>2
      <4>5. x \in NeedAt(v, MaxSize, offset, len)
        BY <1>1, <1>6, <3>4, <4>1, <4>3 DEF NeedAt
      <4>6. ValAt(MaxSize, offset, len, appends)[x]
              = IF offset < x /\ x <= offset + len THEN Byte(x - 1, appends) ELSE contents[x]
        BY <4>1, <4>3 DEF ValAt
      <4> QED
        BY <4>2, <4>4, <4>5, <4>6
    <3> QED
      BY <3>1, <3>2, <3>6, <3>3
  <2> QED
    BY <2>1, <2>2
<1>9. PICK u : u = AtRest'
  OBVIOUS
<1>10. /\ u.disk = v.disk /\ u.direct = v.direct /\ u.indir_1 = v.indir_1
       /\ u.indir_2 = v.indir_2 /\ u.tbl2 = v.tbl2
  BY <1>5, <1>7, <1>9 DEF AtRest
<1>11. /\ \A r \in Regions : Root(u, r) = Root(v, r)
       /\ \A h : Stored(u, h) = Stored(v, h)
  BY <1>10 DEF Root, Upper, Stored
<1>12. ASSUME NEW r \in Regions, NEW k \in SlotsIn(r)
       PROVE  Pointer(u, None, r, k) = Pointer(v, None, r, k)
  <2>1. r # None
    BY Sizes DEF Regions, None
  <2> QED
    BY <1>11, <2>1 DEF Pointer
<1>13. Holds(v, None, NeedAt(v, MaxSize, offset, len), ValAt(MaxSize, offset, len, appends))
  BY <1>4 DEF Wrote
<1>14. PICK n, c, need : n = size' /\ c = contents' /\ need = 1 .. n
  OBVIOUS
<1>15. Holds(u, None, 1 .. n, c)
  <2>1. \A x \in need : /\ x \in NeedAt(v, MaxSize, offset, len)
                        /\ c[x] = ValAt(MaxSize, offset, len, appends)[x]
    BY <1>8, <1>14
  <2>2. \A r \in Regions : \A k \in SlotsIn(r) :
           (\E j \in Bytes : Start(r, k) + j \in need) =>
              /\ Root(v, r) # 0 => Root(u, r) # 0
              /\ Root(v, r) # 0 => Pointer(u, None, r, k) = Pointer(v, None, r, k)
    BY <1>11, <1>12
  <2>3. \A r \in Regions : \A k \in SlotsIn(r), j \in Bytes :
           Start(r, k) + j \in need /\ Root(v, r) # 0 /\ Pointer(v, None, r, k) # 0 =>
              u.disk[Pointer(v, None, r, k)].bytes[j] = v.disk[Pointer(v, None, r, k)].bytes[j]
    BY <1>10
  <2>4. Holds(u, None, need, c)
    BY <1>13, <2>1, <2>2, <2>3, HoldsAlike
  <2> QED
    BY <1>14, <2>4
<1>16. Holds(AtRest, None, 1 .. size, contents)'
  BY <1>9, <1>14, <1>15
<1> QED
  BY <1>2, <1>8, <1>16 DEF ReadInv

-----------------------------------------------------------------------------
(* The file between two calls. *)

LEMMA RestingTypes ==
    ASSUME FileInv
    PROVE  /\ AtRest \in WriteStates
           /\ \E q : InMemory(q, AtRest, None) /\ Apart(q, block_map)
<1>1. AtRest \in WriteStates
  BY DEF FileInv, AtRest, WriteStates, TypeOK
<1>2. PICK q : Apart(q, block_map) /\ Under(q, Now)
  BY DEF FileInv
<1>3. Under(q, AtRest)
  BY <1>2 DEF Under, Now, AtRest
<1>4. Copied(q, AtRest, AtRest.tbl2, AtRest.indir_2)
  BY DEF Copied, AtRest
<1>5. AtRest.map = block_map
  BY DEF AtRest
<1>6. InMemory(q, AtRest, None)
  BY <1>2, <1>3, <1>4, <1>5 DEF InMemory, Tracked
<1> QED
  BY <1>1, <1>2, <1>6

\* Whatever leads to the bytes of the file is not one of the other file's
\* blocks.
LEMMA RestsApart ==
    ASSUME FileInv, NEW r \in Regions
    PROVE  /\ Root(AtRest, r) \notin other /\ indir_2 \notin other
           /\ \A k \in SlotsIn(r) : Pointer(AtRest, None, r, k) \notin other
<1>1. PICK q : InMemory(q, AtRest, None) /\ Apart(q, block_map)
  BY RestingTypes
<1>2. AtRest \in WriteStates /\ AtRest.map = block_map /\ AtRest.indir_2 = indir_2
  BY RestingTypes DEF AtRest
<1>3. Tracked(q, AtRest)
  BY <1>1 DEF InMemory
<1>4. 0 \notin other /\ Inode \notin other
  BY Sizes DEF FileInv, TypeOK
<1>5. Root(AtRest, r) \notin other
  <2>1. CASE r = 0
    BY <1>4, <2>1 DEF Root
  <2>2. CASE r # 0
    BY <1>2, <1>3, <1>4, <2>2, RootsMarked
  <2> QED
    BY <2>1, <2>2
<1>6. indir_2 \notin other
  <2>1. <<Inode, N_DIRECT + 2>> \in Places /\ indir_2 \in {0, q[<<Inode, N_DIRECT + 2>>]}
    BY <1>2, <1>3, Sizes DEF Tracked, Under, Places, Holders
  <2> QED
    BY <1>1, <1>4, <2>1 DEF Apart
<1>7. ASSUME NEW k \in SlotsIn(r) PROVE Pointer(AtRest, None, r, k) \notin other
  <2>1. /\ <<Root(AtRest, r), k>> \in Places
        /\ Pointer(AtRest, None, r, k) \in {0, q[<<Root(AtRest, r), k>>]}
    BY <1>1, <1>2, PointersFollow
  <2> QED
    BY <1>1, <1>4, <2>1 DEF Apart
<1> QED
  BY <1>5, <1>6, <1>7

\* A step that changes no blocks but the other file's.
LEMMA ElsewhereHolds ==
    ASSUME ReadInv, FileInv', \A b \in Blocks \ other : disk'[b] = disk[b],
           UNCHANGED <<direct, indir_1, indir_2, size, contents>>
    PROVE  ReadInv'
<1>1. /\ FileInv /\ contents \in Seq(Int) /\ Len(contents) = size
      /\ Holds(AtRest, None, 1 .. size, contents)
  BY DEF ReadInv
<1>2. PICK u, v : u = AtRest' /\ v = AtRest
  OBVIOUS
<1>3. /\ u.disk = disk' /\ u.direct = direct /\ u.indir_1 = indir_1 /\ u.indir_2 = indir_2
      /\ u.tbl2 = <<>> /\ v.disk = disk /\ v.direct = direct /\ v.indir_1 = indir_1
      /\ v.indir_2 = indir_2 /\ v.tbl2 = <<>>
  BY <1>2 DEF AtRest
<1>4. \A b \in Blocks \ other : u.disk[b] = v.disk[b]
  BY <1>3
<1>5. v \in WriteStates /\ indir_2 \in Blocks \ other
  <2>1. 0 \in Regions
    BY Sizes DEF Regions
  <2> QED
    BY <1>1, <1>2, <2>1, RestingTypes, RestsApart DEF FileInv, TypeOK
<1>6. Upper(u) = Upper(v)
  BY <1>3, <1>4, <1>5 DEF Upper
<1>7. \A r \in Regions : Root(u, r) = Root(v, r)
  BY <1>3, <1>6 DEF Root
<1>8. ASSUME NEW r \in Regions PROVE Stored(u, Root(u, r)) = Stored(v, Root(v, r))
  <2>1. Root(v, r) \in Holders /\ Root(v, r) \notin other
    BY <1>1, <1>2, <1>5, RootTypes, RestsApart
  <2> QED
    BY <1>3, <1>4, <1>7, <2>1 DEF Stored, Holders
<1>9. ASSUME NEW r \in Regions, NEW k \in SlotsIn(r)
      PROVE  /\ Pointer(u, None, r, k) = Pointer(v, None, r, k)
             /\ u.disk[Pointer(v, None, r, k)] = v.disk[Pointer(v, None, r, k)]
  <2>1. r # None
    BY Sizes DEF Regions, None
  <2>2. Pointer(u, None, r, k) = Pointer(v, None, r, k)
    BY <1>8, <2>1 DEF Pointer
  <2>3. Pointer(v, None, r, k) \in Blocks /\ Pointer(v, None, r, k) \notin other
    <3>1. \E q : InMemory(q, v, None)
      BY <1>1, <1>2, RestingTypes
    <3> QED
      BY <1>1, <1>2, <1>5, <3>1, PointersFollow, RestsApart
  <2> QED
    BY <1>4, <2>2, <2>3
<1>10. Holds(u, None, 1 .. size, contents)
  BY <1>1, <1>2, <1>7, <1>9 DEF Holds
<1>11. Holds(AtRest, None, 1 .. size, contents)'
  BY <1>2, <1>10
<1> QED
  BY <1>1, <1>11 DEF ReadInv

\* Of an empty file nothing is asked.
LEMMA NothingToHold ==
    ASSUME NEW w
    PROVE  Holds(w, None, 1 .. 0, <<>>)
<1>1. \A r \in Regions : \A k \in SlotsIn(r), j \in Bytes : Start(r, k) + j \notin 1 .. 0
  BY SlotTypes
<1> QED
  BY <1>1 DEF Holds

LEMMA InitReads == Init => ReadInv
<1> SUFFICES ASSUME Init PROVE ReadInv
  OBVIOUS
<1>1. FileInv /\ size = 0 /\ contents = <<>>
  BY InitIsFileInv DEF Init
<1>2. contents \in Seq(Int) /\ Len(contents) = 0
  BY <1>1
<1>3. Holds(AtRest, None, 1 .. size, contents)
  BY <1>1, NothingToHold
<1> QED
  BY <1>1, <1>2, <1>3 DEF ReadInv

LEMMA StepKeepsReadInv == ReadInv /\ [Next]_vars => ReadInv'
<1> SUFFICES ASSUME ReadInv, [Next]_vars PROVE ReadInv'
  OBVIOUS
<1>1. FileInv /\ FileInv'
  BY StepKeepsFileInv DEF ReadInv
<1>2. CASE \/ Fail("write", EINVAL) \/ Fail("truncate", EINVAL) \/ UNCHANGED vars
  BY <1>1, <1>2, ElsewhereHolds DEF Fail, vars
<1>3. CASE \E offset \in 0 .. size, len \in Lens :
              /\ offset < size => overwrites < MaxOverwrites
              /\ fs_write(offset, len)
  BY <1>3, WriteHolds
<1>4. CASE fs_truncate
  <2>1. size' = 0 /\ contents' = <<>>
    BY <1>4 DEF fs_truncate
  <2>2. contents' \in Seq(Int) /\ Len(contents') = size'
    BY <2>1
  <2>3. PICK u, n, c : u = AtRest' /\ n = size' /\ c = contents'
    OBVIOUS
  <2>4. Holds(u, None, 1 .. n, c)
    BY <2>1, <2>3, NothingToHold
  <2>5. Holds(AtRest, None, 1 .. size, contents)'
    BY <2>3, <2>4
  <2> QED
    BY <1>1, <2>2, <2>5 DEF ReadInv
<1>5. CASE OtherTruncated
  <2>1. \A b \in Blocks \ other : disk'[b] = disk[b]
    BY <1>5 DEF OtherTruncated, Zeroed
  <2> QED
    BY <1>1, <1>5, <2>1, ElsewhereHolds DEF OtherTruncated
<1> QED
  BY <1>2, <1>3, <1>4, <1>5 DEF Next, Write, Truncate

\* After any calls the pointers of the file lead, slot by slot, to the bytes
\* last written (fs_write over three levels of pointers, fs_truncate).
THEOREM ReadInvariant == Spec => []ReadInv
<1> QED
  BY InitReads, StepKeepsReadInv, PTL DEF Spec

-----------------------------------------------------------------------------
(* read. *)

ReadStates == [out : Seq(Int), offset_cnt : Nat, cnt : Nat, len : Nat,
               over : BOOLEAN, ended : BOOLEAN]

Reading(r, offset) == r \in ReadStates /\ r.offset_cnt <= offset

\* What a read of len bytes has got when it has passed p bytes of the file.
Got(r, p, offset, len) ==
    /\ r.cnt + r.len = len /\ offset + r.cnt <= size
    /\ Len(r.out) = r.cnt
    /\ \A x \in 1 .. r.cnt : r.out[x] = contents[offset + x]
    /\ \/ r.offset_cnt = p /\ r.cnt = 0 /\ p <= offset
       \/ r.offset_cnt = offset /\ offset + r.cnt = p
       \/ r.offset_cnt = offset /\ AtEnd(r, offset)

\* The pointers of tbl lead to the bytes of region a, as far as the file goes.
Leads(tbl, a) ==
    \A k \in SlotsIn(a) :
        /\ tbl[k] \in Blocks
        /\ \A j \in Bytes : Start(a, k) + j <= size =>
              disk[tbl[k]].bytes[j] = contents[Start(a, k) + j]

LEMMA SliceJoined ==
    ASSUME NEW s \in Seq(Int), NEW m \in Nat, NEW b \in [1 .. m -> Int],
           NEW i \in Nat, NEW n \in Nat, i + n <= m
    PROVE  LET t == s \o SubSeq(b, i + 1, i + n)
           IN /\ t \in Seq(Int) /\ Len(t) = Len(s) + n
              /\ \A x \in 1 .. Len(s) : t[x] = s[x]
              /\ \A x \in 1 .. n : t[Len(s) + x] = b[i + x]
<1> DEFINE u == SubSeq(b, i + 1, i + n)
<1>1. b \in Seq(Int) /\ Len(b) = m
  OBVIOUS
<1>2. u \in Seq(Int) /\ Len(u) = n /\ \A x \in 1 .. n : u[x] = b[i + x]
  <2>1. u = [x \in 1 .. (i + n) - (i + 1) + 1 |-> b[(i + 1) + x - 1]]
    BY <1>1
  <2>2. (i + n) - (i + 1) + 1 = n
    OBVIOUS
  <2>3. u = [x \in 1 .. n |-> b[(i + 1) + x - 1]]
    BY <2>1, <2>2
  <2>4. \A x \in 1 .. n : (i + 1) + x - 1 = i + x /\ i + x \in 1 .. m
    OBVIOUS
  <2> HIDE DEF u
  <2>5. \A x \in 1 .. n : u[x] = b[i + x] /\ u[x] \in Int
    BY <2>3, <2>4
  <2>6. u \in [1 .. n -> Int]
    BY <2>3, <2>5
  <2> QED
    BY <2>5, <2>6
<1> HIDE DEF u
<1>3. /\ s \o u \in Seq(Int) /\ Len(s \o u) = Len(s) + n
      /\ \A x \in 1 .. Len(s) : (s \o u)[x] = s[x]
      /\ \A x \in 1 .. n : (s \o u)[Len(s) + x] = u[x]
  <2>1. PICK v : v = s \o u
    OBVIOUS
  <2>2. v \in Seq(Int) /\ Len(v) = Len(s) + Len(u)
    <3>1. u \in Seq(Int)
      BY <1>2
    <3>2. v \in Seq(Int)
      BY <2>1, <3>1
    <3>3. Len(v) = Len(s) + Len(u)
      BY <2>1, <3>1
    <3> QED
      BY <3>2, <3>3
  <2>3. \A x \in 1 .. Len(s) + Len(u) : v[x] = IF x <= Len(s) THEN s[x] ELSE u[x - Len(s)]
    BY <1>2, <2>1
  <2>4. Len(s) \in Nat
    OBVIOUS
  <2>5. \A x \in 1 .. Len(s) : v[x] = s[x]
    BY <1>2, <2>3, <2>4
  <2>6. \A x \in 1 .. n : v[Len(s) + x] = u[x]
    <3>1. \A x \in 1 .. n : /\ Len(s) + x \in 1 .. Len(s) + n /\ ~(Len(s) + x <= Len(s))
                            /\ (Len(s) + x) - Len(s) = x
      BY <2>4
    <3> QED
      BY <1>2, <2>3, <3>1
  <2> QED
    BY <1>2, <2>1, <2>2, <2>5, <2>6
<1> QED
  BY <1>2, <1>3 DEF u

\* How many bytes a block gives.
Taken(r, offset) ==
    Larger(0, Smaller(Smaller(r.len, FS_BLOCK_SIZE - (offset - r.offset_cnt)),
                      size - (offset + r.cnt)))

LEMMA TakenIs ==
    ASSUME NEW offset \in Nat, NEW r, Reading(r, offset), size \in Nat,
           ~Before(r.offset_cnt, FS_BLOCK_SIZE, offset)
    PROVE  LET n == Taken(r, offset)
               i == offset - r.offset_cnt
           IN /\ n \in Nat /\ i \in Nat /\ n <= r.len /\ i + n <= FS_BLOCK_SIZE
              /\ offset + r.cnt <= size =>
                    /\ offset + r.cnt + n <= size
                    /\ \/ n = r.len
                       \/ i + n = FS_BLOCK_SIZE
                       \/ offset + r.cnt + n = size
<1>1. r.offset_cnt \in Nat /\ r.cnt \in Nat /\ r.len \in Nat /\ r.offset_cnt <= offset
      /\ FS_BLOCK_SIZE \in Nat /\ offset - r.offset_cnt <= FS_BLOCK_SIZE
  BY Sizes DEF Reading, ReadStates, Before
<1> QED
  BY <1>1 DEF Taken, Larger, Smaller

LEMMA TakesBytes ==
    ASSUME NEW offset \in Nat, NEW r, Reading(r, offset), size \in Nat, TypeOK,
           ~Before(r.offset_cnt, FS_BLOCK_SIZE, offset), NEW b \in Blocks
    PROVE  LET t == TakeBytes(r, b, offset)
               n == Taken(r, offset)
               i == offset - r.offset_cnt
           IN /\ Reading(t, offset)
              /\ t.offset_cnt = offset /\ t.cnt = r.cnt + n /\ t.len = r.len - n
              /\ t.over = r.over /\ t.ended = r.ended
              /\ Len(t.out) = Len(r.out) + n
              /\ \A x \in 1 .. Len(r.out) : t.out[x] = r.out[x]
              /\ \A x \in 1 .. n : t.out[Len(r.out) + x] = disk[b].bytes[i + x]
<1>1. PICK t, n, i, s, d :
         /\ t = TakeBytes(r, b, offset) /\ n = Taken(r, offset)
         /\ i = offset - r.offset_cnt /\ s = r.out /\ d = disk[b].bytes
  OBVIOUS
<1>2. PICK o : o = s \o SubSeq(d, i + 1, i + n)
  OBVIOUS
<1>3. t = [r EXCEPT !.out = o, !.offset_cnt = offset, !.cnt = @ + n, !.len = @ - n]
  BY <1>1, <1>2 DEF TakeBytes, Taken
<1>4. n \in Nat /\ i \in Nat /\ n <= r.len /\ i + n <= FS_BLOCK_SIZE
  BY <1>1, TakenIs
<1>5. r \in ReadStates /\ s \in Seq(Int) /\ r.cnt \in Nat /\ r.len \in Nat
  BY <1>1 DEF Reading, ReadStates
<1>6. d \in [1 .. FS_BLOCK_SIZE -> Int] /\ FS_BLOCK_SIZE \in Nat
  <2>1. d \in [Bytes -> Int]
    BY <1>1 DEF TypeOK, BlockValues
  <2> QED
    BY <2>1, Sizes DEF Bytes
<1>7. /\ o \in Seq(Int) /\ Len(o) = Len(s) + n
      /\ \A x \in 1 .. Len(s) : o[x] = s[x]
      /\ \A x \in 1 .. n : o[Len(s) + x] = d[i + x]
  BY <1>2, <1>4, <1>5, <1>6, SliceJoined
<1>8. /\ t.out = o /\ t.offset_cnt = offset /\ t.cnt = r.cnt + n /\ t.len = r.len - n
      /\ t.over = r.over /\ t.ended = r.ended
  BY <1>3, <1>5 DEF ReadStates
<1>9. r.cnt + n \in Nat /\ r.len - n \in Nat
  <2>1. PICK c, l : c = r.cnt /\ l = r.len
    OBVIOUS
  <2>2. c \in Nat /\ l \in Nat /\ n <= l /\ n \in Nat
    BY <1>4, <1>5, <2>1
  <2>3. c + n \in Nat /\ l - n \in Nat
    BY <2>2
  <2> QED
    BY <2>1, <2>3
<1>10. t \in ReadStates
  BY <1>3, <1>5, <1>7, <1>9 DEF ReadStates
<1>11. Reading(t, offset)
  BY <1>8, <1>10 DEF Reading
<1> QED
  BY <1>1, <1>7, <1>8, <1>11

\* A turn passes a block or reads it, and the loop is left at the end.
Skipped(r, span) == [r EXCEPT !.offset_cnt = @ + span]
Stopped(r, offset) == [r EXCEPT !.over = AtEnd(r, offset)]

LEMMA Skips ==
    ASSUME NEW offset \in Nat, NEW r, Reading(r, offset), NEW span \in Nat,
           Before(r.offset_cnt, span, offset)
    PROVE  LET x == Skipped(r, span)
           IN /\ Reading(x, offset) /\ x.offset_cnt = r.offset_cnt + span
              /\ x.out = r.out /\ x.cnt = r.cnt /\ x.len = r.len
              /\ x.over = r.over /\ x.ended = r.ended
<1>1. PICK x, c : x = Skipped(r, span) /\ c = r.offset_cnt
  OBVIOUS
<1>2. x = [r EXCEPT !.offset_cnt = c + span] /\ r \in ReadStates
  BY <1>1 DEF Skipped, Reading
<1>3. c \in Nat /\ c + span \in Nat /\ c + span <= offset
  BY <1>1, <1>2 DEF ReadStates, Before
<1>4. /\ x.offset_cnt = c + span /\ x.out = r.out /\ x.cnt = r.cnt /\ x.len = r.len
      /\ x.over = r.over /\ x.ended = r.ended
  BY <1>2 DEF ReadStates
<1>5. x \in ReadStates
  BY <1>2, <1>3 DEF ReadStates
<1> QED
  BY <1>1, <1>3, <1>4, <1>5 DEF Reading

LEMMA Stops ==
    ASSUME NEW offset, NEW r, Reading(r, offset)
    PROVE  LET x == Stopped(r, offset)
           IN /\ Reading(x, offset) /\ x.offset_cnt = r.offset_cnt
              /\ x.out = r.out /\ x.cnt = r.cnt /\ x.len = r.len /\ x.ended = r.ended
              /\ AtEnd(x, offset) <=> AtEnd(r, offset)
              /\ x.over <=> AtEnd(x, offset)
<1>1. PICK x, e : x = Stopped(r, offset) /\ e = AtEnd(r, offset)
  OBVIOUS
<1>2. e \in BOOLEAN
  BY <1>1 DEF AtEnd
<1>3. x = [r EXCEPT !.over = e] /\ r \in ReadStates
  BY <1>1 DEF Stopped, Reading
<1>4. /\ x.offset_cnt = r.offset_cnt /\ x.out = r.out /\ x.cnt = r.cnt /\ x.len = r.len
      /\ x.over = e /\ x.ended = r.ended
  BY <1>3 DEF ReadStates
<1>5. x \in ReadStates
  BY <1>2, <1>3 DEF ReadStates
<1>6. AtEnd(x, offset) <=> AtEnd(r, offset)
  BY <1>4 DEF AtEnd
<1>7. Reading(x, offset)
  BY <1>4, <1>5 DEF Reading
<1>8. x.over <=> AtEnd(x, offset)
  BY <1>1, <1>4, <1>6
<1> QED
  BY <1>1, <1>4, <1>6, <1>7, <1>8

LEMMA BlockTypes ==
    ASSUME NEW offset \in Nat, size \in Nat, TypeOK, NEW r, Reading(r, offset),
           NEW b \in Blocks
    PROVE  LET x == ReadBlock(r, b, offset)
           IN Reading(x, offset) /\ x.ended = r.ended
<1> DEFINE x == ReadBlock(r, b, offset)
<1>1. CASE r.over
  BY <1>1 DEF ReadBlock
<1>2. CASE ~r.over /\ Before(r.offset_cnt, FS_BLOCK_SIZE, offset)
  <2>1. x = Skipped(r, FS_BLOCK_SIZE)
    BY <1>2 DEF ReadBlock, Skipped
  <2> HIDE DEF x
  <2> QED
    BY <1>2, <2>1, Sizes, Skips DEF x
<1>3. CASE ~r.over /\ ~Before(r.offset_cnt, FS_BLOCK_SIZE, offset)
  <2>1. PICK t : t = TakeBytes(r, b, offset)
    OBVIOUS
  <2>2. x = Stopped(t, offset)
    BY <1>3, <2>1 DEF ReadBlock, Stopped
  <2> HIDE DEF x
  <2>3. Reading(t, offset) /\ t.ended = r.ended
    BY <1>3, <2>1, TakesBytes
  <2>4. Reading(x, offset) /\ x.ended = t.ended
    BY <2>2, <2>3, Stops
  <2> QED
    BY <2>3, <2>4 DEF x
<1> QED
  BY <1>1, <1>2, <1>3

\* After a turn for the block that holds the bytes from p on, the read has got
\* those as well.
LEMMA BlockReads ==
    ASSUME NEW offset \in Nat, size \in Nat, TypeOK, offset < size,
           NEW r, Reading(r, offset), NEW b \in Blocks,
           NEW p \in Nat, NEW len \in Nat, len > 0, Got(r, p, offset, len),
           r.over <=> AtEnd(r, offset),
           \A j \in Bytes : p + j <= size => disk[b].bytes[j] = contents[p + j]
    PROVE  LET x == ReadBlock(r, b, offset)
           IN Got(x, p + FS_BLOCK_SIZE, offset, len) /\ (x.over <=> AtEnd(x, offset))
<1> DEFINE x == ReadBlock(r, b, offset)
<1>1. /\ FS_BLOCK_SIZE \in Nat /\ FS_BLOCK_SIZE > 0
      /\ r.offset_cnt \in Nat /\ r.cnt \in Nat /\ r.len \in Nat /\ r.offset_cnt <= offset
      /\ r.cnt + r.len = len /\ offset + r.cnt <= size /\ Len(r.out) = r.cnt
      /\ \A y \in 1 .. r.cnt : r.out[y] = contents[offset + y]
  BY Sizes DEF Got, Reading, ReadStates
<1>2. \/ r.offset_cnt = p /\ r.cnt = 0 /\ p <= offset
      \/ r.offset_cnt = offset /\ offset + r.cnt = p
      \/ r.offset_cnt = offset /\ AtEnd(r, offset)
  BY DEF Got
<1>3. CASE r.over
  <2>1. x = r
    BY <1>3 DEF ReadBlock
  <2>2. r.offset_cnt = offset
    BY <1>1, <1>2, <1>3 DEF AtEnd
  <2> HIDE DEF x
  <2>3. Got(x, p + FS_BLOCK_SIZE, offset, len)
    BY <1>1, <1>3, <2>1, <2>2 DEF Got
  <2> QED
    BY <2>1, <2>3 DEF x
<1>4. CASE ~r.over /\ Before(r.offset_cnt, FS_BLOCK_SIZE, offset)
  <2>1. x = Skipped(r, FS_BLOCK_SIZE)
    BY <1>4 DEF ReadBlock, Skipped
  <2> HIDE DEF x
  <2>2. /\ x.offset_cnt = r.offset_cnt + FS_BLOCK_SIZE
        /\ x.out = r.out /\ x.cnt = r.cnt /\ x.len = r.len /\ x.over = r.over
    BY <1>4, <2>1, Sizes, Skips
  <2>3. AtEnd(x, offset) <=> AtEnd(r, offset)
    BY <2>2 DEF AtEnd
  <2>4. r.offset_cnt = p /\ r.cnt = 0 /\ p + FS_BLOCK_SIZE <= offset
    BY <1>1, <1>2, <1>4 DEF Before
  <2>5. Got(x, p + FS_BLOCK_SIZE, offset, len)
    BY <1>1, <2>2, <2>4 DEF Got
  <2> QED
    BY <2>2, <2>3, <2>5 DEF x
<1>5. CASE ~r.over /\ ~Before(r.offset_cnt, FS_BLOCK_SIZE, offset)
  <2>1. PICK t, n, i : /\ t = TakeBytes(r, b, offset) /\ n = Taken(r, offset)
                       /\ i = offset - r.offset_cnt
    OBVIOUS
  <2>2. x = Stopped(t, offset)
    BY <1>5, <2>1 DEF ReadBlock, Stopped
  <2> HIDE DEF x
  <2>3. /\ Reading(t, offset)
        /\ t.offset_cnt = offset /\ t.cnt = r.cnt + n /\ t.len = r.len - n
        /\ Len(t.out) = Len(r.out) + n
        /\ \A y \in 1 .. Len(r.out) : t.out[y] = r.out[y]
        /\ \A y \in 1 .. n : t.out[Len(r.out) + y] = disk[b].bytes[i + y]
    BY <1>5, <2>1, TakesBytes
  <2>4. /\ x.offset_cnt = t.offset_cnt /\ x.out = t.out /\ x.cnt = t.cnt /\ x.len = t.len
        /\ AtEnd(x, offset) <=> AtEnd(t, offset)
        /\ x.over <=> AtEnd(x, offset)
    BY <2>2, <2>3, Stops
  <2>5. /\ n \in Nat /\ i \in Nat /\ n <= r.len /\ i + n <= FS_BLOCK_SIZE
        /\ offset + r.cnt + n <= size
        /\ \/ n = r.len
           \/ i + n = FS_BLOCK_SIZE
           \/ offset + r.cnt + n = size
    BY <1>1, <1>5, <2>1, TakenIs
  <2>6. offset + r.cnt = p + i
    BY <1>1, <1>2, <1>5, <2>1
  <2>7. PICK c, l : c = r.cnt /\ l = r.len
    OBVIOUS
  <2>8. /\ c \in Nat /\ l \in Nat /\ n \in Nat /\ i \in Nat
         /\ i + n <= FS_BLOCK_SIZE /\ offset + c + n <= size /\ offset + c = p + i
    BY <1>1, <2>5, <2>6, <2>7
  <2>9. n = l \/ i + n = FS_BLOCK_SIZE \/ offset + c + n = size
    BY <2>5, <2>7
  <2>10. \A y \in 1 .. c + n : t.out[y] = contents[offset + y]
    <3>1. ASSUME NEW y \in 1 .. c PROVE t.out[y] = contents[offset + y]
      BY <1>1, <2>3, <2>7
    <3>2. ASSUME NEW y \in 1 .. n PROVE t.out[c + y] = contents[offset + (c + y)]
      <4>1. i + y \in Bytes /\ p + (i + y) <= size /\ p + (i + y) = offset + (c + y)
        <5>1. y \in Nat /\ y > 0 /\ y <= n
          BY <2>8
        <5>2. i + y \in 1 .. FS_BLOCK_SIZE
          BY <2>8, <5>1, Sizes
        <5>3. p + (i + y) = offset + (c + y) /\ p + (i + y) <= size
          BY <2>8, <5>1
        <5> QED
          BY <5>2, <5>3 DEF Bytes
      <4>2. disk[b].bytes[i + y] = contents[p + (i + y)]
        BY <4>1
      <4> QED
        BY <1>1, <2>3, <2>7, <4>1, <4>2
    <3>3. ASSUME NEW y \in 1 .. c + n, ~(y <= c) PROVE t.out[y] = contents[offset + y]
      <4>1. y - c \in 1 .. n /\ c + (y - c) = y
        BY <2>8, <3>3
      <4> QED
        BY <3>2, <4>1
    <3>4. \A y \in 1 .. c + n : y <= c => y \in 1 .. c
      BY <1>1, <2>5, <2>7
    <3> QED
      BY <3>1, <3>3, <3>4
  <2>11. t.cnt + t.len = len /\ offset + t.cnt <= size /\ Len(t.out) = t.cnt
    BY <1>1, <2>3, <2>5
  <2>12. offset + t.cnt = p + FS_BLOCK_SIZE \/ AtEnd(t, offset)
    <3>1. t.cnt = c + n /\ t.len = l - n
      BY <2>3, <2>7
    <3>2. \/ offset + (c + n) = p + FS_BLOCK_SIZE
          \/ offset + (c + n) >= size
          \/ l - n = 0
      BY <1>1, <2>8, <2>9
    <3> QED
      BY <3>1, <3>2 DEF AtEnd
  <2>13. Got(x, p + FS_BLOCK_SIZE, offset, len)
    BY <2>3, <2>4, <2>7, <2>10, <2>11, <2>12 DEF Got
  <2> QED
    BY <2>4, <2>13 DEF x
<1> QED
  BY <1>3, <1>4, <1>5

\* The loop over a table starts without the break.
Begun(r) == [r EXCEPT !.over = FALSE]

LEMMA Begins ==
    ASSUME NEW offset, NEW r, Reading(r, offset)
    PROVE  LET x == Begun(r)
           IN /\ Reading(x, offset) /\ x.offset_cnt = r.offset_cnt /\ x.out = r.out
              /\ x.cnt = r.cnt /\ x.len = r.len /\ ~x.over /\ x.ended = r.ended
<1>1. PICK x : x = Begun(r)
  OBVIOUS
<1>2. x = [r EXCEPT !.over = FALSE] /\ r \in ReadStates
  BY <1>1 DEF Begun, Reading
<1>3. /\ x.offset_cnt = r.offset_cnt /\ x.out = r.out /\ x.cnt = r.cnt /\ x.len = r.len
      /\ ~x.over /\ x.ended = r.ended
  BY <1>2 DEF ReadStates
<1>4. x \in ReadStates
  BY <1>2 DEF ReadStates
<1> QED
  BY <1>1, <1>3, <1>4 DEF Reading

\* ReadTurns is the function its definition describes.
AreReads(f, r, n, offset, tbl) ==
    f = [k \in 0 .. n |-> IF k = 0 THEN [r EXCEPT !.over = FALSE]
                          ELSE ReadBlock(f[k - 1], tbl[k], offset)]

ReadsFollow(t, r, n, offset, tbl) ==
    /\ t[0] = Begun(r)
    /\ \A k \in 1 .. n : t[k] = ReadBlock(t[k - 1], tbl[k], offset)
    /\ \A k \in 0 .. n : Reading(t[k], offset) /\ t[k].ended = r.ended

LEMMA ReadTurnsFollow ==
    ASSUME NEW offset \in Nat, size \in Nat, TypeOK, NEW r, Reading(r, offset),
           NEW n \in Nat, NEW tbl, \A k \in 1 .. n : tbl[k] \in Blocks
    PROVE  ReadsFollow(ReadTurns(r, n, offset, tbl), r, n, offset, tbl)
<1> DEFINE S == {x \in ReadStates : Reading(x, offset) /\ x.ended = r.ended}
           step == [p \in (1 .. n) \X S |-> ReadBlock(p[2], tbl[p[1]], offset)]
           t == ReadTurns(r, n, offset, tbl)
<1>1. ASSUME NEW k \in 1 .. n, NEW x \in S PROVE ReadBlock(x, tbl[k], offset) \in S
  <2>1. PICK y, b : y = ReadBlock(x, b, offset) /\ b = tbl[k]
    OBVIOUS
  <2>2. Reading(y, offset) /\ y.ended = x.ended
    BY <2>1, BlockTypes
  <2> QED
    BY <2>1, <2>2 DEF Reading
<1>2. Begun(r) \in S
  <2>1. Reading(Begun(r), offset) /\ Begun(r).ended = r.ended
    BY Begins
  <2> QED
    BY <2>1 DEF Reading
<1>3. step \in [(1 .. n) \X S -> S]
  <2>1. \A p \in (1 .. n) \X S : ReadBlock(p[2], tbl[p[1]], offset) \in S
    BY <1>1
  <2> QED
    BY <2>1
<1>4. \A k \in 1 .. n, x \in S : step[<<k, x>>] = ReadBlock(x, tbl[k], offset)
  OBVIOUS
<1> HIDE DEF S, step
<1>5. PICK f : Follows(f, n, S, step, Begun(r))
  BY <1>2, <1>3, Iterates
<1>6. AreReads(f, r, n, offset, tbl)
  <2>1. f \in [0 .. n -> S] /\ f[0] = Begun(r)
    BY <1>5 DEF Follows
  <2>2. ASSUME NEW k \in 0 .. n, k # 0
        PROVE  f[k] = ReadBlock(f[k - 1], tbl[k], offset)
    <3>1. k \in 1 .. n /\ k - 1 \in 0 .. n /\ f[k - 1] \in S
      BY <2>1, <2>2
    <3> QED
      BY <1>4, <1>5, <3>1 DEF Follows
  <2> QED
    BY <2>1, <2>2 DEF AreReads, Begun
<1>7. AreReads(t, r, n, offset, tbl)
  <2>1. \E g : AreReads(g, r, n, offset, tbl)
    BY <1>6
  <2> QED
    BY <2>1 DEF ReadTurns, AreReads
<1> HIDE DEF t
<1>8. t[0] = Begun(r)
  BY <1>7 DEF AreReads, Begun
<1>9. \A k \in 1 .. n : t[k] = ReadBlock(t[k - 1], tbl[k], offset)
  <2>1. \A k \in 0 .. n : t[k] = IF k = 0 THEN [r EXCEPT !.over = FALSE]
                                  ELSE ReadBlock(t[k - 1], tbl[k], offset)
    BY <1>7 DEF AreReads
  <2>2. \A k \in 1 .. n : k \in 0 .. n /\ k # 0
    OBVIOUS
  <2> QED
    BY <2>1, <2>2
<1>10. \A k \in 0 .. n : t[k] \in S
  <2> DEFINE K == {k \in 0 .. n : t[k] \in S}
  <2>1. 0 \in K
    BY <1>2, <1>8
  <2>2. ASSUME NEW k \in 0 .. n, k \in K, k < n PROVE k + 1 \in K
    <3>1. k + 1 \in 1 .. n /\ (k + 1) - 1 = k
      BY <2>2
    <3>2. t[k + 1] = ReadBlock(t[k], tbl[k + 1], offset)
      BY <1>9, <3>1
    <3> QED
      BY <1>1, <2>2, <3>1, <3>2
  <2> HIDE DEF K
  <2>3. \A k \in 0 .. n : k \in K
    BY <2>1, <2>2, UpTo
  <2> QED
    BY <2>3 DEF K
<1> QED
  BY <1>8, <1>9, <1>10 DEF S, t, ReadsFollow

\* A table is read to its end, or to that of the file or of the buffer.
LEMMA TableReads ==
    ASSUME NEW offset \in Nat, size \in Nat, TypeOK, offset < size,
           NEW len \in Nat, len > 0, NEW a \in Regions, NEW n \in Nat, SlotsIn(a) = 1 .. n,
           NEW tbl, Leads(tbl, a), NEW r, Reading(r, offset), Got(r, Base(a), offset, len),
           ~AtEnd(r, offset)
    PROVE  LET x == read_helper(r, n, offset, tbl)
           IN /\ Reading(x, offset) /\ Got(x, Base(a + 1), offset, len)
              /\ x.ended = r.ended
<1> DEFINE x == read_helper(r, n, offset, tbl)
<1>1. /\ n > 0 /\ n \in Nat \ {0} /\ Base(a) \in Nat /\ FS_BLOCK_SIZE * n \in Nat
      /\ Start(a, 1) = Base(a) /\ Start(a, n + 1) = Base(a) + FS_BLOCK_SIZE * n
      /\ Base(a + 1) = Base(a) + FS_BLOCK_SIZE * n /\ FS_BLOCK_SIZE \in Nat
  <2>1. PICK m \in Nat : /\ m > 0 /\ SlotsIn(a) = 1 .. m
                         /\ Base(a + 1) = Base(a) + FS_BLOCK_SIZE * m
    BY Starts
  <2>2. m = n
    BY <2>1
  <2>3. n \in Nat \ {0} /\ n > 0
    BY <2>1, <2>2
  <2> QED
    BY <2>1, <2>2, <2>3, Sizes, Starts, Bases, OneMore
<1>2. CASE Before(r.offset_cnt, FS_BLOCK_SIZE * n, offset)
  <2> DEFINE span == FS_BLOCK_SIZE * n
  <2>1. x = Skipped(r, span)
    BY <1>2 DEF read_helper, Skipped
  <2>2. span \in Nat /\ Before(r.offset_cnt, span, offset) /\ Base(a + 1) = Base(a) + span
    BY <1>1, <1>2
  <2> HIDE DEF x, span
  <2>3. /\ Reading(x, offset) /\ x.offset_cnt = r.offset_cnt + span
        /\ x.out = r.out /\ x.cnt = r.cnt /\ x.len = r.len /\ x.ended = r.ended
    BY <2>1, <2>2, Skips
  <2>4. r.offset_cnt \in Nat /\ r.offset_cnt + span < offset
    BY <2>2 DEF Reading, ReadStates, Before
  <2>5. r.offset_cnt = Base(a) /\ r.cnt = 0
    BY <2>2, <2>4 DEF Got
  <2>6. Base(a) + span <= offset
    BY <1>1, <2>2, <2>4, <2>5
  <2>7. Got(x, Base(a) + span, offset, len)
    BY <2>3, <2>5, <2>6 DEF Got
  <2> QED
    BY <2>2, <2>3, <2>7 DEF x
<1>3. CASE ~Before(r.offset_cnt, FS_BLOCK_SIZE * n, offset)
  <2>1. x = ReadTurns(r, n, offset, tbl)[n]
    BY <1>3 DEF read_helper
  <2> HIDE DEF x
  <2> DEFINE t == ReadTurns(r, n, offset, tbl)
             K == {k \in 0 .. n : /\ Got(t[k], Start(a, k + 1), offset, len)
                                  /\ t[k].over <=> AtEnd(t[k], offset)}
  <2>2. /\ t[0] = Begun(r)
        /\ \A k \in 1 .. n : t[k] = ReadBlock(t[k - 1], tbl[k], offset)
        /\ \A k \in 0 .. n : Reading(t[k], offset) /\ t[k].ended = r.ended
    <3>1. \A k \in 1 .. n : tbl[k] \in Blocks
      BY DEF Leads
    <3>2. ReadsFollow(t, r, n, offset, tbl)
      BY <3>1, ReadTurnsFollow
    <3> HIDE DEF t
    <3> QED
      BY <3>2 DEF ReadsFollow
  <2> HIDE DEF t
  <2>3. 0 \in K
    <3>1. PICK y : y = t[0]
      OBVIOUS
    <3>2. /\ y.offset_cnt = r.offset_cnt /\ y.out = r.out
          /\ y.cnt = r.cnt /\ y.len = r.len /\ ~y.over
      BY <2>2, <3>1, Begins
    <3>3. Got(y, Base(a), offset, len) /\ ~AtEnd(y, offset)
      BY <3>2 DEF Got, AtEnd
    <3>4. Start(a, 0 + 1) = Base(a) /\ 0 \in 0 .. n
      BY <1>1
    <3> QED
      BY <3>1, <3>2, <3>3, <3>4
  <2>4. ASSUME NEW k \in 0 .. n, k \in K, k < n PROVE k + 1 \in K
    <3>1. /\ k + 1 \in 1 .. n /\ (k + 1) - 1 = k /\ k + 1 \in SlotsIn(a) /\ k + 1 \in 0 .. n
          /\ k + 1 \in Nat \ {0}
      BY <2>4
    <3>2. PICK i, b, p, y, z : /\ i = k + 1 /\ b = tbl[i] /\ p = Start(a, i)
                               /\ y = t[k] /\ z = t[i]
      OBVIOUS
    <3>3. z = ReadBlock(y, b, offset) /\ Reading(y, offset)
      BY <2>2, <3>1, <3>2
    <3>4. Got(y, p, offset, len) /\ (y.over <=> AtEnd(y, offset))
      BY <2>4, <3>2
    <3>5. /\ b \in Blocks /\ p \in Nat /\ Start(a, i + 1) = p + FS_BLOCK_SIZE
          /\ \A j \in Bytes : p + j <= size => disk[b].bytes[j] = contents[p + j]
      BY <3>1, <3>2, Starts DEF Leads
    <3>6. Got(z, p + FS_BLOCK_SIZE, offset, len) /\ (z.over <=> AtEnd(z, offset))
      BY <3>3, <3>4, <3>5, BlockReads
    <3> QED
      BY <3>1, <3>2, <3>5, <3>6
  <2> HIDE DEF K
  <2>5. \A k \in 0 .. n : k \in K
    BY <2>3, <2>4, UpTo
  <2>6. n \in K /\ n \in 0 .. n
    BY <2>5
  <2> QED
    BY <1>1, <2>1, <2>2, <2>6 DEF K, t, x
<1> QED
  BY <1>2, <1>3

\* The tables of the file lead to its bytes.
LEMMA TablesLead ==
    ASSUME ReadInv, NEW a \in Regions, NEW tbl \in [SlotsIn(a) -> Blocks],
           Root(AtRest, a) # 0 => tbl = Stored(AtRest, Root(AtRest, a))
    PROVE  Leads(tbl, a)
<1> SUFFICES ASSUME NEW k \in SlotsIn(a), NEW j \in Bytes, Start(a, k) + j <= size
             PROVE  disk[tbl[k]].bytes[j] = contents[Start(a, k) + j]
  BY DEF Leads
<1>1. Holds(AtRest, None, 1 .. size, contents) /\ size \in Nat
  BY DEF ReadInv, FileInv, TypeOK
<1>2. PICK x : x = Start(a, k) + j
  OBVIOUS
<1>3. x \in 1 .. size
  <2>1. Start(a, k) \in Nat /\ j \in 1 .. FS_BLOCK_SIZE
    BY SlotTypes
  <2>2. x > 0 /\ x <= size /\ x \in Nat
    BY <1>2, <2>1, Sizes
  <2> QED
    BY <1>1, <2>2
<1>4. /\ Root(AtRest, a) # 0
      /\ AtRest.disk[Pointer(AtRest, None, a, k)].bytes[j] = contents[x]
  BY <1>1, <1>2, <1>3 DEF Holds
<1>5. Pointer(AtRest, None, a, k) = tbl[k] /\ AtRest.disk = disk
  <2>1. a # None
    BY Sizes DEF Regions, None
  <2> QED
    BY <1>4, <2>1 DEF Pointer, AtRest
<1> QED
  BY <1>2, <1>4, <1>5

LEMMA FileTables ==
    ASSUME ReadInv
    PROVE  /\ 0 \in Regions /\ 1 \in Regions
           /\ Leads(direct, 0) /\ SlotsIn(0) = 1 .. N_DIRECT
           /\ Leads(disk[indir_1].ptrs, 1)
           /\ \A r \in Regions \ {0} : SlotsIn(r) = 1 .. PtrsPerBlock
           /\ \A k \in Ptrs : /\ k + 1 \in Regions \ {0}
                              /\ Leads(disk[disk[indir_2].ptrs[k]].ptrs, k + 1)
<1>1. /\ direct \in [1 .. N_DIRECT -> Blocks] /\ indir_1 \in Blocks /\ indir_2 \in Blocks
      /\ \A b \in Blocks : disk[b].ptrs \in [Ptrs -> Blocks]
  BY DEF ReadInv, FileInv, TypeOK, BlockValues
<1>2. /\ 0 \in Regions /\ 1 \in Regions /\ SlotsIn(0) = 1 .. N_DIRECT
      /\ \A r \in Regions \ {0} : SlotsIn(r) = Ptrs
      /\ \A k \in Ptrs : k \in Nat /\ k + 1 \in Regions \ {0} /\ k + 1 # 1
  BY Sizes DEF Regions, SlotsIn, Ptrs
<1>3. /\ AtRest.disk = disk /\ AtRest.direct = direct /\ AtRest.indir_1 = indir_1
      /\ AtRest.indir_2 = indir_2 /\ AtRest.tbl2 = <<>>
  BY DEF AtRest
<1>4. \A b \in Blocks : Stored(AtRest, b) = disk[b].ptrs
  BY <1>3, Sizes DEF Stored
<1>5. Leads(direct, 0)
  <2>1. Stored(AtRest, Root(AtRest, 0)) = direct
    BY <1>3 DEF Stored, Root
  <2> QED
    BY <1>1, <1>2, <2>1, TablesLead
<1>6. Leads(disk[indir_1].ptrs, 1)
  <2>1. Root(AtRest, 1) = indir_1
    BY <1>3 DEF Root
  <2>2. disk[indir_1].ptrs \in [SlotsIn(1) -> Blocks]
    BY <1>1, <1>2
  <2>3. Stored(AtRest, Root(AtRest, 1)) = disk[indir_1].ptrs
    BY <1>1, <1>4, <2>1
  <2> QED
    BY <1>2, <2>2, <2>3, TablesLead
<1>7. ASSUME NEW k \in Ptrs PROVE Leads(disk[disk[indir_2].ptrs[k]].ptrs, k + 1)
  <2>1. PICK b, r, tbl : b = disk[indir_2].ptrs[k] /\ r = k + 1 /\ tbl = disk[b].ptrs
    OBVIOUS
  <2>2. b \in Blocks
    BY <1>1, <2>1
  <2>3. r \in Regions /\ r # 0 /\ r # 1 /\ SlotsIn(r) = Ptrs /\ r - 1 = k
    BY <1>2, <2>1
  <2>4. Root(AtRest, r) # 0 => Root(AtRest, r) = b
    BY <1>3, <2>1, <2>3 DEF Root, Upper
  <2>5. tbl \in [SlotsIn(r) -> Blocks]
    BY <1>1, <2>1, <2>2, <2>3
  <2>6. Root(AtRest, r) # 0 => tbl = Stored(AtRest, Root(AtRest, r))
    BY <1>4, <2>1, <2>2, <2>4
  <2>7. Leads(tbl, r)
    BY <2>3, <2>5, <2>6, TablesLead
  <2> QED
    BY <2>1, <2>7
<1> QED
  BY <1>2, <1>5, <1>6, <1>7 DEF Ptrs

\* The break of the outer loop.
Ended(r, offset) == [r EXCEPT !.ended = AtEnd(r, offset)]

LEMMA Ends ==
    ASSUME NEW offset, NEW r, Reading(r, offset)
    PROVE  LET x == Ended(r, offset)
           IN /\ Reading(x, offset) /\ x.offset_cnt = r.offset_cnt
              /\ x.out = r.out /\ x.cnt = r.cnt /\ x.len = r.len
              /\ AtEnd(x, offset) <=> AtEnd(r, offset)
              /\ x.ended <=> AtEnd(x, offset)
<1>1. PICK x, e : x = Ended(r, offset) /\ e = AtEnd(r, offset)
  OBVIOUS
<1>2. e \in BOOLEAN
  BY <1>1 DEF AtEnd
<1>3. x = [r EXCEPT !.ended = e] /\ r \in ReadStates
  BY <1>1 DEF Ended, Reading
<1>4. /\ x.offset_cnt = r.offset_cnt /\ x.out = r.out /\ x.cnt = r.cnt /\ x.len = r.len
      /\ x.ended = e
  BY <1>3 DEF ReadStates
<1>5. x \in ReadStates
  BY <1>2, <1>3 DEF ReadStates
<1>6. AtEnd(x, offset) <=> AtEnd(r, offset)
  BY <1>4 DEF AtEnd
<1>7. Reading(x, offset)
  BY <1>4, <1>5 DEF Reading
<1>8. x.ended <=> AtEnd(x, offset)
  BY <1>1, <1>4, <1>6
<1> QED
  BY <1>1, <1>4, <1>6, <1>7, <1>8

LEMMA SecondTypes ==
    ASSUME NEW offset \in Nat, size \in Nat, TypeOK, NEW r, Reading(r, offset),
           NEW b \in Blocks
    PROVE  Reading(ReadSecond(r, b, offset), offset)
<1>1. PICK x, n, tbl : /\ x = ReadSecond(r, b, offset) /\ n = PtrsPerBlock
                       /\ tbl = disk[b].ptrs
  OBVIOUS
<1>2. n \in Nat /\ \A k \in 1 .. n : tbl[k] \in Blocks
  <2>1. tbl \in [Ptrs -> Blocks]
    BY <1>1 DEF TypeOK, BlockValues
  <2> QED
    BY <1>1, <2>1, Sizes DEF Ptrs
<1>3. \A span \in Nat : Before(r.offset_cnt, span, offset) => Reading(Skipped(r, span), offset)
  BY Skips
<1>4. CASE r.ended
  BY <1>1, <1>4 DEF ReadSecond
<1>5. CASE ~r.ended /\ Before(r.offset_cnt, PtrsPerBlock * FS_BLOCK_SIZE, offset)
  <2>1. PICK span : span = PtrsPerBlock * FS_BLOCK_SIZE
    OBVIOUS
  <2>2. x = Skipped(r, span)
    BY <1>1, <1>5, <2>1 DEF ReadSecond, Skipped
  <2>3. span \in Nat
    BY <2>1, Spans
  <2> QED
    BY <1>1, <1>3, <1>5, <2>1, <2>2, <2>3
<1>6. CASE ~r.ended /\ ~Before(r.offset_cnt, PtrsPerBlock * FS_BLOCK_SIZE, offset)
  <2>1. PICK h : h = read_helper(r, n, offset, tbl)
    OBVIOUS
  <2>2. x = Ended(h, offset)
    BY <1>1, <1>6, <2>1 DEF ReadSecond, Ended
  <2>3. Reading(h, offset)
    <3>1. CASE Before(r.offset_cnt, FS_BLOCK_SIZE * n, offset)
      <4>1. PICK span : span = FS_BLOCK_SIZE * n
        OBVIOUS
      <4>2. span \in Nat
        BY <1>1, <4>1, Spans DEF Span1
      <4>3. h = Skipped(r, span)
        BY <2>1, <3>1, <4>1 DEF read_helper, Skipped
      <4> QED
        BY <1>3, <3>1, <4>1, <4>2, <4>3
    <3>2. CASE ~Before(r.offset_cnt, FS_BLOCK_SIZE * n, offset)
      <4>1. h = ReadTurns(r, n, offset, tbl)[n]
        BY <2>1, <3>2 DEF read_helper
      <4>2. ReadsFollow(ReadTurns(r, n, offset, tbl), r, n, offset, tbl)
        BY <1>2, ReadTurnsFollow
      <4>3. n \in 0 .. n
        BY <1>2
      <4> QED
        BY <4>1, <4>2, <4>3 DEF ReadsFollow
    <3> QED
      BY <3>1, <3>2
  <2> QED
    BY <1>1, <2>2, <2>3, Ends
<1> QED
  BY <1>4, <1>5, <1>6

\* What holds before and after a turn of the loop over indir_2.
Seconding(r, p, offset, len) ==
    /\ Reading(r, offset) /\ Got(r, p, offset, len)
    /\ r.ended <=> AtEnd(r, offset)

\* A turn passes a second-level block or reads its table.
LEMMA SecondBlockReads ==
    ASSUME ReadInv, NEW offset \in Nat, offset < size, NEW len \in Nat, len > 0,
           NEW k \in Ptrs, NEW r, Seconding(r, Base(k + 1), offset, len)
    PROVE  Seconding(ReadSecond(r, disk[indir_2].ptrs[k], offset), Base(k + 2), offset, len)
<1>1. PICK b, x, n, p, s, tbl :
         /\ b = disk[indir_2].ptrs[k] /\ x = ReadSecond(r, b, offset) /\ n = PtrsPerBlock
         /\ p = Base(k + 1) /\ s = k + 1 /\ tbl = disk[b].ptrs
  OBVIOUS
<1>2. size \in Nat /\ TypeOK /\ b \in Blocks /\ n \in Nat
  <2>1. TypeOK
    BY DEF ReadInv, FileInv
  <2> QED
    BY <1>1, <2>1, Sizes DEF TypeOK, BlockValues
<1>3. s \in Regions \ {0} /\ SlotsIn(s) = 1 .. n /\ Leads(tbl, s)
  BY <1>1, FileTables
<1>4. p = Base(s) /\ p \in Nat /\ Base(k + 2) = Base(s + 1) /\ Base(s + 1) = p + Span1
  <2>1. s + 1 = k + 2
    BY <1>1, Sizes DEF Ptrs
  <2> QED
    BY <1>1, <1>3, <2>1, Bases
<1>5. /\ Reading(r, offset) /\ Got(r, p, offset, len)
      /\ r.ended <=> AtEnd(r, offset)
      /\ r.offset_cnt \in Nat /\ r.cnt \in Nat /\ r.len \in Nat
  BY <1>1 DEF Seconding, Reading, ReadStates
<1>6. CASE r.ended
  <2>1. x = r
    BY <1>1, <1>6 DEF ReadSecond
  <2>2. r.offset_cnt = offset
    BY <1>2, <1>5, <1>6 DEF AtEnd, Got
  <2>3. Got(r, Base(s + 1), offset, len)
    BY <1>5, <1>6, <2>2 DEF Got
  <2> QED
    BY <1>1, <1>4, <1>5, <2>1, <2>3 DEF Seconding
<1>7. CASE ~r.ended /\ Before(r.offset_cnt, PtrsPerBlock * FS_BLOCK_SIZE, offset)
  <2>1. PICK span : span = PtrsPerBlock * FS_BLOCK_SIZE
    OBVIOUS
  <2>2. x = Skipped(r, span)
    BY <1>1, <1>7, <2>1 DEF ReadSecond, Skipped
  <2>3. span \in Nat /\ Before(r.offset_cnt, span, offset) /\ Base(s + 1) = p + span
    BY <1>4, <1>7, <2>1, Spans
  <2>4. /\ Reading(x, offset) /\ x.offset_cnt = r.offset_cnt + span
        /\ x.out = r.out /\ x.cnt = r.cnt /\ x.len = r.len /\ x.ended = r.ended
    BY <1>5, <2>2, <2>3, Skips
  <2>5. r.offset_cnt \in Nat /\ r.offset_cnt + span < offset /\ r.offset_cnt # offset
    BY <1>5, <2>3 DEF Before
  <2>6. r.offset_cnt = p /\ r.cnt = 0
    BY <1>5, <2>5 DEF Got
  <2>7. p + span <= offset
    BY <1>4, <2>3, <2>5, <2>6
  <2>8. Got(x, p + span, offset, len)
    BY <1>5, <2>4, <2>6, <2>7 DEF Got
  <2>9. AtEnd(x, offset) <=> AtEnd(r, offset)
    BY <2>4 DEF AtEnd
  <2> QED
    BY <1>1, <1>4, <1>5, <2>3, <2>4, <2>8, <2>9 DEF Seconding
<1>8. CASE ~r.ended /\ ~Before(r.offset_cnt, PtrsPerBlock * FS_BLOCK_SIZE, offset)
  <2>1. PICK h : h = read_helper(r, n, offset, tbl)
    OBVIOUS
  <2>2. x = Ended(h, offset)
    BY <1>1, <1>8, <2>1 DEF ReadSecond, Ended
  <2>3. Reading(h, offset) /\ Got(h, Base(s + 1), offset, len)
    BY <1>2, <1>3, <1>4, <1>5, <1>8, <2>1, TableReads
  <2>4. /\ Reading(x, offset) /\ x.offset_cnt = h.offset_cnt
        /\ x.out = h.out /\ x.cnt = h.cnt /\ x.len = h.len
        /\ AtEnd(x, offset) <=> AtEnd(h, offset)
        /\ x.ended <=> AtEnd(x, offset)
    BY <2>2, <2>3, Ends
  <2>5. Got(x, Base(s + 1), offset, len)
    BY <2>3, <2>4 DEF Got
  <2> QED
    BY <1>1, <1>4, <2>4, <2>5 DEF Seconding
<1> QED
  BY <1>6, <1>7, <1>8

\* SecondReads is the function its definition describes.
AreSecondReads(f, r, offset) ==
    f = [k \in 0 .. PtrsPerBlock |->
            IF k = 0 THEN r ELSE ReadSecond(f[k - 1], disk[indir_2].ptrs[k], offset)]

SecondReadsFollow(t, r, offset) ==
    /\ t[0] = r
    /\ \A k \in 1 .. PtrsPerBlock :
          t[k] = ReadSecond(t[k - 1], disk[indir_2].ptrs[k], offset)

LEMMA SecondReadsAre ==
    ASSUME NEW offset \in Nat, size \in Nat, TypeOK, NEW r, Reading(r, offset)
    PROVE  SecondReadsFollow(SecondReads(r, offset), r, offset)
<1> DEFINE n == PtrsPerBlock
           S == {x \in ReadStates : Reading(x, offset)}
           step == [p \in (1 .. n) \X S |->
                       ReadSecond(p[2], disk[indir_2].ptrs[p[1]], offset)]
           t == SecondReads(r, offset)
<1>0. n \in Nat /\ Ptrs = 1 .. n /\ \A k \in 1 .. n : disk[indir_2].ptrs[k] \in Blocks
  <2>1. disk[indir_2].ptrs \in [Ptrs -> Blocks]
    BY DEF TypeOK, BlockValues
  <2> QED
    BY <2>1, Sizes DEF Ptrs
<1>1. ASSUME NEW k \in 1 .. n, NEW x \in S
      PROVE  ReadSecond(x, disk[indir_2].ptrs[k], offset) \in S
  <2>1. PICK y, b : y = ReadSecond(x, b, offset) /\ b = disk[indir_2].ptrs[k]
    OBVIOUS
  <2>2. Reading(y, offset)
    BY <1>0, <2>1, SecondTypes
  <2> QED
    BY <2>1, <2>2 DEF Reading
<1>2. r \in S
  BY DEF Reading
<1>3. step \in [(1 .. n) \X S -> S]
  <2>1. \A p \in (1 .. n) \X S : ReadSecond(p[2], disk[indir_2].ptrs[p[1]], offset) \in S
    BY <1>1
  <2> QED
    BY <2>1
<1>4. \A k \in 1 .. n, x \in S :
         step[<<k, x>>] = ReadSecond(x, disk[indir_2].ptrs[k], offset)
  OBVIOUS
<1> HIDE DEF S, step
<1>5. PICK f : Follows(f, n, S, step, r)
  BY <1>0, <1>2, <1>3, Iterates
<1>6. AreSecondReads(f, r, offset)
  <2>1. f \in [0 .. n -> S] /\ f[0] = r
    BY <1>5 DEF Follows
  <2>2. ASSUME NEW k \in 0 .. n, k # 0
        PROVE  f[k] = ReadSecond(f[k - 1], disk[indir_2].ptrs[k], offset)
    <3>1. k \in 1 .. n /\ k - 1 \in 0 .. n /\ f[k - 1] \in S
      BY <1>0, <2>1, <2>2
    <3> QED
      BY <1>4, <1>5, <3>1 DEF Follows
  <2> QED
    BY <2>1, <2>2 DEF AreSecondReads
<1>7. AreSecondReads(t, r, offset)
  <2>1. \E g : AreSecondReads(g, r, offset)
    BY <1>6
  <2> QED
    BY <2>1 DEF SecondReads, AreSecondReads
<1> HIDE DEF t
<1>8. t[0] = r /\ \A k \in 1 .. n : t[k] = ReadSecond(t[k - 1], disk[indir_2].ptrs[k], offset)
  <2>1. \A k \in 0 .. n : t[k] = IF k = 0 THEN r
                                 ELSE ReadSecond(t[k - 1], disk[indir_2].ptrs[k], offset)
    BY <1>7 DEF AreSecondReads
  <2>2. 0 \in 0 .. n /\ \A k \in 1 .. n : k \in 0 .. n /\ k # 0
    BY <1>0
  <2> QED
    BY <2>1, <2>2
<1> QED
  BY <1>8 DEF t, SecondReadsFollow

\* After all turns the read has got what the second-level blocks hold of it.
LEMMA SecondsRead ==
    ASSUME ReadInv, NEW offset \in Nat, offset < size, NEW len \in Nat, len > 0,
           NEW r, Seconding(r, Base(2), offset, len)
    PROVE  Seconding(SecondReads(r, offset)[PtrsPerBlock], MaxSize, offset, len)
<1> DEFINE n == PtrsPerBlock
           t == SecondReads(r, offset)
           K == {k \in 0 .. n : Seconding(t[k], Base(k + 2), offset, len)}
<1>1. size \in Nat /\ TypeOK
  BY DEF ReadInv, FileInv, TypeOK
<1>2. n \in Nat /\ Ptrs = 1 .. n /\ Base(n + 2) = MaxSize
  BY Sizes, Bases DEF Ptrs
<1>3. /\ t[0] = r
      /\ \A k \in 1 .. n : t[k] = ReadSecond(t[k - 1], disk[indir_2].ptrs[k], offset)
  <2>1. Reading(r, offset)
    BY DEF Seconding
  <2>2. SecondReadsFollow(t, r, offset)
    BY <1>1, <2>1, SecondReadsAre
  <2> HIDE DEF t
  <2> QED
    BY <2>2 DEF SecondReadsFollow
<1> HIDE DEF t
<1>4. 0 \in K
  <2>1. 0 + 2 = 2 /\ 0 \in 0 .. n
    BY <1>2
  <2>2. Seconding(t[0], Base(0 + 2), offset, len)
    BY <1>3, <2>1
  <2> QED
    BY <2>1, <2>2
<1>5. ASSUME NEW k \in 0 .. n, k \in K, k < n PROVE k + 1 \in K
  <2>1. k + 1 \in Ptrs /\ k + 1 \in 0 .. n /\ (k + 1) - 1 = k /\ (k + 1) + 1 = k + 2
    BY <1>2, <1>5
  <2>2. PICK y, z : y = t[k] /\ z = t[k + 1]
    OBVIOUS
  <2>3. z = ReadSecond(y, disk[indir_2].ptrs[k + 1], offset)
    BY <1>2, <1>3, <2>1, <2>2
  <2>4. Seconding(y, Base((k + 1) + 1), offset, len)
    BY <1>5, <2>1, <2>2
  <2>5. Seconding(z, Base((k + 1) + 2), offset, len)
    BY <2>1, <2>3, <2>4, SecondBlockReads
  <2> QED
    BY <2>1, <2>2, <2>5
<1> HIDE DEF K
<1>6. \A k \in 0 .. n : k \in K
  BY <1>2, <1>4, <1>5, UpTo
<1>7. n \in K
  BY <1>2, <1>6
<1> QED
  BY <1>2, <1>7 DEF K, t

\* What a read has got at the end of the file or of the buffer.
LEMMA GotAll ==
    ASSUME ReadInv, NEW offset \in Nat, offset < size, NEW len \in Nat, len > 0,
           NEW r, Reading(r, offset), NEW p, Got(r, p, offset, len), AtEnd(r, offset)
    PROVE  r.out = SubSeq(contents, offset + 1, Smaller(offset + len, size))
<1>1. PICK o, c, m : o = r.out /\ c = r.cnt /\ m = Smaller(offset + len, size)
  OBVIOUS
<1>2. size \in Nat /\ contents \in Seq(Int) /\ Len(contents) = size
  BY DEF ReadInv, FileInv, TypeOK
<1>3. /\ c \in Nat /\ o \in Seq(Int) /\ Len(o) = c
      /\ \A x \in 1 .. c : o[x] = contents[offset + x]
  BY <1>1 DEF Reading, ReadStates, Got
<1>4. m = offset + c /\ offset + c <= size
  <2>1. PICK l : l = r.len
    OBVIOUS
  <2>2. l \in Nat /\ c + l = len /\ offset + c <= size /\ (offset + c >= size \/ l = 0)
    BY <1>1, <2>1 DEF Reading, ReadStates, Got, AtEnd
  <2>3. m = IF offset + len < size THEN offset + len ELSE size
    BY <1>1 DEF Smaller
  <2>4. c \in Nat
    BY <1>3
  <2> QED
    BY <1>2, <2>2, <2>3, <2>4
<1>5. o = [x \in 1 .. c |-> contents[offset + x]]
  BY <1>3
<1>6. SubSeq(contents, offset + 1, m) = [x \in 1 .. c |-> contents[offset + x]]
  <2>1. SubSeq(contents, offset + 1, m)
          = [x \in 1 .. 1 + m - (offset + 1) |-> contents[x + (offset + 1) - 1]]
    BY <1>2, <1>3, <1>4
  <2>2. 1 + m - (offset + 1) = c
    BY <1>3, <1>4
  <2>3. \A x \in 1 .. c : x + (offset + 1) - 1 = offset + x
    BY <1>3
  <2> QED
    BY <2>1, <2>2, <2>3
<1> QED
  BY <1>1, <1>5, <1>6

\* A read that starts before the end of the file.
LEMMA ReadIsRight ==
    ASSUME ReadInv, NEW offset \in Nat, offset < size, NEW len \in Nat, len > 0
    PROVE  fs_read(offset, len) = SubSeq(contents, offset + 1, Smaller(offset + len, size))
<1>1. PICK r, d, i, e, tbl :
         /\ r = [out |-> <<>>, offset_cnt |-> 0, cnt |-> 0, len |-> len,
                 over |-> FALSE, ended |-> FALSE]
         /\ d = read_helper(r, N_DIRECT, offset, direct)
         /\ tbl = disk[indir_1].ptrs
         /\ i = read_helper(d, PtrsPerBlock, offset, tbl)
         /\ e = SecondReads(i, offset)[PtrsPerBlock]
  OBVIOUS
<1>2. /\ size \in Nat /\ TypeOK
      /\ N_DIRECT \in Nat /\ PtrsPerBlock \in Nat
      /\ MaxSize \in Nat /\ size <= MaxSize
  BY Sizes DEF ReadInv, FileInv, TypeOK
<1>3. ~(offset >= size)
  BY <1>2
<1>4. fs_read(offset, len) = IF AtEnd(d, offset) THEN d.out
                             ELSE IF AtEnd(i, offset) THEN i.out ELSE e.out
  BY <1>1, <1>3 DEF fs_read
<1>5. /\ 0 \in Regions /\ 1 \in Regions \ {0}
      /\ Leads(direct, 0) /\ SlotsIn(0) = 1 .. N_DIRECT
      /\ Leads(tbl, 1) /\ SlotsIn(1) = 1 .. PtrsPerBlock
      /\ Base(0) = 0 /\ 0 + 1 = 1 /\ 1 + 1 = 2
  BY <1>1, FileTables, Bases
<1>6. /\ r.out = <<>> /\ r.offset_cnt = 0 /\ r.cnt = 0 /\ r.len = len
      /\ r.over = FALSE /\ r.ended = FALSE
  BY <1>1
<1>7. Reading(r, offset) /\ Got(r, Base(0), offset, len) /\ ~AtEnd(r, offset)
  <2>1. r \in ReadStates
    BY <1>1 DEF ReadStates
  <2>2. Reading(r, offset)
    BY <1>6, <2>1 DEF Reading
  <2>3. ~AtEnd(r, offset)
    BY <1>2, <1>6 DEF AtEnd
  <2>4. Got(r, Base(0), offset, len)
    BY <1>2, <1>5, <1>6 DEF Got
  <2> QED
    BY <2>2, <2>3, <2>4
<1>8. Reading(d, offset) /\ Got(d, Base(1), offset, len) /\ d.ended = FALSE
  <2>1. PICK a, n, t : a = 0 /\ n = N_DIRECT /\ t = direct
    OBVIOUS
  <2>2. /\ a \in Regions /\ Leads(t, a) /\ SlotsIn(a) = 1 .. n /\ n \in Nat
        /\ d = read_helper(r, n, offset, t) /\ Got(r, Base(a), offset, len)
    BY <1>1, <1>2, <1>5, <1>7, <2>1
  <2>3. Reading(d, offset) /\ Got(d, Base(a + 1), offset, len) /\ d.ended = r.ended
    BY <1>2, <1>7, <2>2, TableReads
  <2> QED
    BY <1>5, <1>6, <2>1, <2>3
<1>9. CASE AtEnd(d, offset)
  BY <1>4, <1>8, <1>9, GotAll
<1>10. CASE ~AtEnd(d, offset)
  <2>1. Reading(i, offset) /\ Got(i, Base(2), offset, len) /\ i.ended = FALSE
    <3>1. Reading(i, offset) /\ Got(i, Base(1 + 1), offset, len) /\ i.ended = d.ended
      BY <1>1, <1>2, <1>5, <1>8, <1>10, TableReads
    <3> QED
      BY <1>5, <1>8, <3>1
  <2>2. CASE AtEnd(i, offset)
    BY <1>4, <1>10, <2>1, <2>2, GotAll
  <2>3. CASE ~AtEnd(i, offset)
    <3>1. Seconding(i, Base(2), offset, len)
      BY <2>1, <2>3 DEF Seconding
    <3>2. Seconding(e, MaxSize, offset, len)
      BY <1>1, <3>1, SecondsRead
    <3>3. Reading(e, offset) /\ Got(e, MaxSize, offset, len)
      BY <3>2 DEF Seconding
    <3>4. AtEnd(e, offset)
      <4>1. e.cnt \in Nat
        BY <3>3 DEF Reading, ReadStates
      <4>2. \/ MaxSize <= offset
            \/ offset + e.cnt = MaxSize
            \/ AtEnd(e, offset)
        BY <3>3 DEF Got
      <4> QED
        BY <1>2, <4>1, <4>2 DEF AtEnd
    <3> QED
      BY <1>4, <1>10, <2>3, <3>3, <3>4, GotAll
  <2> QED
    BY <2>2, <2>3
<1> QED
  BY <1>9, <1>10

LEMMA InvariantReads == ReadInv => ReadsBack
<1> SUFFICES ASSUME ReadInv, NEW offset \in 0 .. size, NEW len \in 1 .. size - offset + 1
             PROVE  fs_read(offset, len)
                       = SubSeq(contents, offset + 1, Smaller(offset + len, size))
  BY DEF ReadsBack
<1>1. /\ size \in Nat /\ contents \in Seq(Int) /\ Len(contents) = size
      /\ offset \in Nat /\ len \in Nat /\ len > 0
  BY DEF ReadInv, FileInv, TypeOK
<1>2. CASE offset < size
  BY <1>1, <1>2, ReadIsRight
<1>3. CASE offset = size
  <2>1. fs_read(offset, len) = <<>>
    BY <1>1, <1>3 DEF fs_read
  <2>2. Smaller(offset + len, size) = size
    BY <1>1, <1>3 DEF Smaller
  <2>3. SubSeq(contents, offset + 1, size) = <<>>
    BY <1>1, <1>3
  <2> QED
    BY <2>1, <2>2, <2>3
<1> QED
  BY <1>1, <1>2, <1>3

\* A read of any part of a file returns the bytes last written there and stops
\* at the end of the file, whatever writes, overwrites, truncates and writes
\* that ran out of blocks went before (fs_write, fs_read, fs_truncate).
THEOREM ReadsReturnWrites == Spec => []ReadsBack
<1> QED
  BY ReadInvariant, InvariantReads, PTL
=============================================================================
