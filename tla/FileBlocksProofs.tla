--------------------------- MODULE FileBlocksProofs ---------------------------
(***************************************************************************)
(* Proofs about FileBlocks, for every size of blocks, tables and disk:     *)
(* writes, also those that run out of blocks half way, and truncates keep  *)
(* the pointers of a file apart.                                           *)
(***************************************************************************)
EXTENDS FileBlocks, Loops, FiniteSetTheorems

\* The inode as the holder of pointers: direct[], indir_1 and indir_2.
Inode == -1
Holders == Blocks \cup {Inode}
Places == Holders \X Nat

\* q leads from each place to a block of the file, and no two to the same.
Apart(q, map) ==
    /\ q \in [Places -> Blocks]
    /\ \A p \in Places : q[p] # 0 => q[p] \in map \ (Metadata \cup other)
    /\ \A p, r \in Places : q[p] = q[r] /\ q[p] # 0 => p = r

\* The pointers of the inode and on disk are null or lead where q does.
Under(q, w) ==
    /\ \A k \in 1 .. N_DIRECT : w.direct[k] \in {0, q[<<Inode, k>>]}
    /\ w.indir_1 \in {0, q[<<Inode, N_DIRECT + 1>>]}
    /\ w.indir_2 \in {0, q[<<Inode, N_DIRECT + 2>>]}
    /\ \A b \in Blocks, k \in Ptrs : w.disk[b].ptrs[k] \in {0, q[<<b, k>>]}

Stored(w, h) == IF h = Inode THEN w.direct ELSE w.disk[h].ptrs

\* tbl was read from h and may have got pointers that are not stored yet.
Copied(q, w, tbl, h) ==
    \A k \in DOMAIN tbl : /\ tbl[k] \in {0, q[<<h, k>>]}
                          /\ tbl[k] = 0 => Stored(w, h)[k] = 0

Now == [disk |-> disk, direct |-> direct, indir_1 |-> indir_1, indir_2 |-> indir_2]

\* The inductive invariant.
FileInv ==
    /\ TypeOK
    /\ FreeBlocksAreZero
    /\ Metadata \cup other \subseteq block_map
    /\ Metadata \cap other = {}
    /\ \E q : Apart(q, block_map) /\ Under(q, Now)

-----------------------------------------------------------------------------
(* What a write has done so far. *)

WriteStates ==
    [map : SUBSET Blocks, disk : [Blocks -> BlockValues],
     direct : [1 .. N_DIRECT -> Blocks], indir_1 : Blocks, indir_2 : Blocks,
     tbl : {<<>>} \cup [1 .. N_DIRECT -> Blocks] \cup [Ptrs -> Blocks],
     tbl2 : {<<>>} \cup [Ptrs -> Blocks],
     offset_cnt : Nat, cnt : Nat, len : Nat, full : BOOLEAN]

\* Free blocks are zero, and the running sums add up.
Going(w, offset, len) ==
    /\ w \in WriteStates
    /\ \A b \in Blocks \ w.map : w.disk[b] = ZeroBlock
    /\ Metadata \cup other \subseteq w.map
    /\ w.offset_cnt <= offset
    /\ w.cnt + w.len = len

Tracked(q, w) ==
    /\ Apart(q, w.map)
    /\ Under(q, w)
    /\ Copied(q, w, w.tbl2, w.indir_2)

\* The table at hand, tbl, is that of h.
SlotsOf(h) == IF h = Inode THEN 1 .. N_DIRECT ELSE Ptrs

Working(w, h) ==
    /\ h \in w.map \cup {Inode} /\ h # w.indir_2
    /\ w.tbl \in [SlotsOf(h) -> Blocks]
    /\ \E q : Tracked(q, w) /\ Copied(q, w, w.tbl, h)

\* The same between two tables.
Between(w) == \E q : Tracked(q, w)

\* What write_helper leaves alone.
SameTables(w, x) ==
    /\ x.direct = w.direct /\ x.indir_1 = w.indir_1 /\ x.indir_2 = w.indir_2
    /\ x.tbl2 = w.tbl2
    /\ \A b \in Blocks : x.disk[b].ptrs = w.disk[b].ptrs

LEMMA Sizes ==
    /\ N_DIRECT \in Nat /\ N_DIRECT > 0
    /\ PtrsPerBlock \in Nat /\ PtrsPerBlock > 0
    /\ FS_BLOCK_SIZE \in Nat /\ FS_BLOCK_SIZE > 0
    /\ DataStart \in Nat /\ num_blocks \in Nat /\ num_blocks > DataStart
    /\ MaxSize \in Nat
    /\ Blocks \subseteq Nat /\ Metadata \subseteq Blocks /\ 0 \in Metadata
    /\ Inode \notin Blocks
<1>1. PtrsPerBlock * PtrsPerBlock \in Nat
  BY SizesAssumption
<1>2. MaxSize \in Nat
  BY <1>1, SizesAssumption DEF MaxSize
<1> QED
  BY <1>2, SizesAssumption DEF Blocks, Metadata, Inode

\* get_next_block finds a free block if there is one.
LEMMA NextBlockIsFree ==
    ASSUME NEW map, Free(map) # {}
    PROVE  get_next_block(map) \in Blocks \ map
<1>1. Free(map) \in SUBSET Nat
  BY Sizes DEF Free
<1>2. \E b \in Free(map) : \A c \in Free(map) : b <= c
  BY <1>1, Minimum
<1> QED
  BY <1>2 DEF get_next_block, Free

\* A place may lead to a block that was free.
LEMMA NewPlace ==
    ASSUME NEW map \in SUBSET Blocks, Metadata \cup other \subseteq map,
           NEW q, Apart(q, map), NEW p \in Places, NEW b \in Blocks \ map
    PROVE  Apart([q EXCEPT ![p] = b], map \cup {b}) /\ b # 0
<1> DEFINE r == [q EXCEPT ![p] = b]
<1>1. r \in [Places -> Blocks] /\ r[p] = b /\ \A s \in Places : s # p => r[s] = q[s]
  BY DEF Apart
<1>2. b # 0 /\ b \notin Metadata \cup other
  BY Sizes
<1>3. \A s \in Places : q[s] # b
  BY <1>2 DEF Apart
<1> HIDE DEF r
<1>4. \A s \in Places : r[s] # 0 => r[s] \in (map \cup {b}) \ (Metadata \cup other)
  BY <1>1, <1>2 DEF Apart
<1>5. \A s, t \in Places : r[s] = r[t] /\ r[s] # 0 => s = t
  BY <1>1, <1>3 DEF Apart
<1> QED
  BY <1>1, <1>2, <1>4, <1>5 DEF Apart, r

-----------------------------------------------------------------------------
(* One turn of write_helper. *)

\* What a caller puts at any position of a file is a byte.
LEMMA ByteFits ==
    ASSUME NEW y \in Nat, NEW appends \in BOOLEAN
    PROVE  Byte(y, appends) \in Int
BY Sizes DEF Byte

\* PutBytes changes the bytes of one block and counts them.
LEMMA PutsBytes ==
    ASSUME NEW w \in WriteStates, NEW b \in Blocks, NEW offset \in Nat,
           NEW appends \in BOOLEAN,
           w.offset_cnt <= offset, offset <= w.offset_cnt + FS_BLOCK_SIZE
    PROVE  LET x == PutBytes(w, b, offset, appends)
           IN /\ x \in WriteStates
              /\ x.map = w.map /\ x.direct = w.direct /\ x.indir_1 = w.indir_1
              /\ x.indir_2 = w.indir_2 /\ x.tbl = w.tbl /\ x.tbl2 = w.tbl2
              /\ x.full = w.full
              /\ x.offset_cnt = offset
              /\ x.cnt + x.len = w.cnt + w.len /\ x.cnt >= w.cnt
              /\ x.cnt <= w.cnt + FS_BLOCK_SIZE - (offset - w.offset_cnt)
              /\ \A c \in Blocks : /\ c # b => x.disk[c] = w.disk[c]
                                   /\ x.disk[c].ptrs = w.disk[c].ptrs
<1> DEFINE start == offset - w.offset_cnt
           n == Smaller(w.len, FS_BLOCK_SIZE - start)
           bytes == [j \in Bytes |-> IF j \in start + 1 .. start + n
                                     THEN Byte(offset + w.cnt + (j - start) - 1, appends)
                                     ELSE w.disk[b].bytes[j]]
           x == PutBytes(w, b, offset, appends)
           dsk == [w.disk EXCEPT ![b].bytes = bytes]
<1>1. /\ w.offset_cnt \in Nat /\ w.cnt \in Nat /\ w.len \in Nat
      /\ w.disk \in [Blocks -> BlockValues]
  BY DEF WriteStates
<1>2. start \in 0 .. FS_BLOCK_SIZE /\ n \in 0 .. FS_BLOCK_SIZE - start /\ n <= w.len
  BY <1>1, Sizes DEF Smaller
<1>3. bytes \in [Bytes -> Int]
  <2>1. ASSUME NEW j \in Bytes, j \in start + 1 .. start + n
        PROVE  Byte(offset + w.cnt + (j - start) - 1, appends) \in Int
    <3>1. j - start \in 1 .. w.len /\ offset + w.cnt + (j - start) \in Nat \ {0}
      BY <1>1, <1>2, <2>1, Sizes DEF Bytes
    <3>2. offset + w.cnt + (j - start) - 1 \in Nat
      BY <1>1, <1>2, <3>1, Sizes DEF Bytes
    <3> QED
      BY <3>2, ByteFits
  <2>2. w.disk[b].bytes \in [Bytes -> Int]
    BY <1>1 DEF BlockValues
  <2> QED
    BY <2>1, <2>2
<1> HIDE DEF bytes, n, start
<1>4. /\ dsk \in [Blocks -> BlockValues]
      /\ \A c \in Blocks : /\ c # b => dsk[c] = w.disk[c]
                           /\ dsk[c].ptrs = w.disk[c].ptrs
  BY <1>1, <1>3 DEF BlockValues
<1>5. x = [w EXCEPT !.disk = dsk, !.offset_cnt = offset, !.cnt = @ + n, !.len = @ - n]
  BY DEF PutBytes, bytes, n, start, WriteStates
<1> HIDE DEF x, dsk
<1>6. /\ x.map = w.map /\ x.direct = w.direct /\ x.indir_1 = w.indir_1
      /\ x.indir_2 = w.indir_2 /\ x.tbl = w.tbl /\ x.tbl2 = w.tbl2
      /\ x.full = w.full /\ x.offset_cnt = offset /\ x.disk = dsk
      /\ x.cnt = w.cnt + n /\ x.len = w.len - n
  BY <1>5 DEF WriteStates
<1>7. x \in WriteStates
  <2>1. w.cnt + n \in Nat /\ w.len - n \in Nat
    BY <1>1, <1>2
  <2> QED
    BY <1>4, <1>5, <2>1 DEF WriteStates
<1>8. /\ x.cnt + x.len = w.cnt + w.len /\ x.cnt >= w.cnt
      /\ x.cnt <= w.cnt + FS_BLOCK_SIZE - start
  BY <1>1, <1>2, <1>6, Sizes
<1> QED
  BY <1>4, <1>6, <1>7, <1>8 DEF x, start

\* What only depends on the pointers.
LEMMA PointersOnly ==
    ASSUME NEW w, NEW x, SameTables(w, x), x.tbl = w.tbl, x.map = w.map,
           NEW h \in Holders, w.tbl \in [SlotsOf(h) -> Blocks],
           w.tbl2 \in {<<>>} \cup [Ptrs -> Blocks], w.indir_2 \in Blocks, NEW q
    PROVE  /\ Tracked(q, w) => Tracked(q, x)
           /\ Copied(q, w, w.tbl, h) => Copied(q, x, x.tbl, h)
<1>1. ASSUME NEW g \in Holders PROVE Stored(x, g) = Stored(w, g)
  BY DEF Stored, SameTables, Holders
<1>2. Copied(q, w, w.tbl, h) => Copied(q, x, x.tbl, h)
  BY <1>1 DEF Copied
<1>3. Under(q, w) => Under(q, x)
  BY DEF Under, SameTables
<1>4. w.indir_2 \in Holders
  BY DEF Holders
<1>5. Copied(q, w, w.tbl2, w.indir_2) => Copied(q, x, x.tbl2, x.indir_2)
  BY <1>1, <1>4 DEF Copied, SameTables
<1> QED
  BY <1>2, <1>3, <1>5 DEF Tracked

\* A null pointer stays under q when its place gets a block.
LEMMA UnderNew ==
    ASSUME NEW w, NEW q \in [Places -> Blocks], Under(q, w),
           NEW g \in Holders, NEW k \in Nat, NEW b,
           g = Inode /\ k \in 1 .. N_DIRECT => w.direct[k] = 0,
           g = Inode /\ k = N_DIRECT + 1 => w.indir_1 = 0,
           g = Inode /\ k = N_DIRECT + 2 => w.indir_2 = 0,
           g \in Blocks /\ k \in Ptrs => w.disk[g].ptrs[k] = 0
    PROVE  Under([q EXCEPT ![<<g, k>>] = b], w)
<1> DEFINE r == [q EXCEPT ![<<g, k>>] = b]
<1>1. \A p \in Places : p # <<g, k>> => r[p] = q[p]
  OBVIOUS
<1> HIDE DEF r
<1>2. ASSUME NEW j \in 1 .. N_DIRECT PROVE w.direct[j] \in {0, r[<<Inode, j>>]}
  <2>1. <<Inode, j>> \in Places /\ w.direct[j] \in {0, q[<<Inode, j>>]}
    BY Sizes DEF Places, Holders, Under
  <2> QED
    BY <1>1, <2>1
<1>3. ASSUME NEW c \in Blocks, NEW j \in Ptrs PROVE w.disk[c].ptrs[j] \in {0, r[<<c, j>>]}
  <2>1. <<c, j>> \in Places /\ w.disk[c].ptrs[j] \in {0, q[<<c, j>>]}
    BY Sizes DEF Places, Holders, Under, Ptrs
  <2> QED
    BY <1>1, <2>1
<1>4. w.indir_1 \in {0, r[<<Inode, N_DIRECT + 1>>]}
      /\ w.indir_2 \in {0, r[<<Inode, N_DIRECT + 2>>]}
  <2>1. <<Inode, N_DIRECT + 1>> \in Places /\ <<Inode, N_DIRECT + 2>> \in Places
    BY Sizes DEF Places, Holders
  <2> QED
    BY <1>1, <2>1 DEF Under
<1> QED
  BY <1>2, <1>3, <1>4 DEF Under, r

Took(w, k, b) == [w EXCEPT !.map = @ \cup {b}, !.tbl[k] = b]

\* A null pointer of the table at hand is given a free block.
LEMMA TakesBlock ==
    ASSUME NEW offset, NEW len, NEW h, NEW w,
           Going(w, offset, len), Working(w, h),
           NEW k \in SlotsOf(h), w.tbl[k] = 0, NEW b \in Blocks \ w.map
    PROVE  LET x == Took(w, k, b)
           IN /\ Going(x, offset, len) /\ Working(x, h) /\ SameTables(w, x)
              /\ x.offset_cnt = w.offset_cnt /\ x.cnt = w.cnt /\ x.len = w.len
              /\ x.full = w.full /\ x.map = w.map \cup {b}
              /\ x.tbl[k] = b
<1> DEFINE x == Took(w, k, b)
<1>1. /\ w \in WriteStates /\ w.tbl \in [SlotsOf(h) -> Blocks]
      /\ h \in Holders /\ h \in w.map \cup {Inode} /\ h # w.indir_2
  BY DEF Going, Working, WriteStates, Holders
<1>2. /\ x.map = w.map \cup {b} /\ x.tbl = [w.tbl EXCEPT ![k] = b]
      /\ x.disk = w.disk /\ x.direct = w.direct /\ x.indir_1 = w.indir_1
      /\ x.indir_2 = w.indir_2 /\ x.tbl2 = w.tbl2 /\ x.offset_cnt = w.offset_cnt
      /\ x.cnt = w.cnt /\ x.len = w.len /\ x.full = w.full
  BY <1>1 DEF WriteStates, Took
<1>3. /\ x.tbl \in [SlotsOf(h) -> Blocks] /\ x.tbl[k] = b
      /\ \A j \in SlotsOf(h) : j # k => x.tbl[j] = w.tbl[j]
  BY <1>1, <1>2
<1>4. x \in WriteStates
  BY <1>1, <1>3 DEF WriteStates, SlotsOf, Took
<1> HIDE DEF x
<1>5. Going(x, offset, len)
  BY <1>2, <1>4 DEF Going
<1>6. PICK q : Tracked(q, w) /\ Copied(q, w, w.tbl, h)
  BY DEF Working
<1> DEFINE r == [q EXCEPT ![<<h, k>>] = b]
<1>7. <<h, k>> \in Places /\ q \in [Places -> Blocks]
  BY <1>1, <1>6, Sizes DEF Places, SlotsOf, Ptrs, Tracked, Apart
<1>8. Apart(r, x.map) /\ b # 0
  <2>1. w.map \in SUBSET Blocks /\ Metadata \cup other \subseteq w.map
    BY DEF Going, WriteStates
  <2>2. Apart(q, w.map)
    BY <1>6 DEF Tracked
  <2>3. Apart([q EXCEPT ![<<h, k>>] = b], w.map \cup {b}) /\ b # 0
    BY <1>7, <2>1, <2>2, NewPlace
  <2> QED
    BY <1>2, <2>3
<1>9. r[<<h, k>>] = b /\ \A p \in Places : p # <<h, k>> => r[p] = q[p]
  BY <1>7
<1> HIDE DEF r
<1>10. Stored(w, h)[k] = 0
  BY <1>1, <1>6 DEF Copied
<1>11. Under(r, x)
  <2>1. /\ h \in Holders /\ k \in Nat
        /\ h = Inode => k \in 1 .. N_DIRECT
        /\ h = Inode => w.direct[k] = 0
        /\ h \in Blocks => w.disk[h].ptrs[k] = 0
    BY <1>1, <1>10, Sizes DEF SlotsOf, Ptrs, Stored
  <2>2. Under(q, w) /\ q \in [Places -> Blocks]
    BY <1>6, <1>7 DEF Tracked
  <2>4. /\ h = Inode /\ k = N_DIRECT + 1 => w.indir_1 = 0
        /\ h = Inode /\ k = N_DIRECT + 2 => w.indir_2 = 0
    BY <2>1, Sizes
  <2>5. Under([q EXCEPT ![<<h, k>>] = b], w)
    BY <2>1, <2>2, <2>4, UnderNew
  <2> QED
    BY <1>2, <2>5 DEF Under, r
<1>12. \A g \in Holders : Stored(x, g) = Stored(w, g)
  BY <1>2 DEF Stored
<1>13. Copied(r, x, x.tbl2, x.indir_2)
  <2>1. x.indir_2 \in Holders /\ DOMAIN x.tbl2 \subseteq Nat /\ x.indir_2 # h
    BY <1>1, <1>2, Sizes DEF WriteStates, Holders, Ptrs
  <2>2. ASSUME NEW j \in DOMAIN x.tbl2 PROVE r[<<x.indir_2, j>>] = q[<<x.indir_2, j>>]
    BY <1>9, <2>1 DEF Places
  <2> QED
    BY <1>2, <1>6, <1>12, <2>1, <2>2 DEF Copied, Tracked
<1>14. Copied(r, x, x.tbl, h)
  <2>1. ASSUME NEW j \in SlotsOf(h), j # k PROVE r[<<h, j>>] = q[<<h, j>>]
    BY <1>1, <1>9, <2>1, Sizes DEF Places, SlotsOf, Ptrs
  <2> QED
    BY <1>1, <1>3, <1>6, <1>8, <1>9, <1>12, <2>1 DEF Copied
<1>15. Working(x, h)
  BY <1>1, <1>2, <1>3, <1>8, <1>11, <1>13, <1>14 DEF Working, Tracked
<1>16. SameTables(w, x)
  BY <1>2 DEF SameTables
<1> QED
  BY <1>2, <1>3, <1>5, <1>15, <1>16 DEF x

\* What only moves the running sums.
LEMMA CountersOnly ==
    ASSUME NEW offset, NEW len, NEW w, Going(w, offset, len),
           NEW x \in WriteStates,
           x.map = w.map, x.disk = w.disk, x.direct = w.direct, x.indir_1 = w.indir_1,
           x.indir_2 = w.indir_2, x.tbl2 = w.tbl2,
           x.offset_cnt <= offset, x.cnt + x.len = len
    PROVE  /\ Going(x, offset, len) /\ SameTables(w, x)
           /\ Between(w) => Between(x)
           /\ \A h : x.tbl = w.tbl /\ Working(w, h) => Working(x, h)
<1>1. Going(x, offset, len) /\ SameTables(w, x)
  BY DEF Going, SameTables
<1>2. \A g : Stored(x, g) = Stored(w, g)
  BY DEF Stored
<1>3. \A q, tbl, h : Copied(q, w, tbl, h) <=> Copied(q, x, tbl, h)
  BY <1>2 DEF Copied
<1>4. \A q : Tracked(q, w) => Tracked(q, x)
  BY <1>3 DEF Tracked, Under
<1>5. ASSUME NEW h, x.tbl = w.tbl, Working(w, h) PROVE Working(x, h)
  BY <1>3, <1>4, <1>5 DEF Working
<1> QED
  BY <1>1, <1>4, <1>5 DEF Between

\* The walk passes what lies before offset.
Passed(w, span) == [w EXCEPT !.offset_cnt = @ + span]

LEMMA Passes ==
    ASSUME NEW offset \in Nat, NEW len, NEW w, Going(w, offset, len),
           NEW span \in Nat, Before(w.offset_cnt, span, offset)
    PROVE  LET x == Passed(w, span)
           IN /\ Going(x, offset, len) /\ SameTables(w, x)
              /\ Between(w) => Between(x)
              /\ \A h : Working(w, h) => Working(x, h)
              /\ x.map = w.map /\ x.cnt = w.cnt /\ x.len = w.len /\ x.full = w.full
              /\ x.offset_cnt = w.offset_cnt + span
<1> DEFINE x == Passed(w, span)
<1>1. w \in WriteStates /\ w.cnt + w.len = len
  BY DEF Going
<1>2. w.offset_cnt + span \in Nat /\ w.offset_cnt + span <= offset
  BY <1>1 DEF Before, WriteStates
<1>3. x \in WriteStates
  BY <1>1, <1>2 DEF WriteStates, Passed
<1>4. /\ x.map = w.map /\ x.disk = w.disk /\ x.direct = w.direct
      /\ x.indir_1 = w.indir_1 /\ x.indir_2 = w.indir_2 /\ x.tbl = w.tbl
      /\ x.tbl2 = w.tbl2 /\ x.cnt = w.cnt /\ x.len = w.len /\ x.full = w.full
      /\ x.offset_cnt = w.offset_cnt + span
  BY <1>1 DEF WriteStates, Passed
<1> HIDE DEF x
<1>5. x.offset_cnt <= offset /\ x.cnt + x.len = len
  BY <1>1, <1>2, <1>4
<1>6. /\ Going(x, offset, len) /\ SameTables(w, x)
      /\ Between(w) => Between(x)
      /\ \A h : x.tbl = w.tbl /\ Working(w, h) => Working(x, h)
  BY <1>3, <1>4, <1>5, CountersOnly
<1> QED
  BY <1>4, <1>6 DEF x

\* No block is free.
RanOut(w) == [w EXCEPT !.full = TRUE]

LEMMA RunsOut ==
    ASSUME NEW offset, NEW len, NEW w, Going(w, offset, len)
    PROVE  LET x == RanOut(w)
           IN /\ Going(x, offset, len) /\ SameTables(w, x)
              /\ Between(w) => Between(x)
              /\ \A h : Working(w, h) => Working(x, h)
              /\ x.full /\ x.map = w.map
<1> DEFINE x == RanOut(w)
<1>1. w \in WriteStates /\ w.cnt + w.len = len /\ w.offset_cnt <= offset
  BY DEF Going
<1>2. x \in WriteStates
  BY <1>1 DEF WriteStates, RanOut
<1>3. /\ x.map = w.map /\ x.disk = w.disk /\ x.direct = w.direct
      /\ x.indir_1 = w.indir_1 /\ x.indir_2 = w.indir_2 /\ x.tbl = w.tbl
      /\ x.tbl2 = w.tbl2 /\ x.cnt = w.cnt /\ x.len = w.len
      /\ x.offset_cnt = w.offset_cnt /\ x.full
  BY <1>1 DEF WriteStates, RanOut
<1> HIDE DEF x
<1>4. /\ Going(x, offset, len) /\ SameTables(w, x)
      /\ Between(w) => Between(x)
      /\ \A h : x.tbl = w.tbl /\ Working(w, h) => Working(x, h)
  BY <1>1, <1>2, <1>3, CountersOnly
<1> QED
  BY <1>3, <1>4 DEF x

\* What of the bytes a step of span bytes of the walk does.
Advanced(w, x, offset, span) ==
    /\ w.full => x.full
    /\ \/ x.full
       \/ w.len = 0 /\ x = w
       \/ /\ Before(w.offset_cnt, span, offset)
          /\ x.offset_cnt = w.offset_cnt + span /\ x.cnt = w.cnt
       \/ x.offset_cnt = offset /\ x.cnt <= w.cnt + span - (offset - w.offset_cnt)

\* The block a turn writes to is marked by then.
LEMMA FillsBlock ==
    ASSUME NEW offset \in Nat, NEW len, NEW appends \in BOOLEAN,
           NEW h, NEW w, Going(w, offset, len), Working(w, h),
           offset <= w.offset_cnt + FS_BLOCK_SIZE,
           NEW b \in w.map
    PROVE  LET x == PutBytes(w, b, offset, appends)
           IN /\ Going(x, offset, len) /\ Working(x, h) /\ SameTables(w, x)
              /\ Advanced(w, x, offset, FS_BLOCK_SIZE)
<1> DEFINE x == PutBytes(w, b, offset, appends)
<1>1. /\ w \in WriteStates /\ w.offset_cnt <= offset /\ w.cnt + w.len = len
      /\ b \in Blocks
  <2>1. w.cnt \in Nat /\ w.len \in Nat /\ w.cnt + w.len = len /\ w \in WriteStates
    BY DEF Going, WriteStates
  <2> QED
    BY <2>1, Sizes DEF Going, WriteStates
<1>2. /\ x \in WriteStates
      /\ x.map = w.map /\ x.direct = w.direct /\ x.indir_1 = w.indir_1
      /\ x.indir_2 = w.indir_2 /\ x.tbl = w.tbl /\ x.tbl2 = w.tbl2
      /\ x.full = w.full /\ x.offset_cnt = offset
      /\ x.cnt + x.len = w.cnt + w.len
      /\ x.cnt <= w.cnt + FS_BLOCK_SIZE - (offset - w.offset_cnt)
      /\ \A c \in Blocks : /\ c # b => x.disk[c] = w.disk[c]
                           /\ x.disk[c].ptrs = w.disk[c].ptrs
  BY <1>1, PutsBytes
<1> HIDE DEF x
<1>3. SameTables(w, x)
  BY <1>2 DEF SameTables
<1>4. Going(x, offset, len)
  BY <1>1, <1>2 DEF Going
<1>5. /\ h \in Holders /\ h \in w.map \cup {Inode}
      /\ h # w.indir_2 /\ w.tbl \in [SlotsOf(h) -> Blocks]
      /\ w.tbl2 \in {<<>>} \cup [Ptrs -> Blocks] /\ w.indir_2 \in Blocks
  BY <1>1 DEF Working, WriteStates, Holders
<1>6. PICK q : Tracked(q, w) /\ Copied(q, w, w.tbl, h)
  BY DEF Working
<1>7. Tracked(q, x) /\ Copied(q, x, x.tbl, h)
  BY <1>2, <1>3, <1>5, <1>6, PointersOnly
<1>8. Working(x, h)
  BY <1>2, <1>5, <1>7 DEF Working
<1>9. Advanced(w, x, offset, FS_BLOCK_SIZE)
  BY <1>2 DEF Advanced
<1> QED
  BY <1>3, <1>4, <1>8, <1>9 DEF x

\* A turn keeps pointers apart, whichever way it ends.
LEMMA TurnKeeps ==
    ASSUME NEW offset \in Nat, NEW len, NEW appends \in BOOLEAN,
           NEW h, NEW w, Going(w, offset, len), Working(w, h),
           NEW k \in SlotsOf(h)
    PROVE  LET x == WriteBlock(w, k, offset, appends)
           IN /\ Going(x, offset, len) /\ Working(x, h) /\ SameTables(w, x)
              /\ Advanced(w, x, offset, FS_BLOCK_SIZE)
<1> DEFINE x == WriteBlock(w, k, offset, appends)
           a == Allocated(w, w.tbl[k])
<1>1. w \in WriteStates /\ h \in Holders /\ w.tbl \in [SlotsOf(h) -> Blocks]
  BY DEF Going, Working, WriteStates, Holders
<1>2. w.offset_cnt \in Nat /\ w.offset_cnt <= offset
  BY DEF Going, WriteStates
<1>q. PICK q : Tracked(q, w) /\ Copied(q, w, w.tbl, h)
  BY DEF Working
<1>3. CASE w.full \/ w.len = 0
  BY <1>3 DEF WriteBlock, SameTables, Advanced
<1>4. CASE ~(w.full \/ w.len = 0) /\ Before(w.offset_cnt, FS_BLOCK_SIZE, offset)
  <2>1. x = Passed(w, FS_BLOCK_SIZE)
    BY <1>4 DEF WriteBlock, Passed
  <2> HIDE DEF x
  <2>2. /\ Going(Passed(w, FS_BLOCK_SIZE), offset, len)
        /\ SameTables(w, Passed(w, FS_BLOCK_SIZE))
        /\ Working(Passed(w, FS_BLOCK_SIZE), h)
        /\ Passed(w, FS_BLOCK_SIZE).offset_cnt = w.offset_cnt + FS_BLOCK_SIZE
        /\ Passed(w, FS_BLOCK_SIZE).cnt = w.cnt
        /\ Passed(w, FS_BLOCK_SIZE).full = w.full
    BY <1>4, Passes, Sizes
  <2>3. Advanced(w, x, offset, FS_BLOCK_SIZE)
    BY <1>4, <2>1, <2>2 DEF Advanced
  <2> QED
    BY <2>1, <2>2, <2>3 DEF x
<1>5. CASE ~(w.full \/ w.len = 0) /\ ~Before(w.offset_cnt, FS_BLOCK_SIZE, offset)
  <2>1. offset <= w.offset_cnt + FS_BLOCK_SIZE
    BY <1>2, <1>5, Sizes DEF Before
  <2>2. x = IF a.w.full THEN a.w
            ELSE PutBytes([a.w EXCEPT !.tbl[k] = a.ptr], a.ptr, offset, appends)
    BY <1>5 DEF WriteBlock
  <2>3. CASE w.tbl[k] # 0
    <3>1. a.w = w /\ a.ptr = w.tbl[k]
      BY <2>3 DEF Allocated
    <3>2. [w EXCEPT !.tbl[k] = w.tbl[k]] = w
      BY <1>1 DEF WriteStates
    <3>3. x = PutBytes(w, w.tbl[k], offset, appends)
      BY <1>5, <2>2, <3>1, <3>2
    <3>4. w.tbl[k] \in w.map
      <4>1. <<h, k>> \in Places /\ w.tbl[k] = q[<<h, k>>] /\ Apart(q, w.map)
        BY <1>1, <1>q, <2>3, Sizes DEF Copied, Places, SlotsOf, Ptrs, Tracked
      <4> QED
        BY <2>3, <4>1 DEF Apart
    <3> HIDE DEF x
    <3>5. Going(PutBytes(w, w.tbl[k], offset, appends), offset, len)
          /\ Working(PutBytes(w, w.tbl[k], offset, appends), h)
          /\ SameTables(w, PutBytes(w, w.tbl[k], offset, appends))
          /\ Advanced(w, PutBytes(w, w.tbl[k], offset, appends), offset, FS_BLOCK_SIZE)
      BY <2>1, <3>4, FillsBlock
    <3> QED
      BY <3>3, <3>5 DEF x
  <2>4. CASE w.tbl[k] = 0 /\ Free(w.map) = {}
    <3>1. a.w = RanOut(w)
      BY <2>4 DEF Allocated, RanOut
    <3>2. RanOut(w).full /\ Going(RanOut(w), offset, len) /\ SameTables(w, RanOut(w))
          /\ Working(RanOut(w), h)
      BY RunsOut
    <3>3. x = RanOut(w)
      BY <2>2, <3>1, <3>2
    <3> HIDE DEF x
    <3>4. Advanced(w, x, offset, FS_BLOCK_SIZE)
      BY <3>2, <3>3 DEF Advanced
    <3> QED
      BY <3>2, <3>3, <3>4 DEF x
  <2>5. CASE w.tbl[k] = 0 /\ Free(w.map) # {}
    <3> DEFINE b == get_next_block(w.map)
               v == Took(w, k, b)
    <3>1. a.w = [w EXCEPT !.map = @ \cup {b}] /\ a.ptr = b
      BY <2>5 DEF Allocated
    <3>2. b \in Blocks \ w.map
      BY <2>5, NextBlockIsFree
    <3> HIDE DEF b
    <3>3. ~a.w.full /\ [a.w EXCEPT !.tbl[k] = a.ptr] = v
      BY <1>1, <1>5, <3>1 DEF WriteStates, Took
    <3>4. x = PutBytes(v, b, offset, appends)
      BY <2>2, <3>1, <3>3
    <3> HIDE DEF x, a
    <3>5. /\ Going(v, offset, len) /\ Working(v, h) /\ SameTables(w, v)
          /\ v.offset_cnt = w.offset_cnt /\ v.cnt = w.cnt /\ v.len = w.len
          /\ v.full = w.full /\ v.map = w.map \cup {b}
          /\ v.tbl[k] = b
      BY <2>5, <3>2, TakesBlock
    <3> HIDE DEF v
    <3>6. b \in v.map /\ offset <= v.offset_cnt + FS_BLOCK_SIZE
      BY <2>1, <3>5
    <3>7. Going(PutBytes(v, b, offset, appends), offset, len)
          /\ Working(PutBytes(v, b, offset, appends), h)
          /\ SameTables(v, PutBytes(v, b, offset, appends))
          /\ Advanced(v, PutBytes(v, b, offset, appends), offset, FS_BLOCK_SIZE)
      BY <3>5, <3>6, FillsBlock
    <3>8. SameTables(w, x)
      BY <3>4, <3>5, <3>7 DEF SameTables
    <3>9. Advanced(w, x, offset, FS_BLOCK_SIZE)
      <4>1. v.len = 0 => FALSE
        BY <1>5, <3>5
      <4> QED
        BY <3>4, <3>5, <3>7, <4>1 DEF Advanced
    <3> QED
      BY <3>4, <3>7, <3>8, <3>9 DEF x
  <2> QED
    BY <2>3, <2>4, <2>5
<1> QED
  BY <1>3, <1>4, <1>5

-----------------------------------------------------------------------------
(* write_helper. *)

LEMMA SameTablesTwice ==
    ASSUME NEW v, NEW w, NEW x, SameTables(v, w), SameTables(w, x)
    PROVE  SameTables(v, x)
BY DEF SameTables

\* WriteTurns is the function its definition describes.
AreTurns(f, w, n, offset, appends) ==
    f = [k \in 0 .. n |-> IF k = 0 THEN w ELSE WriteBlock(f[k - 1], k, offset, appends)]

TurnsKept(t, w, h, n, offset, len, appends) ==
    /\ t[0] = w
    /\ \A k \in 1 .. n : t[k] = WriteBlock(t[k - 1], k, offset, appends)
    /\ \A k \in 0 .. n : /\ Going(t[k], offset, len)
                         /\ Working(t[k], h)
                         /\ SameTables(w, t[k])

\* After each turn the pointers are apart.
LEMMA TurnsKeep ==
    ASSUME NEW offset \in Nat, NEW len, NEW appends \in BOOLEAN,
           NEW h, NEW w, Going(w, offset, len), Working(w, h),
           NEW n \in Nat, SlotsOf(h) = 1 .. n
    PROVE  TurnsKept(WriteTurns(w, n, offset, appends), w, h, n, offset, len, appends)
<1> DEFINE S == {x \in WriteStates : /\ Going(x, offset, len) /\ Working(x, h)
                                     /\ SameTables(w, x)}
           step == [p \in (1 .. n) \X S |-> WriteBlock(p[2], p[1], offset, appends)]
           t == WriteTurns(w, n, offset, appends)
<1>1. ASSUME NEW k \in 1 .. n, NEW x \in S PROVE WriteBlock(x, k, offset, appends) \in S
  <2>1. /\ Going(WriteBlock(x, k, offset, appends), offset, len)
        /\ Working(WriteBlock(x, k, offset, appends), h)
        /\ SameTables(x, WriteBlock(x, k, offset, appends))
    BY TurnKeeps
  <2> QED
    BY <2>1, SameTablesTwice DEF Going
<1>2. w \in S
  BY DEF Going, SameTables
<1>3. step \in [(1 .. n) \X S -> S]
  <2>1. \A p \in (1 .. n) \X S : WriteBlock(p[2], p[1], offset, appends) \in S
    BY <1>1
  <2> QED
    BY <2>1
<1>4. \A k \in 1 .. n, x \in S : step[<<k, x>>] = WriteBlock(x, k, offset, appends)
  OBVIOUS
<1> HIDE DEF S, step
<1>5. PICK f : Follows(f, n, S, step, w)
  BY <1>2, <1>3, Iterates
<1>6. AreTurns(f, w, n, offset, appends)
  <2>1. f \in [0 .. n -> S] /\ f[0] = w
    BY <1>5 DEF Follows
  <2>2. ASSUME NEW k \in 0 .. n, k # 0
        PROVE  f[k] = WriteBlock(f[k - 1], k, offset, appends)
    <3>1. k \in 1 .. n /\ k - 1 \in 0 .. n /\ f[k - 1] \in S
      BY <2>1, <2>2
    <3> QED
      BY <1>4, <1>5, <3>1 DEF Follows
  <2> QED
    BY <2>1, <2>2 DEF AreTurns
<1>7. AreTurns(t, w, n, offset, appends)
  <2>1. \E g : AreTurns(g, w, n, offset, appends)
    BY <1>6
  <2> QED
    BY <2>1 DEF WriteTurns, AreTurns
<1> HIDE DEF t
<1>8. t[0] = w
  BY <1>7 DEF AreTurns
<1>9. \A k \in 1 .. n : t[k] = WriteBlock(t[k - 1], k, offset, appends)
  BY <1>7 DEF AreTurns
<1>10. \A k \in 0 .. n : t[k] \in S
  <2> DEFINE K == {k \in 0 .. n : t[k] \in S}
  <2>1. 0 \in K
    BY <1>2, <1>8
  <2>2. ASSUME NEW k \in 0 .. n, k \in K, k < n PROVE k + 1 \in K
    <3>1. k + 1 \in 1 .. n /\ (k + 1) - 1 = k
      BY <2>2
    <3>2. t[k + 1] = WriteBlock(t[k], k + 1, offset, appends)
      BY <1>9, <3>1
    <3> QED
      BY <1>1, <2>2, <3>1, <3>2
  <2> HIDE DEF K
  <2>3. \A k \in 0 .. n : k \in K
    BY <2>1, <2>2, UpTo
  <2> QED
    BY <2>3 DEF K
<1> QED
  BY <1>8, <1>9, <1>10 DEF S, t, TurnsKept

LEMMA HelperKeeps ==
    ASSUME NEW offset \in Nat, NEW len, NEW appends \in BOOLEAN,
           NEW h, NEW w, Going(w, offset, len), Working(w, h),
           NEW n \in Nat, SlotsOf(h) = 1 .. n
    PROVE  LET x == write_helper(w, n, offset, appends)
           IN Going(x, offset, len) /\ Working(x, h) /\ SameTables(w, x)
<1> DEFINE x == write_helper(w, n, offset, appends)
<1>1. CASE Before(w.offset_cnt, FS_BLOCK_SIZE * n, offset)
  <2>1. x = Passed(w, FS_BLOCK_SIZE * n)
    BY <1>1 DEF write_helper, Passed
  <2> HIDE DEF x
  <2>2. FS_BLOCK_SIZE * n \in Nat
    BY Sizes
  <2>3. /\ Going(Passed(w, FS_BLOCK_SIZE * n), offset, len)
        /\ SameTables(w, Passed(w, FS_BLOCK_SIZE * n))
        /\ Working(Passed(w, FS_BLOCK_SIZE * n), h)
    BY <1>1, <2>2, Passes
  <2> QED
    BY <2>1, <2>3 DEF x
<1>2. CASE ~Before(w.offset_cnt, FS_BLOCK_SIZE * n, offset)
  <2>1. x = WriteTurns(w, n, offset, appends)[n]
    BY <1>2 DEF write_helper
  <2> HIDE DEF x
  <2> DEFINE t == WriteTurns(w, n, offset, appends)
  <2>2. TurnsKept(t, w, h, n, offset, len, appends)
    BY TurnsKeep
  <2> HIDE DEF t
  <2>3. n \in 0 .. n
    OBVIOUS
  <2> QED
    BY <2>1, <2>2, <2>3 DEF x, t, TurnsKept
<1> QED
  BY <1>1, <1>2

-----------------------------------------------------------------------------
(* How far the walk over the pointers has come. *)

\* The pointers passed so far hold p bytes: none of the caller's bytes has
\* been written beyond them.
At(w, offset, p) ==
    \/ w.full
    \/ w.offset_cnt = p /\ w.cnt = 0 /\ p <= offset
    \/ w.offset_cnt = offset /\ offset + w.cnt <= p

LEMMA AtNext ==
    ASSUME NEW offset \in Nat, NEW len \in Nat, len > 0, NEW w, Going(w, offset, len),
           NEW x \in WriteStates, NEW span \in Nat, NEW p \in Nat,
           Advanced(w, x, offset, span), At(w, offset, p)
    PROVE  At(x, offset, p + span)
<1>1. /\ w.offset_cnt \in Nat /\ w.cnt \in Nat /\ w.len \in Nat
      /\ w.offset_cnt <= offset /\ w.cnt + w.len = len
      /\ x.offset_cnt \in Nat /\ x.cnt \in Nat
  BY DEF Going, WriteStates
<1>2. CASE x.full
  BY <1>2 DEF At
<1>3. CASE ~x.full /\ w.len = 0 /\ x = w
  BY <1>1, <1>3 DEF At
<1>4. CASE /\ ~x.full /\ Before(w.offset_cnt, span, offset)
           /\ x.offset_cnt = w.offset_cnt + span /\ x.cnt = w.cnt
  BY <1>1, <1>4 DEF At, Before, Advanced
<1>5. CASE ~x.full /\ x.offset_cnt = offset /\ x.cnt <= w.cnt + span - (offset - w.offset_cnt)
  BY <1>1, <1>5 DEF At, Advanced
<1> QED
  BY <1>2, <1>3, <1>4, <1>5 DEF Advanced

\* The bytes of k blocks, one block at a time.
LEMMA OneMore ==
    ASSUME NEW c \in Nat, NEW k \in Nat
    PROVE  c * k \in Nat /\ c * (k + 1) = c * k + c
OBVIOUS

LEMMA HelperAt ==
    ASSUME NEW offset \in Nat, NEW len \in Nat, len > 0, NEW appends \in BOOLEAN,
           NEW h, NEW w, Going(w, offset, len), Working(w, h),
           NEW n \in Nat, SlotsOf(h) = 1 .. n,
           NEW p \in Nat, At(w, offset, p)
    PROVE  At(write_helper(w, n, offset, appends), offset, p + FS_BLOCK_SIZE * n)
<1> DEFINE x == write_helper(w, n, offset, appends)
<1>0. FS_BLOCK_SIZE \in Nat /\ FS_BLOCK_SIZE * n \in Nat
  BY Sizes, OneMore
<1>1. CASE Before(w.offset_cnt, FS_BLOCK_SIZE * n, offset)
  <2> DEFINE span == FS_BLOCK_SIZE * n
  <2>1. x = Passed(w, span)
    BY <1>1 DEF write_helper, Passed
  <2> HIDE DEF x, span
  <2>2. span \in Nat /\ Before(w.offset_cnt, span, offset)
    BY <1>0, <1>1 DEF span
  <2>3. /\ Going(Passed(w, span), offset, len)
        /\ Passed(w, span).offset_cnt = w.offset_cnt + span
        /\ Passed(w, span).cnt = w.cnt /\ Passed(w, span).full = w.full
    BY <2>2, Passes
  <2>4. Advanced(w, x, offset, span) /\ x \in WriteStates
    BY <2>1, <2>2, <2>3 DEF Advanced, Going
  <2> QED
    BY <2>2, <2>4, AtNext DEF x, span
<1>2. CASE ~Before(w.offset_cnt, FS_BLOCK_SIZE * n, offset)
  <2>1. x = WriteTurns(w, n, offset, appends)[n]
    BY <1>2 DEF write_helper
  <2> HIDE DEF x
  <2> DEFINE t == WriteTurns(w, n, offset, appends)
             K == {k \in 0 .. n : At(t[k], offset, p + FS_BLOCK_SIZE * k)}
  <2>2. /\ t[0] = w
        /\ \A k \in 1 .. n : t[k] = WriteBlock(t[k - 1], k, offset, appends)
        /\ \A k \in 0 .. n : Going(t[k], offset, len) /\ Working(t[k], h)
    <3>1. TurnsKept(t, w, h, n, offset, len, appends)
      BY TurnsKeep
    <3> HIDE DEF t
    <3> QED
      BY <3>1 DEF TurnsKept
  <2> HIDE DEF t
  <2>3. 0 \in K
    <3>1. FS_BLOCK_SIZE * 0 = 0
      BY <1>0
    <3> QED
      BY <2>2, <3>1
  <2>4. ASSUME NEW k \in 0 .. n, k \in K, k < n PROVE k + 1 \in K
    <3>1. k + 1 \in 1 .. n /\ (k + 1) - 1 = k /\ k + 1 \in SlotsOf(h) /\ k \in Nat
      BY <2>4
    <3>2. t[k + 1] = WriteBlock(t[k], k + 1, offset, appends)
      BY <2>2, <3>1
    <3>3. Going(t[k], offset, len) /\ Working(t[k], h) /\ t[k + 1] \in WriteStates
      BY <2>2, <3>1 DEF Going
    <3>4. Advanced(t[k], t[k + 1], offset, FS_BLOCK_SIZE)
      BY <3>1, <3>2, <3>3, TurnKeeps
    <3> DEFINE r == p + FS_BLOCK_SIZE * k
    <3>5. r \in Nat /\ r + FS_BLOCK_SIZE = p + FS_BLOCK_SIZE * (k + 1)
      BY <1>0, <3>1, OneMore
    <3>6. At(t[k], offset, r)
      BY <2>4
    <3> HIDE DEF r
    <3>7. At(t[k + 1], offset, r + FS_BLOCK_SIZE)
      BY <1>0, <3>3, <3>4, <3>5, <3>6, AtNext
    <3> QED
      BY <3>1, <3>5, <3>7
  <2> HIDE DEF K
  <2>5. n \in K
    <3>1. \A k \in 0 .. n : k \in K
      BY <2>3, <2>4, UpTo
    <3> QED
      BY <3>1
  <2> QED
    BY <2>1, <2>5 DEF K, x, t
<1> QED
  BY <1>1, <1>2

\* x comes span bytes after w.
Walks(w, x, offset, len, span) ==
    \A p \in Nat : len \in Nat /\ len > 0 /\ At(w, offset, p) => At(x, offset, p + span)

SameCounts(w, x) ==
    x.offset_cnt = w.offset_cnt /\ x.cnt = w.cnt /\ x.len = w.len /\ x.full = w.full

\* A write that has ended stays where it is.
LEMMA Rests ==
    ASSUME NEW offset \in Nat, NEW len, NEW span \in Nat, NEW w, Going(w, offset, len),
           w.full \/ w.len = 0
    PROVE  Walks(w, w, offset, len, span)
<1>1. w.cnt \in Nat /\ w.cnt + w.len = len
  BY DEF Going, WriteStates
<1> QED
  BY <1>1 DEF Walks, At

-----------------------------------------------------------------------------
(* A table is read, used and written back. *)

Loaded(w, tbl) == [w EXCEPT !.tbl = tbl]

LEMMA LoadsTable ==
    ASSUME NEW offset, NEW len, NEW w, Going(w, offset, len), Between(w),
           NEW h \in w.map \cup {Inode}, h # w.indir_2
    PROVE  LET x == Loaded(w, Stored(w, h))
           IN /\ Going(x, offset, len) /\ Working(x, h) /\ SameTables(w, x)
              /\ x.map = w.map /\ x.offset_cnt = w.offset_cnt /\ x.cnt = w.cnt
              /\ x.len = w.len /\ x.full = w.full
<1> DEFINE x == Loaded(w, Stored(w, h))
<1>1. w \in WriteStates /\ w.cnt + w.len = len /\ w.offset_cnt <= offset /\ h \in Holders
  BY DEF Going, WriteStates, Holders
<1>2. Stored(w, h) \in [SlotsOf(h) -> Blocks]
  BY <1>1, Sizes DEF WriteStates, Stored, SlotsOf, Holders, BlockValues
<1>3. x \in WriteStates
  BY <1>1, <1>2 DEF WriteStates, Loaded, SlotsOf
<1>4. /\ x.map = w.map /\ x.disk = w.disk /\ x.direct = w.direct
      /\ x.indir_1 = w.indir_1 /\ x.indir_2 = w.indir_2 /\ x.tbl = Stored(w, h)
      /\ x.tbl2 = w.tbl2 /\ x.cnt = w.cnt /\ x.len = w.len /\ x.full = w.full
      /\ x.offset_cnt = w.offset_cnt
  BY <1>1 DEF WriteStates, Loaded
<1> HIDE DEF x
<1>5. Going(x, offset, len) /\ SameTables(w, x) /\ Between(x)
  BY <1>1, <1>3, <1>4, CountersOnly
<1>6. PICK q : Tracked(q, x)
  BY <1>5 DEF Between
<1>7. Stored(x, h) = x.tbl
  BY <1>4 DEF Stored
<1>8. \A k \in SlotsOf(h) : x.tbl[k] \in {0, q[<<h, k>>]}
  BY <1>1, <1>6, <1>7, Sizes DEF Tracked, Under, Stored, SlotsOf, Holders
<1>9. Copied(q, x, x.tbl, h)
  BY <1>2, <1>4, <1>7, <1>8 DEF Copied
<1>10. Working(x, h)
  BY <1>2, <1>4, <1>6, <1>9 DEF Working
<1> QED
  BY <1>4, <1>5, <1>10 DEF x

PutTable(w, b, tbl) == [w EXCEPT !.disk[b].ptrs = tbl]

\* A copy of the table of block b is written back.
LEMMA PutsTable ==
    ASSUME NEW offset, NEW len, NEW w, Going(w, offset, len),
           NEW q, Tracked(q, w), NEW b \in w.map,
           NEW tbl \in [Ptrs -> Blocks], Copied(q, w, tbl, b),
           b # w.indir_2 \/ tbl = w.tbl2
    PROVE  LET x == PutTable(w, b, tbl)
           IN /\ Going(x, offset, len) /\ Tracked(q, x)
              /\ x.map = w.map /\ x.direct = w.direct /\ x.indir_1 = w.indir_1
              /\ x.indir_2 = w.indir_2 /\ x.tbl = w.tbl /\ x.tbl2 = w.tbl2
              /\ x.offset_cnt = w.offset_cnt /\ x.cnt = w.cnt
              /\ x.len = w.len /\ x.full = w.full
              /\ \A c \in Blocks : /\ x.disk[c].bytes = w.disk[c].bytes
                                   /\ x.disk[c].ptrs = IF c = b THEN tbl
                                                       ELSE w.disk[c].ptrs
<1> DEFINE x == PutTable(w, b, tbl)
           dsk == [w.disk EXCEPT ![b].ptrs = tbl]
<1>1. /\ w \in WriteStates /\ b \in Blocks /\ w.disk \in [Blocks -> BlockValues]
      /\ w.tbl2 \in {<<>>} \cup [Ptrs -> Blocks]
  BY DEF Going, WriteStates
<1>2. /\ dsk \in [Blocks -> BlockValues]
      /\ dsk[b].ptrs = tbl
      /\ \A c \in Blocks : dsk[c].bytes = w.disk[c].bytes
      /\ \A c \in Blocks : c # b => dsk[c] = w.disk[c]
  BY <1>1 DEF BlockValues
<1>3. x = [w EXCEPT !.disk = dsk]
  BY <1>1 DEF PutTable, WriteStates
<1> HIDE DEF x, dsk
<1>4. /\ x.map = w.map /\ x.disk = dsk /\ x.direct = w.direct
      /\ x.indir_1 = w.indir_1 /\ x.indir_2 = w.indir_2 /\ x.tbl = w.tbl
      /\ x.tbl2 = w.tbl2 /\ x.cnt = w.cnt /\ x.len = w.len /\ x.full = w.full
      /\ x.offset_cnt = w.offset_cnt
  BY <1>1, <1>3 DEF WriteStates
<1>5. x \in WriteStates
  BY <1>1, <1>2, <1>3 DEF WriteStates
<1>6. Going(x, offset, len)
  BY <1>2, <1>4, <1>5 DEF Going
<1>7. Under(q, x)
  <2>1. ASSUME NEW c \in Blocks, NEW k \in Ptrs PROVE x.disk[c].ptrs[k] \in {0, q[<<c, k>>]}
    <3>1. CASE c = b
      BY <1>2, <1>4, <3>1 DEF Copied
    <3>2. CASE c # b
      BY <1>2, <1>4, <3>2 DEF Tracked, Under
    <3> QED
      BY <3>1, <3>2
  <2> QED
    BY <1>4, <2>1 DEF Tracked, Under
<1>8. Copied(q, x, x.tbl2, x.indir_2)
  <2>1. Copied(q, w, w.tbl2, w.indir_2)
    BY DEF Tracked
  <2>2. CASE b # w.indir_2
    <3>1. w.indir_2 \in Blocks
      BY <1>1 DEF WriteStates
    <3>2. Stored(x, w.indir_2) = Stored(w, w.indir_2)
      BY <1>2, <1>4, <2>2, <3>1 DEF Stored
    <3> QED
      BY <1>4, <2>1, <3>2 DEF Copied
  <2>3. CASE b = w.indir_2 /\ tbl = w.tbl2
    <3>1. Stored(x, x.indir_2) = tbl
      BY <1>1, <1>2, <1>4, <2>3, Sizes DEF Stored
    <3> QED
      BY <1>4, <2>1, <2>3, <3>1 DEF Copied
  <2> QED
    BY <2>2, <2>3
<1>9. Tracked(q, x)
  BY <1>4, <1>7, <1>8 DEF Tracked
<1>10. \A c \in Blocks : /\ x.disk[c].bytes = w.disk[c].bytes
                         /\ x.disk[c].ptrs = IF c = b THEN tbl ELSE w.disk[c].ptrs
  BY <1>2, <1>4
<1> QED
  BY <1>4, <1>6, <1>9, <1>10 DEF x

\* What a stage of the write leaves alone.
SameUpper(w, x) == x.indir_2 = w.indir_2 /\ x.tbl2 = w.tbl2

\* Whether the table is written back or not, the pointers stay apart.
LEMMA Flushes ==
    ASSUME NEW offset, NEW len, NEW w, Going(w, offset, len),
           NEW b \in Blocks, Working(w, b)
    PROVE  LET x == Flushed(w, b)
           IN /\ Going(x, offset, len) /\ Between(x)
              /\ SameUpper(w, x) /\ SameCounts(w, x)
<1> DEFINE x == Flushed(w, b)
<1>1. PICK q : Tracked(q, w) /\ Copied(q, w, w.tbl, b)
  BY DEF Working
<1>2. CASE ~w.full /\ w.offset_cnt + w.cnt > size
  <2>1. x = PutTable(w, b, w.tbl)
    BY <1>2 DEF Flushed, PutTable
  <2>2. b \in w.map /\ w.tbl \in [Ptrs -> Blocks] /\ b # w.indir_2
    BY Sizes DEF Working, SlotsOf
  <2> HIDE DEF x
  <2>3. LET v == PutTable(w, b, w.tbl)
        IN /\ Going(v, offset, len) /\ Tracked(q, v)
           /\ v.indir_2 = w.indir_2 /\ v.tbl2 = w.tbl2
           /\ v.offset_cnt = w.offset_cnt /\ v.cnt = w.cnt
           /\ v.len = w.len /\ v.full = w.full
    BY <1>1, <2>2, PutsTable
  <2> QED
    BY <2>1, <2>3 DEF Between, SameUpper, SameCounts, x
<1>3. CASE ~(~w.full /\ w.offset_cnt + w.cnt > size)
  BY <1>1, <1>3 DEF Flushed, Between, SameUpper, SameCounts
<1> QED
  BY <1>2, <1>3

LEMMA TableKeeps ==
    ASSUME NEW offset \in Nat, NEW len, NEW appends \in BOOLEAN,
           NEW w, Going(w, offset, len), Between(w),
           NEW b \in w.map, b # w.indir_2
    PROVE  LET x == WriteTable(w, b, offset, appends)
           IN /\ Going(x, offset, len) /\ Between(x) /\ SameUpper(w, x)
              /\ Walks(w, x, offset, len, FS_BLOCK_SIZE * PtrsPerBlock)
<1> DEFINE y == Loaded(w, w.disk[b].ptrs)
           z == write_helper(y, PtrsPerBlock, offset, appends)
           x == WriteTable(w, b, offset, appends)
<1>1. b \in Blocks /\ b # Inode
  BY Sizes DEF Going, WriteStates
<1>2. Stored(w, b) = w.disk[b].ptrs
  BY <1>1 DEF Stored
<1>3. Going(y, offset, len) /\ Working(y, b) /\ SameTables(w, y) /\ SameCounts(w, y)
  <2>1. /\ Going(Loaded(w, Stored(w, b)), offset, len)
        /\ Working(Loaded(w, Stored(w, b)), b)
        /\ SameTables(w, Loaded(w, Stored(w, b)))
        /\ SameCounts(w, Loaded(w, Stored(w, b)))
    BY LoadsTable DEF SameCounts
  <2> QED
    BY <1>2, <2>1
<1>4. x = Flushed(z, b)
  BY DEF WriteTable, Loaded
<1> HIDE DEF y, x
<1>5. SlotsOf(b) = 1 .. PtrsPerBlock /\ PtrsPerBlock \in Nat
  BY <1>1, Sizes DEF SlotsOf, Ptrs
<1>6. Going(z, offset, len) /\ Working(z, b) /\ SameTables(y, z)
  BY <1>3, <1>5, HelperKeeps
<1>a. ASSUME NEW p \in Nat, len \in Nat, len > 0, At(y, offset, p)
      PROVE  At(z, offset, p + FS_BLOCK_SIZE * PtrsPerBlock)
  BY <1>3, <1>5, <1>a, HelperAt
<1> HIDE DEF z
<1>7. /\ Going(Flushed(z, b), offset, len) /\ Between(Flushed(z, b))
      /\ SameUpper(z, Flushed(z, b)) /\ SameCounts(z, Flushed(z, b))
  BY <1>1, <1>6, Flushes
<1>8. SameUpper(w, x)
  BY <1>3, <1>4, <1>6, <1>7 DEF SameTables, SameUpper
<1>9. Walks(w, x, offset, len, FS_BLOCK_SIZE * PtrsPerBlock)
  BY <1>3, <1>4, <1>7, <1>a DEF Walks, At, SameCounts
<1> QED
  BY <1>4, <1>7, <1>8, <1>9 DEF x

-----------------------------------------------------------------------------
(* The three levels. *)

StoreDirect(w) == [w EXCEPT !.direct = w.tbl]

LEMMA DirectKeeps ==
    ASSUME NEW offset \in Nat, NEW len, NEW appends \in BOOLEAN,
           NEW w, Going(w, offset, len), Between(w)
    PROVE  LET x == WriteDirect(w, offset, appends)
           IN /\ Going(x, offset, len) /\ Between(x)
              /\ Walks(w, x, offset, len, FS_BLOCK_SIZE * N_DIRECT)
<1> DEFINE y == Loaded(w, w.direct)
           z == write_helper(y, N_DIRECT, offset, appends)
           x == WriteDirect(w, offset, appends)
<1>1. w.indir_2 # Inode
  BY Sizes DEF Going, WriteStates
<1>2. Going(y, offset, len) /\ Working(y, Inode) /\ SameCounts(w, y)
  <2>1. Stored(w, Inode) = w.direct
    BY DEF Stored
  <2>2. /\ Going(Loaded(w, Stored(w, Inode)), offset, len)
        /\ Working(Loaded(w, Stored(w, Inode)), Inode)
        /\ SameCounts(w, Loaded(w, Stored(w, Inode)))
    BY <1>1, LoadsTable DEF SameCounts
  <2> QED
    BY <2>1, <2>2
<1>3. x = StoreDirect(z)
  BY DEF WriteDirect, Loaded, StoreDirect
<1> HIDE DEF y, x
<1>4. SlotsOf(Inode) = 1 .. N_DIRECT /\ N_DIRECT \in Nat
  BY Sizes DEF SlotsOf
<1>5. Going(z, offset, len) /\ Working(z, Inode)
  BY <1>2, <1>4, HelperKeeps
<1>a. ASSUME NEW p \in Nat, len \in Nat, len > 0, At(y, offset, p)
      PROVE  At(z, offset, p + FS_BLOCK_SIZE * N_DIRECT)
  BY <1>2, <1>4, <1>a, HelperAt
<1> HIDE DEF z
<1>6. z \in WriteStates /\ z.tbl \in [1 .. N_DIRECT -> Blocks]
  BY <1>4, <1>5 DEF Going, Working
<1>7. /\ x.map = z.map /\ x.disk = z.disk /\ x.direct = z.tbl
      /\ x.indir_1 = z.indir_1 /\ x.indir_2 = z.indir_2
      /\ x.tbl2 = z.tbl2 /\ x.cnt = z.cnt /\ x.len = z.len
      /\ x.offset_cnt = z.offset_cnt /\ x.full = z.full
  BY <1>3, <1>6 DEF WriteStates, StoreDirect
<1>8. x \in WriteStates
  BY <1>3, <1>6 DEF WriteStates, StoreDirect
<1>9. Going(x, offset, len)
  BY <1>5, <1>7, <1>8 DEF Going
<1>10. PICK q : Tracked(q, z) /\ Copied(q, z, z.tbl, Inode)
  BY <1>5 DEF Working
<1>11. Under(q, x)
  BY <1>6, <1>7, <1>10 DEF Tracked, Under, Copied
<1>12. z.indir_2 \in Blocks /\ Stored(x, z.indir_2) = Stored(z, z.indir_2)
  BY <1>6, <1>7, Sizes DEF Stored, WriteStates
<1>13. Copied(q, x, x.tbl2, x.indir_2)
  BY <1>7, <1>10, <1>12 DEF Tracked, Copied
<1>14. Between(x)
  BY <1>7, <1>10, <1>11, <1>13 DEF Between, Tracked
<1>15. Walks(w, x, offset, len, FS_BLOCK_SIZE * N_DIRECT)
  BY <1>2, <1>7, <1>a DEF Walks, At, SameCounts
<1> QED
  BY <1>9, <1>14, <1>15 DEF x

\* The block of indir_1, there already or taken now.
OpenIndir1(w, b) == [w EXCEPT !.map = @ \cup {b}, !.indir_1 = b]

LEMMA OpensIndir1 ==
    ASSUME NEW offset, NEW len, NEW w, Going(w, offset, len), Between(w),
           NEW b, \/ b = w.indir_1 /\ b # 0
                  \/ w.indir_1 = 0 /\ b \in Blocks \ w.map
    PROVE  LET x == OpenIndir1(w, b)
           IN /\ Going(x, offset, len) /\ Between(x)
              /\ b \in x.map /\ b # x.indir_2
              /\ SameCounts(w, x)
<1> DEFINE x == OpenIndir1(w, b)
<1>1. PICK q : Tracked(q, w)
  BY DEF Between
<1>2. /\ w \in WriteStates /\ w.map \in SUBSET Blocks /\ Metadata \cup other \subseteq w.map
      /\ w.indir_1 \in Blocks /\ w.indir_2 \in Blocks
      /\ w.tbl2 \in {<<>>} \cup [Ptrs -> Blocks]
  BY DEF Going, WriteStates
<1>3. /\ Apart(q, w.map) /\ Under(q, w) /\ q \in [Places -> Blocks]
      /\ <<Inode, N_DIRECT + 1>> \in Places /\ <<Inode, N_DIRECT + 2>> \in Places
      /\ w.indir_1 \in {0, q[<<Inode, N_DIRECT + 1>>]}
      /\ w.indir_2 \in {0, q[<<Inode, N_DIRECT + 2>>]}
  BY <1>1, Sizes DEF Tracked, Apart, Under, Places, Holders
<1>4. b \in Blocks
  BY <1>2
<1>5. /\ x.map = w.map \cup {b} /\ x.disk = w.disk /\ x.direct = w.direct
      /\ x.indir_1 = b /\ x.indir_2 = w.indir_2 /\ x.tbl2 = w.tbl2
      /\ x.cnt = w.cnt /\ x.len = w.len /\ x.full = w.full
      /\ x.offset_cnt = w.offset_cnt
  BY <1>2 DEF WriteStates, OpenIndir1
<1>6. x \in WriteStates
  BY <1>2, <1>4 DEF WriteStates, OpenIndir1
<1> HIDE DEF x
<1>7. Going(x, offset, len)
  BY <1>5, <1>6 DEF Going
<1>8. CASE b = w.indir_1 /\ b # 0
  <2>1. b = q[<<Inode, N_DIRECT + 1>>]
    BY <1>3, <1>8
  <2>2. b \in w.map
    BY <1>3, <1>8, <2>1 DEF Apart
  <2>3. b # w.indir_2
    <3>1. N_DIRECT + 1 # N_DIRECT + 2
      BY Sizes
    <3>2. <<Inode, N_DIRECT + 1>> # <<Inode, N_DIRECT + 2>>
      BY <3>1
    <3> QED
      BY <1>3, <1>8, <2>1, <3>2 DEF Apart
  <2>4. x.map = w.map /\ x.indir_1 = w.indir_1
    BY <1>5, <1>8, <2>2
  <2>5. Tracked(q, x)
    <3>1. Stored(x, w.indir_2) = Stored(w, w.indir_2)
      BY <1>5 DEF Stored
    <3>2. Copied(q, w, w.tbl2, w.indir_2)
      BY <1>1 DEF Tracked
    <3>3. Copied(q, x, x.tbl2, x.indir_2)
      BY <1>5, <3>1, <3>2 DEF Copied
    <3>4. Under(q, x)
      BY <1>3, <1>5, <2>4 DEF Under
    <3>5. Apart(q, x.map)
      BY <1>3, <2>4
    <3> QED
      BY <3>3, <3>4, <3>5 DEF Tracked
  <2> QED
    BY <1>5, <1>7, <2>2, <2>3, <2>5 DEF Between, SameCounts, x
<1>9. CASE w.indir_1 = 0 /\ b \in Blocks \ w.map
  <2> DEFINE r == [q EXCEPT ![<<Inode, N_DIRECT + 1>>] = b]
  <2>1. Apart(r, w.map \cup {b}) /\ b # 0
    BY <1>2, <1>3, <1>9, NewPlace
  <2>2. Under(r, w)
    <3>1. /\ Inode \in Holders /\ N_DIRECT + 1 \in Nat /\ Inode \notin Blocks
          /\ N_DIRECT + 1 \notin 1 .. N_DIRECT /\ N_DIRECT + 1 # N_DIRECT + 2
      BY Sizes DEF Holders
    <3> HIDE DEF r
    <3>2. Under([q EXCEPT ![<<Inode, N_DIRECT + 1>>] = b], w)
      BY <1>3, <1>9, <3>1, UnderNew
    <3> QED
      BY <3>2 DEF r
  <2>3. r[<<Inode, N_DIRECT + 1>>] = b
        /\ \A p \in Places : p # <<Inode, N_DIRECT + 1>> => r[p] = q[p]
    BY <1>3
  <2> HIDE DEF r
  <2>4. Under(r, x)
    BY <1>5, <2>2, <2>3 DEF Under
  <2>5. b # w.indir_2
    <3>1. w.indir_2 # 0 => w.indir_2 \in w.map
      BY <1>3 DEF Apart
    <3> QED
      BY <1>9, <2>1, <3>1
  <2>6. Copied(r, x, x.tbl2, x.indir_2)
    <3>1. Stored(x, w.indir_2) = Stored(w, w.indir_2)
      BY <1>5 DEF Stored
    <3>2. DOMAIN w.tbl2 \subseteq Nat /\ w.indir_2 # Inode /\ w.indir_2 \in Holders
      BY <1>2, Sizes DEF Ptrs, Holders
    <3>3. \A k \in DOMAIN w.tbl2 : r[<<w.indir_2, k>>] = q[<<w.indir_2, k>>]
      BY <2>3, <3>2 DEF Places
    <3> QED
      BY <1>1, <1>5, <3>1, <3>3 DEF Tracked, Copied
  <2>7. Between(x)
    BY <1>5, <2>1, <2>4, <2>6 DEF Between, Tracked
  <2> QED
    BY <1>5, <1>7, <2>5, <2>7 DEF SameCounts, x
<1> QED
  BY <1>8, <1>9

LEMMA Indir1Keeps ==
    ASSUME NEW offset \in Nat, NEW len, NEW appends \in BOOLEAN,
           NEW w, Going(w, offset, len), Between(w)
    PROVE  LET x == WriteIndir1(w, offset, appends)
           IN /\ Going(x, offset, len) /\ Between(x)
              /\ Walks(w, x, offset, len, FS_BLOCK_SIZE * PtrsPerBlock)
<1> DEFINE x == WriteIndir1(w, offset, appends)
           a == Allocated(w, w.indir_1)
           span == FS_BLOCK_SIZE * PtrsPerBlock
<1>0. span \in Nat
  BY Sizes
<1> HIDE DEF span
<1>1. w \in WriteStates
  BY DEF Going
<1>2. CASE w.full \/ w.len = 0
  <2>1. x = w /\ Walks(w, w, offset, len, span)
    BY <1>0, <1>2, Rests DEF WriteIndir1
  <2> QED
    BY <2>1 DEF span
<1>3. CASE ~(w.full \/ w.len = 0)
  <2>1. x = IF a.w.full THEN a.w
            ELSE WriteTable([a.w EXCEPT !.indir_1 = a.ptr], a.ptr, offset, appends)
    BY <1>3 DEF WriteIndir1
  <2>2. ASSUME NEW b, x = WriteTable(OpenIndir1(w, b), b, offset, appends),
               \/ b = w.indir_1 /\ b # 0
               \/ w.indir_1 = 0 /\ b \in Blocks \ w.map
        PROVE  Going(x, offset, len) /\ Between(x) /\ Walks(w, x, offset, len, span)
    <3> DEFINE v == OpenIndir1(w, b)
    <3>1. /\ Going(v, offset, len) /\ Between(v) /\ b \in v.map /\ b # v.indir_2
          /\ SameCounts(w, v)
      BY <2>2, OpensIndir1
    <3> HIDE DEF v, x
    <3>2. Going(WriteTable(v, b, offset, appends), offset, len)
          /\ Between(WriteTable(v, b, offset, appends))
          /\ Walks(v, WriteTable(v, b, offset, appends), offset, len, span)
      BY <3>1, TableKeeps DEF span
    <3>3. Walks(w, WriteTable(v, b, offset, appends), offset, len, span)
      BY <3>1, <3>2 DEF Walks, At, SameCounts
    <3> QED
      BY <2>2, <3>2, <3>3 DEF v
  <2>3. CASE w.indir_1 # 0
    <3>1. a.w = w /\ a.ptr = w.indir_1
      BY <2>3 DEF Allocated
    <3>2. w.indir_1 \in w.map
      <4>1. PICK q : Tracked(q, w)
        BY DEF Between
      <4>2. Apart(q, w.map) /\ <<Inode, N_DIRECT + 1>> \in Places
            /\ w.indir_1 = q[<<Inode, N_DIRECT + 1>>]
        BY <2>3, <4>1, Sizes DEF Tracked, Under, Places, Holders
      <4> QED
        BY <2>3, <4>2 DEF Apart
    <3>3. [w EXCEPT !.indir_1 = w.indir_1] = OpenIndir1(w, w.indir_1)
      BY <1>1, <3>2 DEF WriteStates, OpenIndir1
    <3>4. x = WriteTable(OpenIndir1(w, w.indir_1), w.indir_1, offset, appends)
      BY <1>3, <2>1, <3>1, <3>3
    <3> QED
      BY <2>2, <2>3, <3>4 DEF span
  <2>4. CASE w.indir_1 = 0 /\ Free(w.map) = {}
    <3>1. a.w = RanOut(w)
      BY <2>4 DEF Allocated, RanOut
    <3>2. Going(RanOut(w), offset, len) /\ Between(RanOut(w)) /\ RanOut(w).full
      BY RunsOut
    <3>3. x = RanOut(w)
      BY <2>1, <3>1, <3>2
    <3> HIDE DEF x
    <3> QED
      BY <3>2, <3>3 DEF x, Walks, At
  <2>5. CASE w.indir_1 = 0 /\ Free(w.map) # {}
    <3> DEFINE b == get_next_block(w.map)
    <3>1. a.w = [w EXCEPT !.map = @ \cup {b}] /\ a.ptr = b
      BY <2>5 DEF Allocated
    <3>2. b \in Blocks \ w.map
      BY <2>5, NextBlockIsFree
    <3> HIDE DEF b
    <3>3. ~a.w.full /\ [a.w EXCEPT !.indir_1 = a.ptr] = OpenIndir1(w, b)
      BY <1>1, <1>3, <3>1 DEF WriteStates, OpenIndir1
    <3>4. x = WriteTable(OpenIndir1(w, b), b, offset, appends)
      BY <2>1, <3>1, <3>3
    <3> QED
      BY <2>2, <2>5, <3>2, <3>4 DEF span
  <2> QED
    BY <2>3, <2>4, <2>5
<1> QED
  BY <1>2, <1>3

\* A block the inode or the table of indir_2 leads to is marked.
LEMMA UpperMarked ==
    ASSUME NEW offset, NEW len, NEW w, Going(w, offset, len), Between(w)
    PROVE  /\ w.indir_1 \in w.map /\ w.indir_2 \in w.map
           /\ w.tbl2 \in [Ptrs -> Blocks] => \A k \in Ptrs : w.tbl2[k] \in w.map
<1>1. PICK q : Tracked(q, w)
  BY DEF Between
<1>2. /\ w \in WriteStates /\ 0 \in w.map /\ w.indir_2 \in Blocks
  BY Sizes DEF Going, WriteStates
<1>3. <<Inode, N_DIRECT + 1>> \in Places /\ <<Inode, N_DIRECT + 2>> \in Places
  BY Sizes DEF Places, Holders
<1>4. w.indir_1 \in w.map /\ w.indir_2 \in w.map
  BY <1>1, <1>2, <1>3 DEF Tracked, Apart, Under
<1>5. ASSUME w.tbl2 \in [Ptrs -> Blocks], NEW k \in Ptrs PROVE w.tbl2[k] \in w.map
  <2>1. <<w.indir_2, k>> \in Places /\ k \in DOMAIN w.tbl2
    BY <1>2, <1>5, Sizes DEF Places, Holders, Ptrs
  <2>2. w.tbl2[k] \in {0, q[<<w.indir_2, k>>]}
    BY <1>1, <2>1 DEF Tracked, Copied
  <2> QED
    BY <1>1, <1>2, <2>1, <2>2 DEF Tracked, Apart
<1> QED
  BY <1>4, <1>5

\* The block of indir_2, there already or taken now, and its table.
OpenIndir2(w, b) == [w EXCEPT !.map = @ \cup {b}, !.indir_2 = b, !.tbl2 = w.disk[b].ptrs]

LEMMA OpensIndir2 ==
    ASSUME NEW offset, NEW len, NEW w, Going(w, offset, len), Between(w),
           NEW b, \/ b = w.indir_2 /\ b # 0
                  \/ w.indir_2 = 0 /\ b \in Blocks \ w.map
    PROVE  LET x == OpenIndir2(w, b)
           IN /\ Going(x, offset, len) /\ Between(x) /\ SameCounts(w, x)
              /\ x.indir_2 = b /\ x.tbl2 \in [Ptrs -> Blocks]
<1> DEFINE x == OpenIndir2(w, b)
<1>1. PICK q : Tracked(q, w)
  BY DEF Between
<1>2. /\ w \in WriteStates /\ w.map \in SUBSET Blocks /\ Metadata \cup other \subseteq w.map
      /\ w.indir_2 \in Blocks /\ w.disk \in [Blocks -> BlockValues]
  BY DEF Going, WriteStates
<1>3. /\ Apart(q, w.map) /\ Under(q, w) /\ q \in [Places -> Blocks]
      /\ <<Inode, N_DIRECT + 2>> \in Places
  BY <1>1, Sizes DEF Tracked, Apart, Places, Holders
<1>4. b \in Blocks /\ b # Inode
  BY <1>2, Sizes
<1>5. w.disk[b].ptrs \in [Ptrs -> Blocks]
  BY <1>2, <1>4 DEF BlockValues
<1>6. /\ x.map = w.map \cup {b} /\ x.disk = w.disk /\ x.direct = w.direct
      /\ x.indir_1 = w.indir_1 /\ x.indir_2 = b /\ x.tbl2 = w.disk[b].ptrs
      /\ x.cnt = w.cnt /\ x.len = w.len /\ x.full = w.full
      /\ x.offset_cnt = w.offset_cnt
  BY <1>2 DEF WriteStates, OpenIndir2
<1>7. x \in WriteStates
  BY <1>2, <1>4, <1>5 DEF WriteStates, OpenIndir2
<1> HIDE DEF x
<1>8. Going(x, offset, len)
  BY <1>6, <1>7 DEF Going
<1>9. Stored(x, x.indir_2) = x.tbl2
  BY <1>4, <1>6 DEF Stored
<1>10. ASSUME NEW r, Apart(r, x.map), Under(r, x) PROVE Between(x)
  <2>1. Copied(r, x, x.tbl2, x.indir_2)
    BY <1>4, <1>5, <1>6, <1>9, <1>10 DEF Copied, Under
  <2> QED
    BY <1>10, <2>1 DEF Between, Tracked
<1>11. CASE b = w.indir_2 /\ b # 0
  <2>1. x.map = w.map
    BY <1>6, <1>11, UpperMarked
  <2>2. Apart(q, x.map)
    BY <1>3, <2>1
  <2>3. Under(q, x)
    BY <1>3, <1>6, <1>11 DEF Under
  <2> QED
    BY <1>5, <1>6, <1>8, <1>10, <2>2, <2>3 DEF SameCounts, x
<1>12. CASE w.indir_2 = 0 /\ b \in Blocks \ w.map
  <2> DEFINE r == [q EXCEPT ![<<Inode, N_DIRECT + 2>>] = b]
  <2>1. Apart(r, w.map \cup {b})
    BY <1>2, <1>3, <1>12, NewPlace
  <2>2. Under(r, w)
    <3>1. /\ Inode \in Holders /\ N_DIRECT + 2 \in Nat /\ Inode \notin Blocks
          /\ N_DIRECT + 2 \notin 1 .. N_DIRECT /\ N_DIRECT + 1 # N_DIRECT + 2
      BY Sizes DEF Holders
    <3> HIDE DEF r
    <3>2. Under([q EXCEPT ![<<Inode, N_DIRECT + 2>>] = b], w)
      BY <1>3, <1>12, <3>1, UnderNew
    <3> QED
      BY <3>2 DEF r
  <2>3. r[<<Inode, N_DIRECT + 2>>] = b
    BY <1>3
  <2> HIDE DEF r
  <2>4. Under(r, x)
    BY <1>6, <2>2, <2>3 DEF Under
  <2>5. Apart(r, x.map)
    BY <1>6, <2>1
  <2> QED
    BY <1>5, <1>6, <1>8, <1>10, <2>4, <2>5 DEF SameCounts, x
<1> QED
  BY <1>11, <1>12

\* A second-level block, there already or taken now.
OpenSecond(w, k, b) == [w EXCEPT !.map = @ \cup {b}, !.tbl2[k] = b]

LEMMA OpensSecond ==
    ASSUME NEW offset, NEW len, NEW w, Going(w, offset, len), Between(w),
           w.tbl2 \in [Ptrs -> Blocks], NEW k \in Ptrs,
           NEW b, \/ b = w.tbl2[k] /\ b # 0
                  \/ w.tbl2[k] = 0 /\ b \in Blocks \ w.map
    PROVE  LET x == OpenSecond(w, k, b)
           IN /\ Going(x, offset, len) /\ Between(x) /\ SameCounts(w, x)
              /\ x.indir_2 = w.indir_2 /\ x.tbl2 \in [Ptrs -> Blocks]
              /\ b \in x.map /\ b # x.indir_2
<1> DEFINE x == OpenSecond(w, k, b)
<1>1. PICK q : Tracked(q, w)
  BY DEF Between
<1>2. /\ w \in WriteStates /\ w.map \in SUBSET Blocks /\ Metadata \cup other \subseteq w.map
      /\ w.indir_2 \in Blocks
  BY DEF Going, WriteStates
<1>3. /\ Apart(q, w.map) /\ Under(q, w) /\ q \in [Places -> Blocks]
      /\ Copied(q, w, w.tbl2, w.indir_2)
      /\ <<Inode, N_DIRECT + 2>> \in Places /\ <<w.indir_2, k>> \in Places
      /\ w.indir_2 \in {0, q[<<Inode, N_DIRECT + 2>>]}
      /\ w.tbl2[k] \in {0, q[<<w.indir_2, k>>]}
  <2>1. Apart(q, w.map) /\ Under(q, w) /\ Copied(q, w, w.tbl2, w.indir_2)
    BY <1>1 DEF Tracked
  <2>2. <<Inode, N_DIRECT + 2>> \in Places /\ <<w.indir_2, k>> \in Places
    BY <1>2, Sizes DEF Places, Holders, Ptrs
  <2>3. q \in [Places -> Blocks]
    BY <2>1 DEF Apart
  <2>4. w.indir_2 \in {0, q[<<Inode, N_DIRECT + 2>>]}
    BY <2>1 DEF Under
  <2>5. w.tbl2[k] \in {0, q[<<w.indir_2, k>>]}
    BY <2>1 DEF Copied
  <2> QED
    BY <2>1, <2>2, <2>3, <2>4, <2>5
<1>4. b \in Blocks
  OBVIOUS
<1>5. /\ x.map = w.map \cup {b} /\ x.disk = w.disk /\ x.direct = w.direct
      /\ x.indir_1 = w.indir_1 /\ x.indir_2 = w.indir_2
      /\ x.tbl2 = [w.tbl2 EXCEPT ![k] = b]
      /\ x.cnt = w.cnt /\ x.len = w.len /\ x.full = w.full
      /\ x.offset_cnt = w.offset_cnt
  BY <1>2 DEF WriteStates, OpenSecond
<1>6. /\ x.tbl2 \in [Ptrs -> Blocks] /\ x.tbl2[k] = b
      /\ \A j \in Ptrs : j # k => x.tbl2[j] = w.tbl2[j]
  BY <1>4, <1>5
<1>7. x \in WriteStates
  BY <1>2, <1>4, <1>6 DEF WriteStates, OpenSecond
<1> HIDE DEF x
<1>8. Going(x, offset, len)
  BY <1>5, <1>7 DEF Going
<1>9. Stored(x, w.indir_2) = Stored(w, w.indir_2)
  BY <1>5 DEF Stored
<1>10. CASE b = w.tbl2[k] /\ b # 0
  <2>1. b \in w.map /\ b = q[<<w.indir_2, k>>]
    BY <1>3, <1>10 DEF Apart
  <2>2. b # w.indir_2
    <3>1. <<w.indir_2, k>> # <<Inode, N_DIRECT + 2>>
      BY <1>2, Sizes
    <3> QED
      BY <1>3, <1>10, <2>1, <3>1 DEF Apart
  <2>3. x.map = w.map /\ x.tbl2 = w.tbl2
    BY <1>5, <1>10, <2>1
  <2>4. Apart(q, x.map)
    BY <1>3, <2>3
  <2>5. Under(q, x)
    BY <1>3, <1>5 DEF Under
  <2>6. Copied(q, x, x.tbl2, x.indir_2)
    BY <1>3, <1>5, <1>9, <2>3 DEF Copied
  <2>7. Between(x)
    BY <2>4, <2>5, <2>6 DEF Between, Tracked
  <2> QED
    BY <1>5, <1>6, <1>8, <2>1, <2>2, <2>3, <2>7 DEF SameCounts, x
<1>11. CASE w.tbl2[k] = 0 /\ b \in Blocks \ w.map
  <2> DEFINE r == [q EXCEPT ![<<w.indir_2, k>>] = b]
  <2>1. Apart(r, w.map \cup {b}) /\ b # 0
    BY <1>2, <1>3, <1>11, NewPlace
  <2>2. Under(r, w)
    <3>1. /\ w.indir_2 \in Holders /\ w.indir_2 # Inode /\ k \in Nat
          /\ w.disk[w.indir_2].ptrs[k] = 0
      BY <1>2, <1>3, <1>11, Sizes DEF Holders, Copied, Stored, Ptrs
    <3> HIDE DEF r
    <3>2. Under([q EXCEPT ![<<w.indir_2, k>>] = b], w)
      BY <1>3, <3>1, UnderNew
    <3> QED
      BY <3>2 DEF r
  <2>3. /\ r[<<w.indir_2, k>>] = b
        /\ \A p \in Places : p # <<w.indir_2, k>> => r[p] = q[p]
    BY <1>3
  <2> HIDE DEF r
  <2>4. Under(r, x)
    BY <1>5, <2>2 DEF Under
  <2>5. b # w.indir_2
    BY <1>11, UpperMarked
  <2>6. Copied(r, x, x.tbl2, x.indir_2)
    <3>1. ASSUME NEW j \in Ptrs, j # k PROVE r[<<w.indir_2, j>>] = q[<<w.indir_2, j>>]
      BY <1>2, <2>3, <3>1, Sizes DEF Places, Holders, Ptrs
    <3>2. ASSUME NEW j \in Ptrs
          PROVE  /\ x.tbl2[j] \in {0, r[<<w.indir_2, j>>]}
                 /\ x.tbl2[j] = 0 => Stored(w, w.indir_2)[j] = 0
      <4>1. CASE j = k
        BY <1>6, <2>1, <2>3, <4>1
      <4>2. CASE j # k
        BY <1>3, <1>6, <3>1, <4>2 DEF Copied
      <4> QED
        BY <4>1, <4>2
    <3> QED
      BY <1>5, <1>6, <1>9, <3>2 DEF Copied
  <2>7. Between(x)
    BY <1>5, <2>1, <2>4, <2>6 DEF Between, Tracked
  <2> QED
    BY <1>5, <1>6, <1>8, <2>5, <2>7 DEF SameCounts, x
<1> QED
  BY <1>10, <1>11

\* What holds before and after a turn of the loop over the table of indir_2,
\* which is that of block d.
InSecond(w, d, offset, len) ==
    /\ Going(w, offset, len) /\ Between(w)
    /\ w.indir_2 = d /\ w.tbl2 \in [Ptrs -> Blocks]

Span1 == FS_BLOCK_SIZE * PtrsPerBlock
Span2 == Span1 * PtrsPerBlock

LEMMA Spans ==
    /\ Span1 \in Nat /\ Span2 \in Nat
    /\ PtrsPerBlock * FS_BLOCK_SIZE = Span1
    /\ MaxSize = FS_BLOCK_SIZE * N_DIRECT + Span1 + Span2
<1> DEFINE a == FS_BLOCK_SIZE
           p == PtrsPerBlock
<1>1. a \in Nat /\ p \in Nat /\ N_DIRECT \in Nat
  BY Sizes
<1>2. a * p \in Nat /\ p * a = a * p /\ p * p \in Nat
  BY <1>1
<1>3. (a * p) * p \in Nat /\ (a * p) * p = a * (p * p)
  BY <1>1, <1>2
<1>4. a * (N_DIRECT + p + p * p) = a * N_DIRECT + a * p + a * (p * p)
  BY <1>1, <1>2
<1> QED
  BY <1>2, <1>3, <1>4 DEF Span1, Span2, MaxSize

LEMMA SecondKeeps ==
    ASSUME NEW offset \in Nat, NEW len, NEW appends \in BOOLEAN,
           NEW w, NEW d, InSecond(w, d, offset, len), NEW k \in Ptrs
    PROVE  LET x == WriteSecond(w, k, offset, appends)
           IN InSecond(x, d, offset, len) /\ Walks(w, x, offset, len, Span1)
<1> DEFINE x == WriteSecond(w, k, offset, appends)
           a == Allocated(w, w.tbl2[k])
           span == PtrsPerBlock * FS_BLOCK_SIZE
<1>1. /\ w \in WriteStates /\ Going(w, offset, len) /\ Between(w)
      /\ w.indir_2 = d /\ w.tbl2 \in [Ptrs -> Blocks] /\ w.tbl2[k] \in Blocks
  BY DEF InSecond, Going
<1>2. span \in Nat /\ span = Span1
  BY Spans
<1> HIDE DEF span
<1>3. CASE w.full \/ w.len = 0
  <2>1. x = w
    BY <1>3 DEF WriteSecond
  <2>2. Walks(w, w, offset, len, span)
    BY <1>1, <1>2, <1>3, Rests
  <2> HIDE DEF x
  <2> QED
    BY <1>2, <2>1, <2>2 DEF x
<1>4. CASE ~(w.full \/ w.len = 0) /\ Before(w.offset_cnt, span, offset)
  <2> DEFINE v == Passed(w, span)
  <2>1. x = v
    BY <1>4 DEF WriteSecond, Passed, span
  <2> HIDE DEF x
  <2>2. /\ Going(v, offset, len) /\ SameTables(w, v) /\ Between(v)
        /\ v.offset_cnt = w.offset_cnt + span /\ v.cnt = w.cnt /\ v.full = w.full
    BY <1>1, <1>2, <1>4, Passes
  <2> HIDE DEF v
  <2>3. InSecond(v, d, offset, len)
    BY <1>1, <2>2 DEF InSecond, SameTables
  <2>4. Advanced(w, v, offset, span) /\ v \in WriteStates
    BY <1>4, <2>2 DEF Advanced, Going
  <2>5. Walks(w, v, offset, len, span)
    BY <1>1, <1>2, <2>4, AtNext DEF Walks
  <2> QED
    BY <1>2, <2>1, <2>3, <2>5 DEF x
<1>5. CASE ~(w.full \/ w.len = 0) /\ ~Before(w.offset_cnt, span, offset)
  <2>1. x = IF a.w.full THEN a.w
            ELSE WriteTable([a.w EXCEPT !.tbl2[k] = a.ptr], a.ptr, offset, appends)
    BY <1>5 DEF WriteSecond, span
  <2>2. ASSUME NEW b, x = WriteTable(OpenSecond(w, k, b), b, offset, appends),
               \/ b = w.tbl2[k] /\ b # 0
               \/ w.tbl2[k] = 0 /\ b \in Blocks \ w.map
        PROVE  InSecond(x, d, offset, len) /\ Walks(w, x, offset, len, Span1)
    <3> DEFINE v == OpenSecond(w, k, b)
               y == WriteTable(v, b, offset, appends)
    <3>1. /\ Going(v, offset, len) /\ Between(v) /\ SameCounts(w, v)
          /\ v.indir_2 = w.indir_2 /\ v.tbl2 \in [Ptrs -> Blocks]
          /\ b \in v.map /\ b # v.indir_2
      BY <1>1, <2>2, OpensSecond
    <3>2. x = y
      BY <2>2
    <3> HIDE DEF v, x
    <3>3. Going(y, offset, len) /\ Between(y) /\ SameUpper(v, y)
          /\ Walks(v, y, offset, len, FS_BLOCK_SIZE * PtrsPerBlock)
      BY <3>1, TableKeeps
    <3> HIDE DEF y
    <3>4. InSecond(y, d, offset, len)
      BY <1>1, <3>1, <3>3 DEF InSecond, SameUpper
    <3>5. Walks(w, y, offset, len, Span1)
      BY <3>1, <3>3 DEF Walks, At, SameCounts, Span1
    <3> QED
      BY <3>2, <3>4, <3>5 DEF x
  <2>3. CASE w.tbl2[k] # 0
    <3>1. a.w = w /\ a.ptr = w.tbl2[k]
      BY <2>3 DEF Allocated
    <3>2. w.map \cup {w.tbl2[k]} = w.map
      BY <1>1, UpperMarked
    <3>3. [w EXCEPT !.tbl2[k] = w.tbl2[k]] = OpenSecond(w, k, w.tbl2[k])
      BY <1>1, <3>2 DEF WriteStates, OpenSecond
    <3>4. x = WriteTable(OpenSecond(w, k, w.tbl2[k]), w.tbl2[k], offset, appends)
      BY <1>5, <2>1, <3>1, <3>3
    <3> QED
      BY <2>2, <2>3, <3>4
  <2>4. CASE w.tbl2[k] = 0 /\ Free(w.map) = {}
    <3> DEFINE v == RanOut(w)
    <3>1. a.w = v
      BY <2>4 DEF Allocated, RanOut
    <3>2. Going(v, offset, len) /\ Between(v) /\ SameTables(w, v) /\ v.full
      BY <1>1, RunsOut
    <3>3. x = v
      BY <2>1, <3>1, <3>2
    <3> HIDE DEF x, v
    <3>4. InSecond(v, d, offset, len)
      BY <1>1, <3>2 DEF InSecond, SameTables
    <3> QED
      BY <3>2, <3>3, <3>4 DEF x, Walks, At
  <2>5. CASE w.tbl2[k] = 0 /\ Free(w.map) # {}
    <3> DEFINE b == get_next_block(w.map)
    <3>1. a.w = [w EXCEPT !.map = @ \cup {b}] /\ a.ptr = b
      BY <2>5 DEF Allocated
    <3>2. b \in Blocks \ w.map
      BY <2>5, NextBlockIsFree
    <3> HIDE DEF b
    <3>3. ~a.w.full /\ [a.w EXCEPT !.tbl2[k] = a.ptr] = OpenSecond(w, k, b)
      BY <1>1, <1>5, <3>1 DEF WriteStates, OpenSecond
    <3>4. x = WriteTable(OpenSecond(w, k, b), b, offset, appends)
      BY <2>1, <3>1, <3>3
    <3> QED
      BY <2>2, <2>5, <3>2, <3>4
  <2> QED
    BY <2>3, <2>4, <2>5
<1> QED
  BY <1>3, <1>4, <1>5

\* SecondTurns is the function its definition describes.
AreSeconds(f, w, offset, appends) ==
    f = [k \in 0 .. PtrsPerBlock |->
            IF k = 0 THEN w ELSE WriteSecond(f[k - 1], k, offset, appends)]

SecondsFollow(t, w, offset, appends) ==
    /\ t[0] = w
    /\ \A k \in 1 .. PtrsPerBlock : t[k] = WriteSecond(t[k - 1], k, offset, appends)

LEMMA SecondTurnsFollow ==
    ASSUME NEW offset \in Nat, NEW len, NEW appends \in BOOLEAN,
           NEW w, NEW d, InSecond(w, d, offset, len)
    PROVE  SecondsFollow(SecondTurns(w, offset, appends), w, offset, appends)
<1> DEFINE n == PtrsPerBlock
           S == {x \in WriteStates : InSecond(x, d, offset, len)}
           step == [p \in (1 .. n) \X S |-> WriteSecond(p[2], p[1], offset, appends)]
           t == SecondTurns(w, offset, appends)
<1>0. n \in Nat /\ Ptrs = 1 .. n
  BY Sizes DEF Ptrs
<1>1. ASSUME NEW k \in 1 .. n, NEW x \in S
      PROVE  WriteSecond(x, k, offset, appends) \in S
  <2>1. InSecond(WriteSecond(x, k, offset, appends), d, offset, len)
    BY <1>0, SecondKeeps
  <2> QED
    BY <2>1 DEF InSecond, Going
<1>2. w \in S
  BY DEF InSecond, Going
<1>3. step \in [(1 .. n) \X S -> S]
  <2>1. \A p \in (1 .. n) \X S : WriteSecond(p[2], p[1], offset, appends) \in S
    BY <1>1
  <2> QED
    BY <2>1
<1>4. \A k \in 1 .. n, x \in S : step[<<k, x>>] = WriteSecond(x, k, offset, appends)
  OBVIOUS
<1> HIDE DEF S, step
<1>5. PICK f : Follows(f, n, S, step, w)
  BY <1>0, <1>2, <1>3, Iterates
<1>6. AreSeconds(f, w, offset, appends)
  <2>1. f \in [0 .. n -> S] /\ f[0] = w
    BY <1>5 DEF Follows
  <2>2. ASSUME NEW k \in 0 .. n, k # 0
        PROVE  f[k] = WriteSecond(f[k - 1], k, offset, appends)
    <3>1. k \in 1 .. n /\ k - 1 \in 0 .. n /\ f[k - 1] \in S
      BY <1>0, <2>1, <2>2
    <3> QED
      BY <1>4, <1>5, <3>1 DEF Follows
  <2> QED
    BY <2>1, <2>2 DEF AreSeconds
<1>7. AreSeconds(t, w, offset, appends)
  <2>1. \E g : AreSeconds(g, w, offset, appends)
    BY <1>6
  <2> QED
    BY <2>1 DEF SecondTurns, AreSeconds
<1> HIDE DEF t
<1>8. t[0] = w /\ \A k \in 1 .. n : t[k] = WriteSecond(t[k - 1], k, offset, appends)
  BY <1>0, <1>7 DEF AreSeconds
<1> QED
  BY <1>8 DEF t, SecondsFollow

\* The same after the last turn.
LEMMA SecondTurnsKeep ==
    ASSUME NEW offset \in Nat, NEW len, NEW appends \in BOOLEAN,
           NEW w, NEW d, InSecond(w, d, offset, len)
    PROVE  LET x == SecondTurns(w, offset, appends)[PtrsPerBlock]
           IN InSecond(x, d, offset, len) /\ Walks(w, x, offset, len, Span2)
<1> DEFINE n == PtrsPerBlock
           S == {x \in WriteStates : InSecond(x, d, offset, len)}
           t == SecondTurns(w, offset, appends)
<1>0. n \in Nat /\ Ptrs = 1 .. n
  BY Sizes DEF Ptrs
<1>1. ASSUME NEW k \in 1 .. n, NEW x \in S
      PROVE  /\ WriteSecond(x, k, offset, appends) \in S
             /\ Walks(x, WriteSecond(x, k, offset, appends), offset, len, Span1)
  <2>1. /\ InSecond(WriteSecond(x, k, offset, appends), d, offset, len)
        /\ Walks(x, WriteSecond(x, k, offset, appends), offset, len, Span1)
    BY <1>0, SecondKeeps
  <2> QED
    BY <2>1 DEF InSecond, Going
<1>2. w \in S
  BY DEF InSecond, Going
<1> HIDE DEF S
<1>3. t[0] = w /\ \A k \in 1 .. n : t[k] = WriteSecond(t[k - 1], k, offset, appends)
  <2>1. SecondsFollow(t, w, offset, appends)
    BY SecondTurnsFollow
  <2> HIDE DEF t
  <2> QED
    BY <2>1 DEF SecondsFollow
<1> HIDE DEF t
<1>4. \A k \in 0 .. n : t[k] \in S /\ Walks(w, t[k], offset, len, Span1 * k)
  <2> DEFINE K == {k \in 0 .. n : t[k] \in S /\ Walks(w, t[k], offset, len, Span1 * k)}
  <2>1. 0 \in K
    <3>1. Span1 * 0 = 0
      BY Spans
    <3>2. Walks(w, w, offset, len, 0)
      BY DEF Walks
    <3> QED
      BY <1>0, <1>2, <1>3, <3>1, <3>2
  <2>2. ASSUME NEW k \in 0 .. n, k \in K, k < n PROVE k + 1 \in K
    <3>1. k + 1 \in 1 .. n /\ k + 1 \in 0 .. n /\ (k + 1) - 1 = k /\ k \in Nat
      BY <1>0, <2>2
    <3>2. t[k + 1] = WriteSecond(t[k], k + 1, offset, appends)
      BY <1>3, <3>1
    <3>3. t[k + 1] \in S /\ Walks(t[k], t[k + 1], offset, len, Span1)
      BY <1>1, <2>2, <3>1, <3>2
    <3>4. /\ Span1 \in Nat /\ Span1 * k \in Nat
          /\ \A p \in Nat : p + Span1 * (k + 1) = (p + Span1 * k) + Span1
      BY <3>1, Spans, OneMore
    <3>5. Walks(w, t[k + 1], offset, len, Span1 * (k + 1))
      <4>1. Walks(w, t[k], offset, len, Span1 * k)
        BY <2>2
      <4> SUFFICES ASSUME NEW p \in Nat, len \in Nat, len > 0, At(w, offset, p)
                   PROVE  At(t[k + 1], offset, p + Span1 * (k + 1))
        BY DEF Walks
      <4> DEFINE r == p + Span1 * k
      <4>2. At(t[k], offset, r) /\ r \in Nat
        BY <3>4, <4>1 DEF Walks
      <4>3. r + Span1 = p + Span1 * (k + 1)
        BY <3>4
      <4> HIDE DEF r
      <4>4. At(t[k + 1], offset, r + Span1)
        BY <3>3, <4>2 DEF Walks
      <4> QED
        BY <4>3, <4>4
    <3> QED
      BY <3>1, <3>3, <3>5
  <2> HIDE DEF K
  <2>3. \A k \in 0 .. n : k \in K
    BY <1>0, <2>1, <2>2, UpTo
  <2> QED
    BY <2>3 DEF K
<1>5. n \in 0 .. n
  BY <1>0
<1> QED
  BY <1>4, <1>5 DEF S, t, Span2

\* The table of indir_2 is written back, or not.
LEMMA FlushesSecond ==
    ASSUME NEW offset, NEW len, NEW w, NEW d, InSecond(w, d, offset, len)
    PROVE  LET x == Flushed(Loaded(w, w.tbl2), d)
           IN Going(x, offset, len) /\ Between(x) /\ SameCounts(w, x)
<1> DEFINE y == Loaded(w, w.tbl2)
           x == Flushed(y, d)
<1>1. /\ w \in WriteStates /\ w.cnt + w.len = len /\ w.offset_cnt <= offset
      /\ Going(w, offset, len) /\ Between(w)
      /\ w.indir_2 = d /\ w.tbl2 \in [Ptrs -> Blocks]
  BY DEF InSecond, Going
<1>2. /\ y.map = w.map /\ y.disk = w.disk /\ y.direct = w.direct
      /\ y.indir_1 = w.indir_1 /\ y.indir_2 = w.indir_2 /\ y.tbl = w.tbl2
      /\ y.tbl2 = w.tbl2 /\ y.cnt = w.cnt /\ y.len = w.len /\ y.full = w.full
      /\ y.offset_cnt = w.offset_cnt
  BY <1>1 DEF WriteStates, Loaded
<1>3. y \in WriteStates
  BY <1>1 DEF WriteStates, Loaded
<1> HIDE DEF y
<1>4. Going(y, offset, len) /\ Between(y)
  BY <1>1, <1>2, <1>3, CountersOnly
<1>5. CASE ~y.full /\ y.offset_cnt + y.cnt > size
  <2> DEFINE v == PutTable(y, d, y.tbl)
  <2>1. x = v
    BY <1>5 DEF Flushed, PutTable
  <2> HIDE DEF x
  <2>2. PICK q : Tracked(q, y)
    BY <1>4 DEF Between
  <2>3. Copied(q, y, y.tbl, d)
    BY <1>1, <1>2, <2>2 DEF Tracked
  <2>4. d \in y.map /\ y.tbl \in [Ptrs -> Blocks] /\ y.tbl = y.tbl2
    BY <1>1, <1>2, UpperMarked
  <2>5. /\ Going(v, offset, len) /\ Tracked(q, v)
        /\ v.offset_cnt = y.offset_cnt /\ v.cnt = y.cnt /\ v.len = y.len
        /\ v.full = y.full
    BY <1>4, <2>2, <2>3, <2>4, PutsTable
  <2> HIDE DEF v
  <2> QED
    BY <1>2, <2>1, <2>5 DEF x, y, Between, SameCounts
<1>6. CASE ~(~y.full /\ y.offset_cnt + y.cnt > size)
  <2>1. x = y
    BY <1>6 DEF Flushed
  <2> HIDE DEF x
  <2> QED
    BY <1>2, <1>4, <2>1 DEF x, y, SameCounts
<1> QED
  BY <1>5, <1>6

LEMMA Indir2Keeps ==
    ASSUME NEW offset \in Nat, NEW len, NEW appends \in BOOLEAN,
           NEW w, Going(w, offset, len), Between(w)
    PROVE  LET x == WriteIndir2(w, offset, appends)
           IN /\ Going(x, offset, len) /\ Between(x)
              /\ Walks(w, x, offset, len, Span2)
<1> DEFINE x == WriteIndir2(w, offset, appends)
           a == Allocated(w, w.indir_2)
           first == [a.w EXCEPT !.indir_2 = a.ptr, !.tbl2 = a.w.disk[a.ptr].ptrs]
           last(v) == SecondTurns(v, offset, appends)[PtrsPerBlock]
<1>1. w \in WriteStates /\ Span2 \in Nat
  BY Spans DEF Going
<1>0. x = IF w.full \/ w.len = 0 THEN w
          ELSE IF a.w.full THEN a.w
          ELSE Flushed(Loaded(last(first), last(first).tbl2), a.ptr)
  BY DEF WriteIndir2, Loaded
<1>2. CASE w.full \/ w.len = 0
  <2> HIDE DEF x, first, last, a
  <2>1. x = w
    BY <1>0, <1>2
  <2>2. Walks(w, w, offset, len, Span2)
    BY <1>1, <1>2, Rests
  <2> QED
    BY <2>1, <2>2 DEF x
<1>3. CASE ~(w.full \/ w.len = 0)
  <2>1. x = IF a.w.full THEN a.w
            ELSE Flushed(Loaded(last(first), last(first).tbl2), a.ptr)
    BY <1>0, <1>3
  <2> HIDE DEF x
  <2>2. ASSUME NEW b, \/ b = w.indir_2 /\ b # 0
                      \/ w.indir_2 = 0 /\ b \in Blocks \ w.map,
               x = LET v == last(OpenIndir2(w, b)) IN Flushed(Loaded(v, v.tbl2), b)
        PROVE  Going(x, offset, len) /\ Between(x) /\ Walks(w, x, offset, len, Span2)
    <3> DEFINE u == OpenIndir2(w, b)
               v == last(u)
               y == Flushed(Loaded(v, v.tbl2), b)
    <3>1. /\ Going(u, offset, len) /\ Between(u) /\ SameCounts(w, u)
          /\ u.indir_2 = b /\ u.tbl2 \in [Ptrs -> Blocks]
      BY <2>2, OpensIndir2
    <3>2. x = y
      BY <2>2
    <3> HIDE DEF u
    <3>3. InSecond(u, b, offset, len)
      BY <3>1 DEF InSecond
    <3>4. InSecond(v, b, offset, len) /\ Walks(u, v, offset, len, Span2)
      BY <3>3, SecondTurnsKeep
    <3> HIDE DEF v
    <3>5. Going(y, offset, len) /\ Between(y) /\ SameCounts(v, y)
      BY <3>4, FlushesSecond
    <3> HIDE DEF y
    <3>6. Walks(w, y, offset, len, Span2)
      BY <3>1, <3>4, <3>5 DEF Walks, At, SameCounts
    <3> QED
      BY <3>2, <3>5, <3>6
  <2>3. CASE w.indir_2 # 0
    <3>1. a.w = w /\ a.ptr = w.indir_2
      BY <2>3 DEF Allocated
    <3>2. w.map \cup {w.indir_2} = w.map
      BY UpperMarked
    <3>3. first = OpenIndir2(w, w.indir_2)
      BY <1>1, <3>1, <3>2 DEF WriteStates, OpenIndir2
    <3>4. ~a.w.full
      BY <1>3, <3>1
    <3> HIDE DEF a, first
    <3>5. x = LET v == last(OpenIndir2(w, w.indir_2))
              IN Flushed(Loaded(v, v.tbl2), w.indir_2)
      BY <2>1, <3>1, <3>3, <3>4
    <3> QED
      BY <2>2, <2>3, <3>5 DEF x
  <2>4. CASE w.indir_2 = 0 /\ Free(w.map) = {}
    <3> DEFINE v == RanOut(w)
    <3>1. a.w = v
      BY <2>4 DEF Allocated, RanOut
    <3>2. Going(v, offset, len) /\ Between(v) /\ v.full
      BY RunsOut
    <3> HIDE DEF a, first, v
    <3>3. x = v
      BY <2>1, <3>1, <3>2
    <3> QED
      BY <3>2, <3>3 DEF x, Walks, At
  <2>5. CASE w.indir_2 = 0 /\ Free(w.map) # {}
    <3> DEFINE b == get_next_block(w.map)
    <3>1. a.w = [w EXCEPT !.map = @ \cup {b}] /\ a.ptr = b
      BY <2>5 DEF Allocated
    <3>2. b \in Blocks \ w.map
      BY <2>5, NextBlockIsFree
    <3> HIDE DEF b
    <3>3. a.w.disk = w.disk /\ ~a.w.full
      BY <1>1, <1>3, <3>1 DEF WriteStates
    <3>4. first = OpenIndir2(w, b)
      BY <1>1, <3>1, <3>3 DEF WriteStates, OpenIndir2
    <3> HIDE DEF a, first
    <3>5. x = LET v == last(OpenIndir2(w, b)) IN Flushed(Loaded(v, v.tbl2), b)
      BY <2>1, <3>1, <3>3, <3>4
    <3> QED
      BY <2>2, <2>5, <3>2, <3>5 DEF x
  <2> QED
    BY <2>3, <2>4, <2>5 DEF x
<1> QED
  BY <1>2, <1>3

-----------------------------------------------------------------------------
(* write. *)

\* A write leaves pointers apart, and what it counts fits a file.
LEMMA WrittenKeeps ==
    ASSUME FileInv, NEW offset \in Nat, NEW len \in Nat, len > 0,
           NEW appends \in BOOLEAN
    PROVE  LET w == Written(offset, len, appends)
           IN /\ Going(w, offset, len) /\ Between(w)
              /\ w.full \/ w.cnt = 0 \/ offset + w.cnt <= MaxSize
<1> DEFINE v == [map |-> block_map, disk |-> disk, direct |-> direct,
                 indir_1 |-> indir_1, indir_2 |-> indir_2, tbl |-> <<>>,
                 tbl2 |-> <<>>, offset_cnt |-> 0, cnt |-> 0, len |-> len,
                 full |-> FALSE]
           x == WriteDirect(v, offset, appends)
           y == WriteIndir1(x, offset, appends)
           z == WriteIndir2(y, offset, appends)
           w == Written(offset, len, appends)
<1>1. w = z
  BY DEF Written
<1> HIDE DEF w
<1>2. Going(v, offset, len)
  <2>1. v \in WriteStates
    BY DEF WriteStates, FileInv, TypeOK
  <2> QED
    BY <2>1 DEF Going, FileInv, FreeBlocksAreZero
<1>3. Between(v)
  <2>1. PICK q : Apart(q, block_map) /\ Under(q, Now)
    BY DEF FileInv
  <2>2. Under(q, v)
    BY <2>1 DEF Under, Now
  <2>3. Copied(q, v, v.tbl2, v.indir_2)
    BY DEF Copied
  <2> QED
    BY <2>1, <2>2, <2>3 DEF Between, Tracked
<1>4. At(v, offset, 0)
  BY DEF At
<1> HIDE DEF v
<1> DEFINE p == FS_BLOCK_SIZE * N_DIRECT
<1>5. p \in Nat
  BY Sizes
<1>6. Going(x, offset, len) /\ Between(x) /\ At(x, offset, 0 + p)
  <2>1. /\ Going(x, offset, len) /\ Between(x)
        /\ Walks(v, x, offset, len, FS_BLOCK_SIZE * N_DIRECT)
    BY <1>2, <1>3, DirectKeeps
  <2> HIDE DEF x
  <2> QED
    BY <1>4, <2>1 DEF Walks
<1>7. At(x, offset, p)
  BY <1>5, <1>6
<1> HIDE DEF x
<1>8. Going(y, offset, len) /\ Between(y) /\ At(y, offset, p + Span1)
  <2>1. /\ Going(y, offset, len) /\ Between(y)
        /\ Walks(x, y, offset, len, FS_BLOCK_SIZE * PtrsPerBlock)
    BY <1>6, Indir1Keeps
  <2> HIDE DEF y, p
  <2> QED
    BY <1>5, <1>7, <2>1 DEF Walks, Span1
<1> HIDE DEF y
<1>9. p + Span1 \in Nat /\ (p + Span1) + Span2 = MaxSize
  BY <1>5, Spans
<1>10. Going(z, offset, len) /\ Between(z) /\ At(z, offset, MaxSize)
  <2>1. /\ Going(z, offset, len) /\ Between(z)
        /\ Walks(y, z, offset, len, Span2)
    BY <1>8, Indir2Keeps
  <2> HIDE DEF z, p
  <2> QED
    BY <1>8, <1>9, <2>1 DEF Walks
<1> HIDE DEF z
<1>11. w.full \/ w.cnt = 0 \/ offset + w.cnt <= MaxSize
  BY <1>1, <1>10 DEF At
<1> QED
  BY <1>1, <1>10, <1>11 DEF w

LEMMA WriteKeeps ==
    ASSUME FileInv, NEW offset \in 0 .. size, NEW len \in Lens,
           offset < size => overwrites < MaxOverwrites,
           fs_write(offset, len)
    PROVE  FileInv'
<1> DEFINE appends == offset = size
           w == Written(offset, len, appends)
<1>1. /\ TypeOK /\ size \in 0 .. MaxSize /\ MaxSize \in Nat
      /\ offset \in Nat /\ len \in Nat /\ len > 0 /\ appends \in BOOLEAN
  BY Sizes, SizesAssumption DEF FileInv, TypeOK
<1>2. /\ Going(w, offset, len) /\ Between(w)
      /\ w.full \/ w.cnt = 0 \/ offset + w.cnt <= MaxSize
  BY <1>1, WrittenKeeps
<1>3. /\ block_map' = w.map /\ disk' = w.disk /\ direct' = w.direct
      /\ indir_1' = w.indir_1 /\ indir_2' = w.indir_2 /\ other' = other
      /\ overwrites' = IF appends THEN overwrites ELSE overwrites + 1
      /\ IF w.full THEN ret' = Reply("write", ENOSPC, 0) /\ size' = size
         ELSE ret' = Reply("write", OK, len - w.cnt) /\ size' = Larger(offset + w.cnt, size)
  BY DEF fs_write
<1> HIDE DEF w
<1>4. w \in WriteStates /\ w.cnt \in Nat /\ w.len \in Nat /\ w.cnt + w.len = len
  BY <1>2 DEF Going, WriteStates
<1>5. size' \in 0 .. MaxSize
  BY <1>1, <1>2, <1>3, <1>4 DEF Larger
<1>6. overwrites' \in 0 .. MaxOverwrites
  BY <1>1, <1>3, SizesAssumption DEF TypeOK
<1>7. ret' \in [call : {"write", "truncate"}, code : {OK, EINVAL, ENOSPC},
                missing : Nat]
  <2>1. len - w.cnt \in Nat
    BY <1>1, <1>4
  <2> QED
    BY <1>1, <1>3, <2>1 DEF Reply
<1>8. TypeOK'
  BY <1>3, <1>4, <1>5, <1>6, <1>7 DEF TypeOK, WriteStates, Blocks, Ptrs, Bytes, BlockValues
<1>9. FreeBlocksAreZero' /\ (Metadata \cup other \subseteq block_map)'
  BY <1>2, <1>3 DEF Going, FreeBlocksAreZero, Blocks, Metadata, ZeroBlock, Bytes, Ptrs
<1>10. (Metadata \cap other = {})'
  BY <1>3 DEF FileInv, Metadata
<1>11. (\E q : Apart(q, block_map) /\ Under(q, Now))'
  <2>1. PICK q : Apart(q, w.map) /\ Under(q, w)
    BY <1>2 DEF Between, Tracked
  <2>2. Apart(q, block_map)'
    BY <1>3, <2>1 DEF Apart, Places, Holders, Blocks, Metadata
  <2>3. Under(q, Now)'
    BY <1>3, <2>1 DEF Under, Now, Blocks, Ptrs
  <2> QED
    BY <2>2, <2>3
<1> QED
  BY <1>8, <1>9, <1>10, <1>11 DEF FileInv

-----------------------------------------------------------------------------
(* truncate. *)

\* The slots before a null pointer are not null.
LEMMA BeforeNullIsSet ==
    ASSUME NEW n \in Nat, NEW tbl \in [1 .. n -> Blocks], NEW k \in BeforeNull(tbl)
    PROVE  k \in 1 .. n /\ tbl[k] # 0
<1>1. k \in 1 .. n /\ k \in 1 .. k
  BY DEF BeforeNull
<1> QED
  BY <1>1 DEF BeforeNull

\* The places whose blocks truncate frees: those of the inode are cleared, and
\* the others are in blocks it frees as well.
FreedPlace(p) ==
    \/ \E k \in BeforeNull(direct) : p = <<Inode, k>>
    \/ p \in {<<Inode, N_DIRECT + 1>>, <<Inode, N_DIRECT + 2>>}
    \/ p[1] \in Released \cap Blocks

LEMMA ReleasedAreFreed ==
    ASSUME TypeOK, NEW q, Apart(q, block_map), Under(q, Now), NEW b \in Released
    PROVE  b # 0 /\ \E p \in Places : q[p] = b /\ FreedPlace(p)
<1>1. /\ direct \in [1 .. N_DIRECT -> Blocks] /\ indir_1 \in Blocks /\ indir_2 \in Blocks
      /\ \A c \in Blocks : disk[c].ptrs \in [1 .. PtrsPerBlock -> Blocks]
      /\ N_DIRECT \in Nat /\ PtrsPerBlock \in Nat
  BY Sizes DEF TypeOK, BlockValues, Ptrs
<1>2. /\ \A k \in 1 .. N_DIRECT : direct[k] \in {0, q[<<Inode, k>>]}
      /\ indir_1 \in {0, q[<<Inode, N_DIRECT + 1>>]}
      /\ indir_2 \in {0, q[<<Inode, N_DIRECT + 2>>]}
      /\ \A c \in Blocks, k \in Ptrs : disk[c].ptrs[k] \in {0, q[<<c, k>>]}
  BY DEF Under, Now
<1>3. /\ \A k \in 1 .. N_DIRECT + 2 : <<Inode, k>> \in Places
      /\ \A c \in Blocks, k \in Ptrs : <<c, k>> \in Places
  BY Sizes DEF Places, Holders, Ptrs
\* a pointer of a block that is freed too
<1>4. ASSUME NEW c \in Blocks, c \in Released, NEW k \in Ptrs,
             disk[c].ptrs[k] = b, b # 0
      PROVE  \E p \in Places : q[p] = b /\ FreedPlace(p)
  <2>1. q[<<c, k>>] = b /\ <<c, k>> \in Places
    BY <1>2, <1>3, <1>4
  <2>2. FreedPlace(<<c, k>>)
    BY <1>4 DEF FreedPlace
  <2> QED
    BY <2>1, <2>2
<1>5. ASSUME NEW c \in Blocks, NEW e \in UpToNull(disk[c].ptrs)
      PROVE  e # 0 /\ \E k \in Ptrs : disk[c].ptrs[k] = e
  <2>1. PICK k \in BeforeNull(disk[c].ptrs) : e = disk[c].ptrs[k]
    BY DEF UpToNull
  <2> QED
    BY <1>1, <2>1, BeforeNullIsSet DEF Ptrs
<1>6. CASE b \in UpToNull(direct)
  <2>1. PICK k \in BeforeNull(direct) : b = direct[k]
    BY <1>6 DEF UpToNull
  <2>2. k \in 1 .. N_DIRECT /\ b # 0
    BY <1>1, <2>1, BeforeNullIsSet
  <2>3. q[<<Inode, k>>] = b /\ <<Inode, k>> \in Places
    BY <1>1, <1>2, <1>3, <2>1, <2>2
  <2>4. FreedPlace(<<Inode, k>>)
    BY <2>1 DEF FreedPlace
  <2> QED
    BY <2>2, <2>3, <2>4
<1>7. CASE indir_1 # 0 /\ b \in {indir_1} \cup UpToNull(disk[indir_1].ptrs)
  <2>1. indir_1 \in Released
    BY <1>7 DEF Released
  <2>2. CASE b = indir_1
    <3>1. q[<<Inode, N_DIRECT + 1>>] = b /\ <<Inode, N_DIRECT + 1>> \in Places
      BY <1>1, <1>2, <1>3, <1>7, <2>2
    <3> QED
      BY <1>7, <2>2, <3>1 DEF FreedPlace
  <2>3. CASE b \in UpToNull(disk[indir_1].ptrs)
    BY <1>1, <1>4, <1>5, <2>1, <2>3
  <2> QED
    BY <1>7, <2>2, <2>3
<1>8. CASE indir_2 # 0 /\ b \in {indir_2} \cup Visited(disk[indir_2].ptrs)
                  \cup UNION {UpToNull(disk[c].ptrs) : c \in Visited(disk[indir_2].ptrs)}
  <2>1. indir_2 \in Released /\ Visited(disk[indir_2].ptrs) \subseteq Released
    BY <1>8 DEF Released
  <2>2. ASSUME NEW c \in Visited(disk[indir_2].ptrs)
        PROVE  c # 0 /\ c \in Blocks /\ \E k \in Ptrs : disk[indir_2].ptrs[k] = c
    <3>1. PICK i \in 0 .. PtrsPerBlock - 1 : c = disk[indir_2].ptrs[i + 1]
      BY DEF Visited
    <3>2. c # 0
      BY DEF Visited
    <3>3. i + 1 \in Ptrs
      BY <1>1 DEF Ptrs
    <3> QED
      BY <1>1, <3>1, <3>2, <3>3 DEF Ptrs
  <2>3. CASE b = indir_2
    <3>1. q[<<Inode, N_DIRECT + 2>>] = b /\ <<Inode, N_DIRECT + 2>> \in Places
      BY <1>1, <1>2, <1>3, <1>8, <2>3
    <3> QED
      BY <1>8, <2>3, <3>1 DEF FreedPlace
  <2>4. CASE b \in Visited(disk[indir_2].ptrs)
    BY <1>1, <1>4, <2>1, <2>2, <2>4
  <2>5. CASE b \in UNION {UpToNull(disk[c].ptrs) : c \in Visited(disk[indir_2].ptrs)}
    <3>1. PICK c \in Visited(disk[indir_2].ptrs) : b \in UpToNull(disk[c].ptrs)
      BY <2>5
    <3>2. c \in Blocks /\ c \in Released
      BY <2>1, <2>2
    <3> QED
      BY <1>4, <1>5, <3>1, <3>2
  <2> QED
    BY <1>8, <2>3, <2>4, <2>5
<1>9. \/ b \in UpToNull(direct)
      \/ indir_1 # 0 /\ b \in {indir_1} \cup UpToNull(disk[indir_1].ptrs)
      \/ indir_2 # 0 /\ b \in {indir_2} \cup Visited(disk[indir_2].ptrs)
                  \cup UNION {UpToNull(disk[c].ptrs) : c \in Visited(disk[indir_2].ptrs)}
  BY DEF Released
<1> QED
  BY <1>6, <1>7, <1>8, <1>9

LEMMA ZeroIsABlock == ZeroBlock \in BlockValues
<1>1. 0 \in Blocks /\ 0 \in Int
  BY Sizes
<1> QED
  BY <1>1 DEF ZeroBlock, BlockValues

LEMMA TruncateKeeps ==
    ASSUME FileInv, fs_truncate
    PROVE  FileInv'
<1>1. /\ TypeOK /\ FreeBlocksAreZero /\ Metadata \cup other \subseteq block_map
      /\ Metadata \cap other = {}
  BY DEF FileInv
<1>2. /\ block_map' = block_map \ Released /\ direct' = direct_cleared
      /\ disk' = [b \in Blocks |-> IF b \in Released THEN ZeroBlock ELSE disk[b]]
      /\ indir_1' = 0 /\ indir_2' = 0 /\ size' = 0
      /\ ret' = Reply("truncate", OK, 0)
      /\ other' = other /\ overwrites' = overwrites
  BY DEF fs_truncate, Zeroed
<1>3. PICK q : Apart(q, block_map) /\ Under(q, Now)
  BY DEF FileInv
<1>4. \A b \in Released : b # 0 /\ \E p \in Places : q[p] = b /\ FreedPlace(p)
  BY <1>1, <1>3, ReleasedAreFreed
<1>5. /\ q \in [Places -> Blocks]
      /\ \A p \in Places : q[p] # 0 => q[p] \in block_map \ (Metadata \cup other)
      /\ \A p, r \in Places : q[p] = q[r] /\ q[p] # 0 => p = r
  BY <1>3 DEF Apart
<1>6. \A p \in Places : q[p] \in Released => FreedPlace(p)
  BY <1>4, <1>5
<1>7. Released \cap (Metadata \cup other) = {}
  BY <1>4, <1>5
<1>8. TypeOK'
  <2>1. direct_cleared \in [1 .. N_DIRECT -> Blocks]
    BY <1>1, Sizes DEF direct_cleared, TypeOK
  <2>2. disk' \in [Blocks -> BlockValues]
    BY <1>1, <1>2, ZeroIsABlock DEF TypeOK
  <2>3. 0 \in Blocks /\ 0 \in 0 .. MaxSize
    BY Sizes
  <2> QED
    BY <1>1, <1>2, <2>1, <2>2, <2>3
       DEF TypeOK, Reply, BlockValues, Blocks, Ptrs, Bytes
<1>9. FreeBlocksAreZero'
  BY <1>1, <1>2 DEF FreeBlocksAreZero, Blocks, ZeroBlock, Bytes, Ptrs
<1>10. (Metadata \cup other \subseteq block_map)' /\ (Metadata \cap other = {})'
  BY <1>1, <1>2, <1>7 DEF Metadata
<1>r. PICK r : r = [p \in Places |-> IF q[p] \in Released THEN 0 ELSE q[p]]
  OBVIOUS
<1>11. Apart(r, block_map)'
  <2>1. r \in [Places -> Blocks]
    BY <1>5, <1>r, Sizes
  <2>2. \A p \in Places : r[p] # 0 => r[p] = q[p] /\ q[p] \notin Released
    BY <1>r
  <2>3. \A p \in Places : r[p] # 0 => r[p] \in block_map' \ (Metadata \cup other')
    BY <1>2, <1>5, <2>2
  <2>4. \A p, s \in Places : r[p] = r[s] /\ r[p] # 0 => p = s
    BY <1>5, <2>2
  <2> QED
    BY <2>1, <2>3, <2>4 DEF Apart, Places, Holders, Blocks, Metadata
<1>12. ASSUME NEW p \in Places, NEW v, v \in {0, q[p]}, v # 0, ~FreedPlace(p)
       PROVE  v = r[p]
  BY <1>6, <1>12, <1>r
<1>13. Under(q, Now) /\ direct \in [1 .. N_DIRECT -> Blocks]
  BY <1>1, <1>3 DEF TypeOK
<1>14. ASSUME NEW k \in 1 .. N_DIRECT PROVE direct_cleared[k] \in {0, r[<<Inode, k>>]}
  <2>1. <<Inode, k>> \in Places /\ k \in Nat
    BY Sizes DEF Places, Holders
  <2>2. CASE k \in BeforeNull(direct)
    BY <2>2 DEF direct_cleared
  <2>3. CASE k \notin BeforeNull(direct) /\ direct[k] # 0
    <3>1. ~FreedPlace(<<Inode, k>>)
      BY <2>3, Sizes DEF FreedPlace
    <3>2. direct[k] \in {0, q[<<Inode, k>>]} /\ direct_cleared[k] = direct[k]
      BY <1>13, <2>3 DEF Under, Now, direct_cleared
    <3> QED
      BY <1>12, <2>1, <2>3, <3>1, <3>2
  <2>4. CASE k \notin BeforeNull(direct) /\ direct[k] = 0
    BY <2>4 DEF direct_cleared
  <2> QED
    BY <2>2, <2>3, <2>4
<1>15. ASSUME NEW b \in Blocks, NEW k \in Ptrs
       PROVE  disk'[b].ptrs[k] \in {0, r[<<b, k>>]}
  <2>1. <<b, k>> \in Places /\ b # Inode
    BY Sizes DEF Places, Holders, Ptrs
  <2>2. CASE b \in Released
    BY <1>2, <2>2 DEF ZeroBlock
  <2>3. CASE b \notin Released
    <3>1. ~FreedPlace(<<b, k>>)
      BY <2>1, <2>3 DEF FreedPlace
    <3>2. disk'[b].ptrs[k] \in {0, q[<<b, k>>]}
      BY <1>2, <1>13, <2>3 DEF Under, Now
    <3> QED
      BY <1>12, <2>1, <3>1, <3>2
  <2> QED
    BY <2>2, <2>3
<1>16. Under(r, Now)'
  BY <1>2, <1>14, <1>15 DEF Under, Now, Blocks, Ptrs
<1> QED
  BY <1>8, <1>9, <1>10, <1>11, <1>16 DEF FileInv

-----------------------------------------------------------------------------
(* The invariants. *)

LEMMA InitIsFileInv == Init => FileInv
<1> SUFFICES ASSUME Init PROVE FileInv
  OBVIOUS
<1>1. other \subseteq DataStart + 1 .. num_blocks - 1
  BY SizesAssumption DEF Init
<1>2. 0 \in Blocks /\ 0 \in 0 .. MaxSize /\ 0 \in 0 .. MaxOverwrites
  BY Sizes, SizesAssumption
<1>3. SystemBlock \in BlockValues
  <2>1. -1 \in Int
    BY Sizes
  <2> QED
    BY <1>2, <2>1 DEF SystemBlock, BlockValues
<1>4. block_map \subseteq Blocks /\ Metadata \cap other = {}
  BY <1>1, Sizes DEF Init, Blocks, Metadata
<1>5. TypeOK
  <2>1. disk \in [Blocks -> BlockValues]
    BY <1>3, ZeroIsABlock DEF Init
  <2>2. direct \in [1 .. N_DIRECT -> Blocks]
    BY <1>2 DEF Init
  <2>3. ret \in [call : {"write", "truncate"}, code : {OK, EINVAL, ENOSPC},
                 missing : Nat]
    BY <1>2 DEF Init, Reply
  <2> QED
    BY <1>2, <1>4, <2>1, <2>2, <2>3 DEF Init, TypeOK
<1>6. FreeBlocksAreZero /\ Metadata \cup other \subseteq block_map
  BY DEF Init, FreeBlocksAreZero
<1> DEFINE q == [p \in Places |-> 0]
<1>7. Apart(q, block_map)
  BY <1>2 DEF Apart
<1>8. Under(q, Now)
  <2>1. ASSUME NEW b \in Blocks, NEW k \in Ptrs PROVE disk[b].ptrs[k] = 0
    BY DEF Init, SystemBlock, ZeroBlock
  <2>2. direct = [k \in 1 .. N_DIRECT |-> 0] /\ indir_1 = 0 /\ indir_2 = 0
    BY DEF Init
  <2> HIDE DEF q
  <2> QED
    BY <2>1, <2>2 DEF Under, Now
<1> QED
  BY <1>4, <1>5, <1>6, <1>7, <1>8 DEF FileInv

LEMMA OtherKeeps ==
    ASSUME FileInv, OtherTruncated
    PROVE  FileInv'
<1>1. /\ TypeOK /\ FreeBlocksAreZero /\ Metadata \subseteq block_map
      /\ Metadata \cap other = {}
  BY DEF FileInv
<1>2. /\ other' = {} /\ block_map' = block_map \ other
      /\ disk' = [b \in Blocks |-> IF b \in other THEN ZeroBlock ELSE disk[b]]
      /\ ret' = Reply("truncate", OK, 0)
      /\ UNCHANGED <<direct, indir_1, indir_2, size, overwrites>>
  BY DEF OtherTruncated, Zeroed
<1>3. TypeOK'
  <2>1. disk' \in [Blocks -> BlockValues]
    BY <1>1, <1>2, ZeroIsABlock DEF TypeOK
  <2>2. 0 \in Nat
    BY Sizes
  <2> QED
    BY <1>1, <1>2, <2>1, <2>2 DEF TypeOK, Reply, BlockValues, Blocks, Ptrs, Bytes
<1>4. FreeBlocksAreZero'
  BY <1>1, <1>2 DEF FreeBlocksAreZero, Blocks, ZeroBlock, Bytes, Ptrs
<1>5. (Metadata \cup other \subseteq block_map)' /\ (Metadata \cap other = {})'
  BY <1>1, <1>2 DEF Metadata
<1>6. PICK q : Apart(q, block_map) /\ Under(q, Now)
  BY DEF FileInv
<1>7. Apart(q, block_map)'
  BY <1>2, <1>6 DEF Apart, Places, Holders, Blocks, Metadata
<1>8. Under(q, Now)'
  <2>1. ASSUME NEW b \in Blocks, NEW k \in Ptrs
        PROVE  disk'[b].ptrs[k] \in {0, q[<<b, k>>]}
    BY <1>2, <1>6 DEF Under, Now, ZeroBlock
  <2> QED
    BY <1>2, <1>6, <2>1 DEF Under, Now, Blocks, Ptrs
<1> QED
  BY <1>3, <1>4, <1>5, <1>7, <1>8 DEF FileInv

\* A call that fails at once, and a step that does nothing.
LEMMA NothingKeeps ==
    ASSUME FileInv,
           UNCHANGED <<block_map, disk, direct, indir_1, indir_2, size, other, overwrites>>,
           ret' = ret \/ \E call \in {"write", "truncate"} : ret' = Reply(call, EINVAL, 0)
    PROVE  FileInv'
<1>1. ret' \in [call : {"write", "truncate"}, code : {OK, EINVAL, ENOSPC},
                missing : Nat]
  <2>1. 0 \in Nat
    BY Sizes
  <2> QED
    BY <2>1 DEF Reply, FileInv, TypeOK
<1>2. TypeOK'
  BY <1>1 DEF FileInv, TypeOK, BlockValues, Blocks, Ptrs, Bytes
<1>3. FreeBlocksAreZero' /\ (Metadata \cup other \subseteq block_map)'
      /\ (Metadata \cap other = {})'
  BY DEF FileInv, FreeBlocksAreZero, Blocks, Metadata, ZeroBlock, Bytes, Ptrs
<1>4. PICK q : Apart(q, block_map) /\ Under(q, Now)
  BY DEF FileInv
<1>5. Apart(q, block_map)'
  BY <1>4 DEF Apart, Places, Holders, Blocks, Metadata
<1>6. Under(q, Now)'
  BY <1>4 DEF Under, Now, Blocks, Ptrs
<1> QED
  BY <1>2, <1>3, <1>5, <1>6 DEF FileInv

LEMMA StepKeepsFileInv == FileInv /\ [Next]_vars => FileInv'
<1> SUFFICES ASSUME FileInv, [Next]_vars PROVE FileInv'
  OBVIOUS
<1>1. CASE Fail("write", EINVAL) \/ Fail("truncate", EINVAL)
  BY <1>1, NothingKeeps DEF Fail
<1>2. CASE \E offset \in 0 .. size, len \in Lens :
              /\ offset < size => overwrites < MaxOverwrites
              /\ fs_write(offset, len)
  BY <1>2, WriteKeeps
<1>3. CASE fs_truncate
  BY <1>3, TruncateKeeps
<1>4. CASE OtherTruncated
  BY <1>4, OtherKeeps
<1>5. CASE UNCHANGED vars
  BY <1>5, NothingKeeps DEF vars
<1> QED
  BY <1>1, <1>2, <1>3, <1>4, <1>5 DEF Next, Write, Truncate

\* FileInv holds in every reachable state: over any sequence of writes, writes
\* that run out of blocks half way, and truncates.
THEOREM FileInvariant == Spec => []FileInv
<1> QED
  BY InitIsFileInv, StepKeepsFileInv, PTL DEF Spec

\* The place of a pointer in the tables of the file.
Holder(t) == IF t = 0 THEN Inode ELSE t

\* In every such state the pointers of the file lead to different blocks, all
\* marked, none of them metadata or the other file's.
LEMMA PointersApart == FileInv => BlocksAreTheFilesOwn
<1> SUFFICES ASSUME FileInv PROVE BlocksAreTheFilesOwn
  OBVIOUS
<1>1. PICK q : Apart(q, block_map) /\ Under(q, Now)
  BY DEF FileInv
<1>2. /\ direct \in [1 .. N_DIRECT -> Blocks] /\ indir_1 \in Blocks /\ indir_2 \in Blocks
      /\ \A b \in Blocks : disk[b].ptrs \in [Ptrs -> Blocks]
      /\ N_DIRECT \in Nat /\ 0 \in Blocks
  BY Sizes DEF FileInv, TypeOK, BlockValues
<1>3. Tables \subseteq Blocks
  BY <1>2 DEF Tables, get_ptrs
<1>4. ASSUME NEW t \in Tables, NEW k \in DOMAIN Table(t)
      PROVE  <<Holder(t), k>> \in Places /\ Table(t)[k] \in {0, q[<<Holder(t), k>>]}
  <2>1. CASE t = 0
    <3> DEFINE tbl == direct \o <<indir_1, indir_2>>
    <3>1. Table(t) = tbl /\ Holder(t) = Inode
      BY <2>1 DEF Table, Holder
    <3>2. direct \in Seq(Blocks) /\ Len(direct) = N_DIRECT
      BY <1>2
    <3>3. /\ DOMAIN tbl = 1 .. N_DIRECT + 2
          /\ \A j \in 1 .. N_DIRECT : tbl[j] = direct[j]
          /\ tbl[N_DIRECT + 1] = indir_1 /\ tbl[N_DIRECT + 2] = indir_2
      BY <1>2, <3>2
    <3> HIDE DEF tbl
    <3>4. k \in 1 .. N_DIRECT \/ k = N_DIRECT + 1 \/ k = N_DIRECT + 2
      BY <1>2, <3>1, <3>3
    <3>5. /\ \A j \in 1 .. N_DIRECT : direct[j] \in {0, q[<<Inode, j>>]}
          /\ indir_1 \in {0, q[<<Inode, N_DIRECT + 1>>]}
          /\ indir_2 \in {0, q[<<Inode, N_DIRECT + 2>>]}
      BY <1>1 DEF Under, Now
    <3>6. <<Inode, k>> \in Places
      BY <1>2, <3>4 DEF Places, Holders
    <3> QED
      BY <3>1, <3>3, <3>4, <3>5, <3>6
  <2>2. CASE t # 0
    <3>1. Table(t) = disk[t].ptrs /\ Holder(t) = t /\ t \in Blocks
      BY <1>3, <2>2 DEF Table, Holder
    <3>2. k \in Ptrs
      BY <1>2, <3>1
    <3> QED
      BY <1>1, <3>1, <3>2, Sizes DEF Under, Now, Places, Holders, Ptrs
  <2> QED
    BY <2>1, <2>2
<1>5. file_blocks \subseteq block_map \ (Metadata \cup other)
  <2>1. ASSUME NEW b \in file_blocks PROVE b \in block_map \ (Metadata \cup other)
    <3>1. PICK t \in Tables : b \in get_ptrs(Table(t))
      BY DEF file_blocks
    <3>2. PICK k \in DOMAIN Table(t) : b = Table(t)[k] /\ b # 0
      BY <3>1 DEF get_ptrs
    <3> QED
      BY <1>1, <1>4, <3>2 DEF Apart
  <2> QED
    BY <2>1
<1>6. ASSUME NEW t \in Tables, NEW u \in Tables, NEW j \in DOMAIN Table(t),
             NEW k \in DOMAIN Table(u), Table(t)[j] = Table(u)[k], Table(t)[j] # 0
      PROVE  <<t, j>> = <<u, k>>
  <2>1. q[<<Holder(t), j>>] = q[<<Holder(u), k>>] /\ q[<<Holder(t), j>>] # 0
        /\ <<Holder(t), j>> \in Places /\ <<Holder(u), k>> \in Places
    BY <1>4, <1>6
  <2>2. <<Holder(t), j>> = <<Holder(u), k>>
    BY <1>1, <2>1 DEF Apart
  <2>3. Holder(t) = Holder(u) /\ j = k
    BY <2>2
  <2>4. t \in Blocks /\ u \in Blocks
    BY <1>3
  <2>5. t = u
    BY <2>3, <2>4, Sizes DEF Holder
  <2> QED
    BY <2>3, <2>5
<1> QED
  BY <1>5, <1>6 DEF BlocksAreTheFilesOwn

\* The variables have their types; a write counts no more bytes than a file
\* can have, however its span crosses blocks and levels.
THEOREM FileTypeCorrect == Spec => []TypeOK
<1>1. FileInv => TypeOK
  BY DEF FileInv
<1> QED
  BY <1>1, FileInvariant, PTL

\* A free block is all zeroes, so that a fresh indirect block is an empty
\* table (get_next_block, fs_write; fs_truncate zeroes what it frees).
THEOREM FreeBlocksStayZero == Spec => []FreeBlocksAreZero
<1>1. FileInv => FreeBlocksAreZero
  BY DEF FileInv
<1> QED
  BY <1>1, FileInvariant, PTL

\* No two pointers of a file lead to the same block, and none to a free block,
\* to metadata or to a block of another file.
THEOREM BlocksStayTheFilesOwn == Spec => []BlocksAreTheFilesOwn
<1> QED
  BY PointersApart, FileInvariant, PTL
=============================================================================
