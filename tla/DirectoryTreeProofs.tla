------------------------- MODULE DirectoryTreeProofs -------------------------
(***************************************************************************)
(* The handlers implement Tree, for every number of inodes, blocks and     *)
(* slots and every set of names, when callers use every path that parse    *)
(* reads to the end.                                                       *)
(*                                                                         *)
(* A state is seen as a set of edges, one for each directory entry, and    *)
(* the inode of each path.                                                 *)
(***************************************************************************)
EXTENDS DirectoryProofs, DirectoryTree, FiniteSetTheorems

CutNames == {Cut[n] : n \in RawNames}
TreePaths == {p \in Seq(CutNames) : Len(p) <= MAX_PATH_LEN}
Last(p) == p[Len(p)]

-----------------------------------------------------------------------------
(* Paths. *)

\* A part of a sequence, element by element.
LEMMA PartOf ==
    ASSUME NEW S, NEW p \in Seq(S), NEW m \in 1 .. Len(p) + 1, NEW n \in m - 1 .. Len(p)
    PROVE  /\ SubSeq(p, m, n) \in Seq(S) /\ Len(SubSeq(p, m, n)) = n - m + 1
           /\ \A k \in 1 .. n - m + 1 : SubSeq(p, m, n)[k] = p[k + m - 1]
<1>1. \A k \in 1 .. Len(p) : p[k] \in S
  OBVIOUS
<1>2. \A k \in 1 .. n - m + 1 : k + m - 1 \in 1 .. Len(p)
  OBVIOUS
<1>3. SubSeq(p, m, n) = [k \in 1 .. n - m + 1 |-> p[k + m - 1]]
  OBVIOUS
<1> QED
  BY <1>1, <1>2, <1>3

\* A first part of a sequence, element by element.
LEMMA PrefixOf ==
    ASSUME NEW S, NEW p \in Seq(S), NEW n \in 0 .. Len(p)
    PROVE  /\ SubSeq(p, 1, n) \in Seq(S) /\ Len(SubSeq(p, 1, n)) = n
           /\ \A k \in 1 .. n : SubSeq(p, 1, n)[k] = p[k]
<1>1. 1 \in 1 .. Len(p) + 1 /\ n \in 1 - 1 .. Len(p) /\ n - 1 + 1 = n
  OBVIOUS
<1>2. /\ SubSeq(p, 1, n) \in Seq(S) /\ Len(SubSeq(p, 1, n)) = n - 1 + 1
      /\ \A k \in 1 .. n - 1 + 1 : SubSeq(p, 1, n)[k] = p[k + 1 - 1]
  BY <1>1, PartOf
<1> QED
  BY <1>1, <1>2

\* Names that are cut already stay as they are.
LEMMA CutTwice ==
    /\ CutNames \subseteq RawNames
    /\ \A n \in CutNames : Cut[n] = n
BY PathsAssumption DEF CutNames

\* Paths of the tree are paths that the code reads as they are.
LEMMA TreePathTyped ==
    ASSUME NEW p \in TreePaths
    PROVE  /\ p \in Seq(RawNames) /\ Len(p) \in Nat /\ Len(p) <= MAX_PATH_LEN
           /\ parse(p) = p
           /\ p # <<>> => /\ Len(p) > 0
                          /\ Last(p) \in CutNames /\ Leaf(p) = Last(p)
                          /\ Parent(p) \in TreePaths /\ Len(Parent(p)) = Len(p) - 1
                          /\ \A k \in 1 .. Len(p) - 1 : Parent(p)[k] = p[k]
<1>1. p \in Seq(CutNames) /\ Len(p) \in Nat /\ Len(p) <= MAX_PATH_LEN
  BY DEF TreePaths
<1>2. \A k \in 1 .. Len(p) : p[k] \in CutNames
  BY <1>1
<1>3. p \in Seq(RawNames)
  BY <1>1, CutTwice
<1>4. parse(p) = p
  <2>1. parse(p) = [k \in 1 .. Len(p) |-> Cut[p[k]]]
    BY <1>1, <1>3, ParseLength
  <2>2. \A k \in 1 .. Len(p) : Cut[p[k]] = p[k]
    BY <1>2, CutTwice
  <2>3. p = [k \in 1 .. Len(p) |-> p[k]]
    BY <1>1
  <2> QED
    BY <2>1, <2>2, <2>3
<1>5. ASSUME p # <<>>
      PROVE  /\ Len(p) > 0
             /\ Last(p) \in CutNames /\ Leaf(p) = Last(p)
             /\ Parent(p) \in TreePaths /\ Len(Parent(p)) = Len(p) - 1
             /\ \A k \in 1 .. Len(p) - 1 : Parent(p)[k] = p[k]
  <2>1. Len(p) > 0
    BY <1>1, <1>5
  <2>2. Last(p) \in CutNames
    BY <1>2, <2>1 DEF Last
  <2>3. Leaf(p) = Last(p)
    BY <2>2, CutTwice DEF Leaf, Last
  <2>4. Parent(p) \in Seq(CutNames) /\ Len(Parent(p)) = Len(p) - 1
        /\ \A k \in 1 .. Len(p) - 1 : Parent(p)[k] = p[k]
    <3>n. PICK n : n = Len(p) - 1
      OBVIOUS
    <3>1. n \in 0 .. Len(p) /\ Parent(p) = SubSeq(p, 1, n)
      BY <1>1, <2>1, <3>n DEF Parent
    <3> QED
      BY <1>1, <3>1, <3>n, PrefixOf
  <2> QED
    BY <1>1, <2>1, <2>2, <2>3, <2>4, PathsAssumption DEF TreePaths
<1> QED
  BY <1>1, <1>3, <1>4, <1>5

\* A path is its parent and its last name.
LEMMA PathParts ==
    ASSUME NEW p \in TreePaths, NEW q \in TreePaths, p # <<>>, q # <<>>,
           Parent(p) = Parent(q), Last(p) = Last(q)
    PROVE  p = q
<1>1. /\ p \in Seq(RawNames) /\ q \in Seq(RawNames) /\ Len(p) \in Nat /\ Len(q) \in Nat
      /\ Len(p) = Len(q) /\ Len(p) > 0
  BY TreePathTyped
<1>2. \A k \in 1 .. Len(p) - 1 : p[k] = q[k]
  BY <1>1, TreePathTyped
<1>3. \A k \in 1 .. Len(p) : p[k] = q[k]
  BY <1>1, <1>2 DEF Last
<1> QED
  BY <1>1, <1>3

\* What holds of the root, and of a path if of its parent, holds of all.
LEMMA PathInduction ==
    ASSUME NEW S, <<>> \in S,
           \A p \in TreePaths : p # <<>> /\ Parent(p) \in S => p \in S
    PROVE  TreePaths \subseteq S
<1> DEFINE N == {k \in 0 .. MAX_PATH_LEN : \A p \in TreePaths : Len(p) = k => p \in S}
<1>1. 0 \in N
  <2>1. \A p \in TreePaths : Len(p) = 0 => p = <<>>
    BY TreePathTyped
  <2> QED
    BY <2>1, PathsAssumption
<1>2. ASSUME NEW k \in 0 .. MAX_PATH_LEN, k \in N, k < MAX_PATH_LEN PROVE k + 1 \in N
  <2>1. ASSUME NEW p \in TreePaths, Len(p) = k + 1 PROVE p \in S
    <3>1. p # <<>>
      BY <2>1, <1>2
    <3>2. Parent(p) \in TreePaths /\ Len(Parent(p)) = k
      BY <2>1, <3>1, TreePathTyped
    <3> QED
      BY <1>2, <3>1, <3>2
  <2> QED
    BY <1>2, <2>1, PathsAssumption
<1> HIDE DEF N
<1>3. \A k \in 0 .. MAX_PATH_LEN : k \in N
  BY <1>1, <1>2, UpTo, PathsAssumption
<1>4. ASSUME NEW p \in TreePaths PROVE p \in S
  <2>1. Len(p) \in 0 .. MAX_PATH_LEN
    BY TreePathTyped
  <2> QED
    BY <1>3, <2>1 DEF N
<1> QED
  BY <1>4

\* The paths on the way to p.
LEMMA PartIsPath ==
    ASSUME NEW p \in TreePaths, NEW n \in 0 .. Len(p)
    PROVE  SubSeq(p, 1, n) \in TreePaths /\ Len(SubSeq(p, 1, n)) = n
<1>1. p \in Seq(CutNames) /\ Len(p) <= MAX_PATH_LEN /\ Len(p) \in Nat
  BY DEF TreePaths
<1>2. SubSeq(p, 1, n) \in Seq(CutNames) /\ Len(SubSeq(p, 1, n)) = n
  BY <1>1, PrefixOf
<1> QED
  BY <1>1, <1>2, PathsAssumption DEF TreePaths

\* The part of a path that has all its names is the path.
LEMMA WholePart ==
    ASSUME NEW p \in Seq(RawNames)
    PROVE  SubSeq(p, 1, Len(p)) = p
<1>n. PICK n : n = Len(p)
  OBVIOUS
<1>1. n \in 0 .. Len(p)
  BY <1>n
<1>2. /\ SubSeq(p, 1, n) \in Seq(RawNames) /\ Len(SubSeq(p, 1, n)) = n
      /\ \A k \in 1 .. n : SubSeq(p, 1, n)[k] = p[k]
  BY <1>1, PrefixOf
<1> QED
  BY <1>n, <1>2

\* The parts of a path's parent are parts of the path.
LEMMA ParentPart ==
    ASSUME NEW p \in Seq(RawNames), p # <<>>, NEW n \in 0 .. Len(p), n # Len(p)
    PROVE  /\ SubSeq(p, 1, n) = SubSeq(Parent(p), 1, n)
           /\ Parent(SubSeq(p, 1, n + 1)) = SubSeq(p, 1, n)
           /\ Last(SubSeq(p, 1, n + 1)) = p[n + 1]
<1>1. /\ Parent(p) \in Seq(RawNames) /\ Len(Parent(p)) = Len(p) - 1 /\ Len(p) - 1 \in Nat
      /\ \A k \in 1 .. Len(p) - 1 : Parent(p)[k] = p[k]
  BY ParentSeq
<1>2. /\ SubSeq(p, 1, n) \in Seq(RawNames) /\ Len(SubSeq(p, 1, n)) = n
      /\ \A k \in 1 .. n : SubSeq(p, 1, n)[k] = p[k]
  BY PrefixOf
<1>3. n \in 0 .. Len(Parent(p)) /\ n + 1 \in 0 .. Len(p)
  BY <1>1
<1>4. /\ SubSeq(Parent(p), 1, n) \in Seq(RawNames) /\ Len(SubSeq(Parent(p), 1, n)) = n
      /\ \A k \in 1 .. n : SubSeq(Parent(p), 1, n)[k] = Parent(p)[k]
  BY <1>1, <1>3, PrefixOf
<1>m. PICK m : m = n + 1
  OBVIOUS
<1>5. /\ SubSeq(p, 1, m) \in Seq(RawNames) /\ Len(SubSeq(p, 1, m)) = m
      /\ \A k \in 1 .. m : SubSeq(p, 1, m)[k] = p[k]
  BY <1>3, <1>m, PrefixOf
<1>q. PICK q : q = SubSeq(p, 1, m)
  OBVIOUS
<1>0. q \in Seq(RawNames) /\ q # <<>>
  BY <1>5, <1>m, <1>q
<1>6. /\ Parent(q) \in Seq(RawNames) /\ Len(Parent(q)) = Len(q) - 1
      /\ \A k \in 1 .. Len(q) - 1 : Parent(q)[k] = q[k]
  BY <1>0, ParentSeq
<1>7. SubSeq(p, 1, n) = SubSeq(Parent(p), 1, n)
  BY <1>1, <1>2, <1>4
<1>8. Parent(q) = SubSeq(p, 1, n)
  BY <1>2, <1>5, <1>6, <1>m, <1>q
<1>9. Last(q) = p[n + 1]
  BY <1>5, <1>m, <1>q DEF Last
<1> QED
  BY <1>7, <1>8, <1>9, <1>m, <1>q

-----------------------------------------------------------------------------
(* Trees. *)

\* The edges E <<directory, name, inode>> lead along each path p to the inode
\* I[p], and I[p] is no inode if they lead nowhere.
Describes(I, E) ==
    /\ \A p \in TreePaths : I[p] \in Int
    /\ I[<<>>] = ROOT_INODE
    /\ \A p \in TreePaths : p # <<>> =>
          \A i : <<I[Parent(p)], Last(p), i>> \in E <=> (I[p] = i /\ i > 0)
    /\ \A e \in E : e[1] > 0 /\ e[3] > 0 /\ e[3] # ROOT_INODE
    /\ \A e \in E, f \in E : e[3] = f[3] => e = f

\* The last edge of a path that leads somewhere.
LEMMA LastEdge ==
    ASSUME NEW I, NEW E, Describes(I, E), NEW p \in TreePaths, p # <<>>, I[p] > 0
    PROVE  /\ <<I[Parent(p)], Last(p), I[p]>> \in E
           /\ I[Parent(p)] > 0
<1>e. PICK e : e = <<I[Parent(p)], Last(p), I[p]>>
  OBVIOUS
<1>1. e \in E
  BY <1>e DEF Describes
<1>2. e[1] > 0
  BY <1>1 DEF Describes
<1> QED
  BY <1>e, <1>1, <1>2

\* No two paths lead to the same inode.
LEMMA OnePath ==
    ASSUME NEW I, NEW E, Describes(I, E), NEW p \in TreePaths, NEW q \in TreePaths,
           I[p] > 0, I[q] = I[p]
    PROVE  p = q
<1> DEFINE Only(r) == \A s \in TreePaths : I[r] > 0 /\ I[s] = I[r] => s = r
           S == {r \in TreePaths : Only(r)}
<1>1. ASSUME NEW r \in TreePaths, r # <<>>, I[r] > 0 PROVE I[r] # ROOT_INODE
  <2>e. PICK e : e = <<I[Parent(r)], Last(r), I[r]>>
    OBVIOUS
  <2>1. e \in E
    BY <1>1, <2>e, LastEdge
  <2>2. e[3] # ROOT_INODE
    BY <2>1 DEF Describes
  <2> QED
    BY <2>e, <2>2
<1>2. <<>> \in S
  <2>1. <<>> \in TreePaths
    BY PathsAssumption DEF TreePaths
  <2>2. I[<<>>] = ROOT_INODE
    BY DEF Describes
  <2> QED
    BY <1>1, <2>1, <2>2
<1>3. ASSUME NEW r \in TreePaths, r # <<>>, Parent(r) \in S PROVE r \in S
  <2>1. ASSUME NEW s \in TreePaths, I[r] > 0, I[s] = I[r] PROVE s = r
    <3>1. s # <<>>
      BY <1>1, <1>3, <2>1 DEF Describes
    <3>e. PICK e : e = <<I[Parent(r)], Last(r), I[r]>>
      OBVIOUS
    <3>f. PICK f : f = <<I[Parent(s)], Last(s), I[s]>>
      OBVIOUS
    <3>2. e \in E /\ f \in E
      BY <1>3, <2>1, <3>1, <3>e, <3>f, LastEdge
    <3>3. e = f
      BY <2>1, <3>2, <3>e, <3>f DEF Describes
    <3>4. I[Parent(s)] = I[Parent(r)] /\ Last(s) = Last(r)
      <4>1. e[1] = I[Parent(r)] /\ e[2] = Last(r)
        BY <3>e
      <4>2. f[1] = I[Parent(s)] /\ f[2] = Last(s)
        BY <3>f
      <4> QED
        BY <3>3, <4>1, <4>2
    <3>5. I[Parent(r)] > 0
      BY <1>3, <2>1, LastEdge
    <3>6. Parent(s) \in TreePaths
      BY <3>1, TreePathTyped
    <3>7. Parent(s) = Parent(r)
      BY <1>3, <3>4, <3>5, <3>6
    <3> QED
      BY <1>3, <3>1, <3>4, <3>7, PathParts
  <2> QED
    BY <2>1
<1> HIDE DEF S
<1>4. p \in S
  BY <1>2, <1>3, PathInduction
<1> QED
  BY <1>4 DEF S

\* A path is longer than those on the way, and they lead somewhere if it does.
LEMMA OnTheWay ==
    ASSUME NEW I, NEW E, Describes(I, E), NEW p \in TreePaths, I[p] > 0,
           NEW n \in 0 .. Len(p)
    PROVE  SubSeq(p, 1, n) \in TreePaths /\ I[SubSeq(p, 1, n)] > 0
<1> DEFINE Way(r) == \A k \in 0 .. Len(r) : I[SubSeq(r, 1, k)] > 0
           S == {r \in TreePaths : I[r] > 0 => Way(r)}
<1>1. <<>> \in S
  <2>1. <<>> \in TreePaths
    BY PathsAssumption DEF TreePaths
  <2>2. \A k \in 0 .. Len(<<>>) : SubSeq(<<>>, 1, k) = <<>>
    OBVIOUS
  <2> QED
    BY <2>1, <2>2
<1>2. ASSUME NEW r \in TreePaths, r # <<>>, Parent(r) \in S PROVE r \in S
  <2>1. ASSUME I[r] > 0, NEW k \in 0 .. Len(r) PROVE I[SubSeq(r, 1, k)] > 0
    <3>1. I[Parent(r)] > 0
      BY <1>2, <2>1, LastEdge
    <3>2. CASE k = Len(r)
      <4>1. SubSeq(r, 1, k) = r
        BY <1>2, <3>2, TreePathTyped, WholePart
      <4> QED
        BY <2>1, <4>1
    <3>3. CASE k # Len(r)
      <4>1. k \in 0 .. Len(Parent(r))
        BY <1>2, <2>1, <3>3, TreePathTyped
      <4>2. SubSeq(r, 1, k) = SubSeq(Parent(r), 1, k)
        BY <1>2, <2>1, <3>3, TreePathTyped, ParentPart
      <4> QED
        BY <1>2, <3>1, <4>1, <4>2
    <3> QED
      BY <3>2, <3>3
  <2> QED
    BY <1>2, <2>1
<1> HIDE DEF S
<1>3. p \in S
  BY <1>1, <1>2, PathInduction
<1>4. I[SubSeq(p, 1, n)] > 0
  BY <1>3 DEF S
<1> QED
  BY <1>4, PartIsPath

\* The path leads to the same inode on both, or to none.
Same(x, y) == (x > 0 <=> y > 0) /\ (x > 0 => y = x)

\* One more name leads from the same inode along the same edges.
LEMMA StepSame ==
    ASSUME NEW I, NEW J, NEW E, NEW F, Describes(I, E), Describes(J, F),
           NEW x \in TreePaths, NEW r \in TreePaths, x # <<>>, r # <<>>,
           Last(x) = Last(r), Same(I[Parent(x)], J[Parent(r)]),
           I[Parent(x)] > 0 =>
              \A i : <<I[Parent(x)], Last(x), i>> \in E
                        <=> <<I[Parent(x)], Last(x), i>> \in F
    PROVE  Same(I[x], J[r])
<1>1. ASSUME I[x] > 0 PROVE J[r] > 0 /\ J[r] = I[x]
  <2>1. I[Parent(x)] > 0 /\ <<I[Parent(x)], Last(x), I[x]>> \in E
    BY <1>1, LastEdge
  <2>i. PICK i : i = I[x]
    OBVIOUS
  <2>2. J[Parent(r)] = I[Parent(x)]
    BY <2>1 DEF Same
  <2>3. <<J[Parent(r)], Last(r), i>> \in F
    BY <2>1, <2>2, <2>i
  <2> QED
    BY <2>3, <2>i DEF Describes
<1>2. ASSUME J[r] > 0 PROVE I[x] > 0
  <2>1. J[Parent(r)] > 0 /\ <<J[Parent(r)], Last(r), J[r]>> \in F
    BY <1>2, LastEdge
  <2>i. PICK i : i = J[r]
    OBVIOUS
  <2>2. J[Parent(r)] = I[Parent(x)] /\ I[Parent(x)] > 0
    BY <2>1 DEF Same
  <2>3. <<I[Parent(x)], Last(x), i>> \in E
    BY <2>1, <2>2, <2>i
  <2>4. I[x] = i /\ i > 0
    BY <2>3 DEF Describes
  <2> QED
    BY <2>4
<1> QED
  BY <1>1, <1>2 DEF Same

\* The root is a path, and leads to the root's inode.
LEMMA RootPath ==
    ASSUME NEW I, NEW E, Describes(I, E)
    PROVE  <<>> \in TreePaths /\ I[<<>>] = ROOT_INODE /\ ROOT_INODE > 0
BY PathsAssumption DEF Describes, TreePaths, ROOT_INODE

\* The same edges lead to the same inodes.
LEMMA SameEdges ==
    ASSUME NEW I, NEW J, NEW E, Describes(I, E), Describes(J, E)
    PROVE  \A r \in TreePaths : Same(I[r], J[r])
<1> DEFINE S == {r \in TreePaths : Same(I[r], J[r])}
<1>1. <<>> \in S
  BY RootPath DEF Same
<1>2. ASSUME NEW r \in TreePaths, r # <<>>, Parent(r) \in S PROVE r \in S
  BY <1>2, StepSame
<1> HIDE DEF S
<1>3. TreePaths \subseteq S
  BY <1>1, <1>2, PathInduction
<1> QED
  BY <1>3 DEF S

\* A new edge <<I[Parent(p)], Last(p), i>> makes p lead to i, and changes
\* nothing else if i has no edges of its own.
LEMMA EdgeAdded ==
    ASSUME NEW I, NEW J, NEW E, NEW F, Describes(I, E), Describes(J, F),
           NEW p \in TreePaths, p # <<>>, I[Parent(p)] > 0, ~(I[p] > 0),
           NEW i, i # I[Parent(p)],
           NEW new, new = <<I[Parent(p)], Last(p), i>>, F = E \cup {new},
           \A e \in E : e[1] # i
    PROVE  /\ J[p] = i
           /\ \A r \in TreePaths : r # p => Same(I[r], J[r])
<1> DEFINE S == {r \in TreePaths : IF r = p THEN J[r] = i ELSE Same(I[r], J[r])}
<1>d. PICK d : d = I[Parent(p)]
  OBVIOUS
<1>e. new = <<d, Last(p), i>>
  BY <1>d
<1>f. new[1] = d /\ new[2] = Last(p) /\ new[3] = i
  BY <1>e
<1>0. F = E \cup {new} /\ Parent(p) \in TreePaths
  BY <1>d, <1>e, TreePathTyped
<1>1. <<>> \in S
  BY RootPath DEF Same
<1>2. ASSUME NEW r \in TreePaths, r # <<>>, Parent(r) \in S PROVE r \in S
  <2>s. PICK s : s = Parent(r)
    OBVIOUS
  <2>1. s \in TreePaths /\ Len(s) = Len(r) - 1 /\ Len(r) \in Nat
    BY <1>2, <2>s, TreePathTyped
  <2>2. CASE s = p
    <3>1. J[s] = i /\ r # p
      <4>1. r # p
        BY <2>1, <2>2
      <4> QED
        BY <1>2, <2>s, <2>2, <4>1
    <3>2. ~(J[r] > 0)
      <4>1. SUFFICES ASSUME J[r] > 0 PROVE FALSE
        OBVIOUS
      <4>e. PICK e : e = <<J[s], Last(r), J[r]>>
        OBVIOUS
      <4>2. e \in F /\ e[1] = i
        BY <1>2, <2>s, <3>1, <4>1, <4>e, LastEdge
      <4> QED
        BY <1>0, <1>d, <1>f, <4>2
    <3>3. ~(I[r] > 0)
      BY <1>2, <2>s, <2>2, LastEdge
    <3> QED
      BY <1>2, <3>1, <3>2, <3>3 DEF Same
  <2>3. CASE s # p
    <3>1. Same(I[s], J[s])
      BY <1>2, <2>s, <2>3
    <3>2. CASE r = p
      <4>1. J[s] = d
        BY <1>d, <2>s, <3>1, <3>2 DEF Same
      <4>2. <<J[s], Last(r), i>> \in F
        BY <1>0, <1>e, <3>2, <4>1
      <4>3. J[r] = i
        BY <1>2, <2>s, <4>2 DEF Describes
      <4> QED
        BY <3>2, <4>3
    <3>3. CASE r # p
      <4>1. ASSUME I[s] = d PROVE Last(r) # Last(p)
        <5>1. s = Parent(p)
          BY <1>0, <1>d, <2>1, <4>1, OnePath
        <5> QED
          BY <1>2, <2>s, <3>3, <5>1, PathParts
      <4>2. ASSUME NEW j PROVE <<I[s], Last(r), j>> # new
        <5>e. PICK e : e = <<I[s], Last(r), j>>
          OBVIOUS
        <5>1. e[1] = I[s] /\ e[2] = Last(r)
          BY <5>e
        <5> QED
          BY <1>f, <4>1, <5>e, <5>1
      <4>3. \A j : <<I[s], Last(r), j>> \in E <=> <<I[s], Last(r), j>> \in F
        BY <1>0, <4>2
      <4>4. Same(I[r], J[r])
        BY <1>2, <2>s, <3>1, <4>3, StepSame
      <4> QED
        BY <1>2, <3>3, <4>4
    <3> QED
      BY <3>2, <3>3
  <2> QED
    BY <2>2, <2>3
<1> HIDE DEF S
<1>3. TreePaths \subseteq S
  BY <1>1, <1>2, PathInduction
<1> QED
  BY <1>3 DEF S

\* An edge that goes, with none below it, takes its path alone.
LEMMA EdgeRemoved ==
    ASSUME NEW I, NEW J, NEW E, NEW F, Describes(I, E), Describes(J, F),
           NEW p \in TreePaths, p # <<>>, I[p] > 0,
           NEW old, old = <<I[Parent(p)], Last(p), I[p]>>, F = E \ {old},
           \A e \in E : e[1] # I[p]
    PROVE  /\ ~(J[p] > 0)
           /\ \A r \in TreePaths : r # p => Same(I[r], J[r])
<1> DEFINE S == {r \in TreePaths : IF r = p THEN ~(J[r] > 0) ELSE Same(I[r], J[r])}
<1>d. PICK d : d = I[Parent(p)]
  OBVIOUS
<1>e. old = <<d, Last(p), I[p]>>
  BY <1>d
<1>f. old[1] = d /\ old[2] = Last(p) /\ old[3] = I[p]
  BY <1>e
<1>0. F = E \ {old} /\ Parent(p) \in TreePaths /\ d > 0
  BY <1>d, <1>e, LastEdge, TreePathTyped
<1>1. <<>> \in S
  BY RootPath DEF Same
<1>2. ASSUME NEW r \in TreePaths, r # <<>>, Parent(r) \in S PROVE r \in S
  <2>s. PICK s : s = Parent(r)
    OBVIOUS
  <2>1. s \in TreePaths /\ Len(s) = Len(r) - 1 /\ Len(r) \in Nat
    BY <1>2, <2>s, TreePathTyped
  <2>2. CASE s = p
    <3>1. ~(J[s] > 0) /\ r # p
      <4>1. r # p
        BY <2>1, <2>2
      <4> QED
        BY <1>2, <2>s, <2>2, <4>1
    <3>2. ~(J[r] > 0)
      BY <1>2, <2>s, <3>1, LastEdge
    <3>3. ~(I[r] > 0)
      <4>1. SUFFICES ASSUME I[r] > 0 PROVE FALSE
        OBVIOUS
      <4>e. PICK e : e = <<I[s], Last(r), I[r]>>
        OBVIOUS
      <4>2. e \in E /\ e[1] = I[p]
        BY <1>2, <2>s, <2>2, <4>1, <4>e, LastEdge
      <4> QED
        BY <4>2
    <3> QED
      BY <1>2, <3>1, <3>2, <3>3 DEF Same
  <2>3. CASE s # p
    <3>1. Same(I[s], J[s])
      BY <1>2, <2>s, <2>3
    <3>2. CASE r = p
      <4>1. J[s] = d
        BY <1>0, <1>d, <2>s, <3>1, <3>2 DEF Same
      <4>2. ASSUME J[r] > 0 PROVE FALSE
        <5>e. PICK e : e = <<d, Last(p), J[r]>>
          OBVIOUS
        <5>1. e \in F /\ e[3] = J[r]
          BY <1>2, <2>s, <3>2, <4>1, <4>2, <5>e, LastEdge
        <5>2. J[r] = I[p]
          BY <1>0, <1>d, <5>1, <5>e DEF Describes
        <5> QED
          BY <1>0, <1>e, <5>1, <5>2, <5>e
      <4> QED
        BY <1>2, <3>2, <4>2
    <3>3. CASE r # p
      <4>1. ASSUME I[s] = d PROVE Last(r) # Last(p)
        <5>1. s = Parent(p)
          BY <1>0, <1>d, <2>1, <4>1, OnePath
        <5> QED
          BY <1>2, <2>s, <3>3, <5>1, PathParts
      <4>2. ASSUME NEW j PROVE <<I[s], Last(r), j>> # old
        <5>e. PICK e : e = <<I[s], Last(r), j>>
          OBVIOUS
        <5>1. e[1] = I[s] /\ e[2] = Last(r)
          BY <5>e
        <5> QED
          BY <1>f, <4>1, <5>e, <5>1
      <4>3. \A j : <<I[s], Last(r), j>> \in E <=> <<I[s], Last(r), j>> \in F
        BY <1>0, <4>2
      <4>4. Same(I[r], J[r])
        BY <1>2, <2>s, <3>1, <4>3, StepSame
      <4> QED
        BY <1>2, <3>3, <4>4
    <3> QED
      BY <3>2, <3>3
  <2> QED
    BY <2>2, <2>3
<1> HIDE DEF S
<1>3. TreePaths \subseteq S
  BY <1>1, <1>2, PathInduction
<1> QED
  BY <1>3 DEF S

-----------------------------------------------------------------------------
(* Paths that begin with another. *)

Extends(r, p) == Len(r) >= Len(p) /\ SubSeq(r, 1, Len(p)) = p

\* r with p in place of the q it begins with.
Onto(p, q, r) == p \o SubSeq(r, Len(q) + 1, Len(r))

\* A path is a sequence of names.
LEMMA PathElements ==
    ASSUME NEW r \in TreePaths
    PROVE  r \in Seq(CutNames) /\ Len(r) \in Nat /\ Len(r) <= MAX_PATH_LEN
           /\ \A k \in 1 .. Len(r) : r[k] \in CutNames
<1>1. r \in Seq(CutNames) /\ Len(r) <= MAX_PATH_LEN
  BY DEF TreePaths
<1> QED
  BY <1>1

\* A path extends another if it begins with the other's names.
LEMMA Extending ==
    ASSUME NEW r \in TreePaths, NEW p \in TreePaths
    PROVE  Extends(r, p) <=> Len(r) >= Len(p) /\ \A k \in 1 .. Len(p) : r[k] = p[k]
<1>1. /\ r \in Seq(CutNames) /\ Len(r) \in Nat /\ p \in Seq(CutNames) /\ Len(p) \in Nat
  BY PathElements
<1>2. CASE Len(r) >= Len(p)
  <2>n. PICK n : n = Len(p)
    OBVIOUS
  <2>1. n \in 0 .. Len(r)
    BY <1>1, <1>2, <2>n
  <2>2. /\ SubSeq(r, 1, n) \in Seq(CutNames) /\ Len(SubSeq(r, 1, n)) = n
        /\ \A k \in 1 .. n : SubSeq(r, 1, n)[k] = r[k]
    BY <1>1, <2>1, PrefixOf
  <2>3. SubSeq(r, 1, n) = p <=> \A k \in 1 .. n : r[k] = p[k]
    BY <1>1, <2>2, <2>n
  <2> QED
    BY <1>2, <2>3, <2>n DEF Extends
<1>3. CASE ~(Len(r) >= Len(p))
  BY <1>3 DEF Extends
<1> QED
  BY <1>2, <1>3

\* Putting p in place of q keeps the length and all names behind.
LEMMA OntoElements ==
    ASSUME NEW p \in TreePaths, NEW q \in TreePaths, NEW r \in TreePaths,
           Len(p) = Len(q), Extends(r, q)
    PROVE  /\ Onto(p, q, r) \in TreePaths /\ Len(Onto(p, q, r)) = Len(r)
           /\ \A k \in 1 .. Len(r) :
                 Onto(p, q, r)[k] = IF k <= Len(q) THEN p[k] ELSE r[k]
<1>1. /\ r \in Seq(CutNames) /\ Len(r) \in Nat /\ q \in Seq(CutNames) /\ Len(q) \in Nat
      /\ p \in Seq(CutNames) /\ Len(r) >= Len(q) /\ Len(r) <= MAX_PATH_LEN
      /\ \A k \in 1 .. Len(r) : r[k] \in CutNames
      /\ \A k \in 1 .. Len(p) : p[k] \in CutNames
  BY PathElements, Extending
<1>m. PICK m : m = Len(q) + 1
  OBVIOUS
<1>n. PICK n : n = Len(r)
  OBVIOUS
<1>t. PICK t : t = SubSeq(r, m, n)
  OBVIOUS
<1>2. m \in 1 .. Len(r) + 1 /\ n \in m - 1 .. Len(r)
  BY <1>1, <1>m, <1>n
<1>3. /\ t \in Seq(CutNames) /\ Len(t) = n - m + 1
      /\ \A k \in 1 .. n - m + 1 : t[k] = r[k + m - 1]
  BY <1>1, <1>2, <1>t, PartOf
<1>x. PICK x : x = p \o t
  OBVIOUS
<1>4. /\ x \in Seq(CutNames) /\ Len(x) = n
      /\ \A k \in 1 .. Len(p) : x[k] = p[k]
      /\ \A k \in 1 .. Len(t) : x[k + Len(p)] = t[k]
  BY <1>1, <1>3, <1>m, <1>n, <1>x
<1>5. ASSUME NEW k \in 1 .. n PROVE x[k] = IF k <= Len(q) THEN p[k] ELSE r[k]
  <2>1. CASE k <= Len(q)
    BY <1>1, <1>4, <2>1
  <2>2. CASE ~(k <= Len(q))
    <3>j. PICK j : j = k - Len(q)
      OBVIOUS
    <3>1. j \in 1 .. Len(t) /\ j \in 1 .. n - m + 1 /\ j + Len(p) = k /\ j + m - 1 = k
      BY <1>1, <1>3, <1>m, <1>n, <2>2, <3>j
    <3>2. x[k] = t[j] /\ t[j] = r[k]
      BY <1>3, <1>4, <3>1
    <3> QED
      BY <2>2, <3>2
  <2> QED
    BY <2>1, <2>2
<1>6. Onto(p, q, r) = x
  BY <1>m, <1>n, <1>t, <1>x DEF Onto
<1> QED
  BY <1>1, <1>4, <1>5, <1>6, <1>n DEF TreePaths

\* Sequences with the same elements.
LEMMA EqualPaths ==
    ASSUME NEW p \in TreePaths, NEW q \in TreePaths, Len(p) = Len(q),
           \A k \in 1 .. Len(p) : p[k] = q[k]
    PROVE  p = q
BY PathElements

\* Onto gives back what it was given.
LEMMA OntoBack ==
    ASSUME NEW p \in TreePaths, NEW q \in TreePaths, NEW r \in TreePaths,
           Len(p) = Len(q), Extends(r, q)
    PROVE  /\ Onto(p, q, r) \in TreePaths /\ Extends(Onto(p, q, r), p)
           /\ Onto(q, p, Onto(p, q, r)) = r
<1>x. PICK x : x = Onto(p, q, r)
  OBVIOUS
<1>1. x \in TreePaths /\ Len(x) = Len(r)
      /\ \A k \in 1 .. Len(r) : x[k] = IF k <= Len(q) THEN p[k] ELSE r[k]
  BY <1>x, OntoElements
<1>2. /\ Len(r) \in Nat /\ Len(q) \in Nat /\ Len(r) >= Len(q)
      /\ \A k \in 1 .. Len(q) : r[k] = q[k]
  BY PathElements, Extending
<1>3. Extends(x, p)
  BY <1>1, <1>2, Extending
<1>y. PICK y : y = Onto(q, p, x)
  OBVIOUS
<1>4. y \in TreePaths /\ Len(y) = Len(x)
      /\ \A k \in 1 .. Len(x) : y[k] = IF k <= Len(p) THEN q[k] ELSE x[k]
  BY <1>1, <1>3, <1>y, OntoElements
<1>5. \A k \in 1 .. Len(y) : y[k] = r[k]
  BY <1>1, <1>2, <1>4
<1>6. y = r
  BY <1>1, <1>4, <1>5, EqualPaths
<1>7. Onto(q, p, x) = r
  BY <1>6, <1>y
<1> QED
  BY <1>1, <1>3, <1>7, <1>x

\* The last name of what begins with q stays, unless it is that of q.
LEMMA OntoParent ==
    ASSUME NEW p \in TreePaths, NEW q \in TreePaths, NEW r \in TreePaths,
           Len(p) = Len(q), Extends(r, q), r # q
    PROVE  LET x == Onto(p, q, r)
           IN /\ x # <<>> /\ r # <<>> /\ Extends(Parent(r), q)
              /\ Parent(x) = Onto(p, q, Parent(r)) /\ Last(x) = Last(r)
<1>x. PICK x : x = Onto(p, q, r)
  OBVIOUS
<1>1. x \in TreePaths /\ Len(x) = Len(r)
      /\ \A k \in 1 .. Len(r) : x[k] = IF k <= Len(q) THEN p[k] ELSE r[k]
  BY <1>x, OntoElements
<1>2. /\ Len(r) \in Nat /\ Len(q) \in Nat /\ Len(r) >= Len(q)
      /\ \A k \in 1 .. Len(q) : r[k] = q[k]
  BY PathElements, Extending
<1>3. Len(r) > Len(q)
  <2>1. Len(r) = Len(q) => r = q
    BY <1>2, EqualPaths
  <2> QED
    BY <1>2, <2>1
<1>4. x # <<>> /\ r # <<>>
  BY <1>1, <1>2, <1>3
<1>5. /\ Parent(r) \in TreePaths /\ Len(Parent(r)) = Len(r) - 1
      /\ \A k \in 1 .. Len(r) - 1 : Parent(r)[k] = r[k]
  BY <1>4, TreePathTyped
<1>6. /\ Parent(x) \in TreePaths /\ Len(Parent(x)) = Len(x) - 1
      /\ \A k \in 1 .. Len(x) - 1 : Parent(x)[k] = x[k]
  BY <1>1, <1>4, TreePathTyped
<1>7. Extends(Parent(r), q)
  <2>1. Len(Parent(r)) >= Len(q) /\ \A k \in 1 .. Len(q) : Parent(r)[k] = q[k]
    BY <1>2, <1>3, <1>5
  <2> QED
    BY <1>5, <2>1, Extending
<1>y. PICK y : y = Onto(p, q, Parent(r))
  OBVIOUS
<1>8. y \in TreePaths /\ Len(y) = Len(Parent(r))
      /\ \A k \in 1 .. Len(Parent(r)) : y[k] = IF k <= Len(q) THEN p[k] ELSE Parent(r)[k]
  BY <1>5, <1>7, <1>y, OntoElements
<1>9. \A k \in 1 .. Len(y) : y[k] = Parent(x)[k]
  BY <1>1, <1>2, <1>5, <1>6, <1>8
<1>10. y = Parent(x)
  BY <1>1, <1>5, <1>6, <1>8, <1>9, EqualPaths
<1>11. Last(x) = Last(r)
  BY <1>1, <1>2, <1>3 DEF Last
<1> QED
  BY <1>4, <1>7, <1>10, <1>11, <1>x, <1>y

\* What extends q is q, or has a parent that does.
LEMMA ExtendsParent ==
    ASSUME NEW r \in TreePaths, NEW q \in TreePaths
    PROVE  /\ Extends(q, q)
           /\ r # <<>> /\ Extends(Parent(r), q) => Extends(r, q)
           /\ Extends(r, q) /\ r # q => Extends(Parent(r), q)
<1>1. Extends(q, q)
  BY PathElements, Extending
<1>2. ASSUME r # <<>>, Extends(Parent(r), q) PROVE Extends(r, q)
  <2>1. /\ Parent(r) \in TreePaths /\ Len(Parent(r)) = Len(r) - 1
        /\ \A k \in 1 .. Len(r) - 1 : Parent(r)[k] = r[k]
    BY <1>2, TreePathTyped
  <2>2. Len(Parent(r)) >= Len(q) /\ \A k \in 1 .. Len(q) : Parent(r)[k] = q[k]
    BY <1>2, <2>1, Extending
  <2>3. Len(r) \in Nat /\ Len(q) \in Nat
    BY PathElements
  <2>4. Len(r) >= Len(q) /\ \A k \in 1 .. Len(q) : r[k] = q[k]
    BY <2>1, <2>2, <2>3
  <2> QED
    BY <2>4, Extending
<1>3. ASSUME Extends(r, q), r # q PROVE Extends(Parent(r), q)
  BY <1>3, OntoParent
<1> QED
  BY <1>1, <1>2, <1>3

\* Two paths of the same length that r begins with are one.
LEMMA ExtendsOne ==
    ASSUME NEW r \in TreePaths, NEW p \in TreePaths, NEW q \in TreePaths,
           Len(p) = Len(q), Extends(r, p), Extends(r, q)
    PROVE  p = q
BY EqualPaths, Extending

\* q with p in place of q is p.
LEMMA OntoItself ==
    ASSUME NEW p \in TreePaths, NEW q \in TreePaths, Len(p) = Len(q)
    PROVE  Onto(p, q, q) = p
<1>x. PICK x : x = Onto(p, q, q)
  OBVIOUS
<1>1. Extends(q, q) /\ Len(q) \in Nat
  BY ExtendsParent, PathElements
<1>2. x \in TreePaths /\ Len(x) = Len(q)
      /\ \A k \in 1 .. Len(q) : x[k] = IF k <= Len(q) THEN p[k] ELSE q[k]
  BY <1>1, <1>x, OntoElements
<1>3. \A k \in 1 .. Len(x) : x[k] = p[k]
  BY <1>1, <1>2
<1> QED
  BY <1>2, <1>3, <1>x, EqualPaths

\* An edge that gets another name takes with it what is below.
Taken(I, J, p, q, r) ==
    IF Extends(r, q) THEN Same(I[Onto(p, q, r)], J[r])
    ELSE IF Extends(r, p) THEN ~(J[r] > 0)
    ELSE Same(I[r], J[r])

\* Changing the name of the edge that p ends with, to that of q, takes what
\* is at p and below to q, and changes nothing else.
LEMMA EdgeMoved ==
    ASSUME NEW I, NEW J, NEW E, NEW F, Describes(I, E), Describes(J, F),
           NEW p \in TreePaths, NEW q \in TreePaths, p # <<>>, q # <<>>,
           Parent(p) = Parent(q), I[p] > 0, ~(I[q] > 0),
           NEW old, old = <<I[Parent(p)], Last(p), I[p]>>,
           NEW new, new = <<I[Parent(p)], Last(q), I[p]>>,
           F = (E \ {old}) \cup {new}
    PROVE  \A r \in TreePaths : Taken(I, J, p, q, r)
<1>u. PICK u : u = Parent(p)
  OBVIOUS
<1>d. PICK d : d = I[u]
  OBVIOUS
<1>i. PICK i : i = I[p]
  OBVIOUS
<1>o. old = <<d, Last(p), i>>
  BY <1>u, <1>d, <1>i
<1>n. new = <<d, Last(q), i>>
  BY <1>u, <1>d, <1>i
<1>0. /\ F = (E \ {old}) \cup {new}
      /\ old[1] = d /\ old[2] = Last(p) /\ old[3] = i
      /\ new[1] = d /\ new[2] = Last(q) /\ new[3] = i
  BY <1>u, <1>d, <1>i, <1>o, <1>n
<1>1. /\ u \in TreePaths /\ Len(u) = Len(p) - 1 /\ Len(q) = Len(p) /\ Len(p) \in Nat
      /\ Len(p) > 0
  <2>1. /\ u \in TreePaths /\ Len(u) = Len(p) - 1 /\ Len(p) \in Nat /\ Len(p) > 0
    BY <1>u, TreePathTyped
  <2>2. Len(u) = Len(q) - 1 /\ Len(q) \in Nat
    BY <1>u, TreePathTyped
  <2> QED
    BY <2>1, <2>2
<1>2. d > 0 /\ i > 0 /\ old \in E
  BY <1>u, <1>d, <1>i, <1>o, LastEdge
<1>3. p # q
  OBVIOUS
<1>4. ASSUME NEW r \in TreePaths, r # <<>>, NEW x,
             x = I[Parent(r)], x = d => Last(r) # Last(p) /\ Last(r) # Last(q)
      PROVE  \A j : <<x, Last(r), j>> \in E <=> <<x, Last(r), j>> \in F
  <2>1. ASSUME NEW j PROVE <<x, Last(r), j>> # new /\ <<x, Last(r), j>> # old
    <3>e. PICK e : e = <<x, Last(r), j>>
      OBVIOUS
    <3>1. e[1] = x /\ e[2] = Last(r)
      BY <3>e
    <3> QED
      BY <1>0, <1>4, <3>e, <3>1
  <2> QED
    BY <1>0, <2>1
<1>5. ~Extends(u, p) /\ ~Extends(u, q)
  BY <1>1 DEF Extends
<1> DEFINE S == {r \in TreePaths : Taken(I, J, p, q, r)}
<1>6. <<>> \in S
  <2>1. ~Extends(<<>>, p) /\ ~Extends(<<>>, q)
    BY <1>1 DEF Extends
  <2> QED
    BY <2>1, RootPath DEF Taken, Same
<1>7. ASSUME NEW r \in TreePaths, r # <<>>, Parent(r) \in S PROVE r \in S
  <2>s. PICK s : s = Parent(r)
    OBVIOUS
  <2>1. s \in TreePaths /\ Taken(I, J, p, q, s)
    BY <1>7, <2>s
  <2>2. s = u => J[s] = d
    BY <1>2, <1>5, <1>d, <2>1 DEF Taken, Same
  <2>3. CASE r = q
    <3>1. J[s] = d
      BY <1>u, <2>s, <2>2, <2>3
    <3>2. <<J[s], Last(r), i>> \in F
      BY <1>0, <1>n, <2>3, <3>1
    <3>3. J[r] = i
      BY <1>7, <2>s, <3>2 DEF Describes
    <3>4. Extends(r, q) /\ Onto(p, q, r) = p
      BY <1>1, <2>3, ExtendsParent, OntoItself
    <3> QED
      BY <1>2, <1>7, <1>i, <3>3, <3>4 DEF Taken, Same
  <2>4. CASE Extends(r, q) /\ r # q
    <3>x. PICK x : x = Onto(p, q, r)
      OBVIOUS
    <3>1. /\ x # <<>> /\ Extends(s, q)
          /\ Parent(x) = Onto(p, q, s) /\ Last(x) = Last(r)
      BY <1>1, <1>7, <2>s, <2>4, <3>x, OntoParent
    <3>2. x \in TreePaths /\ Onto(p, q, s) \in TreePaths /\ Extends(Onto(p, q, s), p)
      BY <1>1, <2>1, <2>4, <3>1, <3>x, OntoBack
    <3>3. Same(I[Parent(x)], J[s])
      BY <2>1, <3>1 DEF Taken
    <3>4. I[Parent(x)] # d
      <4>1. I[Parent(x)] = d => Parent(x) = u
        BY <1>1, <1>2, <1>d, <3>1, <3>2, OnePath
      <4> QED
        BY <1>5, <3>1, <3>2, <4>1
    <3>y. PICK y : y = I[Parent(x)]
      OBVIOUS
    <3>5. \A j : <<y, Last(x), j>> \in E <=> <<y, Last(x), j>> \in F
      BY <1>4, <3>1, <3>2, <3>4, <3>y
    <3>6. Same(I[x], J[r])
      BY <1>7, <2>s, <3>1, <3>2, <3>3, <3>5, <3>y, StepSame
    <3> QED
      BY <1>7, <2>4, <3>6, <3>x DEF Taken
  <2>5. CASE r = p
    <3>1. ~Extends(r, q) /\ Extends(r, p)
      BY <1>1, <1>3, <2>5, ExtendsParent, ExtendsOne
    <3>2. ASSUME J[r] > 0 PROVE FALSE
      <4>e. PICK e : e = <<J[s], Last(r), J[r]>>
        OBVIOUS
      <4>f. e[1] = J[s] /\ e[2] = Last(r) /\ e[3] = J[r]
        BY <4>e
      <4>1. e \in F
        BY <1>7, <2>s, <3>2, <4>e, LastEdge
      <4>2. J[s] = d
        BY <1>u, <2>s, <2>2, <2>5
      <4>3. e # new
        BY <1>0, <1>3, <1>u, <2>5, <4>f, PathParts
      <4>4. e \in E /\ e # old
        BY <1>0, <4>1, <4>3
      <4>j. PICK j : j = J[r]
        OBVIOUS
      <4>5. <<I[Parent(p)], Last(p), j>> \in E
        BY <1>u, <1>d, <2>5, <4>2, <4>4, <4>e, <4>j
      <4>6. I[p] = j
        BY <4>5 DEF Describes
      <4>7. e = old
        BY <1>i, <1>o, <2>5, <4>2, <4>6, <4>e, <4>j
      <4> QED
        BY <4>4, <4>7
    <3> QED
      BY <1>7, <3>1, <3>2 DEF Taken
  <2>6. CASE Extends(r, p) /\ ~Extends(r, q) /\ r # p
    <3>1. Extends(s, p) /\ ~Extends(s, q)
      BY <1>7, <2>s, <2>6, ExtendsParent
    <3>2. ~(J[s] > 0)
      BY <2>1, <3>1 DEF Taken
    <3>3. ~(J[r] > 0)
      BY <1>7, <2>s, <3>2, LastEdge
    <3> QED
      BY <1>7, <2>6, <3>3 DEF Taken
  <2>7. CASE ~Extends(r, p) /\ ~Extends(r, q)
    <3>1. ~Extends(s, p) /\ ~Extends(s, q) /\ r # p /\ r # q
      BY <1>7, <2>s, <2>7, ExtendsParent
    <3>2. Same(I[s], J[s])
      BY <2>1, <3>1 DEF Taken
    <3>3. I[s] = d => Last(r) # Last(p) /\ Last(r) # Last(q)
      <4>1. I[s] = d => s = u
        BY <1>1, <1>2, <1>d, <2>1, OnePath
      <4> QED
        BY <1>7, <1>u, <2>s, <3>1, <4>1, PathParts
    <3>y. PICK y : y = I[s]
      OBVIOUS
    <3>4. \A j : <<y, Last(r), j>> \in E <=> <<y, Last(r), j>> \in F
      BY <1>4, <1>7, <2>s, <3>3, <3>y
    <3>5. Same(I[r], J[r])
      BY <1>7, <2>s, <3>2, <3>4, <3>y, StepSame
    <3> QED
      BY <1>7, <2>7, <3>5 DEF Taken
  <2> QED
    BY <2>3, <2>4, <2>5, <2>6, <2>7
<1> HIDE DEF S
<1>8. TreePaths \subseteq S
  BY <1>6, <1>7, PathInduction
<1> QED
  BY <1>8 DEF S

-----------------------------------------------------------------------------
(* A state as a tree. *)

Resolution == [p \in TreePaths |-> Inum(p)]

\* An entry makes the path that ends with it resolve.
LEMMA EntryResolves ==
    ASSUME Sound, NEW p \in TreePaths, p # <<>>, NEW ds \in Places,
           ds[1] = Inum(Parent(p)), EntryAt(ds).name = Last(p)
    PROVE  Inum(p) = EntryAt(ds).inode
<1>d. PICK d : d = ds[1]
  OBVIOUS
<1>s. PICK s : s = ds[2]
  OBVIOUS
<1>1. d \in LiveDirs /\ ds = <<d, s>> /\ s \in Slots
  BY <1>d, <1>s, SlotTyped DEF Sound
<1>2. d > 0 /\ S_ISDIR(mode[d])
  BY <1>1, LiveIsPositive DEF Sound, LiveDirs
<1>3. Matches(disk[direct0[d]], Last(p)) = {s}
  BY <1>1, OnlyMatch DEF Sound
<1>4. FirstOf({s}) = s
  BY <1>1, SizesAssumption DEF FirstOf, Slots
<1>5. Inum(p) = Step(mode, direct0, disk, d, Last(p))
  <2>1. p \in Seq(RawNames) /\ Len(p) <= MAX_PATH_LEN /\ Leaf(p) = Last(p)
    BY TreePathTyped
  <2> QED
    BY <1>d, <2>1, TranslateStep DEF Inum
<1>6. Step(mode, direct0, disk, d, Last(p)) = disk[direct0[d]][s].inode
  BY <1>2, <1>3, <1>4 DEF Step, lookup
<1>7. disk[direct0[d]][s] = EntryAt(ds)
  BY <1>1 DEF EntryAt
<1> QED
  BY <1>5, <1>6, <1>7

\* In a sound state the entries describe where translate leads: a path leads
\* to an inode exactly if an entry with its last name leads there from where
\* its parent leads.
LEMMA Described == Sound => Describes(Resolution, Edges)
<1> SUFFICES ASSUME Sound PROVE Describes(Resolution, Edges)
  OBVIOUS
<1>1. ASSUME NEW p \in TreePaths PROVE Inum(p) \in Live \cup Errors /\ Inum(p) \in Int
  BY TreePathTyped, Resolves, LiveIsPositive DEF Sound
<1>2. Inum(<<>>) = ROOT_INODE /\ <<>> \in TreePaths
  BY TranslateRoot, PathsAssumption DEF Inum, TreePaths
<1>3. ASSUME NEW ds \in Places
      PROVE  /\ ds[1] > 0 /\ EntryAt(ds).inode > 0 /\ EntryAt(ds).inode # ROOT_INODE
             /\ <<ds[1], EntryAt(ds).name, EntryAt(ds).inode>> \in Edges
  <2>1. ds[1] \in Live /\ EntryAt(ds).inode \in Live \ {ROOT_INODE}
    BY SlotTyped, LiveIsPositive DEF Sound, EntriesMatchInodes
  <2> QED
    BY <2>1, LiveIsPositive DEF Sound, Edges
<1>4. ASSUME NEW p \in TreePaths, p # <<>>, NEW i
      PROVE  <<Inum(Parent(p)), Last(p), i>> \in Edges <=> (Inum(p) = i /\ i > 0)
  <2>1. ASSUME <<Inum(Parent(p)), Last(p), i>> \in Edges PROVE Inum(p) = i /\ i > 0
    <3>e. PICK e : e = <<Inum(Parent(p)), Last(p), i>>
      OBVIOUS
    <3>1. PICK ds \in Places : e = <<ds[1], EntryAt(ds).name, EntryAt(ds).inode>>
      BY <2>1, <3>e DEF Edges
    <3>2. e[1] = Inum(Parent(p)) /\ e[2] = Last(p) /\ e[3] = i
      BY <3>e
    <3>3. e[1] = ds[1] /\ e[2] = EntryAt(ds).name /\ e[3] = EntryAt(ds).inode
      BY <3>1
    <3>4. ds[1] = Inum(Parent(p)) /\ EntryAt(ds).name = Last(p) /\ EntryAt(ds).inode = i
      BY <3>2, <3>3
    <3>5. Inum(p) = i
      BY <1>4, <3>4, EntryResolves
    <3> QED
      BY <1>3, <3>4, <3>5
  <2>2. ASSUME Inum(p) = i, i > 0 PROVE <<Inum(Parent(p)), Last(p), i>> \in Edges
    <3>1. p \in Seq(RawNames) /\ Len(p) <= MAX_PATH_LEN /\ Leaf(p) = Last(p)
      BY <1>4, TreePathTyped
    <3>d. PICK d : d = Inum(Parent(p))
      OBVIOUS
    <3>2. d = ParentInum(p)
      BY <3>d DEF Inum, ParentInum
    <3>3. PICK s \in Slots : /\ <<d, s>> \in Places
                             /\ EntryAt(<<d, s>>).name = Last(p)
                             /\ EntryAt(<<d, s>>).inode = i
      BY <1>4, <2>2, <3>1, <3>2, Found
    <3>e. PICK ds : ds = <<d, s>>
      OBVIOUS
    <3>4. ds \in Places /\ ds[1] = d /\ EntryAt(ds).name = Last(p) /\ EntryAt(ds).inode = i
      BY <3>3, <3>e
    <3> QED
      BY <1>3, <3>4, <3>d
  <2> QED
    BY <2>1, <2>2
<1>5. ASSUME NEW e \in Edges, NEW f \in Edges, e[3] = f[3] PROVE e = f
  <2>1. PICK ds \in Places : e = <<ds[1], EntryAt(ds).name, EntryAt(ds).inode>>
    BY DEF Edges
  <2>2. PICK et \in Places : f = <<et[1], EntryAt(et).name, EntryAt(et).inode>>
    BY DEF Edges
  <2>3. e[3] = EntryAt(ds).inode
    BY <2>1
  <2>4. f[3] = EntryAt(et).inode
    BY <2>2
  <2>5. ds = et
    BY <1>5, <2>3, <2>4 DEF Sound, EntriesMatchInodes
  <2> QED
    BY <2>1, <2>2, <2>5
<1>6. \A e \in Edges : e[1] > 0 /\ e[3] > 0 /\ e[3] # ROOT_INODE
  <2> SUFFICES ASSUME NEW e \in Edges PROVE e[1] > 0 /\ e[3] > 0 /\ e[3] # ROOT_INODE
    OBVIOUS
  <2>1. PICK ds \in Places : e = <<ds[1], EntryAt(ds).name, EntryAt(ds).inode>>
    BY DEF Edges
  <2>2. e[1] = ds[1] /\ e[3] = EntryAt(ds).inode
    BY <2>1
  <2> QED
    BY <1>3, <2>2
<1>7. \A p \in TreePaths : Resolution[p] = Inum(p) /\ (p # <<>> => Parent(p) \in TreePaths)
  BY TreePathTyped DEF Resolution
<1>8. \A p \in TreePaths : p # <<>> =>
         \A i : <<Resolution[Parent(p)], Last(p), i>> \in Edges
                   <=> (Resolution[p] = i /\ i > 0)
  BY <1>4, <1>7
<1>9. (\A p \in TreePaths : Resolution[p] \in Int) /\ Resolution[<<>>] = ROOT_INODE
  BY <1>1, <1>2, <1>7
<1> QED
  BY <1>5, <1>6, <1>8, <1>9 DEF Describes

Mapped == Describes(Resolution, Edges)

\* And after a call.
LEMMA DescribedAfter == Sound' => Describes(Resolution', Edges')
<1>1. Sound => Mapped
  BY Described DEF Mapped
<1>2. Sound' => Mapped'
  BY <1>1, PTL
<1> QED
  BY <1>2 DEF Mapped

\* Why a path does not resolve.
Refuses(I, md) ==
    \A p \in TreePaths : p # <<>> /\ ~(I[p] > 0) =>
        I[p] = IF ~(I[Parent(p)] > 0) THEN I[Parent(p)]
               ELSE IF S_ISDIR(md[I[Parent(p)]]) THEN ENOENT ELSE ENOTDIR

\* translate returns the error of the first part of a path that leads nowhere.
LEMMA Refusals ==
    ASSUME Sound
    PROVE  Refuses(Resolution, mode)
<1> SUFFICES ASSUME NEW p \in TreePaths, p # <<>>, ~(Inum(p) > 0)
             PROVE  Inum(p) = IF ~(Inum(Parent(p)) > 0) THEN Inum(Parent(p))
                              ELSE IF S_ISDIR(mode[Inum(Parent(p))]) THEN ENOENT ELSE ENOTDIR
  <2>1. \A p \in TreePaths : Resolution[p] = Inum(p) /\ (p # <<>> => Parent(p) \in TreePaths)
    BY TreePathTyped DEF Resolution
  <2> QED
    BY <2>1 DEF Refuses
<1>d. PICK d : d = Inum(Parent(p))
  OBVIOUS
<1>1. /\ p \in Seq(RawNames) /\ Len(p) <= MAX_PATH_LEN /\ Leaf(p) = Last(p)
      /\ Parent(p) \in TreePaths
  BY TreePathTyped
<1>2. Inum(p) = Step(mode, direct0, disk, d, Last(p)) /\ d = ParentInum(p)
  BY <1>1, <1>d, TranslateStep DEF Inum, ParentInum
<1>3. CASE ~(d > 0)
  BY <1>2, <1>3, <1>d DEF Step
<1>4. CASE d > 0 /\ ~S_ISDIR(mode[d])
  BY <1>2, <1>4, <1>d DEF Step, lookup
<1>5. CASE d > 0 /\ S_ISDIR(mode[d])
  <2>1. d \in Live
    <3>1. Parent(p) \in Seq(RawNames) /\ Len(Parent(p)) <= MAX_PATH_LEN
      BY <1>1, TreePathTyped
    <3> QED
      BY <1>5, <1>d, <3>1, Resolves, LiveIsPositive DEF Sound
  <2>2. d \in LiveDirs
    BY <1>5, <2>1 DEF LiveDirs
  <2>3. Matches(disk[direct0[d]], Last(p)) = {}
    BY <1>1, <1>2, <2>2, NotFound
  <2> QED
    BY <1>2, <1>5, <1>d, <2>3 DEF Step, lookup
<1> QED
  BY <1>3, <1>4, <1>5, <1>d

-----------------------------------------------------------------------------
(* The tree of a state. *)

Kind(md, i) == IF S_ISDIR(md[i]) THEN "dir" ELSE "file"
TreeOf(I, md) == [p \in {q \in TreePaths : I[q] > 0} |-> Kind(md, I[p])]

\* Callers use all paths of the tree but the root.
LEMMA PathsKnown ==
    ASSUME ShortPaths, EveryPath
    PROVE  {parse(q) : q \in Paths} = TreePaths \ {<<>>}
<1>1. ASSUME NEW q \in Paths PROVE parse(q) \in TreePaths \ {<<>>}
  <2>1. q \in Seq(RawNames) /\ q # <<>> /\ Len(q) <= MAX_PATH_LEN
    BY PathsAssumption DEF ShortPaths
  <2>2. parse(q) = [k \in 1 .. Len(q) |-> Cut[q[k]]] /\ Len(parse(q)) = Len(q)
    BY <2>1, ParseLength
  <2>3. \A k \in 1 .. Len(q) : Cut[q[k]] \in CutNames
    BY <2>1 DEF CutNames
  <2>4. parse(q) \in Seq(CutNames)
    BY <2>1, <2>2, <2>3
  <2> QED
    BY <2>1, <2>2, <2>4 DEF TreePaths
<1>2. ASSUME NEW p \in TreePaths, p # <<>> PROVE p \in {parse(q) : q \in Paths}
  <2>k. PICK k : k = Len(p)
    OBVIOUS
  <2>1. k \in 1 .. MAX_PATH_LEN
    BY <1>2, <2>k, PathsAssumption, TreePathTyped
  <2>2. p \in [1 .. k -> CutNames]
    BY <2>k, PathElements
  <2> QED
    BY <2>1, <2>2 DEF EveryPath, CutNames
<1> QED
  BY <1>1, <1>2

\* The tree, by the inode of each path, before and after a step.
LEMMA TreeIs ==
    ASSUME ShortPaths, EveryPath
    PROVE  /\ TreeNow = TreeOf(Resolution, mode)
           /\ TreeNow' = TreeOf(Resolution', mode')
<1>1. /\ <<>> \in TreePaths /\ ROOT_INODE > 0 /\ Inum(<<>>) = ROOT_INODE
      /\ Inum(<<>>)' = ROOT_INODE
  BY TranslateRoot, PathsAssumption DEF Inum, TreePaths, ROOT_INODE
<1>2. TreeNow = TreeOf(Resolution, mode)
  <2>1. \A p \in TreePaths : Resolution[p] = Inum(p)
    BY DEF Resolution
  <2>2. Resolved \cup {<<>>} = {q \in TreePaths : Resolution[q] > 0}
    BY <1>1, <2>1, PathsKnown DEF Resolved
  <2> QED
    BY <2>1, <2>2 DEF TreeNow, TreeOf, Kind
<1>3. TreeNow' = TreeOf(Resolution', mode')
  <2>1. \A p \in TreePaths : Resolution'[p] = Inum(p)'
    BY DEF Resolution
  <2>2. (Resolved \cup {<<>>})' = {q \in TreePaths : Resolution'[q] > 0}
    BY <1>1, <2>1, PathsKnown DEF Resolved
  <2> QED
    BY <2>1, <2>2 DEF TreeNow, TreeOf, Kind
<1> QED
  BY <1>2, <1>3

\* What the tree says of a path.
LEMMA TreeMeans ==
    ASSUME NEW I, NEW md
    PROVE  /\ DOMAIN TreeOf(I, md) = {q \in TreePaths : I[q] > 0}
           /\ \A p \in TreePaths : I[p] > 0 => TreeOf(I, md)[p] = Kind(md, I[p])
BY DEF TreeOf

\* Paths that lead where they led are the same tree.
LEMMA EqualTrees ==
    ASSUME NEW I, NEW md, NEW J, NEW md1,
           \A r \in TreePaths : Same(I[r], J[r]),
           \A r \in TreePaths : I[r] > 0 => (S_ISDIR(md1[I[r]]) <=> S_ISDIR(md[I[r]]))
    PROVE  TreeOf(J, md1) = TreeOf(I, md)
<1>1. {q \in TreePaths : J[q] > 0} = {q \in TreePaths : I[q] > 0}
  BY DEF Same
<1>2. ASSUME NEW p \in TreePaths, I[p] > 0 PROVE Kind(md1, J[p]) = Kind(md, I[p])
  BY <1>2 DEF Same, Kind
<1> QED
  BY <1>1, <1>2 DEF TreeOf

With(t, p, kind) == [q \in DOMAIN t \cup {p} |-> IF q = p THEN kind ELSE t[q]]

\* One path more is a tree with it.
LEMMA BiggerTree ==
    ASSUME NEW I, NEW md, NEW J, NEW md1, NEW p \in TreePaths, J[p] > 0,
           \A r \in TreePaths : r # p => Same(I[r], J[r]),
           \A r \in TreePaths : I[r] > 0 => (S_ISDIR(md1[I[r]]) <=> S_ISDIR(md[I[r]]))
    PROVE  TreeOf(J, md1) = With(TreeOf(I, md), p, Kind(md1, J[p]))
<1>t. PICK t : t = TreeOf(I, md)
  OBVIOUS
<1>1. DOMAIN t = {q \in TreePaths : I[q] > 0}
  BY <1>t, TreeMeans
<1>2. {q \in TreePaths : J[q] > 0} = DOMAIN t \cup {p}
  BY <1>1 DEF Same
<1>3. ASSUME NEW q \in DOMAIN t, q # p PROVE Kind(md1, J[q]) = t[q]
  <2>1. q \in TreePaths /\ I[q] > 0
    BY <1>1
  <2>2. t[q] = Kind(md, I[q])
    BY <1>t, <2>1, TreeMeans
  <2>3. J[q] = I[q] /\ (S_ISDIR(md1[I[q]]) <=> S_ISDIR(md[I[q]]))
    BY <1>3, <2>1 DEF Same
  <2> QED
    BY <2>2, <2>3 DEF Kind
<1>4. TreeOf(J, md1) = [q \in DOMAIN t \cup {p} |-> IF q = p THEN Kind(md1, J[p]) ELSE t[q]]
  BY <1>2, <1>3 DEF TreeOf
<1> QED
  BY <1>t, <1>4 DEF With

\* One path less is a tree without it.
LEMMA SmallerTree ==
    ASSUME NEW I, NEW md, NEW J, NEW md1, NEW p \in TreePaths, ~(J[p] > 0),
           \A r \in TreePaths : r # p => Same(I[r], J[r]),
           \A r \in TreePaths : I[r] > 0 => (S_ISDIR(md1[I[r]]) <=> S_ISDIR(md[I[r]]))
    PROVE  TreeOf(J, md1) = Abstract!Without(TreeOf(I, md), p)
<1>t. PICK t : t = TreeOf(I, md)
  OBVIOUS
<1>1. DOMAIN t = {q \in TreePaths : I[q] > 0}
  BY <1>t, TreeMeans
<1>2. {q \in TreePaths : J[q] > 0} = DOMAIN t \ {p}
  BY <1>1 DEF Same
<1>3. ASSUME NEW q \in DOMAIN t, q # p PROVE Kind(md1, J[q]) = t[q]
  <2>1. q \in TreePaths /\ I[q] > 0
    BY <1>1
  <2>2. t[q] = Kind(md, I[q])
    BY <1>t, <2>1, TreeMeans
  <2>3. J[q] = I[q] /\ (S_ISDIR(md1[I[q]]) <=> S_ISDIR(md[I[q]]))
    BY <1>3, <2>1 DEF Same
  <2> QED
    BY <2>2, <2>3 DEF Kind
<1>4. TreeOf(J, md1) = Abstract!Without(t, p)
  BY <1>2, <1>3 DEF TreeOf, Abstract!Without
<1> QED
  BY <1>t, <1>4

\* What is below p moves with it.
LEMMA MovedTree ==
    ASSUME NEW I, NEW E, Describes(I, E), NEW md, NEW J,
           NEW p \in TreePaths, NEW q \in TreePaths, Len(p) = Len(q), p # q,
           I[p] > 0, ~(I[q] > 0),
           \A r \in TreePaths : Taken(I, J, p, q, r)
    PROVE  TreeOf(J, md) = Abstract!Moved(TreeOf(I, md), p, q)
<1>t. PICK t : t = TreeOf(I, md)
  OBVIOUS
<1>b. PICK B : B = Abstract!Below(t, p)
  OBVIOUS
<1>k. PICK K : K = DOMAIN t \ B
  OBVIOUS
<1>m. PICK M : M = {Onto(q, p, s) : s \in B}
  OBVIOUS
<1>1. DOMAIN t = {r \in TreePaths : I[r] > 0}
  BY <1>t, TreeMeans
<1>2. B = {r \in TreePaths : I[r] > 0 /\ Extends(r, p)}
  BY <1>1, <1>b DEF Abstract!Below, Extends
<1>3. K = {r \in TreePaths : I[r] > 0 /\ ~Extends(r, p)}
  BY <1>1, <1>2, <1>k
<1>4. ASSUME NEW r \in TreePaths, Extends(r, q) PROVE ~(I[r] > 0)
  <2>n. PICK n : n = Len(q)
    OBVIOUS
  <2>1. n \in 0 .. Len(r) /\ SubSeq(r, 1, n) = q
    BY <1>4, <2>n, PathElements DEF Extends
  <2> QED
    BY <2>1, OnTheWay
<1>5. ASSUME NEW r PROVE r \in M <=> r \in TreePaths /\ Extends(r, q) /\ J[r] > 0
  <2>1. ASSUME r \in M PROVE r \in TreePaths /\ Extends(r, q) /\ J[r] > 0
    <3>1. PICK s \in B : r = Onto(q, p, s)
      BY <1>m, <2>1
    <3>2. s \in TreePaths /\ I[s] > 0 /\ Extends(s, p)
      BY <1>2
    <3>3. r \in TreePaths /\ Extends(r, q) /\ Onto(p, q, r) = s
      BY <3>1, <3>2, OntoBack
    <3> QED
      BY <3>2, <3>3 DEF Taken, Same
  <2>2. ASSUME r \in TreePaths, Extends(r, q), J[r] > 0 PROVE r \in M
    <3>s. PICK s : s = Onto(p, q, r)
      OBVIOUS
    <3>1. s \in TreePaths /\ Extends(s, p) /\ Onto(q, p, s) = r
      BY <2>2, <3>s, OntoBack
    <3>2. I[s] > 0
      BY <2>2, <3>s DEF Taken, Same
    <3> QED
      BY <1>2, <1>m, <3>1, <3>2
  <2> QED
    BY <2>1, <2>2
<1>6. ASSUME NEW r \in TreePaths PROVE J[r] > 0 <=> r \in K \cup M
  <2>1. CASE Extends(r, q)
    BY <1>3, <1>4, <1>5, <2>1
  <2>2. CASE ~Extends(r, q) /\ Extends(r, p)
    BY <1>3, <1>5, <2>2 DEF Taken
  <2>3. CASE ~Extends(r, q) /\ ~Extends(r, p)
    BY <1>3, <1>5, <2>3 DEF Taken, Same
  <2> QED
    BY <2>1, <2>2, <2>3
<1>7. {r \in TreePaths : J[r] > 0} = K \cup M
  BY <1>3, <1>5, <1>6
<1>8. ASSUME NEW r \in K \cup M
      PROVE  Kind(md, J[r]) = IF r \in K THEN t[r] ELSE t[Onto(p, q, r)]
  <2>1. CASE r \in K
    <3>1. r \in TreePaths /\ I[r] > 0 /\ ~Extends(r, p) /\ ~Extends(r, q)
      BY <1>3, <1>4, <2>1
    <3>2. J[r] = I[r]
      BY <3>1 DEF Taken, Same
    <3>3. t[r] = Kind(md, I[r])
      BY <1>t, <3>1, TreeMeans
    <3> QED
      BY <2>1, <3>2, <3>3
  <2>2. CASE r \notin K
    <3>1. r \in TreePaths /\ Extends(r, q) /\ J[r] > 0
      BY <1>5, <1>8, <2>2
    <3>s. PICK s : s = Onto(p, q, r)
      OBVIOUS
    <3>2. s \in TreePaths /\ I[s] > 0 /\ J[r] = I[s]
      <4>1. s \in TreePaths
        BY <3>1, <3>s, OntoBack
      <4>2. Same(I[s], J[r])
        BY <3>1, <3>s DEF Taken
      <4> QED
        BY <3>1, <4>1, <4>2 DEF Same
    <3>3. t[s] = Kind(md, I[s])
      BY <1>t, <3>2, TreeMeans
    <3> QED
      BY <2>2, <3>2, <3>3, <3>s
  <2> QED
    BY <2>1, <2>2
<1>9. TreeOf(J, md) = [r \in K \cup M |-> IF r \in K THEN t[r] ELSE t[Onto(p, q, r)]]
  BY <1>7, <1>8 DEF TreeOf
<1>10. Abstract!Moved(t, p, q)
          = [r \in K \cup M |-> IF r \in K THEN t[r] ELSE t[Onto(p, q, r)]]
  BY <1>b, <1>k, <1>m DEF Abstract!Moved, Onto
<1> QED
  BY <1>9, <1>10, <1>t

-----------------------------------------------------------------------------
(* What a call is told about a path. *)

\* The first part of a path that leads nowhere decides on the error.
LEMMA ErrorStays ==
    ASSUME NEW I, NEW E, Describes(I, E), NEW md, Refuses(I, md),
           NEW p \in TreePaths, NEW n \in 0 .. Len(p), ~(I[SubSeq(p, 1, n)] > 0)
    PROVE  I[p] = I[SubSeq(p, 1, n)]
<1> DEFINE Ends(r) == \A k \in 0 .. Len(r) :
                         ~(I[SubSeq(r, 1, k)] > 0) => I[r] = I[SubSeq(r, 1, k)]
           S == {r \in TreePaths : Ends(r)}
<1>1. <<>> \in S
  <2>1. \A k \in 0 .. Len(<<>>) : SubSeq(<<>>, 1, k) = <<>>
    OBVIOUS
  <2> QED
    BY <2>1, RootPath
<1>2. ASSUME NEW r \in TreePaths, r # <<>>, Parent(r) \in S PROVE r \in S
  <2>1. ASSUME NEW k \in 0 .. Len(r), ~(I[SubSeq(r, 1, k)] > 0)
        PROVE  I[r] = I[SubSeq(r, 1, k)]
    <3>1. CASE k = Len(r)
      BY <1>2, <3>1, TreePathTyped, WholePart
    <3>2. CASE k # Len(r)
      <4>1. k \in 0 .. Len(Parent(r))
        BY <1>2, <2>1, <3>2, TreePathTyped
      <4>2. SubSeq(r, 1, k) = SubSeq(Parent(r), 1, k)
        BY <1>2, <2>1, <3>2, TreePathTyped, ParentPart
      <4>3. I[Parent(r)] = I[SubSeq(r, 1, k)] /\ ~(I[Parent(r)] > 0)
        BY <1>2, <2>1, <4>1, <4>2
      <4>4. ~(I[r] > 0)
        BY <1>2, <4>3, LastEdge
      <4> QED
        BY <1>2, <4>3, <4>4 DEF Refuses
    <3> QED
      BY <3>1, <3>2
  <2> QED
    BY <1>2, <2>1
<1> HIDE DEF S
<1>3. p \in S
  BY <1>1, <1>2, PathInduction
<1> QED
  BY <1>3 DEF S

\* The error of a path that leads nowhere is the one the tree decides on.
LEMMA MissingMeans ==
    ASSUME NEW I, NEW E, Describes(I, E), NEW md, Refuses(I, md),
           NEW p \in TreePaths, ~(I[p] > 0)
    PROVE  Abstract!Missing(TreeOf(I, md), p) = Abstract!Refused({I[p]}, TreeOf(I, md))
<1>t. PICK t : t = TreeOf(I, md)
  OBVIOUS
<1> DEFINE Splits(n) == /\ SubSeq(p, 1, n) \in DOMAIN t
                        /\ SubSeq(p, 1, n + 1) \notin DOMAIN t
<1>1. p # <<>> /\ Len(p) \in Nat /\ p \in Seq(RawNames)
  BY RootPath, TreePathTyped
<1>2. DOMAIN t = {r \in TreePaths : I[r] > 0}
  BY <1>t, TreeMeans
<1>3. ASSUME NEW n \in 0 .. Len(p) - 1, Splits(n)
      PROVE  I[p] = IF t[SubSeq(p, 1, n)] = "dir" THEN ENOENT ELSE ENOTDIR
  <2>m. PICK m : m = n + 1
    OBVIOUS
  <2>a. PICK a : a = SubSeq(p, 1, n)
    OBVIOUS
  <2>b. PICK b : b = SubSeq(p, 1, m)
    OBVIOUS
  <2>1. n \in 0 .. Len(p) /\ n # Len(p) /\ m \in 0 .. Len(p) /\ m > 0
    BY <1>1, <2>m
  <2>2. b \in TreePaths /\ Len(b) = m /\ b # <<>>
    <3>1. b \in TreePaths /\ Len(b) = m
      BY <2>1, <2>b, PartIsPath
    <3> QED
      BY <2>1, <3>1
  <2>3. Parent(b) = a
    BY <1>1, <2>1, <2>a, <2>b, <2>m, ParentPart
  <2>4. I[a] > 0 /\ ~(I[b] > 0) /\ t[a] = Kind(md, I[a])
    <3>1. a \in TreePaths /\ I[a] > 0
      BY <1>2, <1>3, <2>a
    <3>2. ~(I[b] > 0)
      BY <1>2, <1>3, <2>2, <2>b, <2>m
    <3> QED
      BY <1>t, <3>1, <3>2, TreeMeans
  <2>5. I[b] = IF S_ISDIR(md[I[a]]) THEN ENOENT ELSE ENOTDIR
    BY <2>2, <2>3, <2>4 DEF Refuses
  <2>6. I[p] = I[b]
    BY <2>1, <2>4, <2>b, ErrorStays
  <2> QED
    BY <2>4, <2>5, <2>6, <2>a DEF Kind
<1>4. \E n \in 0 .. Len(p) - 1 : Splits(n)
  <2> DEFINE N == {n \in 0 .. Len(p) : ~(I[SubSeq(p, 1, n)] > 0)}
  <2>1. Len(p) \in N
    <3>1. PICK n : n = Len(p)
      OBVIOUS
    <3>2. SubSeq(p, 1, n) = p
      BY <1>1, <3>1, WholePart
    <3>3. ~(I[SubSeq(p, 1, n)] > 0)
      BY <3>2
    <3>4. n \in 0 .. Len(p)
      BY <1>1, <3>1
    <3> QED
      BY <3>1, <3>3, <3>4
  <2>2. N \in SUBSET Nat /\ N # {}
    BY <1>1, <2>1
  <2> HIDE DEF N
  <2>3. PICK m \in N : \A y \in N : m <= y
    BY <2>2, Minimum
  <2>4. m \in 0 .. Len(p) /\ ~(I[SubSeq(p, 1, m)] > 0)
    BY <2>3 DEF N
  <2>5. m # 0
    <3>1. SubSeq(p, 1, 0) = <<>>
      BY <1>1
    <3> QED
      BY <2>4, <3>1, RootPath
  <2>n. PICK n : n = m - 1
    OBVIOUS
  <2>6. n \in 0 .. Len(p) - 1 /\ n + 1 = m /\ n \in 0 .. Len(p) /\ ~(m <= n)
    BY <1>1, <2>4, <2>5, <2>n
  <2>7. I[SubSeq(p, 1, n)] > 0
    BY <2>3, <2>6 DEF N
  <2>8. SubSeq(p, 1, n) \in TreePaths
    BY <2>6, PartIsPath
  <2>9. SubSeq(p, 1, n) \in DOMAIN t /\ SubSeq(p, 1, m) \notin DOMAIN t
    BY <1>2, <2>4, <2>7, <2>8
  <2> QED
    BY <2>6, <2>9
<1>k. PICK k : k = CHOOSE n \in 0 .. Len(p) - 1 : Splits(n)
  OBVIOUS
<1>5. k \in 0 .. Len(p) - 1 /\ Splits(k)
  BY <1>4, <1>k
<1>6. I[p] = IF t[SubSeq(p, 1, k)] = "dir" THEN ENOENT ELSE ENOTDIR
  BY <1>3, <1>5
<1>7. Abstract!Missing(t, p)
         = Abstract!Refused({IF t[SubSeq(p, 1, k)] = "dir" THEN ENOENT ELSE ENOTDIR}, t)
  BY <1>k DEF Abstract!Missing, Abstract!ENOENT, Abstract!ENOTDIR, ENOENT, ENOTDIR
<1> QED
  BY <1>6, <1>7, <1>t

-----------------------------------------------------------------------------
(* The names in a directory. *)

\* Every inode in use is at the end of a path.
Reached == \A i \in Live : \E p \in TreePaths : Inum(p) = i

\* The entries of the directory at the end of p are the last names of paths.
LEMMA EntriesReached ==
    ASSUME Sound, Reached, NEW ds \in Places, NEW p \in TreePaths, Inum(p) = ds[1]
    PROVE  \E r \in TreePaths : /\ r # <<>> /\ Parent(r) = p
                                /\ Last(r) = EntryAt(ds).name
                                /\ Inum(r) = EntryAt(ds).inode /\ Inum(r) > 0
<1>1. EntryAt(ds).inode \in Live \ {ROOT_INODE}
  BY DEF Sound, EntriesMatchInodes
<1>2. PICK r \in TreePaths : Inum(r) = EntryAt(ds).inode
  BY <1>1 DEF Reached
<1>3. Inum(r) > 0 /\ r # <<>>
  BY <1>1, <1>2, LiveIsPositive, TranslateRoot DEF Sound, Inum
<1>4. r \in Seq(RawNames) /\ Len(r) <= MAX_PATH_LEN /\ Leaf(r) = Last(r) /\ Parent(r) \in TreePaths
  BY <1>3, TreePathTyped
<1>d. PICK d : d = ParentInum(r)
  OBVIOUS
<1>5. PICK s \in Slots : /\ <<d, s>> \in Places
                         /\ EntryAt(<<d, s>>).name = Last(r)
                         /\ EntryAt(<<d, s>>).inode = Inum(r)
  BY <1>3, <1>4, <1>d, Found
<1>6. <<d, s>> = ds
  BY <1>2, <1>5 DEF Sound, EntriesMatchInodes
<1>7. d = ds[1] /\ d > 0
  <2>1. d = ds[1]
    BY <1>6
  <2> QED
    BY <2>1, SlotTyped, LiveIsPositive DEF Sound
<1>8. Parent(r) = p
  <2>1. \A x \in TreePaths : Resolution[x] = Inum(x)
    BY DEF Resolution
  <2>2. Describes(Resolution, Edges)
    BY Described
  <2>3. Resolution[Parent(r)] = d /\ Resolution[p] = d
    BY <1>4, <1>7, <1>d, <2>1 DEF Inum, ParentInum
  <2> QED
    BY <1>4, <1>7, <2>2, <2>3, OnePath
<1> QED
  BY <1>2, <1>3, <1>5, <1>6, <1>8

\* readdir lists the names below the path.
LEMMA NamesAre ==
    ASSUME Sound, Reached, NEW p \in TreePaths, Inum(p) \in LiveDirs
    PROVE  Listing(disk[direct0[Inum(p)]]) = Abstract!Names(TreeOf(Resolution, mode), p)
<1>d. PICK d : d = Inum(p)
  OBVIOUS
<1>t. PICK t : t = TreeOf(Resolution, mode)
  OBVIOUS
<1>1. DOMAIN t = {r \in TreePaths : Inum(r) > 0}
  <2>1. DOMAIN t = {r \in TreePaths : Resolution[r] > 0}
    BY <1>t, TreeMeans
  <2> QED
    BY <2>1 DEF Resolution
<1>2. ASSUME NEW n \in Listing(disk[direct0[d]]) PROVE n \in Abstract!Names(t, p)
  <2>1. PICK s \in Slots : disk[direct0[d]][s].valid /\ disk[direct0[d]][s].name = n
    BY <1>2 DEF Listing
  <2>e. PICK ds : ds = <<d, s>>
    OBVIOUS
  <2>2. ds \in Places /\ EntryAt(ds).name = n /\ ds[1] = d
    BY <1>d, <2>1, <2>e DEF Places, EntryAt
  <2>3. PICK r \in TreePaths : /\ r # <<>> /\ Parent(r) = p /\ Last(r) = n /\ Inum(r) > 0
    BY <1>d, <2>2, EntriesReached
  <2>4. r \in DOMAIN t
    BY <1>1, <2>3
  <2> QED
    BY <2>3, <2>4 DEF Abstract!Names, Abstract!Up, Parent, Last
<1>3. ASSUME NEW n \in Abstract!Names(t, p) PROVE n \in Listing(disk[direct0[d]])
  <2>1. PICK r \in DOMAIN t : r # <<>> /\ Parent(r) = p /\ n = Last(r)
    BY <1>3 DEF Abstract!Names, Abstract!Up, Parent, Last
  <2>2. r \in TreePaths /\ Inum(r) > 0
    BY <1>1
  <2>3. r \in Seq(RawNames) /\ Len(r) <= MAX_PATH_LEN /\ Leaf(r) = n
    BY <2>1, <2>2, TreePathTyped
  <2>4. ParentInum(r) = d
    BY <1>d, <2>1 DEF ParentInum, Inum
  <2>5. PICK s \in Slots : <<d, s>> \in Places /\ EntryAt(<<d, s>>).name = n
    BY <2>1, <2>2, <2>3, <2>4, Found
  <2>6. disk[direct0[d]][s].valid /\ disk[direct0[d]][s].name = n
    BY <2>5 DEF Places, EntryAt
  <2> QED
    BY <2>6 DEF Listing
<1>4. Listing(disk[direct0[d]]) = Abstract!Names(t, p)
  BY <1>2, <1>3
<1> QED
  BY <1>4, <1>d, <1>t

\* A directory without names is one without paths below it.
LEMMA NothingBelow ==
    ASSUME NEW I, NEW E, Describes(I, E), NEW md, NEW p \in TreePaths, I[p] > 0
    PROVE  Abstract!Names(TreeOf(I, md), p) = {}
              <=> Abstract!Below(TreeOf(I, md), p) = {p}
<1>t. PICK t : t = TreeOf(I, md)
  OBVIOUS
<1>1. DOMAIN t = {r \in TreePaths : I[r] > 0}
  BY <1>t, TreeMeans
<1>2. Abstract!Below(t, p) = {r \in TreePaths : I[r] > 0 /\ Extends(r, p)}
  BY <1>1 DEF Abstract!Below, Extends
<1>3. p \in Abstract!Below(t, p)
  BY <1>2, ExtendsParent
<1>4. ASSUME NEW n \in Abstract!Names(t, p) PROVE Abstract!Below(t, p) # {p}
  <2>1. PICK r \in DOMAIN t : r # <<>> /\ Parent(r) = p
    BY <1>4 DEF Abstract!Names, Abstract!Up, Parent
  <2>2. r \in TreePaths /\ I[r] > 0
    BY <1>1
  <2>3. Extends(r, p)
    BY <2>1, <2>2, ExtendsParent
  <2>4. r # p
    <3>1. Len(p) = Len(r) - 1 /\ Len(r) \in Nat
      BY <2>1, <2>2, TreePathTyped
    <3> QED
      BY <3>1
  <2> QED
    BY <1>2, <2>2, <2>3, <2>4
<1>5. ASSUME NEW r \in Abstract!Below(t, p), r # p PROVE Abstract!Names(t, p) # {}
  <2>1. r \in TreePaths /\ I[r] > 0 /\ Extends(r, p)
    BY <1>2, <1>5
  <2>2. Len(r) \in Nat /\ Len(p) \in Nat /\ Len(r) >= Len(p) /\ SubSeq(r, 1, Len(p)) = p
    BY <2>1, PathElements DEF Extends
  <2>n. PICK n : n = Len(p)
    OBVIOUS
  <2>3. n # Len(r)
    <3>1. r \in Seq(RawNames)
      BY <2>1, TreePathTyped
    <3> QED
      BY <1>5, <2>2, <2>n, <3>1, WholePart
  <2>m. PICK m : m = n + 1
    OBVIOUS
  <2>x. PICK x : x = SubSeq(r, 1, m)
    OBVIOUS
  <2>4. n \in 0 .. Len(r) /\ m \in 0 .. Len(r) /\ m > 0
    BY <2>2, <2>3, <2>m, <2>n
  <2>5. x \in TreePaths /\ Len(x) = m /\ I[x] > 0
    BY <2>1, <2>4, <2>x, OnTheWay, PartIsPath
  <2>6. Parent(x) = p
    <3>1. r \in Seq(RawNames) /\ r # <<>>
      BY <2>1, <2>4, TreePathTyped
    <3> QED
      BY <2>2, <2>3, <2>4, <2>m, <2>n, <2>x, <3>1, ParentPart
  <2>7. x # <<>> /\ x \in DOMAIN t
    BY <1>1, <2>4, <2>5
  <2> QED
    BY <2>6, <2>7 DEF Abstract!Names, Abstract!Up, Parent
<1>6. Abstract!Names(t, p) = {} <=> Abstract!Below(t, p) = {p}
  BY <1>3, <1>4, <1>5
<1> QED
  BY <1>6, <1>t

-----------------------------------------------------------------------------
(* The paths of a call. *)

\* The path a caller uses, as the tree knows it, leads where the caller's does.
LEMMA KnownPath ==
    ASSUME ShortPaths, NEW q \in Paths, NEW p, p = parse(q)
    PROVE  /\ p \in TreePaths /\ p # <<>> /\ p = Abstract!Known(q)
           /\ Parent(p) \in TreePaths /\ Inum(Parent(p)) = ParentInum(q)
           /\ Inum(p) = Inum(q) /\ Last(p) = Leaf(q)
           /\ q \in Seq(RawNames) /\ q # <<>> /\ Len(q) <= MAX_PATH_LEN
<1>1. q \in Seq(RawNames) /\ q # <<>> /\ Len(q) <= MAX_PATH_LEN /\ Len(q) \in Nat
  BY PathsAssumption DEF ShortPaths
<1>2. p = [k \in 1 .. Len(q) |-> Cut[q[k]]] /\ Len(p) = Len(q) /\ p # <<>>
  BY <1>1, ParseLength
<1>3. p \in TreePaths
  <2>1. \A k \in 1 .. Len(q) : Cut[q[k]] \in CutNames
    BY <1>1 DEF CutNames
  <2>2. p \in Seq(CutNames)
    BY <1>1, <1>2, <2>1
  <2> QED
    BY <1>1, <1>2, <2>2 DEF TreePaths
<1>4. parse(p) = p /\ Last(p) = Leaf(q) /\ Parent(p) \in TreePaths
  <2>1. Len(q) \in 1 .. Len(q)
    BY <1>1
  <2>2. Last(p) = Cut[q[Len(q)]]
    BY <1>2, <2>1 DEF Last
  <2> QED
    BY <1>2, <1>3, <2>2, TreePathTyped DEF Leaf
<1>5. Inum(p) = Inum(q)
  BY <1>4 DEF Inum, translate
<1>6. p = Abstract!Known(q)
  <2>1. DOMAIN q = 1 .. Len(q)
    BY <1>1
  <2> QED
    BY <1>2, <2>1 DEF Abstract!Known
<1>7. parse(Parent(q)) = Parent(p)
  <2>m. PICK m : m = Len(q) - 1
    OBVIOUS
  <2>1. /\ Parent(q) \in Seq(RawNames) /\ Len(Parent(q)) = m /\ m \in Nat
        /\ m <= MAX_PATH_LEN
        /\ \A k \in 1 .. m : Parent(q)[k] = q[k] /\ k \in 1 .. Len(q)
    BY <1>1, <2>m, ParentSeq, PathsAssumption
  <2>2. parse(Parent(q)) = [k \in 1 .. m |-> Cut[Parent(q)[k]]]
    BY <2>1, ParseLength
  <2>3. /\ Parent(p) \in Seq(CutNames) /\ Len(Parent(p)) = m
        /\ \A k \in 1 .. m : Parent(p)[k] = p[k]
    BY <1>2, <1>3, <2>m, TreePathTyped, PathElements
  <2>4. Parent(p) = [k \in 1 .. m |-> Parent(p)[k]]
    BY <2>1, <2>3
  <2>5. \A k \in 1 .. m : Parent(p)[k] = Cut[Parent(q)[k]]
    BY <1>2, <2>1, <2>3
  <2> QED
    BY <2>2, <2>4, <2>5
<1>8. Inum(Parent(p)) = ParentInum(q)
  <2>1. parse(Parent(p)) = Parent(p)
    BY <1>4, TreePathTyped
  <2> QED
    BY <1>7, <2>1 DEF Inum, ParentInum, translate
<1> QED
  BY <1>1, <1>2, <1>3, <1>4, <1>5, <1>6, <1>8

\* The root is a path, and the code reads it as it is.
LEMMA RootKnown == <<>> \in TreePaths /\ parse(<<>>) = <<>> /\ <<>> \in Seq(RawNames)
<1>1. <<>> \in TreePaths
  BY PathsAssumption DEF TreePaths
<1> QED
  BY <1>1, TreePathTyped

\* A path that leads nowhere is not in the tree, and the error is the tree's.
LEMMA Absent ==
    ASSUME ShortPaths, EveryPath, Sound, NEW p \in TreePaths, ~(Inum(p) > 0)
    PROVE  /\ p \notin DOMAIN TreeNow
           /\ Abstract!Missing(TreeNow, p) = Abstract!Refused({Inum(p)}, TreeNow)
<1>1. Resolution[p] = Inum(p)
  BY DEF Resolution
<1>2. Describes(Resolution, Edges) /\ Refuses(Resolution, mode)
      /\ TreeNow = TreeOf(Resolution, mode)
  BY Described, Refusals, TreeIs
<1>t. PICK t : t = TreeNow
  OBVIOUS
<1>3. p \notin DOMAIN t
  BY <1>1, <1>2, <1>t, TreeMeans
<1>4. Abstract!Missing(t, p) = Abstract!Refused({Inum(p)}, t)
  BY <1>1, <1>2, <1>t, MissingMeans
<1> QED
  BY <1>3, <1>4, <1>t

\* A path that leads to an inode is in the tree, with the inode's kind.
LEMMA Present ==
    ASSUME ShortPaths, EveryPath, Sound, NEW p \in TreePaths, ~(Inum(p) < 0)
    PROVE  /\ p \in DOMAIN TreeNow /\ Inum(p) > 0 /\ Inum(p) \in Live
           /\ TreeNow[p] = Kind(mode, Inum(p))
           /\ Abstract!IsDir(TreeNow, p) <=> S_ISDIR(mode[Inum(p)])
           /\ Abstract!IsFile(TreeNow, p) <=> ~S_ISDIR(mode[Inum(p)])
<1>1. Resolution[p] = Inum(p)
  BY DEF Resolution
<1>2. Inum(p) > 0 /\ Inum(p) \in Live
  BY TreePathTyped, ResolvesToLive
<1>3. TreeNow = TreeOf(Resolution, mode)
  BY TreeIs
<1>4. p \in DOMAIN TreeNow /\ TreeNow[p] = Kind(mode, Inum(p))
  BY <1>1, <1>2, <1>3, TreeMeans
<1>5. /\ Abstract!IsDir(TreeNow, p) <=> S_ISDIR(mode[Inum(p)])
      /\ Abstract!IsFile(TreeNow, p) <=> ~S_ISDIR(mode[Inum(p)])
  BY <1>4 DEF Kind, Abstract!IsDir, Abstract!IsFile
<1> QED
  BY <1>2, <1>4, <1>5

-----------------------------------------------------------------------------
(* What is left: slots, inodes and blocks. *)

\* As many as there are to map one to one.
LEMMA AsMany ==
    ASSUME NEW S, NEW T, NEW f \in [S -> T], IsFiniteSet(S),
           \A x, y \in S : f[x] = f[y] => x = y,
           \A y \in T : \E x \in S : f[x] = y
    PROVE  IsFiniteSet(T) /\ Cardinality(T) = Cardinality(S)
<1>1. f \in Bijection(S, T)
  BY DEF Bijection, Injection, Surjection, IsInjective
<1>2. ExistsBijection(S, T)
  BY <1>1 DEF ExistsBijection
<1> QED
  BY <1>2, FS_Bijection

\* A part of an interval has as many members as it only if it is all of it.
LEMMA AllOf ==
    ASSUME NEW m \in Nat, NEW n \in Nat, m < n, NEW S, S \subseteq m .. n - 1
    PROVE  /\ IsFiniteSet(S) /\ Cardinality(S) \in Nat
           /\ Cardinality(S) = n - m <=> S = m .. n - 1
           /\ Cardinality(S) = 0 <=> S = {}
<1>k. PICK k : k = n - 1
  OBVIOUS
<1>t. PICK T : T = m .. n - 1
  OBVIOUS
<1>1. k \in Int /\ m \in Int /\ ~(m > k) /\ T = m .. k
  BY <1>k, <1>t
<1>2. IsFiniteSet(T) /\ Cardinality(T) = n - m
  <2>1. IsFiniteSet(m .. k) /\ Cardinality(m .. k) = k - m + 1
    BY <1>1, FS_Interval
  <2> QED
    BY <1>1, <1>k, <2>1
<1>3. /\ IsFiniteSet(S) /\ (Cardinality(T) = Cardinality(S) => T = S)
  <2>1. S \in SUBSET T
    BY <1>t
  <2> QED
    BY <1>2, <2>1, FS_Subset
<1>4. Cardinality(S) \in Nat /\ (Cardinality(S) = 0 <=> S = {})
  BY <1>3, FS_CardinalityType, FS_EmptySet
<1> QED
  BY <1>2, <1>3, <1>4, <1>t

\* A directory has as many names as slots when no slot is free.
LEMMA SlotsFull ==
    ASSUME Sound, NEW d \in LiveDirs, NEW blk, blk = disk[direct0[d]]
    PROVE  Cardinality(Listing(blk)) = num_slots <=> FreeSlots(blk) = {}
<1>v. PICK V : V = {s \in Slots : blk[s].valid}
  OBVIOUS
<1>n. PICK T : T = Listing(blk)
  OBVIOUS
<1>f. PICK f : f = [s \in V |-> blk[s].name]
  OBVIOUS
<1>1. f \in [V -> T] /\ \A y \in T : \E s \in V : f[s] = y
  BY <1>v, <1>n, <1>f DEF Listing
<1>2. ASSUME NEW s \in V, NEW u \in V, f[s] = f[u] PROVE s = u
  <2>p. PICK x, y : x = <<d, s>> /\ y = <<d, u>>
    OBVIOUS
  <2>1. x[1] = d /\ x[2] = s /\ y[1] = d /\ y[2] = u
    BY <2>p
  <2>2. x \in Places /\ y \in Places
    BY <1>v, <2>p DEF Places
  <2>3. EntryAt(x).name = EntryAt(y).name
    BY <1>2, <1>f, <2>1 DEF EntryAt
  <2> QED
    BY <2>1, <2>2, <2>3 DEF Sound, NamesAreUnique
<1>3. V \subseteq 0 .. num_slots - 1 /\ 0 \in Nat /\ num_slots \in Nat /\ 0 < num_slots
  BY <1>v, SizesAssumption DEF Slots
<1>4. IsFiniteSet(V) /\ (Cardinality(V) = num_slots - 0 <=> V = 0 .. num_slots - 1)
  BY <1>3, AllOf
<1>5. Cardinality(T) = Cardinality(V)
  BY <1>1, <1>2, <1>4, AsMany
<1>6. V = Slots <=> FreeSlots(blk) = {}
  BY <1>v DEF FreeSlots
<1> QED
  BY <1>3, <1>4, <1>5, <1>6, <1>n DEF Slots

\* The paths are one fewer than the inodes when no inode is free: each inode
\* but the reserved one is at the end of one path.
LEMMA InodesFull ==
    ASSUME Sound, Reached, NEW D, D = {p \in TreePaths : Inum(p) > 0}
    PROVE  Cardinality(D) = num_inodes - 1 <=> FreeInodes = {}
<1>f. PICK f : f = [p \in D |-> Inum(p)]
  OBVIOUS
<1>l. PICK L : L = Live
  OBVIOUS
<1>1. f \in [D -> L]
  <2>1. \A p \in TreePaths : p \in Seq(RawNames) /\ Len(p) <= MAX_PATH_LEN
    BY TreePathTyped
  <2>2. \A p \in D : Inum(p) \in Live
    <3> SUFFICES ASSUME NEW p \in D PROVE Inum(p) \in Live
      OBVIOUS
    <3>1. Inum(p) \in Live \cup Errors /\ Inum(p) > 0
      BY <2>1, Resolves
    <3> QED
      BY <3>1, LiveIsPositive DEF Sound
  <2> QED
    BY <1>f, <1>l, <2>2
<1>2. \A p, q \in D : f[p] = f[q] => p = q
  <2>1. Describes(Resolution, Edges) /\ \A p \in TreePaths : Resolution[p] = Inum(p)
    BY Described DEF Resolution
  <2>i. PICK I : I = Resolution
    OBVIOUS
  <2> SUFFICES ASSUME NEW p \in D, NEW q \in D, f[p] = f[q] PROVE p = q
    OBVIOUS
  <2>2. p \in TreePaths /\ q \in TreePaths /\ I[p] > 0 /\ I[q] = I[p]
    BY <1>f, <2>1, <2>i
  <2> QED
    BY <2>1, <2>2, <2>i, OnePath
<1>3. \A i \in L : \E p \in D : f[p] = i
  <2> SUFFICES ASSUME NEW i \in Live PROVE \E p \in D : f[p] = i
    BY <1>l
  <2>1. i > 0
    BY LiveIsPositive DEF Sound
  <2>2. PICK p \in TreePaths : Inum(p) = i
    BY DEF Reached
  <2> QED
    BY <1>f, <2>1, <2>2
<1>4. L \subseteq 1 .. num_inodes - 1 /\ 1 \in Nat /\ num_inodes \in Nat /\ 1 < num_inodes
  BY <1>l, SizesAssumption DEF Sound, TypeOK, Live, Inodes
<1>5. IsFiniteSet(L) /\ (Cardinality(L) = num_inodes - 1 <=> L = 1 .. num_inodes - 1)
  BY <1>4, AllOf
<1>6. Cardinality(D) = Cardinality(L)
  <2>1. f \in Injection(D, L) /\ f \in Surjection(D, L)
    BY <1>1, <1>2, <1>3 DEF Injection, Surjection, IsInjective
  <2> QED
    BY <1>5, <2>1, FS_Injection
<1>7. L = 1 .. num_inodes - 1 <=> FreeInodes = {}
  <2>1. 0 \in inode_map /\ inode_map \subseteq Inodes
    BY DEF Sound, TypeOK, EntriesMatchInodes
  <2>2. 0 \in Inodes /\ Inodes \ {0} = 1 .. num_inodes - 1
    BY SizesAssumption DEF Inodes
  <2> QED
    BY <1>l, <2>1, <2>2 DEF FreeInodes, Live
<1> QED
  BY <1>5, <1>6, <1>7

\* statfs counts the free blocks.
LEMMA FreeCounted ==
    ASSUME NEW S, S \subseteq Blocks
    PROVE  IsFiniteSet(S) /\ Cardinality(S) \in Nat /\ (Cardinality(S) = 0 <=> S = {})
<1>1. S \subseteq 0 .. num_blocks - 1 /\ 0 \in Nat /\ num_blocks \in Nat /\ 0 < num_blocks
  BY SizesAssumption DEF Blocks
<1> QED
  BY <1>1, AllOf

LEMMA FreeIs ==
    /\ FreeBlocks = Blocks \ block_map /\ f_bfree = Cardinality(FreeBlocks)
    /\ FreeBlocks' = Blocks \ block_map' /\ f_bfree' = Cardinality(FreeBlocks')
    /\ f_bfree \in Nat /\ f_bfree' \in Nat /\ (f_bfree = 0 <=> FreeBlocks = {})
<1>1. /\ FreeBlocks = Blocks \ block_map /\ f_bfree = Cardinality(FreeBlocks)
      /\ FreeBlocks' = Blocks \ block_map' /\ f_bfree' = Cardinality(FreeBlocks')
  BY DEF FreeBlocks, f_bfree, Blocks
<1>a. PICK A : A = FreeBlocks
  OBVIOUS
<1>b. PICK B : B = FreeBlocks'
  OBVIOUS
<1>2. A \subseteq Blocks /\ B \subseteq Blocks
  BY <1>1, <1>a, <1>b
<1>3. Cardinality(A) \in Nat /\ Cardinality(B) \in Nat /\ (Cardinality(A) = 0 <=> A = {})
  BY <1>2, FreeCounted
<1> QED
  BY <1>1, <1>3, <1>a, <1>b

\* Blocks that are taken, and blocks that are given back.
LEMMA FreeChanges ==
    ASSUME TypeOK, NEW S
    PROVE  /\ block_map' = block_map \cup S => f_bfree' <= f_bfree
           /\ block_map' = block_map \ S => f_bfree' >= f_bfree
           /\ block_map' = block_map \cup FreeBlocks => f_bfree' = 0
           /\ \A b \in FreeBlocks : block_map' = block_map \cup {b} => f_bfree' = f_bfree - 1
           /\ \A b \in block_map : block_map' = block_map \ {b} => f_bfree' = f_bfree + 1
<1>a. PICK A : A = FreeBlocks
  OBVIOUS
<1>b. PICK B : B = FreeBlocks'
  OBVIOUS
<1>1. /\ A = Blocks \ block_map /\ B = Blocks \ block_map' /\ block_map \subseteq Blocks
      /\ f_bfree = Cardinality(A) /\ f_bfree' = Cardinality(B)
      /\ f_bfree \in Nat /\ f_bfree' \in Nat
  BY <1>a, <1>b, FreeIs DEF TypeOK
<1>2. IsFiniteSet(A) /\ IsFiniteSet(B)
  BY <1>1, FreeCounted
<1>3. B \subseteq A => Cardinality(B) <= Cardinality(A)
  BY <1>2, FS_Subset
<1>4. A \subseteq B => Cardinality(A) <= Cardinality(B)
  BY <1>2, FS_Subset
<1>5. B = {} => Cardinality(B) = 0
  BY <1>2, FS_EmptySet
<1>6. ASSUME NEW b \in A, B = A \ {b} PROVE Cardinality(B) = Cardinality(A) - 1
  BY <1>2, <1>6, FS_RemoveElement
<1>7. ASSUME NEW b, b \notin A, B = A \cup {b} PROVE Cardinality(B) = Cardinality(A) + 1
  BY <1>2, <1>7, FS_AddElement
<1>8. block_map' = block_map \cup S => B \subseteq A
  BY <1>1
<1>9. block_map' = block_map \ S => A \subseteq B
  BY <1>1
<1>10. block_map' = block_map \cup FreeBlocks => B = {}
  BY <1>1, <1>a
<1>11. ASSUME NEW b \in FreeBlocks, block_map' = block_map \cup {b}
       PROVE  f_bfree' = f_bfree - 1
  <2>1. b \in A /\ B = A \ {b}
    BY <1>1, <1>11, <1>a
  <2> QED
    BY <1>1, <1>6, <2>1
<1>12. ASSUME NEW b \in block_map, block_map' = block_map \ {b}
       PROVE  f_bfree' = f_bfree + 1
  <2>1. b \notin A /\ B = A \cup {b}
    BY <1>1, <1>12
  <2> QED
    BY <1>1, <1>7, <2>1
<1>13. block_map' = block_map \cup S => f_bfree' <= f_bfree
  BY <1>1, <1>3, <1>8
<1>14. block_map' = block_map \ S => f_bfree' >= f_bfree
  BY <1>1, <1>4, <1>9
<1>15. block_map' = block_map \cup FreeBlocks => f_bfree' = 0
  BY <1>1, <1>5, <1>10
<1> QED
  BY <1>11, <1>12, <1>13, <1>14, <1>15

\* A call that takes and gives back no block.
LEMMA FreeStays ==
    ASSUME NEW call, NEW code, block_map' = block_map,
           code = OK => call \in {"attr", "readdir", "read", "create", "rename"},
           code = ENOSPC => call # "write"
    PROVE  Abstract!FreeAfter(call, code, f_bfree, f_bfree')
<1>f. PICK f : f = f_bfree
  OBVIOUS
<1>g. PICK g : g = f_bfree'
  OBVIOUS
<1>1. g = f
  BY <1>f, <1>g DEF f_bfree, FreeBlocks, Blocks
<1>2. Abstract!FreeAfter(call, code, f, g)
  BY <1>1 DEF Abstract!FreeAfter, Abstract!OK, Abstract!ENOSPC, OK, ENOSPC
<1> QED
  BY <1>2, <1>f, <1>g

-----------------------------------------------------------------------------
(* Calls that leave the tree as it is. *)

\* The tree allows the reply and the change, and every inode in use is still
\* at the end of a path.
Answered == Abstract!Next
Serves == Answered /\ Reached'

\* A call that is not a rename answers with an outcome of its path.
LEMMA OneOutcome ==
    ASSUME NEW call, call # "rename", NEW code, NEW names,
           NEW q, q \in Abstract!Arguments(call), NEW p, p = Abstract!Known(q),
           ret' = Reply(call, <<q>>, code, names),
           [code |-> code, names |-> names, tree |-> TreeNow']
               \in Abstract!Outcomes(call, TreeNow, f_bfree, p),
           Abstract!FreeAfter(call, code, f_bfree, f_bfree')
    PROVE  Answered
<1>r. PICK r : r = ret'
  OBVIOUS
<1>a. PICK a : a = <<q>>
  OBVIOUS
<1>t. PICK t : t = TreeNow
  OBVIOUS
<1>u. PICK u : u = TreeNow'
  OBVIOUS
<1>f. PICK f : f = f_bfree
  OBVIOUS
<1>g. PICK g : g = f_bfree'
  OBVIOUS
<1>1. r.call = call /\ r.paths = a /\ r.code = code /\ r.names = names
  BY <1>r, <1>a DEF Reply
<1>2. DOMAIN a = {1} /\ a[1] = q
  BY <1>a
<1>3. Abstract!Answers(r, t, f, u, g)
  BY <1>1, <1>2, <1>t, <1>u, <1>f, <1>g DEF Abstract!Answers
<1> QED
  BY <1>3, <1>r, <1>t, <1>u, <1>f, <1>g DEF Answered, Abstract!Next

\* Only calls that look may be given the root.
LEMMA MayBeGiven ==
    /\ \A q \in Paths : \A call : q \in Abstract!Arguments(call)
    /\ \A q \in Paths \cup {<<>>}, call \in {"attr", "readdir", "read"} :
          q \in Abstract!Arguments(call)
BY DEF Abstract!Arguments

\* Entries that stay keep the tree.
LEMMA TreeStays ==
    ASSUME ShortPaths, EveryPath, Sound, Sound', Reached, SameShape
    PROVE  TreeNow' = TreeNow /\ Reached'
<1>i. PICK I : I = Resolution
  OBVIOUS
<1>j. PICK J : J = Resolution'
  OBVIOUS
<1>1. \A r \in TreePaths : I[r] = Inum(r) /\ J[r] = Inum(r)'
  BY <1>i, <1>j DEF Resolution
<1>2. Describes(I, Edges) /\ Describes(J, Edges)
  BY <1>i, <1>j, Described, DescribedAfter DEF SameShape
<1>3. \A r \in TreePaths : Same(I[r], J[r])
  BY <1>2, SameEdges
<1>4. \A r \in TreePaths : I[r] > 0 => (S_ISDIR(mode'[I[r]]) <=> S_ISDIR(mode[I[r]]))
  <2>1. \A r \in TreePaths : I[r] > 0 => I[r] \in Live
    <3> SUFFICES ASSUME NEW r \in TreePaths, I[r] > 0 PROVE I[r] \in Live
      OBVIOUS
    <3>1. r \in Seq(RawNames) /\ Len(r) <= MAX_PATH_LEN
      BY TreePathTyped
    <3> QED
      BY <1>1, <3>1, Resolves, LiveIsPositive DEF Sound
  <2> QED
    BY <2>1 DEF SameShape
<1>5. TreeOf(J, mode') = TreeOf(I, mode)
  BY <1>3, <1>4, EqualTrees
<1>6. TreeNow = TreeOf(I, mode) /\ TreeNow' = TreeOf(J, mode')
  BY <1>i, <1>j, TreeIs
<1>7. Reached'
  <2> SUFFICES ASSUME NEW i \in Live' PROVE \E p \in TreePaths : Inum(p)' = i
    BY DEF Reached
  <2>1. i \in Live /\ i > 0
    BY LiveIsPositive DEF SameShape, Sound
  <2>2. PICK p \in TreePaths : Inum(p) = i
    BY <2>1 DEF Reached
  <2> QED
    BY <1>1, <1>3, <2>1, <2>2 DEF Same
<1> QED
  BY <1>5, <1>6, <1>7

\* What a call is given: a path of the tree, or the root.
LEMMA Given ==
    ASSUME ShortPaths, NEW q \in Paths \cup {<<>>}, NEW p, p = parse(q)
    PROVE  /\ p \in TreePaths /\ p = Abstract!Known(q)
           /\ Inum(p) = Inum(q)
           /\ q \in Seq(RawNames) /\ Len(q) <= MAX_PATH_LEN
<1>1. CASE q \in Paths
  BY <1>1, KnownPath
<1>2. CASE q = <<>>
  <2>1. Abstract!Known(q) = <<>>
    BY <1>2 DEF Abstract!Known
  <2> QED
    BY <1>2, <2>1, RootKnown, TreePathTyped
<1> QED
  BY <1>1, <1>2

\* Calls on a path that leads nowhere return why.
LEMMA NotThere ==
    ASSUME ShortPaths, EveryPath, Sound, NEW p \in TreePaths, ~(Inum(p) > 0),
           NEW call \in {"attr", "readdir", "read", "write", "truncate", "unlink", "rmdir"}
    PROVE  Abstract!Outcome(Inum(p), TreeNow)
              \in Abstract!Outcomes(call, TreeNow, f_bfree, p)
<1>t. PICK t : t = TreeNow
  OBVIOUS
<1>f. PICK f : f = f_bfree
  OBVIOUS
<1>1. /\ p \notin DOMAIN t
      /\ Abstract!Missing(t, p) = Abstract!Refused({Inum(p)}, t)
  BY <1>t, Absent
<1>2. Abstract!Outcome(Inum(p), t) \in Abstract!Missing(t, p)
  BY <1>1 DEF Abstract!Refused
<1>3. Abstract!Missing(t, p) \subseteq Abstract!Outcomes(call, t, f, p)
  BY <1>1 DEF Abstract!Outcomes, Abstract!Stat, Abstract!List, Abstract!Read, Abstract!Write,
              Abstract!Truncate, Abstract!RemoveFile, Abstract!RemoveDir
<1> QED
  BY <1>2, <1>3, <1>t, <1>f

\* Those are the two errors of lookup.
LEMMA NotThereCode ==
    ASSUME ShortPaths, EveryPath, Sound, NEW p \in TreePaths, ~(Inum(p) > 0)
    PROVE  Inum(p) \in {ENOENT, ENOTDIR}
<1>t. PICK t : t = TreeNow
  OBVIOUS
<1>n. PICK n : n = Inum(p)
  OBVIOUS
<1>1. Abstract!Missing(t, p) = Abstract!Refused({n}, t)
  BY <1>t, <1>n, Absent
<1>2. PICK c \in {ENOENT, ENOTDIR} : Abstract!Missing(t, p) = Abstract!Refused({c}, t)
  BY DEF Abstract!Missing, Abstract!ENOENT, Abstract!ENOTDIR, ENOENT, ENOTDIR
<1>3. Abstract!Outcome(n, t) \in Abstract!Refused({c}, t)
  BY <1>1, <1>2 DEF Abstract!Refused
<1>4. Abstract!Outcome(n, t) = Abstract!Outcome(c, t)
  BY <1>3 DEF Abstract!Refused
<1> QED
  BY <1>4, <1>n DEF Abstract!Outcome

\* A call that leaves the tree as it is answers with what the tree allows.
LEMMA Unchanging ==
    ASSUME ShortPaths, EveryPath, Sound, Sound', Reached, SameShape,
           NEW call, call # "rename", NEW code,
           NEW q, q \in Abstract!Arguments(call), NEW p, p = Abstract!Known(q),
           ret' = Reply(call, <<q>>, code, {}),
           Abstract!Outcome(code, TreeNow)
               \in Abstract!Outcomes(call, TreeNow, f_bfree, p),
           Abstract!FreeAfter(call, code, f_bfree, f_bfree')
    PROVE  Serves
<1>1. TreeNow' = TreeNow /\ Reached'
  BY TreeStays
<1>n. PICK names : names = {}
  OBVIOUS
<1>2. [code |-> code, names |-> names, tree |-> TreeNow']
         \in Abstract!Outcomes(call, TreeNow, f_bfree, p)
  <2>1. [code |-> code, names |-> names, tree |-> TreeNow']
           = Abstract!Outcome(code, TreeNow)
    BY <1>1, <1>n DEF Abstract!Outcome
  <2> QED
    BY <2>1
<1>3. Answered
  BY <1>2, <1>n, OneOutcome
<1> QED
  BY <1>1, <1>3 DEF Serves

\* A call that is refused keeps the tree and the blocks.
LEMMA Refusing ==
    ASSUME ShortPaths, EveryPath, Sound, Sound', Reached,
           NEW q \in Paths \cup {<<>>}, NEW call \in Calls, call # "rename",
           q \in Abstract!Arguments(call), NEW p, p = Abstract!Known(q),
           NEW code \in Errors, code = ENOSPC => call # "write",
           Fail(call, <<q>>, code),
           Abstract!Outcome(code, TreeNow)
               \in Abstract!Outcomes(call, TreeNow, f_bfree, p)
    PROVE  Serves
<1>1. q \in Seq(RawNames)
  <2>1. q \in Paths => q \in Seq(RawNames)
    BY PathsAssumption
  <2> QED
    BY <2>1, RootKnown
<1>2. <<q>> \in Seq(Seq(RawNames)) /\ code # OK
  BY <1>1, ArgumentLists DEF Fail
<1>3. SameShape
  BY <1>2, FailKeeps
<1>4. block_map' = block_map /\ ret' = Reply(call, <<q>>, code, {})
  BY DEF Fail, unchanged
<1>5. Abstract!FreeAfter(call, code, f_bfree, f_bfree')
  BY <1>2, <1>4, FreeStays
<1> QED
  BY <1>3, <1>4, <1>5, Unchanging

\* getattr, utime and chmod tell whether the path exists.
LEMMA StatServes ==
    ASSUME ShortPaths, EveryPath, Sound, Sound', Reached, SameShape,
           NEW q \in Paths \cup {<<>>}, block_map' = block_map,
           ret' = Reply("attr", <<q>>, resolve_error(q), {})
    PROVE  Serves
<1>p. PICK p : p = parse(q)
  OBVIOUS
<1>t. PICK t : t = TreeNow
  OBVIOUS
<1>f. PICK f : f = f_bfree
  OBVIOUS
<1>1. p \in TreePaths /\ p = Abstract!Known(q) /\ Inum(p) = Inum(q)
  BY <1>p, Given
<1>2. Abstract!Outcome(resolve_error(q), TreeNow)
         \in Abstract!Outcomes("attr", TreeNow, f_bfree, p)
  <2>1. CASE Inum(q) < 0
    <3>1. ~(Inum(p) > 0) /\ resolve_error(q) = Inum(p)
      <4>1. Inum(p) \in Int
        BY <1>1, TreePathTyped, Resolves, LiveIsPositive DEF Sound
      <4> QED
        BY <1>1, <2>1, <4>1 DEF resolve_error
    <3> QED
      BY <1>1, <3>1, NotThere
  <2>2. CASE ~(Inum(q) < 0)
    <3>1. p \in DOMAIN t /\ resolve_error(q) = Abstract!OK
      BY <1>1, <1>t, <2>2, Present DEF resolve_error, OK, Abstract!OK
    <3>2. Abstract!Outcome(resolve_error(q), t) \in Abstract!Outcomes("attr", t, f, p)
      BY <3>1 DEF Abstract!Outcomes, Abstract!Stat, Abstract!Done
    <3> QED
      BY <3>2, <1>t, <1>f
  <2> QED
    BY <2>1, <2>2
<1>3. "attr" # "rename" /\ q \in Abstract!Arguments("attr")
  BY MayBeGiven
<1>4. Abstract!FreeAfter("attr", resolve_error(q), f_bfree, f_bfree')
  BY FreeStays
<1> QED
  BY <1>1, <1>2, <1>3, <1>4, Unchanging

\* readdir lists the names below a directory.
LEMMA ReaddirServes ==
    ASSUME ShortPaths, EveryPath, Sound, Sound', Reached, SameShape,
           NEW q \in Paths \cup {<<>>}, fs_readdir(q)
    PROVE  Serves
<1>p. PICK p : p = parse(q)
  OBVIOUS
<1>t. PICK t : t = TreeNow
  OBVIOUS
<1>f. PICK f : f = f_bfree
  OBVIOUS
<1>1. p \in TreePaths /\ p = Abstract!Known(q) /\ Inum(p) = Inum(q) /\ Inum(p) \in Int
  <2>1. p \in TreePaths /\ p = Abstract!Known(q) /\ Inum(p) = Inum(q)
    BY <1>p, Given
  <2>2. Inum(p) \in Int
    BY <2>1, TreePathTyped, Resolves, LiveIsPositive DEF Sound
  <2> QED
    BY <2>1, <2>2
<1>c. "readdir" # "rename" /\ "readdir" \in Calls /\ q \in Abstract!Arguments("readdir")
      /\ "readdir" # "write"
  BY MayBeGiven DEF Calls
<1>2. ASSUME NEW code \in Errors, readdir_error(q) = code, code # OK,
             Abstract!Outcome(code, t) \in Abstract!Outcomes("readdir", t, f, p)
      PROVE  Serves
  <2>1. Fail("readdir", <<q>>, code)
    BY <1>2 DEF fs_readdir
  <2> QED
    BY <1>1, <1>2, <1>c, <1>t, <1>f, <2>1, Refusing
<1>3. CASE Inum(q) < 0
  <2>1. ~(Inum(p) > 0) /\ readdir_error(q) = Inum(p) /\ readdir_error(q) # OK
    BY <1>1, <1>3 DEF readdir_error, OK
  <2>2. Inum(p) \in Errors
    BY <1>1, <2>1, NotThereCode DEF Errors
  <2>3. Abstract!Outcome(Inum(p), t) \in Abstract!Outcomes("readdir", t, f, p)
    BY <1>1, <1>t, <1>f, <2>1, NotThere
  <2> QED
    BY <1>2, <2>1, <2>2, <2>3
<1>4. CASE ~(Inum(q) < 0) /\ ~S_ISDIR(mode[Inum(q)])
  <2>1. readdir_error(q) = ENOTDIR /\ ENOTDIR # OK /\ ENOTDIR \in Errors
    BY <1>4 DEF readdir_error, ENOTDIR, OK, Errors
  <2>2. p \in DOMAIN t /\ Abstract!IsFile(t, p)
    BY <1>1, <1>4, <1>t, Present
  <2>3. Abstract!Outcome(ENOTDIR, t) \in Abstract!Outcomes("readdir", t, f, p)
    BY <2>2 DEF Abstract!Outcomes, Abstract!List, Abstract!Refused, Abstract!ENOTDIR, ENOTDIR
  <2> QED
    BY <1>2, <2>1, <2>3
<1>5. CASE ~(Inum(q) < 0) /\ S_ISDIR(mode[Inum(q)])
  <2>n. PICK names : names = Listing(disk[direct0[Inum(q)]])
    OBVIOUS
  <2>1. readdir_error(q) = OK
    BY <1>5 DEF readdir_error
  <2>2. ret' = Reply("readdir", <<q>>, OK, names) /\ block_map' = block_map
    BY <2>1, <2>n DEF fs_readdir, Fail, unchanged
  <2>3. p \in DOMAIN t /\ ~Abstract!IsFile(t, p) /\ Inum(p) \in LiveDirs
    BY <1>1, <1>5, <1>t, Present DEF LiveDirs
  <2>4. names = Abstract!Names(t, p)
    BY <1>1, <1>t, <2>3, <2>n, NamesAre, TreeIs
  <2>5. TreeNow' = t /\ Reached'
    BY <1>t, TreeStays
  <2>6. [code |-> OK, names |-> names, tree |-> TreeNow']
           \in Abstract!Outcomes("readdir", t, f, p)
    BY <2>3, <2>4, <2>5 DEF Abstract!Outcomes, Abstract!List, Abstract!OK, OK
  <2>7. Abstract!FreeAfter("readdir", OK, f_bfree, f_bfree')
    BY <2>2, FreeStays DEF OK, ENOSPC
  <2> QED
    BY <1>1, <1>c, <1>t, <1>f, <2>2, <2>5, <2>6, <2>7, OneOutcome DEF Serves
<1> QED
  BY <1>3, <1>4, <1>5

\* What read, write, truncate and unlink return for what is no file.
LEMMA NoFile ==
    ASSUME ShortPaths, EveryPath, Sound, NEW q \in Paths \cup {<<>>},
           NEW p, p = parse(q), file_error(q) # OK,
           NEW call \in {"read", "write", "truncate", "unlink"}
    PROVE  /\ file_error(q) \in Errors \ {ENOSPC}
           /\ Abstract!Outcome(file_error(q), TreeNow)
                 \in Abstract!Outcomes(call, TreeNow, f_bfree, p)
<1>t. PICK t : t = TreeNow
  OBVIOUS
<1>f. PICK f : f = f_bfree
  OBVIOUS
<1>1. p \in TreePaths /\ Inum(p) = Inum(q) /\ Inum(p) \in Int
  <2>1. p \in TreePaths /\ Inum(p) = Inum(q)
    BY Given
  <2> QED
    BY <2>1, TreePathTyped, Resolves, LiveIsPositive DEF Sound
<1>2. CASE Inum(q) < 0
  <2>1. ~(Inum(p) > 0) /\ file_error(q) = Inum(p)
    BY <1>1, <1>2 DEF file_error
  <2>2. Inum(p) \in {ENOENT, ENOTDIR}
    BY <1>1, <2>1, NotThereCode
  <2>3. Inum(p) \in Errors \ {ENOSPC}
    BY <2>2 DEF Errors, ENOENT, ENOTDIR, ENOSPC
  <2> QED
    BY <1>1, <2>1, <2>3, NotThere
<1>3. CASE ~(Inum(q) < 0)
  <2>1. S_ISDIR(mode[Inum(q)]) /\ file_error(q) = EISDIR
    BY <1>3 DEF file_error
  <2>2. p \in DOMAIN t /\ Abstract!IsDir(t, p)
    BY <1>1, <1>3, <1>t, <2>1, Present
  <2>3. Abstract!Outcome(EISDIR, t) \in Abstract!Outcomes(call, t, f, p)
    BY <2>2 DEF Abstract!Outcomes, Abstract!Read, Abstract!Write, Abstract!Truncate,
                Abstract!RemoveFile, Abstract!Refused, Abstract!EISDIR, EISDIR
  <2>4. EISDIR \in Errors \ {ENOSPC}
    BY DEF Errors, EISDIR, ENOSPC
  <2> QED
    BY <1>t, <1>f, <2>1, <2>3, <2>4
<1> QED
  BY <1>2, <1>3

\* What they work on otherwise.
LEMMA AFile ==
    ASSUME ShortPaths, EveryPath, Sound, NEW q \in Paths \cup {<<>>},
           NEW p, p = parse(q), file_error(q) = OK
    PROVE  /\ p \in DOMAIN TreeNow /\ ~Abstract!IsDir(TreeNow, p)
           /\ Inum(p) > 0 /\ ~S_ISDIR(mode[Inum(p)])
<1>1. p \in TreePaths /\ Inum(p) = Inum(q)
  BY Given
<1>2. ~(Inum(q) < 0) /\ ~S_ISDIR(mode[Inum(q)])
  BY DEF file_error, OK, EISDIR
<1> QED
  BY <1>1, <1>2, Present

\* A read, write, truncate or unlink of what is no file is refused.
LEMMA NoFileServes ==
    ASSUME ShortPaths, EveryPath, Sound, Sound', Reached,
           NEW q \in Paths \cup {<<>>}, NEW call \in {"read", "write", "truncate", "unlink"},
           q \in Abstract!Arguments(call), file_error(q) # OK,
           Fail(call, <<q>>, file_error(q))
    PROVE  Serves
<1>p. PICK p : p = parse(q)
  OBVIOUS
<1>c. PICK code : code = file_error(q)
  OBVIOUS
<1>1. p = Abstract!Known(q) /\ call # "rename" /\ call \in Calls
  BY <1>p, Given DEF Calls
<1>2. /\ code \in Errors /\ code # ENOSPC
      /\ Abstract!Outcome(code, TreeNow) \in Abstract!Outcomes(call, TreeNow, f_bfree, p)
  BY <1>p, <1>c, NoFile
<1>3. Fail(call, <<q>>, code)
  BY <1>c
<1> QED
  BY <1>1, <1>2, <1>3, Refusing

\* read returns what is in a file.
LEMMA ReadServes ==
    ASSUME ShortPaths, EveryPath, Sound, Sound', Reached, SameShape,
           NEW q \in Paths \cup {<<>>}, fs_read(q)
    PROVE  Serves
<1>p. PICK p : p = parse(q)
  OBVIOUS
<1>t. PICK t : t = TreeNow
  OBVIOUS
<1>f. PICK f : f = f_bfree
  OBVIOUS
<1>1. /\ p = Abstract!Known(q) /\ "read" # "rename" /\ q \in Abstract!Arguments("read")
  BY <1>p, Given, MayBeGiven
<1>2. CASE file_error(q) # OK
  <2>1. Fail("read", <<q>>, file_error(q))
    BY <1>2 DEF fs_read
  <2> QED
    BY <1>1, <1>2, <2>1, NoFileServes
<1>3. CASE file_error(q) = OK
  <2>1. ret' = Reply("read", <<q>>, OK, {}) /\ block_map' = block_map
    BY <1>3 DEF fs_read, Fail, unchanged
  <2>2. p \in DOMAIN t /\ ~Abstract!IsDir(t, p)
    BY <1>3, <1>p, <1>t, AFile
  <2>3. Abstract!Outcome(OK, t) \in Abstract!Outcomes("read", t, f, p)
    BY <2>2 DEF Abstract!Outcomes, Abstract!Read, Abstract!Done, Abstract!OK, OK
  <2>4. Abstract!FreeAfter("read", OK, f_bfree, f_bfree')
    BY <2>1, FreeStays DEF OK, ENOSPC
  <2> QED
    BY <1>1, <1>t, <1>f, <2>1, <2>3, <2>4, Unchanging
<1> QED
  BY <1>2, <1>3

\* write changes the contents of a file only, and takes blocks.
LEMMA WriteServes ==
    ASSUME ShortPaths, EveryPath, Sound, Sound', Reached, SameShape,
           NEW q \in Paths, fs_write(q)
    PROVE  Serves
<1>p. PICK p : p = parse(q)
  OBVIOUS
<1>t. PICK t : t = TreeNow
  OBVIOUS
<1>f. PICK f : f = f_bfree
  OBVIOUS
<1>g. PICK g : g = f_bfree'
  OBVIOUS
<1>1. /\ p = Abstract!Known(q) /\ "write" # "rename" /\ q \in Abstract!Arguments("write")
      /\ q \in Paths \cup {<<>>}
  BY <1>p, KnownPath, MayBeGiven
<1>2. CASE file_error(q) # OK
  <2>1. Fail("write", <<q>>, file_error(q))
    BY <1>2 DEF fs_write
  <2> QED
    BY <1>1, <1>2, <2>1, NoFileServes
<1>3. CASE file_error(q) = OK
  <2>1. p \in DOMAIN t /\ ~Abstract!IsDir(t, p)
    BY <1>1, <1>3, <1>p, <1>t, AFile
  <2>2. \A code \in {EINVAL, ENOSPC, OK} :
           Abstract!Outcome(code, t) \in Abstract!Outcomes("write", t, f, p)
    BY <2>1 DEF Abstract!Outcomes, Abstract!Write, Abstract!Refused, Abstract!Done,
                Abstract!EINVAL, Abstract!ENOSPC, Abstract!OK, EINVAL, ENOSPC, OK
  <2>3. ASSUME NEW code \in {EINVAL, ENOSPC, OK}, ret' = Reply("write", <<q>>, code, {}),
               Abstract!FreeAfter("write", code, f_bfree, f_bfree')
        PROVE  Serves
    <3>1. Abstract!Outcome(code, TreeNow) \in Abstract!Outcomes("write", TreeNow, f_bfree, p)
      BY <1>t, <1>f, <2>2
    <3> QED
      BY <1>1, <2>3, <3>1, Unchanging
  <2>4. CASE Fail("write", <<q>>, EINVAL)
    <3>1. ret' = Reply("write", <<q>>, EINVAL, {}) /\ block_map' = block_map
      BY <2>4 DEF Fail, unchanged
    <3>2. Abstract!FreeAfter("write", EINVAL, f_bfree, f_bfree')
      BY <3>1, FreeStays DEF EINVAL, OK, ENOSPC
    <3> QED
      BY <2>3, <3>1, <3>2
  <2>5. CASE /\ \E S \in FirstFits : Grow(Inum(q), S, S)
             /\ ret' = Reply("write", <<q>>, OK, {})
    <3>1. PICK S : block_map' = block_map \cup S
      BY <2>5 DEF Grow
    <3>2. g <= f
      BY <1>f, <1>g, <3>1, FreeChanges DEF Sound
    <3>3. Abstract!FreeAfter("write", OK, f, g)
      BY <3>2 DEF Abstract!FreeAfter, Abstract!OK, Abstract!ENOSPC, OK
    <3> QED
      BY <1>f, <1>g, <2>3, <2>5, <3>3
  <2>6. CASE /\ \E kept \in FirstFits : Grow(Inum(q), FreeBlocks, kept)
             /\ ret' = Reply("write", <<q>>, ENOSPC, {})
    <3>1. block_map' = block_map \cup FreeBlocks
      BY <2>6 DEF Grow
    <3>2. g = 0
      BY <1>g, <3>1, FreeChanges DEF Sound
    <3>3. Abstract!FreeAfter("write", ENOSPC, f, g)
      BY <3>2 DEF Abstract!FreeAfter, Abstract!ENOSPC, Abstract!OK, ENOSPC
    <3> QED
      BY <1>f, <1>g, <2>3, <2>6, <3>3
  <2>7. ~Fail("write", <<q>>, file_error(q))
    BY <1>3 DEF Fail
  <2> QED
    BY <2>4, <2>5, <2>6, <2>7 DEF fs_write
<1> QED
  BY <1>2, <1>3

\* truncate, too, and gives blocks back.
LEMMA TruncateServes ==
    ASSUME ShortPaths, EveryPath, Sound, Sound', Reached, SameShape,
           NEW q \in Paths, fs_truncate(q)
    PROVE  Serves
<1>p. PICK p : p = parse(q)
  OBVIOUS
<1>t. PICK t : t = TreeNow
  OBVIOUS
<1>f. PICK f : f = f_bfree
  OBVIOUS
<1>g. PICK g : g = f_bfree'
  OBVIOUS
<1>1. /\ p = Abstract!Known(q) /\ "truncate" # "rename" /\ "truncate" \in Calls
      /\ q \in Abstract!Arguments("truncate") /\ q \in Paths \cup {<<>>}
      /\ "truncate" # "write"
  BY <1>p, KnownPath, MayBeGiven DEF Calls
<1>2. CASE Fail("truncate", <<q>>, EINVAL)
  <2>1. Abstract!Outcome(EINVAL, t) \in Abstract!Outcomes("truncate", t, f, p)
    BY DEF Abstract!Outcomes, Abstract!Truncate, Abstract!Refused, Abstract!EINVAL, EINVAL
  <2>2. EINVAL \in Errors
    BY DEF Errors
  <2> QED
    BY <1>1, <1>2, <1>t, <1>f, <2>1, <2>2, Refusing
<1>3. CASE Fail("truncate", <<q>>, file_error(q))
  <2>1. file_error(q) # OK
    BY <1>3 DEF Fail
  <2> QED
    BY <1>1, <1>3, <2>1, NoFileServes
<1>4. CASE /\ file_error(q) = OK /\ ret' = Reply("truncate", <<q>>, OK, {})
           /\ \E S : block_map' = block_map \ S
  <2>1. p \in DOMAIN t /\ ~Abstract!IsDir(t, p)
    BY <1>1, <1>4, <1>p, <1>t, AFile
  <2>2. Abstract!Outcome(OK, t) \in Abstract!Outcomes("truncate", t, f, p)
    BY <2>1 DEF Abstract!Outcomes, Abstract!Truncate, Abstract!Done, Abstract!OK, OK
  <2>3. PICK S : block_map' = block_map \ S
    BY <1>4
  <2>4. g >= f
    BY <1>f, <1>g, <2>3, FreeChanges DEF Sound
  <2>5. Abstract!FreeAfter("truncate", OK, f, g)
    BY <2>4 DEF Abstract!FreeAfter, Abstract!OK, OK
  <2>6. Abstract!FreeAfter("truncate", OK, f_bfree, f_bfree')
    BY <1>f, <1>g, <2>5
  <2>7. Abstract!Outcome(OK, TreeNow) \in Abstract!Outcomes("truncate", TreeNow, f_bfree, p)
    BY <1>t, <1>f, <2>2
  <2> QED
    BY <1>1, <1>4, <2>6, <2>7, Unchanging
<1> QED
  BY <1>2, <1>3, <1>4 DEF fs_truncate

-----------------------------------------------------------------------------
(* Calls that change the tree. *)

\* create finds no room exactly when the tree has none.
LEMMA RoomLeft ==
    ASSUME ShortPaths, EveryPath, Sound, Reached, NEW q \in Paths, NEW p, p = parse(q),
           NEW d, d = ParentInum(q), d \in LiveDirs, ~(Inum(q) > 0)
    PROVE  /\ create_error(q) \in {OK, ENOSPC}
           /\ create_error(q) = ENOSPC <=> Abstract!NoRoom(TreeNow, f_bfree, p)
<1>t. PICK t : t = TreeNow
  OBVIOUS
<1>f. PICK f : f = f_bfree
  OBVIOUS
<1>u. PICK u : u = Parent(p)
  OBVIOUS
<1>b. PICK blk : blk = disk[direct0[d]]
  OBVIOUS
<1>1. u \in TreePaths /\ Inum(u) = d /\ Abstract!Up(p) = u
  BY <1>u, KnownPath DEF Abstract!Up, Parent
<1>2. Listing(blk) = Abstract!Names(t, u)
  BY <1>1, <1>b, <1>t, NamesAre, TreeIs
<1>3. Cardinality(Abstract!Names(t, u)) = num_slots <=> FreeSlots(blk) = {}
  BY <1>2, <1>b, SlotsFull
<1>4. DOMAIN t = {r \in TreePaths : Inum(r) > 0}
  <2>1. DOMAIN TreeOf(Resolution, mode) = {r \in TreePaths : Resolution[r] > 0}
    BY TreeMeans
  <2>2. \A r \in TreePaths : Resolution[r] = Inum(r)
    BY DEF Resolution
  <2>3. t = TreeOf(Resolution, mode)
    BY <1>t, TreeIs
  <2> QED
    BY <2>1, <2>2, <2>3
<1>5. Cardinality(DOMAIN t) = num_inodes - 1 <=> FreeInodes = {}
  BY <1>4, InodesFull
<1>6. f = 0 <=> FreeBlocks = {}
  BY <1>f, FreeIs
<1>7. get_next_inode < 0 <=> FreeInodes = {}
  <2>1. FreeInodes # {} => get_next_inode \in Nat
    BY FirstOfLeast, SizesAssumption DEF get_next_inode, FreeInodes, Inodes
  <2> QED
    BY <2>1 DEF get_next_inode, ENOSPC
<1>8. get_next_block < 0 <=> FreeBlocks = {}
  <2>1. FreeBlocks # {} => get_next_block \in Nat
    BY FirstOfLeast, SizesAssumption DEF get_next_block, FreeBlocks, Blocks
  <2> QED
    BY <2>1 DEF get_next_block, ENOSPC
<1>9. ~(d < 0) /\ S_ISDIR(mode[d])
  BY LiveIsPositive DEF LiveDirs, Sound
<1>10. create_error(q) = IF FreeSlots(blk) = {} THEN ENOSPC
                         ELSE IF FreeInodes = {} \/ FreeBlocks = {} THEN ENOSPC ELSE OK
  BY <1>7, <1>8, <1>9, <1>b DEF create_error
<1>c. \A S : Abstract!Cardinality(S) = Cardinality(S)
  BY DEF Abstract!Cardinality, Cardinality
<1>11. Abstract!NoRoom(t, f, p) <=> \/ FreeSlots(blk) = {} \/ FreeInodes = {}
                                    \/ FreeBlocks = {}
  BY <1>1, <1>3, <1>5, <1>6, <1>c DEF Abstract!NoRoom
<1> QED
  BY <1>10, <1>11, <1>t, <1>f DEF OK, ENOSPC

\* What create and mkdir return when they make nothing.
LEMMA MakesNothing ==
    ASSUME ShortPaths, EveryPath, Sound, Reached, NEW q \in Paths, NEW p, p = parse(q),
           create_error(q) # OK, NEW kind
    PROVE  Abstract!Outcome(create_error(q), TreeNow)
              \in Abstract!Make(TreeNow, f_bfree, p, kind)
<1>t. PICK t : t = TreeNow
  OBVIOUS
<1>f. PICK f : f = f_bfree
  OBVIOUS
<1>u. PICK u : u = Parent(p)
  OBVIOUS
<1>d. PICK d : d = ParentInum(q)
  OBVIOUS
<1>1. /\ p \in TreePaths /\ u \in TreePaths /\ Abstract!Up(p) = u
      /\ Inum(p) = Inum(q) /\ Inum(u) = d
  BY <1>u, <1>d, KnownPath DEF Abstract!Up, Parent
<1>2. d \in Int /\ Inum(p) \in Int
  BY <1>1, TreePathTyped, Resolves, LiveIsPositive DEF Sound
<1>3. CASE d < 0
  <2>1. /\ u \notin DOMAIN t
        /\ Abstract!Missing(t, u) = Abstract!Refused({d}, t)
    BY <1>1, <1>2, <1>3, <1>t, Absent
  <2>2. create_error(q) = d
    BY <1>3, <1>d DEF create_error
  <2>3. Abstract!Outcome(d, t) \in Abstract!Make(t, f, p, kind)
    BY <1>1, <2>1 DEF Abstract!Make, Abstract!Refused
  <2> QED
    BY <1>t, <1>f, <2>2, <2>3
<1>4. CASE ~(d < 0) /\ ~S_ISDIR(mode[d])
  <2>1. create_error(q) = ENOTDIR
    BY <1>4, <1>d DEF create_error
  <2>2. u \in DOMAIN t /\ Abstract!IsFile(t, u)
    BY <1>1, <1>4, <1>t, Present
  <2>3. Abstract!Outcome(ENOTDIR, t) \in Abstract!Make(t, f, p, kind)
    BY <1>1, <2>2 DEF Abstract!Make, Abstract!Refused, Abstract!ENOTDIR, ENOTDIR
  <2> QED
    BY <1>t, <1>f, <2>1, <2>3
<1>5. CASE ~(d < 0) /\ S_ISDIR(mode[d])
  <2>1. u \in DOMAIN t /\ ~Abstract!IsFile(t, u)
    BY <1>1, <1>5, <1>t, Present
  <2>2. CASE Inum(p) > 0
    <3>1. create_error(q) = EEXIST
      BY <1>1, <1>5, <1>d, <2>2 DEF create_error
    <3>2. p \in DOMAIN t
      BY <1>1, <1>2, <1>t, <2>2, Present
    <3>3. Abstract!Outcome(EEXIST, t) \in Abstract!Make(t, f, p, kind)
      BY <1>1, <2>1, <3>2 DEF Abstract!Make, Abstract!Refused, Abstract!EEXIST, EEXIST
    <3> QED
      BY <1>t, <1>f, <3>1, <3>3
  <2>3. CASE ~(Inum(p) > 0)
    <3>1. d \in LiveDirs
      BY <1>1, <1>5, Present DEF LiveDirs
    <3>2. ~(Inum(q) > 0)
      BY <1>1, <2>3
    <3>3. create_error(q) = ENOSPC /\ Abstract!NoRoom(t, f, p)
      BY <1>d, <1>t, <1>f, <3>1, <3>2, RoomLeft
    <3>4. p \notin DOMAIN t
      BY <1>1, <1>t, <2>3, Absent
    <3>5. Abstract!Outcome(ENOSPC, t) \in Abstract!Make(t, f, p, kind)
      BY <1>1, <2>1, <3>3, <3>4 DEF Abstract!Make, Abstract!Refused, Abstract!ENOSPC, ENOSPC
    <3> QED
      BY <1>t, <1>f, <3>3, <3>5
  <2> QED
    BY <2>2, <2>3
<1> QED
  BY <1>3, <1>4, <1>5

\* An inode and an entry for it, made together, are one more path.
LEMMA PathMade ==
    ASSUME ShortPaths, EveryPath, Sound, Sound', Reached,
           NEW p \in TreePaths, p # <<>>, NEW i, i \notin Live, i > 0,
           Inum(Parent(p)) \in LiveDirs, ~(Inum(p) > 0),
           Edges' = Edges \cup {<<Inum(Parent(p)), Last(p), i>>},
           Live' = Live \cup {i}, \A j \in Live : mode'[j] = mode[j]
    PROVE  TreeNow' = With(TreeNow, p, Kind(mode', i)) /\ Reached'
<1>i. PICK I : I = Resolution
  OBVIOUS
<1>j. PICK J : J = Resolution'
  OBVIOUS
<1>f. PICK F : F = Edges'
  OBVIOUS
<1>1. \A r \in TreePaths : I[r] = Inum(r) /\ J[r] = Inum(r)'
  BY <1>i, <1>j DEF Resolution
<1>2. Describes(I, Edges) /\ Describes(J, F)
  BY <1>i, <1>j, <1>f, Described, DescribedAfter
<1>3. Parent(p) \in TreePaths /\ I[Parent(p)] = Inum(Parent(p))
      /\ I[Parent(p)] > 0 /\ I[Parent(p)] \in Live
  BY <1>1, TreePathTyped, LiveIsPositive DEF Sound
<1>4. \A e \in Edges : e[1] # i
  <2> SUFFICES ASSUME NEW e \in Edges PROVE e[1] # i
    OBVIOUS
  <2>1. PICK ds \in Places : e = <<ds[1], EntryAt(ds).name, EntryAt(ds).inode>>
    BY DEF Edges
  <2>2. e[1] = ds[1] /\ ds[1] \in Live
    BY <2>1, SlotTyped, LiveIsPositive DEF Sound
  <2> QED
    BY <2>2
<1>5. J[p] = i /\ \A r \in TreePaths : r # p => Same(I[r], J[r])
  <2>n. PICK new : new = <<I[Parent(p)], Last(p), i>>
    OBVIOUS
  <2>1. F = Edges \cup {new}
    BY <1>3, <1>f, <2>n
  <2>2. ~(I[p] > 0) /\ i # I[Parent(p)]
    BY <1>1, <1>3
  <2> QED
    BY <1>2, <1>3, <1>4, <2>1, <2>2, <2>n, EdgeAdded
<1>7. \A r \in TreePaths : I[r] > 0 => (S_ISDIR(mode'[I[r]]) <=> S_ISDIR(mode[I[r]]))
  <2> SUFFICES ASSUME NEW r \in TreePaths, I[r] > 0 PROVE mode'[I[r]] = mode[I[r]]
    OBVIOUS
  <2>1. r \in Seq(RawNames) /\ Len(r) <= MAX_PATH_LEN
    BY TreePathTyped
  <2>2. I[r] \in Live
    BY <1>1, <2>1, Resolves, LiveIsPositive DEF Sound
  <2> QED
    BY <2>2
<1>t. PICK t : t = TreeOf(I, mode)
  OBVIOUS
<1>8. TreeOf(J, mode') = With(t, p, Kind(mode', i))
  <2>m. PICK m : m = mode'
    OBVIOUS
  <2>1. J[p] > 0
    BY <1>5
  <2>2. \A r \in TreePaths : I[r] > 0 => (S_ISDIR(m[I[r]]) <=> S_ISDIR(mode[I[r]]))
    BY <1>7, <2>m
  <2>3. TreeOf(J, m) = With(t, p, Kind(m, J[p]))
    BY <1>5, <1>t, <2>1, <2>2, BiggerTree
  <2> QED
    BY <1>5, <2>m, <2>3
<1>9. TreeNow = t /\ TreeNow' = TreeOf(J, mode')
  BY <1>i, <1>j, <1>t, TreeIs
<1>10. Reached'
  <2> SUFFICES ASSUME NEW k \in Live' PROVE \E r \in TreePaths : Inum(r)' = k
    BY DEF Reached
  <2>1. CASE k = i
    BY <1>1, <1>5, <2>1
  <2>2. CASE k # i
    <3>1. k \in Live /\ k > 0
      BY <2>2, LiveIsPositive DEF Sound
    <3>2. PICK r \in TreePaths : Inum(r) = k
      BY <3>1 DEF Reached
    <3> QED
      BY <1>1, <1>3, <1>5, <3>1, <3>2 DEF Same
  <2> QED
    BY <2>1, <2>2
<1> QED
  BY <1>5, <1>8, <1>9, <1>10

\* create and mkdir make a path in a directory.
LEMMA MakeServes ==
    ASSUME ShortPaths, EveryPath, Sound, Sound', Reached,
           NEW q \in Paths, NEW call \in {"create", "mkdir"}, NEW isDir \in BOOLEAN,
           isDir <=> call = "mkdir", NEW type, type = IF isDir THEN IFDIR ELSE IFREG,
           isDir => \A b \in FreeBlocks : b = get_next_block => disk[b] = ZeroBlock,
           create(call, q, type, isDir)
    PROVE  Serves
<1>p. PICK p : p = parse(q)
  OBVIOUS
<1>t. PICK t : t = TreeNow
  OBVIOUS
<1>f. PICK f : f = f_bfree
  OBVIOUS
<1>g. PICK g : g = f_bfree'
  OBVIOUS
<1>k. PICK kind : kind = IF isDir THEN "dir" ELSE "file"
  OBVIOUS
<1>1. /\ p \in TreePaths /\ p # <<>> /\ p = Abstract!Known(q)
      /\ Parent(p) \in TreePaths /\ Inum(Parent(p)) = ParentInum(q)
      /\ Inum(p) = Inum(q) /\ Last(p) = Leaf(q)
      /\ q \in Seq(RawNames) /\ q # <<>> /\ Len(q) <= MAX_PATH_LEN
  BY <1>p, KnownPath
<1>2. /\ call \in Calls /\ call # "rename"
      /\ q \in Abstract!Arguments(call) /\ q \in Paths \cup {<<>>} /\ call # "write"
      /\ \A tt, ff : Abstract!Outcomes(call, tt, ff, p) = Abstract!Make(tt, ff, p, kind)
  BY <1>k, MayBeGiven DEF Calls, Abstract!Outcomes
<1>3. CASE create_error(q) # OK
  <2>c. PICK code : code = create_error(q)
    OBVIOUS
  <2>1. Fail(call, <<q>>, code)
    BY <1>3, <2>c DEF create
  <2>2. code \in Errors
    BY <1>1, <1>3, <2>c, CreateErrorCode
  <2>3. Abstract!Outcome(code, t) \in Abstract!Make(t, f, p, kind)
    BY <1>3, <1>p, <1>t, <1>f, <2>c, MakesNothing
  <2>4. Abstract!Outcome(code, TreeNow) \in Abstract!Outcomes(call, TreeNow, f_bfree, p)
    BY <1>2, <1>t, <1>f, <2>3
  <2> QED
    BY <1>1, <1>2, <2>1, <2>2, <2>4, Refusing
<1>4. CASE create_error(q) = OK
  <2>1. ret' = Reply(call, <<q>>, OK, {})
    BY <1>4 DEF create, Fail
  <2>2. ret'.code = OK
    BY <2>1 DEF Reply
  <2>3. PICK d, slot, i, b, v :
           /\ d = ParentInum(q) /\ d \in LiveDirs
           /\ slot \in Slots /\ ~disk[direct0[d]][slot].valid
           /\ i \in FreeInodes /\ b \in FreeBlocks /\ b = get_next_block
           /\ v = Entry(Leaf(q), i, isDir)
           /\ Matches(disk[direct0[d]], Leaf(q)) = {}
           /\ Creation(d, slot, i, b, v, type, isDir)
    BY <1>1, <1>2, <2>2, Created
  <2>4. isDir => disk[b] = ZeroBlock
    BY <2>3
  <2>n. PICK n : n = Leaf(q)
    OBVIOUS
  <2>5. n \in RawNames
    BY <1>1, <2>n, LeafTyped
  <2>6. Edges' = Edges \cup {<<d, n, i>>}
    BY <2>3, <2>4, <2>5, <2>n, CreationKeeps
  <2>7. i \notin Live /\ i > 0 /\ i \in Inodes /\ Live' = Live \cup {i}
        /\ Live \subseteq Inodes
    BY <2>3, LiveIsPositive
       DEF FreeInodes, Live, Creation, Sound, EntriesMatchInodes, Inodes
  <2>8. mode'[i] = {type} /\ \A j \in Live : mode'[j] = mode[j]
    BY <2>3, <2>7 DEF Creation, Sound, TypeOK
  <2>9. Kind(mode', i) = kind
    BY <1>k, <2>8 DEF Kind, S_ISDIR, IFDIR, IFREG
  <2>10. ~(Inum(p) > 0) /\ Inum(Parent(p)) \in LiveDirs
    <3>1. ~(d < 0) /\ S_ISDIR(mode[d])
      BY <2>3, LiveIsPositive DEF LiveDirs, Sound
    <3>2. ~(Inum(q) > 0)
      BY <1>4, <2>3, <3>1 DEF create_error, EEXIST, OK
    <3>3. ~(Inum(p) > 0)
      BY <1>1, <3>2
    <3>4. Inum(Parent(p)) \in LiveDirs
      BY <1>1, <2>3
    <3> QED
      BY <3>3, <3>4
  <2>11. Edges' = Edges \cup {<<Inum(Parent(p)), Last(p), i>>}
    BY <1>1, <2>3, <2>6, <2>n
  <2>12. TreeNow' = With(t, p, kind) /\ Reached'
    BY <1>1, <1>t, <2>7, <2>8, <2>9, <2>10, <2>11, PathMade
  <2>13. p \notin DOMAIN t /\ Parent(p) \in DOMAIN t /\ ~Abstract!IsFile(t, Parent(p))
    <3>1. p \notin DOMAIN t
      BY <1>1, <1>t, <2>10, Absent
    <3>2. ~(Inum(Parent(p)) < 0) /\ S_ISDIR(mode[Inum(Parent(p))])
      BY <2>10, LiveIsPositive DEF LiveDirs, Sound
    <3> QED
      BY <1>1, <1>t, <3>1, <3>2, Present
  <2>r. ~Abstract!NoRoom(t, f, p)
    <3>1. d \in LiveDirs /\ ~(Inum(q) > 0)
      BY <1>1, <2>3, <2>10
    <3> QED
      BY <1>4, <1>p, <1>t, <1>f, <2>3, <3>1, RoomLeft DEF OK, ENOSPC
  <2>14. Abstract!Outcome(OK, With(t, p, kind)) \in Abstract!Make(t, f, p, kind)
    BY <2>13, <2>r DEF Abstract!Make, Abstract!Done, Abstract!Up, Parent, With, Abstract!OK, OK
  <2>m. PICK names : names = {}
    OBVIOUS
  <2>15. [code |-> OK, names |-> names, tree |-> TreeNow']
            \in Abstract!Outcomes(call, TreeNow, f_bfree, p)
    BY <1>2, <1>t, <1>f, <2>12, <2>14, <2>m DEF Abstract!Outcome
  <2>f. Abstract!FreeAfter(call, OK, f_bfree, f_bfree')
    <3>1. CASE call = "mkdir"
      <4>1. block_map' = block_map \cup {b} /\ b \in FreeBlocks
        BY <2>3, <3>1 DEF Creation
      <4>2. g = f - 1
        BY <1>f, <1>g, <4>1, FreeChanges DEF Sound
      <4>3. Abstract!FreeAfter(call, OK, f, g)
        BY <3>1, <4>2 DEF Abstract!FreeAfter, Abstract!OK, OK
      <4> QED
        BY <1>f, <1>g, <4>3
    <3>2. CASE call = "create"
      <4>1. block_map' = block_map
        BY <2>3, <3>2 DEF Creation
      <4> QED
        BY <3>2, <4>1, FreeStays DEF OK, ENOSPC
    <3> QED
      BY <3>1, <3>2
  <2>16. Answered
    BY <1>1, <1>2, <2>1, <2>15, <2>f, <2>m, OneOutcome
  <2> QED
    BY <2>12, <2>16 DEF Serves
<1> QED
  BY <1>3, <1>4

\* An entry that goes with its inode takes the path that ends with it.
LEMMA PathGone ==
    ASSUME ShortPaths, EveryPath, Sound, Sound', Reached,
           NEW p \in TreePaths, p # <<>>, Inum(p) > 0,
           S_ISDIR(mode[Inum(p)]) => Listing(disk[direct0[Inum(p)]]) = {},
           Edges' = Edges \ {<<Inum(Parent(p)), Last(p), Inum(p)>>},
           inode_map' = inode_map \ {Inum(p)}, mode' = mode
    PROVE  TreeNow' = Abstract!Without(TreeNow, p) /\ Reached'
<1>i. PICK I : I = Resolution
  OBVIOUS
<1>j. PICK J : J = Resolution'
  OBVIOUS
<1>f. PICK F : F = Edges'
  OBVIOUS
<1>1. \A r \in TreePaths : I[r] = Inum(r) /\ J[r] = Inum(r)'
  BY <1>i, <1>j DEF Resolution
<1>2. Describes(I, Edges) /\ Describes(J, F)
  BY <1>i, <1>j, <1>f, Described, DescribedAfter
<1>3. Parent(p) \in TreePaths /\ I[Parent(p)] = Inum(Parent(p)) /\ I[p] = Inum(p)
  BY <1>1, TreePathTyped
<1>4. \A e \in Edges : e[1] # I[p]
  <2> SUFFICES ASSUME NEW e \in Edges, e[1] = I[p] PROVE FALSE
    OBVIOUS
  <2>1. PICK ds \in Places : e = <<ds[1], EntryAt(ds).name, EntryAt(ds).inode>>
    BY DEF Edges
  <2>2. ds[1] = Inum(p)
    BY <1>3, <2>1
  <2>3. ds[1] \in LiveDirs /\ ds[2] \in Slots /\ disk[direct0[ds[1]]][ds[2]].valid
    BY DEF Places
  <2>4. S_ISDIR(mode[Inum(p)])
    BY <2>2, <2>3 DEF LiveDirs
  <2> QED
    BY <2>2, <2>3, <2>4, EmptyListing
<1>5. ~(J[p] > 0) /\ \A r \in TreePaths : r # p => Same(I[r], J[r])
  <2>o. PICK old : old = <<I[Parent(p)], Last(p), I[p]>>
    OBVIOUS
  <2>1. F = Edges \ {old} /\ I[p] > 0
    BY <1>3, <1>f, <2>o
  <2> QED
    BY <1>2, <1>4, <2>1, <2>o, EdgeRemoved
<1>6. \A r \in TreePaths : I[r] > 0 => (S_ISDIR(mode[I[r]]) <=> S_ISDIR(mode[I[r]]))
  OBVIOUS
<1>7. TreeOf(J, mode) = Abstract!Without(TreeOf(I, mode), p)
  BY <1>5, <1>6, SmallerTree
<1>8. TreeNow = TreeOf(I, mode) /\ TreeNow' = TreeOf(J, mode')
  BY <1>i, <1>j, TreeIs
<1>9. Reached'
  <2> SUFFICES ASSUME NEW k \in Live' PROVE \E r \in TreePaths : Inum(r)' = k
    BY DEF Reached
  <2>1. k \in Live /\ k # Inum(p) /\ k > 0
    BY LiveIsPositive DEF Live, Sound
  <2>2. PICK r \in TreePaths : Inum(r) = k
    BY <2>1 DEF Reached
  <2> QED
    BY <1>1, <1>5, <2>1, <2>2 DEF Same
<1> QED
  BY <1>7, <1>8, <1>9

\* unlink and rmdir remove a path with nothing below it.
LEMMA RemovalServes ==
    ASSUME ShortPaths, EveryPath, Sound, Sound', Reached,
           NEW q \in Paths, NEW call, call # "rename", q \in Abstract!Arguments(call),
           ret' = Reply(call, <<q>>, OK, {}),
           Abstract!FreeAfter(call, OK, f_bfree, f_bfree'),
           NEW i \in Live, NEW left, NEW S, NEW d0, NEW dsk, NEW blk,
           Target(q, i, left, S, d0, dsk, blk),
           Removal(q, i, left, S, d0, dsk, blk),
           NEW p, p = parse(q),
           Abstract!Outcome(OK, Abstract!Without(TreeNow, p))
               \in Abstract!Outcomes(call, TreeNow, f_bfree, p)
    PROVE  Serves
<1>1. /\ p \in TreePaths /\ p # <<>> /\ p = Abstract!Known(q)
      /\ Inum(Parent(p)) = ParentInum(q) /\ Inum(p) = Inum(q) /\ Last(p) = Leaf(q)
      /\ q \in Seq(RawNames) /\ q # <<>> /\ Len(q) <= MAX_PATH_LEN
  BY KnownPath
<1>2. /\ inode_map' = inode_map \ {i}
      /\ Edges' = Edges \ {<<ParentInum(q), Leaf(q), i>>}
  BY <1>1, RemovedKeeps
<1>3. i = Inum(p) /\ i > 0 /\ mode' = mode
      /\ (S_ISDIR(mode[i]) => Listing(disk[direct0[i]]) = {})
  BY <1>1, LiveIsPositive DEF Target, Removal, Sound
<1>4. Edges' = Edges \ {<<Inum(Parent(p)), Last(p), Inum(p)>>}
  BY <1>1, <1>2, <1>3
<1>5. TreeNow' = Abstract!Without(TreeNow, p) /\ Reached'
  BY <1>1, <1>2, <1>3, <1>4, PathGone
<1>n. PICK names : names = {}
  OBVIOUS
<1>6. [code |-> OK, names |-> names, tree |-> TreeNow']
         \in Abstract!Outcomes(call, TreeNow, f_bfree, p)
  BY <1>5, <1>n DEF Abstract!Outcome
<1>7. Answered
  BY <1>1, <1>6, <1>n, OneOutcome
<1> QED
  BY <1>5, <1>7 DEF Serves

\* unlink removes a file.
LEMMA UnlinkServes ==
    ASSUME ShortPaths, EveryPath, Sound, Sound', Reached,
           NEW q \in Paths, fs_unlink(q)
    PROVE  Serves
<1>p. PICK p : p = parse(q)
  OBVIOUS
<1>t. PICK t : t = TreeNow
  OBVIOUS
<1>f. PICK f : f = f_bfree
  OBVIOUS
<1>g. PICK g : g = f_bfree'
  OBVIOUS
<1>1. /\ "unlink" # "rename" /\ q \in Abstract!Arguments("unlink")
      /\ q \in Seq(RawNames) /\ q # <<>> /\ Len(q) <= MAX_PATH_LEN
      /\ q \in Paths \cup {<<>>}
  BY KnownPath, MayBeGiven
<1>2. CASE file_error(q) # OK
  <2>1. Fail("unlink", <<q>>, file_error(q))
    BY <1>2 DEF fs_unlink
  <2> QED
    BY <1>1, <1>2, <2>1, NoFileServes
<1>3. CASE file_error(q) = OK
  <2>1. ret' = Reply("unlink", <<q>>, OK, {})
    BY <1>3 DEF fs_unlink, Fail
  <2>2. ret'.code = OK
    BY <2>1 DEF Reply
  <2>3. PICK i, left, d0, dsk, blk :
           /\ i \in Live /\ i = Inum(q) /\ left \in Skipped(i)
           /\ Target(q, i, left, Held(i) \ left, d0, dsk, blk)
           /\ Removal(q, i, left, Held(i) \ left, d0, dsk, blk)
    BY <1>1, <2>2, UnlinkTarget
  <2>s. PICK S : S = Held(i) \ left
    OBVIOUS
  <2>4. p \in DOMAIN t /\ ~Abstract!IsDir(t, p)
    BY <1>1, <1>3, <1>p, <1>t, AFile
  <2>5. Abstract!Outcome(OK, Abstract!Without(t, p))
           \in Abstract!Outcomes("unlink", t, f, p)
    BY <2>4 DEF Abstract!Outcomes, Abstract!RemoveFile, Abstract!Done, Abstract!OK, OK
  <2>6. Target(q, i, left, S, d0, dsk, blk) /\ Removal(q, i, left, S, d0, dsk, blk)
    BY <2>3, <2>s
  <2>7. g >= f
    <3>1. block_map' = block_map \ S
      BY <2>6 DEF Removal
    <3> QED
      BY <1>f, <1>g, <3>1, FreeChanges DEF Sound
  <2>8. Abstract!FreeAfter("unlink", OK, f, g)
    BY <2>7 DEF Abstract!FreeAfter, Abstract!OK, OK
  <2>9. /\ Abstract!FreeAfter("unlink", OK, f_bfree, f_bfree')
        /\ Abstract!Outcome(OK, Abstract!Without(TreeNow, p))
              \in Abstract!Outcomes("unlink", TreeNow, f_bfree, p)
    BY <1>t, <1>f, <1>g, <2>5, <2>8
  <2> QED
    BY <1>1, <1>p, <2>1, <2>3, <2>6, <2>9, RemovalServes
<1> QED
  BY <1>2, <1>3

\* rmdir removes a directory that lists no names, which is one with nothing
\* below it.
LEMMA RmdirServes ==
    ASSUME ShortPaths, EveryPath, Sound, Sound', Reached,
           NEW q \in Paths, fs_rmdir(q)
    PROVE  Serves
<1>p. PICK p : p = parse(q)
  OBVIOUS
<1>t. PICK t : t = TreeNow
  OBVIOUS
<1>f. PICK f : f = f_bfree
  OBVIOUS
<1>g. PICK g : g = f_bfree'
  OBVIOUS
<1>1. /\ p \in TreePaths /\ p = Abstract!Known(q) /\ p # <<>>
      /\ "rmdir" # "rename" /\ "rmdir" \in Calls /\ Inum(p) = Inum(q)
      /\ q \in Abstract!Arguments("rmdir") /\ q \in Paths \cup {<<>>} /\ "rmdir" # "write"
      /\ q \in Seq(RawNames) /\ q # <<>> /\ Len(q) <= MAX_PATH_LEN
  BY <1>p, KnownPath, MayBeGiven DEF Calls
<1>2. Inum(p) \in Int
  BY <1>1, TreePathTyped, Resolves, LiveIsPositive DEF Sound
<1>3. ASSUME rmdir_error(q) # OK,
             Abstract!Outcome(rmdir_error(q), TreeNow)
                \in Abstract!Outcomes("rmdir", TreeNow, f_bfree, p)
      PROVE  Serves
  <2>c. PICK code : code = rmdir_error(q)
    OBVIOUS
  <2>1. Fail("rmdir", <<q>>, code)
    BY <1>3, <2>c DEF fs_rmdir
  <2>2. code \in Errors
    BY <1>1, <1>3, <2>c, ErrorCodes
  <2>3. Abstract!Outcome(code, TreeNow) \in Abstract!Outcomes("rmdir", TreeNow, f_bfree, p)
    BY <1>3, <2>c
  <2> QED
    BY <1>1, <2>1, <2>2, <2>3, Refusing
<1>4. CASE Inum(q) < 0
  <2>1. ~(Inum(p) > 0) /\ rmdir_error(q) = Inum(p) /\ rmdir_error(q) # OK
    BY <1>1, <1>2, <1>4 DEF rmdir_error, OK
  <2> QED
    BY <1>1, <1>3, <2>1, NotThere
<1>5. CASE ~(Inum(q) < 0) /\ ~S_ISDIR(mode[Inum(q)])
  <2>1. rmdir_error(q) = ENOTDIR /\ ENOTDIR # OK
    BY <1>5 DEF rmdir_error, ENOTDIR, OK
  <2>2. p \in DOMAIN t /\ Abstract!IsFile(t, p)
    BY <1>1, <1>5, <1>t, Present
  <2>3. Abstract!Outcome(ENOTDIR, t) \in Abstract!Outcomes("rmdir", t, f, p)
    BY <2>2 DEF Abstract!Outcomes, Abstract!RemoveDir, Abstract!Refused,
                Abstract!ENOTDIR, ENOTDIR
  <2> QED
    BY <1>3, <1>t, <1>f, <2>1, <2>3
<1>6. CASE ~(Inum(q) < 0) /\ S_ISDIR(mode[Inum(q)])
  <2>1. p \in DOMAIN t /\ ~Abstract!IsFile(t, p) /\ Inum(p) \in LiveDirs /\ Inum(p) > 0
    BY <1>1, <1>6, <1>t, Present DEF LiveDirs
  <2>2. Listing(disk[direct0[Inum(p)]]) = {} <=> Abstract!Below(t, p) = {p}
    <3>1. t = TreeOf(Resolution, mode) /\ Resolution[p] = Inum(p)
      BY <1>1, <1>t, TreeIs DEF Resolution
    <3>2. Listing(disk[direct0[Inum(p)]]) = Abstract!Names(t, p)
      BY <1>1, <2>1, <3>1, NamesAre
    <3>3. Describes(Resolution, Edges)
      BY Described
    <3>i. PICK I : I = Resolution
      OBVIOUS
    <3>4. Abstract!Names(TreeOf(I, mode), p) = {}
             <=> Abstract!Below(TreeOf(I, mode), p) = {p}
      BY <1>1, <2>1, <3>1, <3>3, <3>i, NothingBelow
    <3> QED
      BY <3>1, <3>2, <3>4, <3>i
  <2>3. CASE Listing(disk[direct0[Inum(q)]]) # {}
    <3>1. rmdir_error(q) = ENOTEMPTY /\ ENOTEMPTY # OK
      BY <1>6, <2>3 DEF rmdir_error, ENOTEMPTY, OK
    <3>2. Abstract!Below(t, p) # {p}
      BY <1>1, <2>2, <2>3
    <3>3. Abstract!Outcome(ENOTEMPTY, t) \in Abstract!Outcomes("rmdir", t, f, p)
      BY <2>1, <3>2 DEF Abstract!Outcomes, Abstract!RemoveDir, Abstract!Refused,
                        Abstract!ENOTEMPTY, ENOTEMPTY
    <3> QED
      BY <1>3, <1>t, <1>f, <3>1, <3>3
  <2>4. CASE Listing(disk[direct0[Inum(q)]]) = {}
    <3>1. rmdir_error(q) = OK
      BY <1>6, <2>4 DEF rmdir_error
    <3>2. ret' = Reply("rmdir", <<q>>, OK, {})
      BY <3>1 DEF fs_rmdir, Fail
    <3>3. ret'.code = OK
      BY <3>2 DEF Reply
    <3>4. PICK i, d0, dsk, blk :
             /\ i \in Live /\ i = Inum(q)
             /\ Target(q, i, {}, {direct0[i]}, d0, dsk, blk)
             /\ Removal(q, i, {}, {direct0[i]}, d0, dsk, blk)
      BY <1>1, <3>3, RmdirTarget
    <3>s. PICK left, S : left = {} /\ S = {direct0[i]}
      OBVIOUS
    <3>5. Abstract!Below(t, p) = {p}
      BY <1>1, <2>2, <2>4
    <3>6. Abstract!Outcome(OK, Abstract!Without(t, p)) \in Abstract!Outcomes("rmdir", t, f, p)
      BY <2>1, <3>5 DEF Abstract!Outcomes, Abstract!RemoveDir, Abstract!Done,
                        Abstract!OK, OK
    <3>7. Target(q, i, left, S, d0, dsk, blk) /\ Removal(q, i, left, S, d0, dsk, blk)
      BY <3>4, <3>s
    <3>8. g = f + 1
      <4>b. PICK b : b = direct0[i]
        OBVIOUS
      <4>1. block_map' = block_map \ {b}
        BY <3>7, <3>s, <4>b DEF Removal
      <4>2. b \in block_map
        <5>1. i \in LiveDirs
          BY <1>1, <2>1, <3>4
        <5>2. b # 0 /\ b \in Held(i)
          BY <4>b, <5>1 DEF Sound, DirectoriesHaveOneBlock, LiveDirs, Held
        <5> QED
          BY <3>4, <5>2 DEF Sound, BlocksMatchOwners
      <4> QED
        BY <1>f, <1>g, <4>1, <4>2, FreeChanges DEF Sound
    <3>9. Abstract!FreeAfter("rmdir", OK, f, g)
      BY <3>8 DEF Abstract!FreeAfter, Abstract!OK, OK
    <3>10. /\ Abstract!FreeAfter("rmdir", OK, f_bfree, f_bfree')
           /\ Abstract!Outcome(OK, Abstract!Without(TreeNow, p))
                 \in Abstract!Outcomes("rmdir", TreeNow, f_bfree, p)
      BY <1>t, <1>f, <1>g, <3>6, <3>9
    <3> QED
      BY <1>1, <1>p, <3>2, <3>4, <3>7, <3>10, RemovalServes
  <2> QED
    BY <2>3, <2>4
<1> QED
  BY <1>4, <1>5, <1>6

\* What rename answers is an outcome of the tree's.
LEMMA RenameAnswered ==
    ASSUME NEW p \in Paths, NEW q \in Paths, NEW code,
           ret' = Reply("rename", <<p, q>>, code, {}), block_map' = block_map,
           NEW a, a = Abstract!Known(p), NEW b, b = Abstract!Known(q),
           Abstract!Outcome(code, TreeNow') \in Abstract!Rename(TreeNow, a, b)
    PROVE  Answered
<1>r. PICK r : r = ret'
  OBVIOUS
<1>l. PICK l : l = <<p, q>>
  OBVIOUS
<1>t. PICK t : t = TreeNow
  OBVIOUS
<1>u. PICK u : u = TreeNow'
  OBVIOUS
<1>f. PICK f : f = f_bfree
  OBVIOUS
<1>g. PICK g : g = f_bfree'
  OBVIOUS
<1>1. r.call = "rename" /\ r.paths = l /\ r.code = code /\ r.names = {}
  BY <1>r, <1>l DEF Reply
<1>2. DOMAIN l = {1, 2} /\ l[1] = p /\ l[2] = q
  BY <1>l
<1>3. [code |-> r.code, names |-> r.names, tree |-> u] \in Abstract!Rename(t, a, b)
  BY <1>1, <1>t, <1>u DEF Abstract!Outcome
<1>4. p \in Abstract!Arguments("rename") /\ q \in Abstract!Arguments("rename")
  BY MayBeGiven
<1>5. g = f
  BY <1>f, <1>g DEF f_bfree, FreeBlocks, Blocks
<1>6. Abstract!FreeAfter("rename", code, f, g)
  BY <1>5 DEF Abstract!FreeAfter
<1>7. Abstract!Answers(r, t, f, u, g)
  BY <1>1, <1>2, <1>3, <1>4, <1>6 DEF Abstract!Answers
<1> QED
  BY <1>7, <1>r, <1>t, <1>u, <1>f, <1>g DEF Answered, Abstract!Next

\* What rename returns when it moves nothing.
LEMMA MovesNothing ==
    ASSUME ShortPaths, EveryPath, Sound, NEW p \in Paths, NEW q \in Paths,
           NEW a, a = parse(p), NEW b, b = parse(q), rename_error(p, q) # OK
    PROVE  Abstract!Outcome(rename_error(p, q), TreeNow) \in Abstract!Rename(TreeNow, a, b)
<1>t. PICK t : t = TreeNow
  OBVIOUS
<1>1. /\ a \in TreePaths /\ Inum(a) = Inum(p) /\ Inum(Parent(a)) = ParentInum(p)
      /\ b \in TreePaths /\ Inum(b) = Inum(q) /\ Inum(Parent(b)) = ParentInum(q)
  BY KnownPath
<1>2. Inum(a) \in Int /\ Inum(b) \in Int
  BY <1>1, TreePathTyped, Resolves, LiveIsPositive DEF Sound
<1>3. CASE Inum(p) < 0
  <2>1. rename_error(p, q) = ENOENT
    BY <1>3 DEF rename_error
  <2>2. a \notin DOMAIN t
    <3>1. ~(Inum(a) > 0)
      BY <1>1, <1>2, <1>3
    <3> QED
      BY <1>1, <1>t, <3>1, Absent
  <2>3. Abstract!Outcome(ENOENT, t) \in Abstract!Rename(t, a, b)
    BY <2>2 DEF Abstract!Rename, Abstract!Refused, Abstract!ENOENT, ENOENT
  <2> QED
    BY <1>t, <2>1, <2>3
<1>4. CASE ~(Inum(p) < 0) /\ Inum(q) > 0
  <2>1. rename_error(p, q) = EEXIST
    BY <1>4 DEF rename_error
  <2>2. a \in DOMAIN t /\ b \in DOMAIN t
    BY <1>1, <1>2, <1>4, <1>t, Present
  <2>3. Abstract!Outcome(EEXIST, t) \in Abstract!Rename(t, a, b)
    BY <2>2 DEF Abstract!Rename, Abstract!Refused, Abstract!EEXIST, EEXIST
  <2> QED
    BY <1>t, <2>1, <2>3
<1>5. CASE ~(Inum(p) < 0) /\ ~(Inum(q) > 0)
  <2>1. rename_error(p, q) = EINVAL /\ ParentInum(p) # ParentInum(q)
    BY <1>5 DEF rename_error
  <2>2. a \in DOMAIN t /\ b \notin DOMAIN t
    BY <1>1, <1>2, <1>5, <1>t, Present, Absent
  <2>3. Abstract!Up(a) # Abstract!Up(b)
    BY <1>1, <2>1 DEF Abstract!Up, Parent
  <2>4. Abstract!Outcome(EINVAL, t) \in Abstract!Rename(t, a, b)
    BY <2>2, <2>3 DEF Abstract!Rename, Abstract!Refused, Abstract!EINVAL, EINVAL
  <2> QED
    BY <1>t, <2>1, <2>4
<1> QED
  BY <1>3, <1>4, <1>5

\* An entry that gets another name takes the paths through it with it.
LEMMA PathMoved ==
    ASSUME ShortPaths, EveryPath, Sound, Sound', Reached,
           NEW a \in TreePaths, a # <<>>, NEW b \in TreePaths, b # <<>>,
           Parent(a) = Parent(b), Inum(a) > 0, ~(Inum(b) > 0),
           Edges' = (Edges \ {<<Inum(Parent(a)), Last(a), Inum(a)>>})
                       \cup {<<Inum(Parent(a)), Last(b), Inum(a)>>},
           Live' = Live, mode' = mode
    PROVE  TreeNow' = Abstract!Moved(TreeNow, a, b) /\ Reached'
<1>i. PICK I : I = Resolution
  OBVIOUS
<1>j. PICK J : J = Resolution'
  OBVIOUS
<1>f. PICK F : F = Edges'
  OBVIOUS
<1>1. \A r \in TreePaths : I[r] = Inum(r) /\ J[r] = Inum(r)'
  BY <1>i, <1>j DEF Resolution
<1>2. Describes(I, Edges) /\ Describes(J, F)
  BY <1>i, <1>j, <1>f, Described, DescribedAfter
<1>3. /\ Parent(a) \in TreePaths /\ I[Parent(a)] = Inum(Parent(a)) /\ I[a] = Inum(a)
      /\ I[b] = Inum(b)
  BY <1>1, TreePathTyped
<1>4. \A r \in TreePaths : Taken(I, J, a, b, r)
  <2>o. PICK old : old = <<I[Parent(a)], Last(a), I[a]>>
    OBVIOUS
  <2>n. PICK new : new = <<I[Parent(a)], Last(b), I[a]>>
    OBVIOUS
  <2>1. F = (Edges \ {old}) \cup {new} /\ I[a] > 0 /\ ~(I[b] > 0)
    BY <1>3, <1>f, <2>o, <2>n
  <2> QED
    BY <1>2, <2>1, <2>o, <2>n, EdgeMoved
<1>5. Len(a) = Len(b) /\ a # b
  <2>1. Len(Parent(a)) = Len(a) - 1 /\ Len(a) \in Nat
    BY TreePathTyped
  <2>2. Len(Parent(b)) = Len(b) - 1 /\ Len(b) \in Nat
    BY TreePathTyped
  <2> QED
    BY <2>1, <2>2
<1>6. TreeOf(J, mode) = Abstract!Moved(TreeOf(I, mode), a, b)
  BY <1>2, <1>3, <1>4, <1>5, MovedTree
<1>7. TreeNow = TreeOf(I, mode) /\ TreeNow' = TreeOf(J, mode')
  BY <1>i, <1>j, TreeIs
<1>8. Reached'
  <2> SUFFICES ASSUME NEW k \in Live' PROVE \E r \in TreePaths : Inum(r)' = k
    BY DEF Reached
  <2>1. k \in Live /\ k > 0
    BY LiveIsPositive DEF Sound
  <2>2. PICK r \in TreePaths : Inum(r) = k
    BY <2>1 DEF Reached
  <2>3. I[r] = k /\ I[r] > 0
    BY <1>1, <2>1, <2>2
  <2>4. CASE Extends(r, a)
    <3>x. PICK x : x = Onto(b, a, r)
      OBVIOUS
    <3>1. x \in TreePaths /\ Extends(x, b) /\ Onto(a, b, x) = r
      BY <1>5, <2>4, <3>x, OntoBack
    <3>2. Same(I[r], J[x])
      BY <1>4, <3>1 DEF Taken
    <3> QED
      BY <1>1, <2>3, <3>1, <3>2 DEF Same
  <2>5. CASE ~Extends(r, a)
    <3>1. ~Extends(r, b)
      <4>n. PICK n : n = Len(b)
        OBVIOUS
      <4>1. ASSUME Extends(r, b) PROVE n \in 0 .. Len(r) /\ SubSeq(r, 1, n) = b
        BY <4>1, <4>n, PathElements DEF Extends
      <4> QED
        BY <1>2, <1>3, <2>3, <4>1, OnTheWay
    <3>2. Same(I[r], J[r])
      BY <1>4, <2>5, <3>1 DEF Taken
    <3> QED
      BY <1>1, <2>3, <3>2 DEF Same
  <2> QED
    BY <2>4, <2>5
<1> QED
  BY <1>6, <1>7, <1>8

\* rename moves a path, and what is below it, to a name that is free.
LEMMA RenameServes ==
    ASSUME ShortPaths, EveryPath, Sound, Sound', Reached,
           NEW p \in Paths, NEW q \in Paths, fs_rename(p, q)
    PROVE  Serves
<1>a. PICK a : a = parse(p)
  OBVIOUS
<1>b. PICK b : b = parse(q)
  OBVIOUS
<1>t. PICK t : t = TreeNow
  OBVIOUS
<1>1. /\ a \in TreePaths /\ a # <<>> /\ a = Abstract!Known(p)
      /\ Inum(a) = Inum(p) /\ Inum(Parent(a)) = ParentInum(p) /\ Last(a) = Leaf(p)
      /\ Parent(a) \in TreePaths
      /\ p \in Seq(RawNames) /\ p # <<>> /\ Len(p) <= MAX_PATH_LEN
  BY <1>a, KnownPath
<1>2. /\ b \in TreePaths /\ b # <<>> /\ b = Abstract!Known(q)
      /\ Inum(b) = Inum(q) /\ Inum(Parent(b)) = ParentInum(q) /\ Last(b) = Leaf(q)
      /\ Parent(b) \in TreePaths
      /\ q \in Seq(RawNames) /\ q # <<>> /\ Len(q) <= MAX_PATH_LEN
  BY <1>b, KnownPath
<1>3. CASE rename_error(p, q) # OK
  <2>1. Fail("rename", <<p, q>>, rename_error(p, q))
    BY <1>3 DEF fs_rename
  <2>2. /\ rename_error(p, q) \in Errors \cup {OK} /\ "rename" \in Calls
        /\ <<p, q>> \in Seq(Seq(RawNames))
    BY <1>1, <1>2, ArgumentLists DEF rename_error, Errors, Calls
  <2>3. /\ SameShape /\ ret' = Reply("rename", <<p, q>>, rename_error(p, q), {})
        /\ block_map' = block_map
    BY <2>1, <2>2, FailKeeps DEF Fail, unchanged
  <2>4. TreeNow' = TreeNow /\ Reached'
    BY <2>3, TreeStays
  <2>5. Abstract!Outcome(rename_error(p, q), TreeNow') \in Abstract!Rename(TreeNow, a, b)
    BY <1>3, <1>a, <1>b, <2>4, MovesNothing
  <2> QED
    BY <1>1, <1>2, <2>3, <2>4, <2>5, RenameAnswered DEF Serves
<1>4. CASE rename_error(p, q) = OK
  <2>1. /\ ret' = Reply("rename", <<p, q>>, OK, {}) /\ inode_map' = inode_map
        /\ mode' = mode /\ block_map' = block_map
    BY <1>4 DEF fs_rename, Fail
  <2>2. ret'.code = OK
    BY <2>1 DEF Reply
  <2>3. ~(Inum(p) < 0) /\ ~(Inum(q) > 0) /\ ParentInum(p) = ParentInum(q)
    BY <1>4 DEF rename_error, OK, ENOENT, EEXIST, EINVAL
  <2>4. a \in DOMAIN t /\ Inum(a) > 0
    BY <1>1, <1>t, <2>3, Present
  <2>5. b \notin DOMAIN t
    BY <1>2, <1>t, <2>3, Absent
  <2>6. Parent(a) = Parent(b)
    <3>1. ParentInum(p) \in LiveDirs
      BY <1>1, <2>4, Found
    <3>2. Inum(Parent(a)) > 0 /\ Inum(Parent(b)) = Inum(Parent(a))
      BY <1>1, <1>2, <2>3, <3>1, LiveIsPositive DEF Sound
    <3>i. PICK I : I = Resolution
      OBVIOUS
    <3>3. Describes(I, Edges) /\ \A r \in TreePaths : I[r] = Inum(r)
      BY <3>i, Described DEF Resolution
    <3>4. I[Parent(a)] > 0 /\ I[Parent(b)] = I[Parent(a)]
      BY <1>1, <1>2, <3>2, <3>3
    <3> QED
      BY <1>1, <1>2, <3>3, <3>4, OnePath
  <2>7. Edges' = (Edges \ {<<ParentInum(p), Leaf(p), Inum(p)>>})
                    \cup {<<ParentInum(p), Leaf(q), Inum(p)>>}
    BY <1>1, <1>2, <2>2, RenameKeeps
  <2>8. Edges' = (Edges \ {<<Inum(Parent(a)), Last(a), Inum(a)>>})
                    \cup {<<Inum(Parent(a)), Last(b), Inum(a)>>}
    BY <1>1, <1>2, <2>7
  <2>9. Live' = Live /\ ~(Inum(b) > 0)
    BY <1>2, <2>1, <2>3 DEF Live
  <2>10. TreeNow' = Abstract!Moved(t, a, b) /\ Reached'
    BY <1>1, <1>2, <1>t, <2>1, <2>4, <2>6, <2>8, <2>9, PathMoved
  <2>11. Abstract!Outcome(OK, Abstract!Moved(t, a, b)) \in Abstract!Rename(t, a, b)
    BY <2>4, <2>5, <2>6 DEF Abstract!Rename, Abstract!Done, Abstract!Up, Parent,
                            Abstract!OK, OK
  <2>12. Abstract!Outcome(OK, TreeNow') \in Abstract!Rename(TreeNow, a, b)
    BY <1>t, <2>10, <2>11
  <2>13. Answered
    BY <1>1, <1>2, <2>1, <2>12, RenameAnswered
  <2> QED
    BY <2>10, <2>13 DEF Serves
<1> QED
  BY <1>3, <1>4

-----------------------------------------------------------------------------
(* The handlers implement the tree. *)

\* A new image is the tree of the root alone.
LEMMA InitServes ==
    ASSUME ShortPaths, EveryPath, Init
    PROVE  Consistent /\ Reached /\ Abstract!Init
<1>1. Consistent
  BY InitConsistent
<1>2. Sound /\ ret = Reply("attr", <<<<>>>>, OK, {})
  BY <1>1 DEF Consistent, Init
<1>3. /\ Live = {ROOT_INODE} /\ LiveDirs = {ROOT_INODE}
      /\ disk[direct0[ROOT_INODE]] = ZeroBlock
  BY SizesAssumption
     DEF Init, Live, LiveDirs, ROOT_INODE, S_ISDIR, Inodes, DataBlocks
<1>4. Places = {}
  BY <1>3 DEF Places, ZeroBlock, Zero, Unused
<1>5. Edges = {}
  BY <1>4 DEF Edges
<1>6. Describes(Resolution, {})
  BY <1>2, <1>5, Described
<1>7. /\ <<>> \in TreePaths /\ Resolution[<<>>] = ROOT_INODE /\ ROOT_INODE > 0
      /\ \A p \in TreePaths : Resolution[p] = Inum(p)
  <2>1. <<>> \in TreePaths /\ Resolution[<<>>] = ROOT_INODE /\ ROOT_INODE > 0
    BY <1>6, RootPath
  <2> QED
    BY <2>1 DEF Resolution
<1>8. {q \in TreePaths : Resolution[q] > 0} = {<<>>}
  <2>1. ASSUME NEW q \in TreePaths, q # <<>>, Resolution[q] > 0 PROVE FALSE
    <3>1. PICK I, E : I = Resolution /\ E = {}
      OBVIOUS
    <3>2. Describes(I, E) /\ I[q] > 0
      BY <1>6, <2>1, <3>1
    <3>3. <<I[Parent(q)], Last(q), I[q]>> \in E
      BY <2>1, <3>2, LastEdge
    <3> QED
      BY <3>1, <3>3
  <2> QED
    BY <1>7, <2>1
<1>9. Kind(mode, ROOT_INODE) = "dir"
  BY <1>3 DEF Kind, LiveDirs
<1>10. TreeNow = [p \in {<<>>} |-> "dir"]
  <2>1. TreeNow = TreeOf(Resolution, mode)
    BY TreeIs
  <2> QED
    BY <1>7, <1>8, <1>9, <2>1 DEF TreeOf
<1>11. Reached
  BY <1>3, <1>7 DEF Reached
<1>12. Abstract!Init
  BY <1>2, <1>10, FreeIs DEF Abstract!Init, Abstract!Reply, Abstract!OK, Reply, OK
<1> QED
  BY <1>1, <1>11, <1>12

\* Every call serves the tree.
LEMMA NextServes ==
    ASSUME ShortPaths, EveryPath, Consistent, Reached, Next
    PROVE  Serves
<1>1. Sound /\ Sound'
  BY NextKeeps DEF Keeps, Consistent
<1>2. /\ \A p \in Paths : p \in Seq(RawNames) /\ p # <<>> /\ Len(p) <= MAX_PATH_LEN
      /\ \A p \in Paths \cup {<<>>} : p \in Seq(RawNames) /\ Len(p) <= MAX_PATH_LEN
  <2>1. \A p \in Paths : p \in Seq(RawNames) /\ p # <<>> /\ Len(p) <= MAX_PATH_LEN
    BY PathsAssumption DEF ShortPaths
  <2>2. <<>> \in Seq(RawNames) /\ Len(<<>>) <= MAX_PATH_LEN
    BY PathsAssumption
  <2> QED
    BY <2>1, <2>2
<1>3. CASE Read
  <2>1. PICK p \in Paths \cup {<<>>} : 
           fs_getattr(p) \/ fs_readdir(p) \/ fs_utime(p) \/ fs_read(p)
    BY <1>3 DEF Read
  <2>2. SameShape
    BY <1>1, <1>2, <2>1, ReadKeeps
  <2>3. CASE fs_readdir(p)
    BY <1>1, <2>2, <2>3, ReaddirServes
  <2>5. CASE fs_read(p)
    BY <1>1, <2>2, <2>5, ReadServes
  <2>4. CASE fs_getattr(p) \/ fs_utime(p)
    <3>1. ret' = Reply("attr", <<p>>, resolve_error(p), {}) /\ block_map' = block_map
      BY <2>4 DEF fs_getattr, fs_utime, Fail, unchanged
    <3> QED
      BY <1>1, <2>2, <3>1, StatServes
  <2> QED
    BY <2>1, <2>3, <2>4, <2>5
<1>4. CASE Chmod
  <2>1. PICK p \in Paths \cup {<<>>} : fs_chmod(p)
    BY <1>4 DEF Chmod
  <2>2. SameShape
    BY <1>1, <1>2, <2>1, ChmodKeeps
  <2>3. ret' = Reply("attr", <<p>>, resolve_error(p), {}) /\ block_map' = block_map
    BY <2>1 DEF fs_chmod, Fail, unchanged
  <2> QED
    BY <1>1, <2>2, <2>3, StatServes
<1>5. CASE Create
  <2>1. PICK p \in Paths : create("create", p, IFREG, FALSE)
    BY <1>5 DEF Create, fs_create
  <2>n. PICK call, isDir, type : call = "create" /\ isDir = FALSE /\ type = IFREG
    OBVIOUS
  <2>2. /\ call \in {"create", "mkdir"} /\ isDir \in BOOLEAN /\ ~isDir
        /\ type = IF isDir THEN IFDIR ELSE IFREG
        /\ create(call, p, type, isDir) /\ call # "mkdir"
    BY <2>1, <2>n
  <2> QED
    BY <1>1, <2>2, MakeServes
<1>6. CASE Mkdir
  <2>1. PICK p \in Paths : create("mkdir", p, IFDIR, TRUE)
    BY <1>6 DEF Mkdir, fs_mkdir
  <2>n. PICK call, isDir, type : call = "mkdir" /\ isDir = TRUE /\ type = IFDIR
    OBVIOUS
  <2>2. /\ call \in {"create", "mkdir"} /\ isDir \in BOOLEAN /\ isDir
        /\ type = IF isDir THEN IFDIR ELSE IFREG
        /\ create(call, p, type, isDir) /\ call = "mkdir"
    BY <2>1, <2>n
  <2>3. \A b \in FreeBlocks : b = get_next_block => disk[b] = ZeroBlock
    BY DEF Consistent, FreeBlocksAreZero
  <2> QED
    BY <1>1, <2>2, <2>3, MakeServes
<1>7. CASE Write
  <2>1. PICK p \in Paths : fs_write(p)
    BY <1>7 DEF Write
  <2>2. SameShape
    BY <1>1, <1>2, <2>1, WriteKeeps
  <2> QED
    BY <1>1, <2>1, <2>2, WriteServes
<1>8. CASE Truncate
  <2>1. PICK p \in Paths : fs_truncate(p)
    BY <1>8 DEF Truncate
  <2>2. SameShape
    BY <1>1, <1>2, <2>1, TruncateKeeps
  <2> QED
    BY <1>1, <2>1, <2>2, TruncateServes
<1>9. CASE Unlink
  BY <1>1, <1>9, UnlinkServes DEF Unlink
<1>10. CASE Rmdir
  BY <1>1, <1>10, RmdirServes DEF Rmdir
<1>11. CASE Rename
  BY <1>1, <1>11, RenameServes DEF Rename
<1> QED
  BY <1>3, <1>4, <1>5, <1>6, <1>7, <1>8, <1>9, <1>10, <1>11 DEF Next

\* So does a step that stutters, which is a step of the tree's or none.
LEMMA StepServes ==
    ASSUME ShortPaths, EveryPath, Consistent, Reached, [Next]_vars
    PROVE  Consistent' /\ Reached' /\ [Abstract!Next]_<<TreeNow, f_bfree, ret>>
<1>1. Consistent'
  BY StepKeeps DEF Keeps, Consistent
<1>2. CASE Next
  <2>1. Serves
    BY <1>2, NextServes
  <2>2. Abstract!Next
    BY <2>1 DEF Serves, Answered
  <2> QED
    BY <1>1, <2>1, <2>2 DEF Serves
<1>3. CASE UNCHANGED vars
  <2>1. unchanged /\ ret' = ret /\ ret' \in Replies /\ Sound /\ Sound'
    BY <1>1, <1>3 DEF vars, unchanged, Consistent, Sound, TypeOK
  <2>2. SameShape
    BY <2>1, NothingChanges
  <2>3. TreeNow' = TreeNow /\ Reached'
    BY <2>1, <2>2, TreeStays
  <2>4. f_bfree' = f_bfree
    BY <2>1 DEF unchanged, f_bfree, FreeBlocks, Blocks
  <2> QED
    BY <1>1, <2>1, <2>3, <2>4
<1> QED
  BY <1>2, <1>3

\* The handlers implement Tree: with paths that parse reads to the end, every
\* call answers what the tree of names and the number of free blocks decide
\* for the paths it was given, and changes that tree there and nowhere else,
\* however inodes, blocks and entries are taken, freed and used again (all
\* handlers).  It says that there is no space exactly when the directory has
\* as many names as slots, as many paths exist as inodes, or no block is free.
THEOREM HandlersImplementTree ==
    ASSUME ShortPaths, EveryPath
    PROVE  Spec => ImplementsTree
<1>1. Init => Consistent /\ Reached /\ Abstract!Init
  BY InitServes
<1>2. Consistent /\ Reached /\ [Next]_vars
         => Consistent' /\ Reached' /\ [Abstract!Next]_<<TreeNow, f_bfree, ret>>
  BY StepServes
<1> QED
  BY <1>1, <1>2, PTL DEF Spec, ImplementsTree, Abstract!Spec
=============================================================================
