--------------------------------- MODULE Tree ---------------------------------
(***************************************************************************)
(* What the file system promises its callers: one tree of names, the       *)
(* number of free blocks, and for each call with its paths the outcomes (a *)
(* reply and a tree) it may have.  They depend on the tree alone, except   *)
(* that a call that needs a block finds none when no block is free.        *)
(* No inode, no block and no directory entry appears here.                 *)
(***************************************************************************)
EXTENDS Integers, Sequences, FiniteSets

CONSTANTS
    RawNames, Cut, Paths,
    num_inodes,     \* what exists, with the root, is fewer than these
    num_slots       \* names a directory has room for

VARIABLES
    tree,   \* the kind, "dir" or "file", of each path that exists
    free,   \* how many blocks statfs reports as free
    ret     \* the last call, its paths and what it returned

OK == 0
ENOENT == -2
EEXIST == -17
ENOTDIR == -20
EISDIR == -21
EINVAL == -22
ENOSPC == -28
ENOTEMPTY == -39

Reply(call, paths, code, names) ==
    [call |-> call, paths |-> paths, code |-> code, names |-> names]

\* The path a caller's path stands for: two names that agree in their first
\* 27 characters are one name.
Known(p) == [k \in DOMAIN p |-> Cut[p[k]]]

Up(p) == SubSeq(p, 1, Len(p) - 1)
Below(t, p) == {q \in DOMAIN t : Len(q) >= Len(p) /\ SubSeq(q, 1, Len(p)) = p}
Names(t, p) == {q[Len(q)] : q \in {r \in DOMAIN t : r # <<>> /\ Up(r) = p}}
IsDir(t, p) == p \in DOMAIN t /\ t[p] = "dir"
IsFile(t, p) == p \in DOMAIN t /\ t[p] = "file"

Outcome(code, t) == [code |-> code, names |-> {}, tree |-> t]
Refused(codes, t) == {Outcome(code, t) : code \in codes}
Done(t) == {Outcome(OK, t)}

\* Why p does not resolve: the last path on the way that exists decides.
Missing(t, p) ==
    LET k == CHOOSE n \in 0 .. Len(p) - 1 :
                 /\ SubSeq(p, 1, n) \in DOMAIN t
                 /\ SubSeq(p, 1, n + 1) \notin DOMAIN t
    IN Refused({IF t[SubSeq(p, 1, k)] = "dir" THEN ENOENT ELSE ENOTDIR}, t)

Stat(t, p) == IF p \in DOMAIN t THEN Done(t) ELSE Missing(t, p)

List(t, p) ==
    IF p \notin DOMAIN t THEN Missing(t, p)
    ELSE IF IsFile(t, p) THEN Refused({ENOTDIR}, t)
    ELSE {[code |-> OK, names |-> Names(t, p), tree |-> t]}

\* No slot, no inode or no block for one name more: a file, too, is refused
\* when no block is free.
NoRoom(t, f, p) ==
    \/ Cardinality(Names(t, Up(p))) = num_slots
    \/ Cardinality(DOMAIN t) = num_inodes - 1
    \/ f = 0

Make(t, f, p, kind) ==
    IF Up(p) \notin DOMAIN t THEN Missing(t, Up(p))
    ELSE IF IsFile(t, Up(p)) THEN Refused({ENOTDIR}, t)
    ELSE IF p \in DOMAIN t THEN Refused({EEXIST}, t)
    ELSE IF NoRoom(t, f, p) THEN Refused({ENOSPC}, t)
    ELSE Done([q \in DOMAIN t \cup {p} |-> IF q = p THEN kind ELSE t[q]])

\* Reading needs a file.
Read(t, p) ==
    IF p \notin DOMAIN t THEN Missing(t, p)
    ELSE IF IsDir(t, p) THEN Refused({EISDIR}, t)
    ELSE Done(t)

\* Writing and truncating change the contents of a file, never the tree.
Write(t, p) ==
    IF p \notin DOMAIN t THEN Missing(t, p)
    ELSE IF IsDir(t, p) THEN Refused({EISDIR}, t)
    ELSE Refused({EINVAL, ENOSPC}, t) \cup Done(t)

Truncate(t, p) ==
    Refused({EINVAL}, t)
        \cup IF p \notin DOMAIN t THEN Missing(t, p)
             ELSE IF IsDir(t, p) THEN Refused({EISDIR}, t)
             ELSE Done(t)

Without(t, p) == [q \in DOMAIN t \ {p} |-> t[q]]

RemoveFile(t, p) ==
    IF p \notin DOMAIN t THEN Missing(t, p)
    ELSE IF IsDir(t, p) THEN Refused({EISDIR}, t)
    ELSE Done(Without(t, p))

RemoveDir(t, p) ==
    IF p \notin DOMAIN t THEN Missing(t, p)
    ELSE IF IsFile(t, p) THEN Refused({ENOTDIR}, t)
    ELSE IF Below(t, p) # {p} THEN Refused({ENOTEMPTY}, t)
    ELSE Done(Without(t, p))

\* What is below p moves with it.
Moved(t, p, q) ==
    LET kept == DOMAIN t \ Below(t, p)
        there(r) == q \o SubSeq(r, Len(p) + 1, Len(r))
        back(r) == p \o SubSeq(r, Len(q) + 1, Len(r))
    IN [r \in kept \cup {there(s) : s \in Below(t, p)} |->
           IF r \in kept THEN t[r] ELSE t[back(r)]]

Rename(t, p, q) ==
    IF p \notin DOMAIN t THEN Refused({ENOENT}, t)
    ELSE IF q \in DOMAIN t THEN Refused({EEXIST}, t)
    ELSE IF Up(p) # Up(q) THEN Refused({EINVAL}, t)
    ELSE Done(Moved(t, p, q))

\* The outcomes of the call on the path p, when f blocks are free.
Outcomes(call, t, f, p) ==
    CASE call = "attr"     -> Stat(t, p)
      [] call = "readdir"  -> List(t, p)
      [] call = "read"     -> Read(t, p)
      [] call = "create"   -> Make(t, f, p, "file")
      [] call = "mkdir"    -> Make(t, f, p, "dir")
      [] call = "write"    -> Write(t, p)
      [] call = "truncate" -> Truncate(t, p)
      [] call = "unlink"   -> RemoveFile(t, p)
      [] call = "rmdir"    -> RemoveDir(t, p)

\* How many blocks may be free after the call: a directory is one block, a
\* write takes some, or all if it says that there is no space, and what
\* truncate and unlink give back was the file's.
FreeAfter(call, code, f, g) ==
    CASE call = "mkdir" /\ code = OK                 -> g = f - 1
      [] call = "rmdir" /\ code = OK                 -> g = f + 1
      [] call = "write" /\ code = OK                 -> g <= f
      [] call = "write" /\ code = ENOSPC             -> g = 0
      [] call \in {"truncate", "unlink"} /\ code = OK -> g >= f
      [] OTHER                                       -> g = f

\* Callers only look at the root.
Arguments(call) ==
    IF call \in {"attr", "readdir", "read"} THEN Paths \cup {<<>>} ELSE Paths

\* The call and the paths that reply r names may take the tree t with f free
\* blocks to u with g.
Answers(r, t, f, u, g) ==
    LET o == [code |-> r.code, names |-> r.names, tree |-> u]
        p == Known(r.paths[1])
    IN /\ \A k \in DOMAIN r.paths : r.paths[k] \in Arguments(r.call)
       /\ o \in IF r.call = "rename" THEN Rename(t, p, Known(r.paths[2]))
                                     ELSE Outcomes(r.call, t, f, p)
       /\ FreeAfter(r.call, r.code, f, g)

Init ==
    /\ tree = [p \in {<<>>} |-> "dir"]
    /\ free \in Nat
    /\ ret = Reply("attr", <<<<>>>>, OK, {})

Next == \E t \in {tree}, f \in {free}, u \in {tree'}, g \in {free'} :
            Answers(ret', t, f, u, g)

Spec == Init /\ [][Next]_<<tree, free, ret>>
=============================================================================
