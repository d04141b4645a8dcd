---------------------------- MODULE DirectoryTree ----------------------------
(***************************************************************************)
(* The handlers implement Tree: the paths that translate resolves, with    *)
(* the kind of the inode they lead to, are the tree.                       *)
(***************************************************************************)
EXTENDS Directory

Resolved == {p \in {parse(q) : q \in Paths} : Inum(p) > 0}

TreeNow ==
    [p \in Resolved \cup {<<>>} |->
        IF S_ISDIR(mode[Inum(p)]) THEN "dir" ELSE "file"]

Abstract == INSTANCE Tree WITH tree <- TreeNow, free <- f_bfree

\* Every handler returns what the tree decides for the paths it was given and
\* changes the tree there and nowhere else, readdir lists the names that
\* getattr then finds in that directory, and ENOSPC means that the directory
\* has no slot, the disk no inode, or statfs no block left, however entries
\* are placed, cut, invalidated and reused (all handlers).
ImplementsTree == Abstract!Spec

\* Callers use every path that parse reads to the end.
EveryPath ==
    \A k \in 1 .. MAX_PATH_LEN :
        [1 .. k -> {Cut[n] : n \in RawNames}] \subseteq {parse(p) : p \in Paths}
=============================================================================
