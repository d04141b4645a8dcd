----------------------------- MODULE MCDirectory -----------------------------
(* Directory on small instances.  "aL" is a name longer than 27 characters *)
(* whose first 27 are "a".                                                 *)
EXTENDS DirectoryTree

CONSTANT Depth    \* the longest path a caller uses

MCCut == [n \in RawNames |-> IF n = "aL" THEN "a" ELSE n]

\* Every path over the short names, and some that use the long one.
MCPaths ==
    UNION {[1 .. k -> RawNames \ {"aL"}] : k \in 1 .. Depth}
        \cup IF "aL" \notin RawNames THEN {}
             ELSE IF Depth = 1 THEN {<<"aL">>}
             ELSE {<<"aL">>, <<"b", "aL">>}

\* Callers who use paths as long as parse reads use every one.
ASSUME CallersUseEveryPath == Depth = MAX_PATH_LEN => EveryPath

\* No action reads ret.
WithoutReply == <<inode_map, block_map, mode, direct0, rest, disk, lost>>
=============================================================================
