---------------------------- MODULE FileHandlers ----------------------------
(***************************************************************************)
(* The handlers of FileBlocks implement fs_write and fs_truncate of        *)
(* Directory, which know of a file only the set of its blocks: the file is *)
(* "f" (inode 2) and the other one "g" (inode 3) in the root directory.    *)
(***************************************************************************)
EXTENDS FileBlocks

File == 2
Other == 3
RootBlock == DataStart

Types == [i \in 0 .. 3 |-> IF i = 0 THEN {} ELSE IF i = 1 THEN {"IFDIR"} ELSE {"IFREG"}]

FirstBlocks ==
    [i \in 0 .. 3 |->
        CASE i = 0 -> 0
          [] i = 1 -> RootBlock
          [] i = File -> direct[1]
          [] i = Other -> IF other = {} THEN 0
                          ELSE CHOOSE b \in other : \A c \in other : b <= c]

OtherBlocks ==
    [i \in 0 .. 3 |->
        CASE i = File -> file_blocks \ {FirstBlocks[File]}
          [] i = Other -> other \ {FirstBlocks[Other]}
          [] OTHER -> {}]

\* The disk as Directory sees it: file blocks are not told apart.
Seen ==
    LET slot(used, i) == [valid |-> used, name |-> IF i = File THEN "f" ELSE "g",
                          inode |-> i, isDir |-> FALSE]
        unused(what) == [valid |-> FALSE, name |-> what, inode |-> 0, isDir |-> FALSE]
    IN [b \in {0} \cup DataStart .. num_blocks - 1 |->
          CASE b = 0 -> [s \in 0 .. 1 |-> unused(IF s = 0 THEN "stale" ELSE "zero")]
            [] b = RootBlock -> [s \in 0 .. 1 |-> slot(TRUE, s + 2)]
            [] OTHER -> [s \in 0 .. 1 |->
                           unused(IF b \in block_map \/ disk[b] # ZeroBlock
                                  THEN "bytes" ELSE "zero")]]

\* Directory's view when the last call was on the path p.
Contract(p) ==
    INSTANCE Directory WITH
        num_inodes <- 4, num_slots <- 2, MAX_PATH_LEN <- 1,
        RawNames <- {"f", "g"}, Cut <- [n \in {"f", "g"} |-> n],
        Paths <- {<<"f">>, <<"g">>},
        inode_map <- 0 .. 3, mode <- Types,
        direct0 <- FirstBlocks, rest <- OtherBlocks, disk <- Seen,
        lost <- Unreachable,
        ret <- [call |-> ret.call, paths |-> <<p>>,
                code |-> ret.code, names |-> {}]

\* Every call on the file takes, keeps, loses and frees the blocks that the
\* handlers of Directory say, where a write picks the first free blocks and
\* a truncate skips what lies beyond one second-level block.
HandlersImplemented ==
    [][\/ Contract(<<"f">>)!fs_write(<<"f">>)
       \/ Contract(<<"f">>)!fs_truncate(<<"f">>)
       \/ Contract(<<"g">>)!fs_truncate(<<"g">>)]_vars
=============================================================================
