---------------------------- MODULE MCFileBlocks ----------------------------
(* FileBlocks on small instances. *)
EXTENDS FileHandlers

NoOther == {{}}
\* A gap between free blocks, and a disk that is nearly full.
SomeOther == {{DataStart + 2, DataStart + 4}, DataStart + 4 .. num_blocks - 1}
=============================================================================
