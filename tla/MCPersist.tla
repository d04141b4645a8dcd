------------------------------ MODULE MCPersist ------------------------------
(* Persist on a small disk, and what Layout says of images of real sizes.  *)
EXTENDS MCDirectory, Persist, Layout

\* Two states that differ in ret only are one state.
PersistWithoutReply == <<WithoutReply, image, pending, before, followed>>

\* From 5 blocks on an image is in order; fsck.hw3 can check one of 1 MB,
\* and not one whose bitmap is full.
ASSUME LayoutsAreSound ==
    /\ \A n \in 1 .. 500 \cup {1024, 8191, 8192, 8193, 100000} :
          /\ MapsCoverScans(n)
          /\ RoomForRoot(n) <=> n >= 5
          /\ n >= 5 => RegionsAreDisjoint(n)
    /\ FsckStaysInMap(1024) /\ ~FsckStaysInMap(8192)
=============================================================================
