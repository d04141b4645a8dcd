------------------------------ MODULE MCThreads ------------------------------
(* Two threads at work in two adjacent directory blocks. *)
EXTENDS Threads, TLC

CONSTANTS t1, t2

TwoBlocks == t1 :> 5 @@ t2 :> 6
=============================================================================
