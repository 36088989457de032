----------------------------- MODULE MCHeapFile -----------------------------
(* HeapFile on a small instance: a page holds two rows, the pool one page; *)
(* rows are told apart by their lengths.                                   *)
EXTENDS HeapFile
=============================================================================
