------------------------------- MODULE MCBTree -------------------------------
(* BTree on a small instance: nodes are split at three keys. *)
EXTENDS BTree
=============================================================================
