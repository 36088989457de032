----------------------------- MODULE MCMemstore -----------------------------
(* Memstore on a small instance: two rows, three transactions. *)
EXTENDS Memstore
=============================================================================
