------------------------------- MODULE MCMvcc -------------------------------
(* Mvcc on a small instance. *)
EXTENDS Mvcc, TLC

\* Row versions are interchangeable: no action or property names one.
RowSymmetry == Permutations(RowID)
=============================================================================
