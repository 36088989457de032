------------------------------ MODULE MCSession ------------------------------
(* Session on a small instance. *)
EXTENDS Session, TLC

\* Row versions are interchangeable, and so are sessions.
Symmetry == Permutations(RowID) \cup Permutations(Session)
=============================================================================
