--------------------------- MODULE MCSessionHistory ---------------------------
(* SessionHistory on a small instance. *)
EXTENDS SessionHistory, TLC

\* Row versions are interchangeable, and so are sessions.
Symmetry == Permutations(RowID) \cup Permutations(Session)
=============================================================================
