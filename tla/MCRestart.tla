----------------------------- MODULE MCRestart -----------------------------
(* Restart on a small instance: one restart is enough for the question. *)
EXTENDS Restart
=============================================================================
