------------------------------- MODULE MCRepl -------------------------------
(* Repl on a small instance: all lines of up to three characters, and files of up to three. *)
EXTENDS Repl

MCChar == {";", "x", " ", "."}

MCLines == UNION {[1 .. n -> MCChar] : n \in 0 .. 3}

MCFiles == UNION {[1 .. n -> {";", "x", " "}] : n \in 1 .. 3}
=============================================================================
