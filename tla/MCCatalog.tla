----------------------------- MODULE MCCatalog -----------------------------
(* Catalog on a small instance: one table with one or two columns, a root with at most three children. *)
EXTENDS Catalog
=============================================================================
