--------------------------- MODULE MCSearchEngine ---------------------------
(* Instances of SearchEngine for TLC. *)
EXTENDS SearchEngine
=============================================================================
