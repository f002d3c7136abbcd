-------------------------- MODULE MCChunksDownload --------------------------
(* Instances of ChunksDownload for TLC. *)
EXTENDS ChunksDownload
====
