------------------------- MODULE MCStorageDownload -------------------------
(* Two maps, and a group of both. *)
EXTENDS StorageDownload

CONSTANTS a, b, group, none

MCLeaves == {a, b}
MCSubtree == (a :> <<a>>) @@ (b :> <<b>>) @@ (group :> <<a, b>>)
MCSingleMaps == (a :> <<a>>) @@ (b :> <<b>>)
====
