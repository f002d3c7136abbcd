--------------------------- MODULE MCTileReading ---------------------------
(* Instances of TileReading for TLC. *)
EXTENDS TileReading

CONSTANTS t1, t2

MCViews == {{t1}, {t2}, {t1, t2}}
====
