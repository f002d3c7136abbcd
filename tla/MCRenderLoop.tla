---------------------------- MODULE MCRenderLoop ----------------------------
(* Instances of RenderLoop for TLC. *)
EXTENDS RenderLoop
====
