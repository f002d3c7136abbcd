------------------------------ MODULE MCMwmSet ------------------------------
(***************************************************************************)
(* Small instances of MwmSet for TLC.  Infos and handles are               *)
(* interchangeable, so they form symmetry sets.                            *)
(***************************************************************************)
EXTENDS MwmSet

Symmetry == Permutations(Infos) \cup Permutations(Handles)
=============================================================================
