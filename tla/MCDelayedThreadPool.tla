------------------------ MODULE MCDelayedThreadPool ------------------------
(* Instances of DelayedThreadPool for TLC. *)
EXTENDS DelayedThreadPool
====
