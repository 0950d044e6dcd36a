----------------------------- MODULE MCBringUp -----------------------------
(* An instance of ControlBringUp for TLC. *)
EXTENDS ControlBringUp, TLC
=============================================================================
