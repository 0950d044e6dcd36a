------------------------------ MODULE MCLink ------------------------------
(* Instances of AndroidAutoLink for TLC. *)
EXTENDS AndroidAutoLink, TLC

\* Session ids are interchangeable: they are only compared.
Symmetry == Permutations(Sid)
=============================================================================
