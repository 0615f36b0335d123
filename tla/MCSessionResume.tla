--------------------------- MODULE MCSessionResume ---------------------------
(* Connections are interchangeable. *)
EXTENDS SessionResume, TLC

ConnSymmetry == Permutations(Conns)
=============================================================================
