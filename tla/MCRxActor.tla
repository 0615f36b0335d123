------------------------------ MODULE MCRxActor ------------------------------
(* Connections are interchangeable. *)
EXTENDS RxActor, TLC

ConnSymmetry == Permutations(Conns)
=============================================================================
