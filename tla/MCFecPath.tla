------------------------------- MODULE MCFecPath -------------------------------
(***************************************************************************)
(* Instances of FecPath for TLC.                                           *)
(***************************************************************************)
EXTENDS FecPath, TLC

\* The connection slots are interchangeable.
BackendSymmetry == Permutations(Backends)

\* So are the writers.
AnySymmetry == Permutations(Backends) \cup Permutations(Writers)
=============================================================================
