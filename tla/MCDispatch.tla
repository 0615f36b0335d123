----------------------------- MODULE MCDispatch -----------------------------
(* Bounds of Dispatch for TLC. *)
EXTENDS Dispatch, TLC

Symmetry == Permutations(Conns)

MCPressure == <<2, 3, 4>>
=============================================================================
