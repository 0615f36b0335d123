------------------------------ MODULE MCReorder ------------------------------
(***************************************************************************)
(* A reorder buffer with rings of 2, 4 and 8 slots in a sequence space of  *)
(* 32, which is used up to its end: all sequences may be sent.             *)
(***************************************************************************)
EXTENDS Reorder

MCSent == 1..MaxSeq
=============================================================================
