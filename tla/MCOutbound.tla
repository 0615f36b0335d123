----------------------------- MODULE MCOutbound ------------------------------
(***************************************************************************)
(* Instances of Outbound.  A batch holds 4 units, the soft limit is 6, the *)
(* record's budget 10; a frame costs 1 unit more on the wire and is        *)
(* reckoned with 2.  A frame of 9 has a batch of its own and fits no       *)
(* record.                                                                 *)
(***************************************************************************)
EXTENDS Outbound
=============================================================================
