---------------------------- MODULE MCLinkSetup -----------------------------
(* Bounds of LinkSetup for TLC. *)
EXTENDS LinkSetup
=============================================================================
