------------------------------ MODULE MCVSwitch ------------------------------
(* One client that comes and goes, and one station behind the TAP. *)
EXTENDS VSwitch

Addresses == {"ma", "mx"}
OwnMac == [c \in Clients |-> "ma"]
=============================================================================
