---------------------------- MODULE MCClientHost ----------------------------
(* A client without hooks, and one with both. *)
EXTENDS ClientHost

NoneOrBoth == {{}, {"up", "down"}}
=============================================================================
