--------------------------- MODULE MCServerSession ---------------------------
(***************************************************************************)
(* Instances of ServerSession: one worker for all connections, or one      *)
(* worker per connection.                                                  *)
(***************************************************************************)
EXTENDS ServerSession

OneWorker == [c \in Conns |-> "w1"]
TwoWorkers == [c \in Conns |-> IF c = "c1" THEN "w1" ELSE "w2"]
=============================================================================
