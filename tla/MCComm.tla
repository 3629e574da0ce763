------------------------------- MODULE MCComm -------------------------------
EXTENDS Comm, TLC

CONSTANTS c1, c2, c3, k1, k2

(* Everyone in one room. *)
OneRoom == [c \in Conns |-> k1]

(* Bounds on who sends: nobody, one goroutine, both of a connection, the   *)
(* read loop of each. *)
Nobody == {}
OneTalker == {<<c1, "main">>}
OneConn == {<<c1, "main">>, <<c1, "writer">>}
EveryMain == Conns \X {"main"}

(* The last connection is in a room of its own. *)
TwoRooms == [c \in Conns |-> IF c = c3 THEN k2 ELSE k1]
=============================================================================
