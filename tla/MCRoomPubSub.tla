---------------------------- MODULE MCRoomPubSub ----------------------------
EXTENDS RoomPubSub, TLC

CONSTANTS c1, c2, c3, n1, n2, a1, a2, a3

(* All connections on one node, or the last one on another. *)
OneNode == [c \in Conns |-> n1]
TwoNodes == [c \in Conns |-> IF c = c3 THEN n2 ELSE n1]
Apart == [c \in Conns |-> IF c = c1 THEN n1 ELSE n2]

(* A client address each, or two connections of one client. *)
OwnIp == [c \in Conns |-> IF c = c1 THEN a1 ELSE IF c = c2 THEN a2 ELSE a3]
SharedIp == [c \in Conns |-> IF c = c3 THEN a2 ELSE a1]
OneIp == [c \in Conns |-> a1]
(* Messages are sent among the first two connections only, before the      *)
(* third comes: two messages among three would be out of reach.            *)
MessagesAmongTwo == sent = 0 \/ pc[c3] = "new"
=============================================================================
