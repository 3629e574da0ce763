---------------------------- MODULE MCRateLimiter ----------------------------
EXTENDS RateLimiter, TLC

CONSTANTS c1, c2, a1, a2, s1, s2

(* One client with all the connections, or a client each. *)
OneIp == [c \in Conns |-> a1]
OwnIp == [c \in Conns |-> IF c = c1 THEN a1 ELSE a2]

OneStripe == [a \in Ips |-> s1]
OwnStripe == [a \in Ips |-> IF a = a1 THEN s1 ELSE s2]

(* Connections of one client are alike; for safety only. *)
Alike == Permutations(Conns)
=============================================================================
