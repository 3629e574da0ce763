------------------------------ MODULE MCLogDump ------------------------------
EXTENDS LogDump, TLC

CONSTANTS l1, l2, l3, i1, i2, tick, stop

(* One line about the first instance, and two about the other. *)
OneAndTwo == [l \in Lines |-> IF l = l1 THEN i1 ELSE i2]

Lexical == [i \in Instances |-> IF i = i1 THEN 1 ELSE 2]
=============================================================================
