----------------------------- MODULE MCMetrics ------------------------------
EXTENDS Metrics

CONSTANTS c1, x1, x2, onMessage

(* Both executions are of one type. *)
OneType == [x \in {x1, x2} |-> onMessage]
=============================================================================
