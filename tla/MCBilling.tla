------------------------------ MODULE MCBilling ------------------------------
EXTENDS Billing, TLC

CONSTANTS f1, f2, i1, tick, stop

(* All calls are for one instance. *)
OneInstance == [c \in Calls |-> i1]
=============================================================================
