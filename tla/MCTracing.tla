------------------------------ MODULE MCTracing ------------------------------
EXTENDS Tracing

CONSTANTS X, Y

(* A named trajectory, and a segment of an unnamed one that is not the last. *)
MCCalls == {[id |-> X, name |-> "x", final |-> TRUE], [id |-> Y, name |-> None, final |-> FALSE]}

MCCallers == {[root |-> "r", origin |-> "o", inside |-> TRUE, name |-> "app"]}
==============================================================================
