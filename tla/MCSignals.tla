----------------------------- MODULE MCSignals ------------------------------
(* Instances of Signals for TLC. *)
EXTENDS Signals, TLC

CONSTANTS d1, d2, e1, e2, f1, f2, n1, n2, n3

(* Two segments: the first is not final and marks with an unknown tag, the *)
(* second ends the run and marks it bad.                                   *)
MCMark == d1 :> [tag |-> "odd", note |-> n1, completed |-> None]
       @@ d2 :> [tag |-> "bad", note |-> None, completed |-> FALSE]

(* One edit clears the tag and writes a note, one is refused. *)
EditPatch == e1 :> [tag |-> Clear, note |-> n2] @@ e2 :> [tag |-> "odd", note |-> Clear]

(* A user of this agent rates, and one of another agent. *)
FeedbackThumb == f1 :> [thumb |-> "down", note |-> n3] @@ f2 :> [thumb |-> "up", note |-> None]

MCPatch == [e \in Edits |-> EditPatch[e]]
MCThumb == [f \in Feedbacks |-> FeedbackThumb[f]]
=============================================================================
