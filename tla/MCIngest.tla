------------------------------ MODULE MCIngest ------------------------------
(* Instances of Ingest for TLC. *)
EXTENDS Ingest, TLC

CONSTANTS a1, a2, a3, b1, b2, t1, t2, r1, r2, r3, r4, n1, n2

(* Of t1, span a2 starts before a1 and ends after it, so the order in      *)
(* which they arrive matters at both ends of the window; a3 never ended.   *)
MCTrajOf == a1 :> t1 @@ a2 :> t1 @@ a3 :> t1 @@ b1 :> t2 @@ b2 :> t2
MCStart == a1 :> 2 @@ a2 :> 1 @@ a3 :> 3 @@ b1 :> 1 @@ b2 :> 2
MCEnd == a1 :> 4 @@ a2 :> 6 @@ a3 :> None @@ b1 :> 3 @@ b2 :> 5
MCName == a1 :> n1 @@ a2 :> n2 @@ a3 :> None @@ b1 :> None @@ b2 :> n1

(* r1 and r2 write both trajectories, in either order; r3 retries r1. *)
RetriedBody == r1 :> {a1, b1} @@ r2 :> {a2, b2} @@ r3 :> {a1, b1} @@ r4 :> {a3}
(* Three batches of one run; r3 delivers a span of r1 again. *)
SerialBody == r1 :> {a1, b1} @@ r2 :> {a2, a3, b2} @@ r3 :> {a1, a3}
(* Three batches of one trajectory. *)
RaceBody == r1 :> {a1} @@ r2 :> {a2} @@ r3 :> {a3}
=============================================================================
