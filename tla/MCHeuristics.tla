---------------------------- MODULE MCHeuristics ----------------------------
(* Instances of Heuristics for TLC. *)
EXTENDS Heuristics, TLC

CONSTANTS x1, x2, x3, l1, l2, y1, t1, t2, r1, r2

(* Trajectory t1 makes the same call three times, the first one failing,   *)
(* and speaks twice: it apologises, then says little.  The third call is   *)
(* slow once y1, of t2, is part of the baseline.                           *)
MCTrajOf == x1 :> t1 @@ x2 :> t1 @@ x3 :> t1 @@ l1 :> t1 @@ l2 :> t1 @@ y1 :> t2
MCCall == x1 :> "search" @@ x2 :> "search" @@ x3 :> "search" @@ y1 :> "fetch"
MCStart == x1 :> 1 @@ x2 :> 2 @@ l1 :> 3 @@ x3 :> 4 @@ l2 :> 5 @@ y1 :> 1
MCSlow(s, B) == s = x3 /\ y1 \in B

(* The loop and the last word of t1 only show when both of its batches are *)
(* there; the second one also touches t2.                                  *)
MCBody == r1 :> {x1, x2, l1} @@ r2 :> {x3, l2, y1}
=============================================================================
