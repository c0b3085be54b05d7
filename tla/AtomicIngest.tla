---------------------------- MODULE AtomicIngest ----------------------------
(***************************************************************************)
(* What ingest promises, without transactions: a delivered batch is added  *)
(* to the stored spans at once, and the row of every trajectory it touches *)
(* summarises the spans then stored.                                       *)
(***************************************************************************)
EXTENDS Integers

CONSTANTS Spans, Trajs, Requests, TrajOf, Start, End, Name, Body, None, NoRow

VARIABLES rows, stored

Of(t, S) == {s \in S : TrajOf[s] = t}

Ends(S) == {End[s] : s \in S} \ {None}

(* The columns that are functions of the stored spans S. *)
Summarises(row, S) ==
  /\ row.started \in {Start[s] : s \in S}
  /\ \A s \in S : row.started <= Start[s]
  /\ IF Ends(S) = {} THEN row.ended = None
     ELSE row.ended \in Ends(S) /\ \A e \in Ends(S) : row.ended >= e
  /\ row.counted = S
  /\ row.duration = IF row.ended = None THEN None ELSE row.ended - row.started

(* The name is the first one delivered, for ever. *)
KeepsName(old, row, B) ==
  LET names == {Name[s] : s \in B} \ {None}
      known == IF old = NoRow THEN None ELSE old.name IN
  IF known # None THEN row.name = known
  ELSE IF names = {} THEN row.name = None ELSE row.name \in names

Init == rows = [t \in Trajs |-> NoRow] /\ stored = {}

Deliver(B) ==
  /\ stored' = stored \cup B
  /\ \A t \in Trajs :
       IF Of(t, B) = {} THEN rows'[t] = rows[t]
       ELSE Summarises(rows'[t], Of(t, stored')) /\ KeepsName(rows[t], rows'[t], Of(t, B))

Next == \E r \in Requests : Deliver(Body[r])

Spec == Init /\ [][Next]_<<rows, stored>>
=============================================================================
