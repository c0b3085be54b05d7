---------------------------- MODULE IngestProofs ----------------------------
(***************************************************************************)
(* The safety of Ingest, for every set of spans, trajectories and requests *)
(* and every bound on the requests in flight.                              *)
(***************************************************************************)
EXTENDS Ingest, FiniteSetTheorems, TLAPS

(* Spans whose trajectory row r is sure to see. *)
Handled(r) == put[r] \cup (IF pc[r] \in {"read", "write", "span"} THEN {cur[r]} ELSE {})

(* A row made from the spans S that counts no span outside C. *)
Sound(row, S, C) == Attained(row, S) /\ row.counted \subseteq C

(* Where a request stands: what it has written, what it still has to do.   *)
SessionOK(r) ==
  /\ pc[r] \notin Statements => own[r] = NoRows /\ put[r] = {}
  /\ pc[r] \in {"insert", "read", "write", "span"} =>
       cur[r] \in Body[r] /\ Body[r] = put[r] \cup todo[r] \cup {cur[r]}
  /\ pc[r] \in {"count", "total", "flush", "commit"} =>
       put[r] = Body[r] /\ due[r] \subseteq TrajsOf(Body[r])
  /\ pc[r] \in {"total", "flush"} =>
       target[r] \in TrajsOf(Body[r]) /\ count[r] \subseteq SpansOf(target[r], VisibleSpans(r))
  /\ pc[r] \in {"write", "flush"} => seen[r] # NoRow
  /\ \A s \in Handled(r) : View(r, TrajOf[s]) # NoRow

Sessions == \A r \in Requests : SessionOK(r)

OwnSound ==
  \A r \in Requests : \A t \in Trajs : own[r][t] # NoRow =>
    Sound(own[r][t], SpansOf(t, stored \cup Handled(r)), SpansOf(t, VisibleSpans(r)))

RowsSound ==
  \A t \in Trajs :
    /\ rows[t] # NoRow => Sound(rows[t], SpansOf(t, stored), SpansOf(t, stored))
    /\ SpansOf(t, stored) # {} => rows[t] # NoRow

(* The inductive invariant: NeverOvercounts and WindowAttained are only    *)
(* inductive together with what the sessions still hold uncommitted.       *)
IInv == TypeOK /\ WritersExclude /\ Sessions /\ OwnSound /\ RowsSound /\ AckedIsStored

-----------------------------------------------------------------------------
(* Changing columns of a row gives a row. *)
LEMMA FreshRowType == ASSUME NEW s \in Spans PROVE FreshRow(s) \in Row
  BY DataAssumption DEF FreshRow, Row

LEMMA WidenType ==
  ASSUME NEW new \in Row, NEW old \in Row, NEW s \in Spans
  PROVE  Widen(new, old, s) \in Row
  BY DataAssumption DEF Widen, Extends, Row

LEMMA RetotalType ==
  ASSUME NEW new \in Row, NEW old \in Row, NEW S \in SUBSET Spans
  PROVE  Retotal(new, old, S) \in Row
<1>1. DurationOf(old) \in Int \cup {None}
  BY DEF DurationOf, Row
<1>2. QED BY <1>1 DEF Retotal, Row

LEMMA RowIsNotNoRow == \A row \in Row : row # NoRow
  BY NullAssumption

(* A row that existed keeps being attained, and counts the same spans,     *)
(* after it is widened by a span.                                          *)
LEMMA WidenSound ==
  ASSUME NEW new \in Row, NEW old \in Row, NEW s \in Spans,
         NEW S, NEW C, s \in S, Sound(new, S, C)
  PROVE  Sound(Widen(new, old, s), S, C)
  BY DEF Sound, Attained, Widen, Extends, Row

LEMMA RetotalSound ==
  ASSUME NEW new \in Row, NEW old \in Row, NEW S, NEW C, NEW T \in SUBSET Spans,
         T \subseteq C, Sound(new, S, C)
  PROVE  Sound(Retotal(new, old, T), S, C)
  BY DEF Sound, Attained, Retotal, Row

LEMMA SoundGrows ==
  ASSUME NEW row, NEW S1, NEW C1, NEW S2, NEW C2,
         S1 \subseteq S2, C1 \subseteq C2, Sound(row, S1, C1)
  PROVE  Sound(row, S2, C2)
  BY DEF Sound, Attained

-----------------------------------------------------------------------------
(* A step of r that leaves the committed state alone preserves the         *)
(* invariant as soon as r itself is left in order.                         *)
LEMMA LocalStep ==
  ASSUME IInv, NEW r \in Requests, TypeOK', UNCHANGED <<rows, stored>>,
         \A q \in Requests \ {r} :
           /\ pc'[q] = pc[q] /\ todo'[q] = todo[q] /\ cur'[q] = cur[q]
           /\ due'[q] = due[q] /\ target'[q] = target[q] /\ seen'[q] = seen[q]
           /\ count'[q] = count[q] /\ own'[q] = own[q] /\ put'[q] = put[q],
         pc'[r] # "ok",
         \A t \in Trajs : own'[r][t] # NoRow => own[r][t] # NoRow \/ Holders(r, t) = {},
         SessionOK(r)',
         \A t \in Trajs : own'[r][t] # NoRow =>
           Sound(own'[r][t], SpansOf(t, stored \cup Handled(r)'), SpansOf(t, VisibleSpans(r)'))
  PROVE  IInv'
<1>1. WritersExclude'
  BY DEF IInv, WritersExclude, Holders
<1>2. Sessions'
  <2> SUFFICES ASSUME NEW q \in Requests, q # r PROVE SessionOK(q)'
    BY DEF Sessions
  <2>1. SessionOK(q)
    BY DEF IInv, Sessions
  <2> QED
    BY <2>1 DEF SessionOK, Handled, View, VisibleSpans
<1>3. OwnSound'
  <2> SUFFICES ASSUME NEW q \in Requests, q # r, NEW t \in Trajs, own'[q][t] # NoRow
               PROVE  Sound(own'[q][t], SpansOf(t, stored' \cup Handled(q)'),
                            SpansOf(t, VisibleSpans(q)'))
    BY DEF OwnSound
  <2>1. Handled(q)' = Handled(q) /\ VisibleSpans(q)' = VisibleSpans(q)
    BY DEF Handled, VisibleSpans
  <2> QED
    BY <2>1 DEF IInv, OwnSound
<1>4. RowsSound'
  BY DEF IInv, RowsSound
<1>5. AckedIsStored'
  BY DEF IInv, AckedIsStored
<1> QED BY <1>1, <1>2, <1>3, <1>4, <1>5 DEF IInv

LEMMA ViewType ==
  ASSUME TypeOK, NEW r \in Requests, NEW t \in Trajs
  PROVE  View(r, t) \in Row \cup {NoRow}
  BY DEF TypeOK, View

(* What r wrote stays sound when r handles or sees more. *)
LEMMA OwnStaysSound ==
  ASSUME OwnSound, NEW r \in Requests, NEW t \in Trajs, own[r][t] # NoRow,
         NEW S, NEW C, stored \cup Handled(r) \subseteq S, VisibleSpans(r) \subseteq C
  PROVE  Sound(own[r][t], SpansOf(t, S), SpansOf(t, C))
<1>1. Sound(own[r][t], SpansOf(t, stored \cup Handled(r)), SpansOf(t, VisibleSpans(r)))
  BY DEF OwnSound
<1>2. /\ SpansOf(t, stored \cup Handled(r)) \subseteq SpansOf(t, S)
      /\ SpansOf(t, VisibleSpans(r)) \subseteq SpansOf(t, C)
  BY DEF SpansOf
<1> QED BY <1>1, <1>2, SoundGrows

(* And so does whatever r sees, its own or committed. *)
LEMMA ViewSound ==
  ASSUME IInv, NEW r \in Requests, NEW t \in Trajs, View(r, t) # NoRow
  PROVE  Sound(View(r, t), SpansOf(t, stored \cup Handled(r)), SpansOf(t, VisibleSpans(r)))
<1>1. CASE own[r][t] # NoRow
  BY <1>1 DEF IInv, OwnSound, View
<1>2. CASE own[r][t] = NoRow
  <2>1. Sound(rows[t], SpansOf(t, stored), SpansOf(t, stored))
    BY <1>2 DEF IInv, RowsSound, View
  <2>2. /\ SpansOf(t, stored) \subseteq SpansOf(t, stored \cup Handled(r))
        /\ SpansOf(t, stored) \subseteq SpansOf(t, VisibleSpans(r))
    BY DEF SpansOf, VisibleSpans
  <2> QED BY <1>2, <2>1, <2>2, SoundGrows DEF View
<1> QED BY <1>1, <1>2

LEMMA PostStep == ASSUME IInv, NEW r \in Requests, Post(r) PROVE IInv'
<1> USE DEF IInv
<1>1. PICK s \in Body[r] :
        cur' = [cur EXCEPT ![r] = s] /\ todo' = [todo EXCEPT ![r] = Body[r] \ {s}]
  BY DEF Post
<1>2. s \in Spans /\ Body[r] \subseteq Spans
  BY DataAssumption
<1>3. TypeOK'
  BY <1>1, <1>2 DEF Post, Goto, TypeOK, Statements
<1>4. own[r] = NoRows /\ put[r] = {}
  BY DEF Sessions, SessionOK, Post, Statements
<1>5. Handled(r)' = {}
  BY <1>4 DEF Handled, Post, Goto, TypeOK
<1>6. SessionOK(r)'
  BY <1>1, <1>2, <1>4, <1>5 DEF SessionOK, Post, Goto, TypeOK, Statements
<1> QED
  BY <1>1, <1>3, <1>4, <1>6, LocalStep DEF Post, Goto, TypeOK, NoRows

LEMMA InsertRowStep == ASSUME IInv, NEW r \in Requests, InsertRow(r) PROVE IInv'
<1> USE DEF IInv
<1>1. pc[r] = "insert" /\ SessionOK(r)
  BY DEF InsertRow, At, Sessions
<1>2. PICK s \in Body[r], t \in Trajs : s = cur[r] /\ t = TrajOf[s] /\ s \in Spans
  BY <1>1, DataAssumption DEF SessionOK
<1>3. FreshRow(s) \in Row /\ FreshRow(s) # NoRow
  BY <1>2, FreshRowType, NullAssumption
<1>4. TypeOK'
  BY <1>2, <1>3 DEF InsertRow, Goto, TypeOK, Statements
<1>5. pc'[r] = "read" /\ Handled(r)' = put[r] \cup {s} /\ Handled(r) = put[r]
  BY <1>1, <1>2 DEF InsertRow, Goto, TypeOK, Handled
<1>6. View(r, t) = NoRow => Holders(r, t) = {}
  BY <1>1, <1>2 DEF InsertRow, At, Blockers
<1>7. \A u \in Trajs : own'[r][u] = IF u = t /\ View(r, t) = NoRow
                                     THEN FreshRow(s) ELSE own[r][u]
  BY <1>2 DEF InsertRow, TypeOK
<1>8. \A u \in Trajs : View(r, u) # NoRow => View(r, u)' # NoRow
  BY <1>3, <1>7 DEF View, InsertRow
<1>9. View(r, t)' # NoRow
  BY <1>2, <1>3, <1>7, <1>8 DEF View, InsertRow
<1>10. SessionOK(r)'
  <2>1. \A x \in Handled(r)' : x \in Spans /\ View(r, TrajOf[x])' # NoRow
    BY <1>1, <1>2, <1>5, <1>8, <1>9, DataAssumption DEF SessionOK, TypeOK
  <2> QED
    BY <1>1, <1>2, <1>5, <2>1 DEF SessionOK, InsertRow, Statements
<1>11. \A u \in Trajs : own'[r][u] # NoRow =>
         Sound(own'[r][u], SpansOf(u, stored \cup Handled(r)'), SpansOf(u, VisibleSpans(r)'))
  <2> TAKE u \in Trajs
  <2>1. CASE u = t /\ View(r, t) = NoRow
    <3>1. own'[r][u] = FreshRow(s)
      BY <2>1, <1>7
    <3>2. s \in SpansOf(u, stored \cup Handled(r)')
      BY <2>1, <1>2, <1>5 DEF SpansOf
    <3> QED
      BY <3>1, <3>2 DEF Sound, Attained, FreshRow
  <2>2. CASE ~(u = t /\ View(r, t) = NoRow)
    <3>1. own'[r][u] = own[r][u] /\ VisibleSpans(r)' = VisibleSpans(r)
      BY <2>2, <1>7 DEF InsertRow, VisibleSpans
    <3>2. stored \cup Handled(r) \subseteq stored \cup Handled(r)'
      BY <1>5
    <3> QED
      BY <3>1, <3>2, OwnStaysSound
  <2> QED BY <2>1, <2>2
<1> QED
  BY <1>4, <1>5, <1>6, <1>7, <1>10, <1>11, LocalStep DEF InsertRow, Goto, TypeOK, IInv

LEMMA ReadRowStep == ASSUME IInv, NEW r \in Requests, ReadRow(r) PROVE IInv'
<1> USE DEF IInv
<1>1. pc[r] = "read" /\ SessionOK(r)
  BY DEF ReadRow, At, Sessions
<1>2. cur[r] \in Handled(r) /\ cur[r] \in Spans /\ TrajOf[cur[r]] \in Trajs
  BY <1>1, DataAssumption DEF SessionOK, Handled
<1>3. View(r, TrajOf[cur[r]]) \in Row \cup {NoRow} /\ View(r, TrajOf[cur[r]]) # NoRow
  BY <1>1, <1>2, ViewType DEF SessionOK
<1>4. TypeOK'
  BY <1>3 DEF ReadRow, Goto, TypeOK, Statements
<1>5. pc'[r] = "write" /\ Handled(r)' = Handled(r) /\ seen'[r] # NoRow
  BY <1>1, <1>3 DEF ReadRow, Goto, TypeOK, Handled
<1>6. SessionOK(r)'
  BY <1>1, <1>5 DEF SessionOK, ReadRow, View, VisibleSpans, Statements
<1>7. \A t \in Trajs : own'[r][t] # NoRow =>
        Sound(own'[r][t], SpansOf(t, stored \cup Handled(r)'), SpansOf(t, VisibleSpans(r)'))
  BY <1>5 DEF OwnSound, ReadRow, VisibleSpans
<1> QED
  BY <1>4, <1>5, <1>6, <1>7, LocalStep DEF ReadRow, Goto, TypeOK

LEMMA WriteRowStep == ASSUME IInv, NEW r \in Requests, WriteRow(r) PROVE IInv'
<1> USE DEF IInv
<1>1. pc[r] = "write" /\ SessionOK(r)
  BY DEF WriteRow, At, Sessions
<1>2. PICK s \in Spans, t \in Trajs : s = cur[r] /\ t = TrajOf[s] /\ s \in Handled(r)
  BY <1>1, DataAssumption DEF SessionOK, Handled
<1>3. View(r, t) \in Row /\ View(r, t) # NoRow /\ seen[r] \in Row
  BY <1>1, <1>2, ViewType DEF SessionOK, TypeOK
<1> DEFINE row == Widen(View(r, t), seen[r], s)
<1>4. row \in Row /\ row # NoRow
  BY <1>3, WidenType, NullAssumption
<1>5. Writes(r) => Holders(r, t) = {}
  BY <1>1, <1>2 DEF WriteRow, At, Blockers
<1>6. \A u \in Trajs : own'[r][u] = IF u = t /\ Writes(r) THEN row ELSE own[r][u]
  BY <1>2 DEF WriteRow, TypeOK
<1>7. TypeOK'
  BY <1>2, <1>4, NullAssumption DEF WriteRow, Goto, TypeOK, Statements
<1>8. pc'[r] = "span" /\ Handled(r)' = Handled(r) /\ VisibleSpans(r)' = VisibleSpans(r)
  BY <1>1 DEF WriteRow, Goto, TypeOK, Handled, VisibleSpans
<1>9. \A u \in Trajs : View(r, u) # NoRow => View(r, u)' # NoRow
  BY <1>4, <1>6 DEF View, WriteRow
<1>10. SessionOK(r)'
  <2>1. \A x \in Handled(r)' : View(r, TrajOf[x])' # NoRow
    BY <1>1, <1>2, <1>8, <1>9, DataAssumption DEF SessionOK, TypeOK, Handled
  <2> QED
    BY <1>1, <1>2, <1>8, <2>1 DEF SessionOK, WriteRow, Statements
<1>11. \A u \in Trajs : own'[r][u] # NoRow =>
         Sound(own'[r][u], SpansOf(u, stored \cup Handled(r)'), SpansOf(u, VisibleSpans(r)'))
  <2> TAKE u \in Trajs
  <2>1. CASE u = t /\ Writes(r)
    <3>1. Sound(View(r, t), SpansOf(t, stored \cup Handled(r)), SpansOf(t, VisibleSpans(r)))
      BY <1>3, ViewSound
    <3>2. s \in SpansOf(t, stored \cup Handled(r))
      BY <1>2 DEF SpansOf
    <3>3. Sound(row, SpansOf(t, stored \cup Handled(r)), SpansOf(t, VisibleSpans(r)))
      BY <1>3, <3>1, <3>2, WidenSound
    <3> QED
      BY <1>6, <1>8, <2>1, <3>3 DEF WriteRow
  <2>2. CASE ~(u = t /\ Writes(r))
    BY <1>6, <1>8, <2>2 DEF OwnSound, WriteRow
  <2> QED BY <2>1, <2>2
<1> QED
  BY <1>5, <1>6, <1>7, <1>8, <1>10, <1>11, LocalStep DEF WriteRow, Goto, TypeOK

LEMMA UpsertSpanStep == ASSUME IInv, NEW r \in Requests, UpsertSpan(r) PROVE IInv'
<1> USE DEF IInv
<1>1. pc[r] = "span" /\ SessionOK(r)
  BY DEF UpsertSpan, At, Sessions
<1>2. cur[r] \in Body[r] /\ cur[r] \in Spans /\ Body[r] \subseteq Spans
  BY <1>1, DataAssumption DEF SessionOK
<1>3. TypeOK'
  <2>1. CASE \E s \in todo[r] :
               /\ cur' = [cur EXCEPT ![r] = s]
               /\ todo' = [todo EXCEPT ![r] = @ \ {s}]
               /\ Goto(r, "insert")
               /\ UNCHANGED due
    BY <1>2, <2>1 DEF UpsertSpan, Goto, TypeOK, Statements
  <2>2. CASE /\ due' = [due EXCEPT ![r] = TrajsOf(Body[r])]
             /\ cur' = [cur EXCEPT ![r] = None]
             /\ Goto(r, "count")
             /\ UNCHANGED todo
    <3>1. TrajsOf(Body[r]) \subseteq Trajs
      BY <1>2, DataAssumption DEF TrajsOf
    <3> QED BY <1>2, <2>2, <3>1 DEF UpsertSpan, Goto, TypeOK, Statements
  <2> QED BY <2>1, <2>2 DEF UpsertSpan
<1>4. put'[r] = put[r] \cup {cur[r]} /\ pc'[r] \in {"insert", "count"}
  BY DEF UpsertSpan, Goto, TypeOK
<1>5. Handled(r)' = Handled(r) /\ VisibleSpans(r) \subseteq VisibleSpans(r)'
  BY <1>1, <1>4 DEF Handled, UpsertSpan, VisibleSpans
<1>6. SessionOK(r)'
  <2>1. \A s \in Handled(r)' : View(r, TrajOf[s])' # NoRow
    BY <1>1, <1>5 DEF SessionOK, View, UpsertSpan
  <2>2. CASE pc'[r] = "insert"
    BY <1>1, <1>2, <1>4, <2>1, <2>2 DEF SessionOK, UpsertSpan, Goto, TypeOK, Statements
  <2>3. CASE pc'[r] = "count"
    BY <1>1, <1>2, <1>4, <2>1, <2>3 DEF SessionOK, UpsertSpan, Goto, TypeOK, Statements
  <2> QED BY <1>4, <2>2, <2>3
<1>7. \A t \in Trajs : own'[r][t] # NoRow =>
        Sound(own'[r][t], SpansOf(t, stored \cup Handled(r)'), SpansOf(t, VisibleSpans(r)'))
  BY <1>5, OwnStaysSound DEF UpsertSpan
<1> QED
  BY <1>3, <1>4, <1>6, <1>7, LocalStep DEF UpsertSpan, Goto, TypeOK

LEMMA SelectSpansStep == ASSUME IInv, NEW r \in Requests, SelectSpans(r) PROVE IInv'
<1> USE DEF IInv
<1>1. pc[r] = "count" /\ SessionOK(r)
  BY DEF SelectSpans, At, Sessions
<1>2. PICK t \in due[r] :
        /\ target' = [target EXCEPT ![r] = t]
        /\ due' = [due EXCEPT ![r] = @ \ {t}]
        /\ count' = [count EXCEPT ![r] = SpansOf(t, VisibleSpans(r))]
  BY DEF SelectSpans
<1>3. t \in Trajs /\ t \in TrajsOf(Body[r])
  BY <1>1 DEF SessionOK, TypeOK
<1>4. TypeOK'
  BY <1>2, <1>3 DEF SelectSpans, Goto, TypeOK, Statements, SpansOf, VisibleSpans
<1>5. pc'[r] = "total" /\ Handled(r)' = Handled(r) /\ VisibleSpans(r)' = VisibleSpans(r)
  BY <1>1 DEF SelectSpans, Goto, TypeOK, Handled, VisibleSpans
<1>6. SessionOK(r)'
  BY <1>1, <1>2, <1>3, <1>5 DEF SessionOK, SelectSpans, TypeOK, View, Statements
<1>7. \A u \in Trajs : own'[r][u] # NoRow =>
        Sound(own'[r][u], SpansOf(u, stored \cup Handled(r)'), SpansOf(u, VisibleSpans(r)'))
  BY <1>5 DEF OwnSound, SelectSpans
<1> QED
  BY <1>2, <1>4, <1>5, <1>6, <1>7, LocalStep DEF SelectSpans, Goto, TypeOK

LEMMA ReadTotalsStep == ASSUME IInv, NEW r \in Requests, ReadTotals(r) PROVE IInv'
<1> USE DEF IInv
<1>1. pc[r] = "total" /\ SessionOK(r)
  BY DEF ReadTotals, At, Sessions
<1>2. PICK s \in put[r] : target[r] = TrajOf[s]
  BY <1>1 DEF SessionOK, TrajsOf
<1>3. View(r, target[r]) \in Row \cup {NoRow} /\ View(r, target[r]) # NoRow
  BY <1>1, <1>2, ViewType, DataAssumption DEF SessionOK, Handled, TypeOK
<1>4. TypeOK'
  BY <1>3 DEF ReadTotals, Goto, TypeOK, Statements
<1>5. pc'[r] = "flush" /\ seen'[r] # NoRow
      /\ Handled(r)' = Handled(r) /\ VisibleSpans(r)' = VisibleSpans(r)
  BY <1>1, <1>3 DEF ReadTotals, Goto, TypeOK, Handled, VisibleSpans
<1>6. SessionOK(r)'
  BY <1>1, <1>5 DEF SessionOK, ReadTotals, View, Statements
<1>7. \A t \in Trajs : own'[r][t] # NoRow =>
        Sound(own'[r][t], SpansOf(t, stored \cup Handled(r)'), SpansOf(t, VisibleSpans(r)'))
  BY <1>5 DEF OwnSound, ReadTotals
<1> QED
  BY <1>4, <1>5, <1>6, <1>7, LocalStep DEF ReadTotals, Goto, TypeOK

LEMMA FlushTotalsStep == ASSUME IInv, NEW r \in Requests, FlushTotals(r) PROVE IInv'
<1> USE DEF IInv
<1>1. pc[r] = "flush" /\ SessionOK(r)
  BY DEF FlushTotals, At, Sessions
<1>2. PICK t \in Trajs : t = target[r] /\ \E s \in put[r] : t = TrajOf[s]
  BY <1>1, DataAssumption DEF SessionOK, TrajsOf, TypeOK
<1>3. View(r, t) \in Row /\ View(r, t) # NoRow /\ seen[r] \in Row
  BY <1>1, <1>2, ViewType DEF SessionOK, Handled, TypeOK
<1> DEFINE row == Retotal(View(r, t), seen[r], count[r])
<1>4. row \in Row /\ row # NoRow
  BY <1>3, RetotalType, NullAssumption DEF TypeOK
<1>5. Writes(r) => Holders(r, t) = {}
  BY <1>1, <1>2 DEF FlushTotals, At, Blockers
<1>6. \A u \in Trajs : own'[r][u] = IF u = t /\ Writes(r) THEN row ELSE own[r][u]
  BY <1>2 DEF FlushTotals, TypeOK
<1>7. TypeOK'
  BY <1>2, <1>4 DEF FlushTotals, Goto, TypeOK, Statements
<1>8. pc'[r] \in {"count", "commit"} /\ Handled(r)' = Handled(r)
      /\ VisibleSpans(r)' = VisibleSpans(r)
  BY <1>1 DEF FlushTotals, Goto, TypeOK, Handled, VisibleSpans
<1>9. \A u \in Trajs : View(r, u) # NoRow => View(r, u)' # NoRow
  BY <1>4, <1>6 DEF View, FlushTotals
<1>10. SessionOK(r)'
  <2>1. \A x \in Handled(r)' : View(r, TrajOf[x])' # NoRow
    BY <1>1, <1>2, <1>8, <1>9, DataAssumption DEF SessionOK, TypeOK, Handled
  <2> QED
    BY <1>1, <1>2, <1>8, <2>1 DEF SessionOK, FlushTotals, Statements
<1>11. \A u \in Trajs : own'[r][u] # NoRow =>
         Sound(own'[r][u], SpansOf(u, stored \cup Handled(r)'), SpansOf(u, VisibleSpans(r)'))
  <2> TAKE u \in Trajs
  <2>1. CASE u = t /\ Writes(r)
    <3>1. Sound(View(r, t), SpansOf(t, stored \cup Handled(r)), SpansOf(t, VisibleSpans(r)))
      BY <1>3, ViewSound
    <3>2. count[r] \subseteq SpansOf(t, VisibleSpans(r)) /\ count[r] \in SUBSET Spans
      BY <1>1, <1>2 DEF SessionOK, TypeOK
    <3>3. Sound(row, SpansOf(t, stored \cup Handled(r)), SpansOf(t, VisibleSpans(r)))
      BY <1>3, <3>1, <3>2, RetotalSound
    <3> QED
      BY <1>6, <1>8, <2>1, <3>3 DEF FlushTotals
  <2>2. CASE ~(u = t /\ Writes(r))
    BY <1>6, <1>8, <2>2 DEF OwnSound, FlushTotals
  <2> QED BY <2>1, <2>2
<1> QED
  BY <1>5, <1>6, <1>7, <1>8, <1>10, <1>11, LocalStep DEF FlushTotals, Goto, TypeOK

(* A rollback, by Fail or by BreakDeadlock. *)
LEMMA RollbackStep ==
  ASSUME IInv, NEW r \in Requests, EndSession(r, "failed"), UNCHANGED <<rows, stored>>
  PROVE  IInv'
<1> USE DEF IInv
<1>1. TypeOK'
  BY DEF EndSession, Goto, TypeOK, Outcomes, NoRows
<1>2. pc'[r] = "failed" /\ own'[r] = NoRows /\ put'[r] = {}
  BY DEF EndSession, Goto, TypeOK
<1>3. SessionOK(r)'
  BY <1>2 DEF SessionOK, Handled, Statements
<1> QED
  BY <1>1, <1>2, <1>3, LocalStep DEF EndSession, Goto, TypeOK, NoRows

LEMMA CommitStep == ASSUME IInv, NEW r \in Requests, Commit(r) PROVE IInv'
<1> USE DEF IInv
<1>1. pc[r] = "commit" /\ SessionOK(r) /\ put[r] = Body[r]
  BY DEF Commit, At, Sessions, SessionOK
<1>2. rows' = [t \in Trajs |-> View(r, t)] /\ stored' = stored \cup put[r]
  BY DEF Commit, VisibleSpans
<1>3. /\ pc' = [pc EXCEPT ![r] = "ok"]
      /\ own' = [own EXCEPT ![r] = NoRows]
      /\ put' = [put EXCEPT ![r] = {}]
      /\ \A q \in Requests \ {r} :
           /\ todo'[q] = todo[q] /\ cur'[q] = cur[q] /\ due'[q] = due[q]
           /\ target'[q] = target[q] /\ seen'[q] = seen[q] /\ count'[q] = count[q]
  BY DEF Commit, EndSession, Goto, TypeOK
<1>4. TypeOK'
  <2>1. rows' \in [Trajs -> Row \cup {NoRow}] /\ stored' \subseteq Spans
    BY <1>2, ViewType DEF TypeOK
  <2> QED BY <2>1 DEF Commit, EndSession, Goto, TypeOK, Outcomes, NoRows
<1>5. WritersExclude'
  BY <1>3 DEF WritersExclude, TypeOK, NoRows
<1>6. Handled(r) = put[r] /\ \A q \in Requests \ {r} :
        Handled(q)' = Handled(q) /\ VisibleSpans(q) \subseteq VisibleSpans(q)'
  BY <1>1, <1>2, <1>3 DEF Handled, VisibleSpans, TypeOK
<1>7. \A t \in Trajs : rows[t] # NoRow => rows'[t] # NoRow
  BY <1>2 DEF View
<1>8. Sessions'
  <2> SUFFICES ASSUME NEW q \in Requests PROVE SessionOK(q)'
    BY DEF Sessions
  <2>1. CASE q = r
    BY <1>3, <2>1 DEF SessionOK, Handled, Statements, TypeOK
  <2>2. CASE q # r
    <3>1. SessionOK(q)
      BY DEF Sessions
    <3>2. pc'[q] = pc[q] /\ own'[q] = own[q] /\ put'[q] = put[q]
      BY <1>3, <2>2 DEF TypeOK
    <3>3. Handled(q) \subseteq Spans
      BY <3>1, DataAssumption DEF Handled, SessionOK, TypeOK
    <3>4. \A s \in Handled(q)' : View(q, TrajOf[s])' # NoRow
      BY <1>6, <1>7, <2>2, <3>1, <3>2, <3>3, DataAssumption DEF SessionOK, View
    <3>5. SpansOf(target[q], VisibleSpans(q)) \subseteq SpansOf(target[q], VisibleSpans(q)')
      BY <1>6, <2>2 DEF SpansOf
    <3> QED
      BY <1>3, <2>2, <3>1, <3>2, <3>4, <3>5 DEF SessionOK, SpansOf
  <2> QED BY <2>1, <2>2
<1>9. OwnSound'
  <2> SUFFICES ASSUME NEW q \in Requests, NEW t \in Trajs, own'[q][t] # NoRow
               PROVE  Sound(own'[q][t], SpansOf(t, stored' \cup Handled(q)'),
                            SpansOf(t, VisibleSpans(q)'))
    BY DEF OwnSound
  <2>1. q # r /\ own'[q] = own[q]
    BY <1>3 DEF TypeOK, NoRows
  <2> QED
    BY <1>2, <1>6, <2>1, OwnStaysSound
<1>10. RowsSound'
  <2> SUFFICES ASSUME NEW t \in Trajs
               PROVE  /\ rows'[t] # NoRow =>
                           Sound(rows'[t], SpansOf(t, stored'), SpansOf(t, stored'))
                      /\ SpansOf(t, stored') # {} => rows'[t] # NoRow
    BY DEF RowsSound
  <2>1. rows'[t] # NoRow => Sound(rows'[t], SpansOf(t, stored'), SpansOf(t, stored'))
    BY <1>2, <1>6, ViewSound DEF VisibleSpans
  <2>2. SpansOf(t, stored') # {} => rows'[t] # NoRow
    <3> SUFFICES ASSUME NEW s \in stored', TrajOf[s] = t PROVE rows'[t] # NoRow
      BY DEF SpansOf
    <3>1. CASE s \in stored
      BY <1>7, <3>1 DEF RowsSound, SpansOf
    <3>2. CASE s \in put[r]
      BY <1>1, <1>2, <1>6, <3>2 DEF SessionOK
    <3> QED BY <1>2, <3>1, <3>2
  <2> QED BY <2>1, <2>2
<1>11. AckedIsStored'
  BY <1>1, <1>2, <1>3 DEF AckedIsStored, TypeOK
<1> QED BY <1>4, <1>5, <1>8, <1>9, <1>10, <1>11

-----------------------------------------------------------------------------
LEMMA InitInv == Init => IInv
<1> SUFFICES ASSUME Init PROVE IInv
  OBVIOUS
<1>1. TypeOK
  BY DEF Init, TypeOK, NoRows
<1>2. WritersExclude /\ OwnSound /\ AckedIsStored
  BY DEF Init, WritersExclude, OwnSound, AckedIsStored, NoRows
<1>3. Sessions
  BY DEF Init, Sessions, SessionOK, Handled, Statements
<1>4. RowsSound
  BY DEF Init, RowsSound, SpansOf, NoRows
<1> QED BY <1>1, <1>2, <1>3, <1>4 DEF IInv

LEMMA StepInv == IInv /\ [Next]_vars => IInv'
<1> SUFFICES ASSUME IInv, [Next]_vars PROVE IInv'
  OBVIOUS
<1>1. ASSUME NEW r \in Requests, Post(r) \/ Step(r) \/ Fail(r) PROVE IInv'
  <2>1. CASE Post(r) BY <2>1, PostStep
  <2>2. CASE InsertRow(r) BY <2>2, InsertRowStep
  <2>3. CASE ReadRow(r) BY <2>3, ReadRowStep
  <2>4. CASE WriteRow(r) BY <2>4, WriteRowStep
  <2>5. CASE UpsertSpan(r) BY <2>5, UpsertSpanStep
  <2>6. CASE SelectSpans(r) BY <2>6, SelectSpansStep
  <2>7. CASE ReadTotals(r) BY <2>7, ReadTotalsStep
  <2>8. CASE FlushTotals(r) BY <2>8, FlushTotalsStep
  <2>9. CASE Commit(r) BY <2>9, CommitStep
  <2>10. CASE Fail(r) BY <2>10, RollbackStep DEF Fail
  <2> QED
    BY <1>1, <2>1, <2>2, <2>3, <2>4, <2>5, <2>6, <2>7, <2>8, <2>9, <2>10 DEF Step
<1>2. CASE BreakDeadlock
  <2>1. PICK r \in Requests : EndSession(r, "failed") /\ UNCHANGED <<rows, stored>>
    BY <1>2 DEF BreakDeadlock, Active
  <2> QED BY <2>1, RollbackStep
<1>3. CASE UNCHANGED vars
  <2>1. TypeOK' /\ WritersExclude' /\ AckedIsStored' /\ RowsSound'
    BY <1>3 DEF vars, sessionVars, IInv, TypeOK, WritersExclude, AckedIsStored, RowsSound
  <2>2. Sessions'
    BY <1>3 DEF vars, sessionVars, IInv, Sessions, SessionOK, Handled, View, VisibleSpans
  <2>3. OwnSound'
    BY <1>3 DEF vars, sessionVars, IInv, OwnSound, Handled, View, VisibleSpans
  <2> QED BY <2>1, <2>2, <2>3 DEF IInv
<1> QED BY <1>1, <1>2, <1>3 DEF Next, Done

(* The inductive invariant holds in every state of every execution. *)
THEOREM Invariance == Spec => []IInv
  BY InitInv, StepInv, PTL DEF Spec

(* Every variable keeps its type: no statement of ingest ever works on a   *)
(* trajectories row it did not find.                                       *)
THEOREM TypeCorrect == Spec => []TypeOK
<1>1. IInv => TypeOK BY DEF IInv
<1> QED BY <1>1, Invariance, PTL

(* Uncommitted versions of one trajectories row belong to one transaction. *)
THEOREM WritersExcludeEachOther == Spec => []WritersExclude
<1>1. IInv => WritersExclude BY DEF IInv
<1> QED BY <1>1, Invariance, PTL

(* The totals of a committed trajectory count none but its stored spans,   *)
(* however the requests that wrote them overlapped or failed.              *)
THEOREM TotalsNeverOvercount == Spec => []NeverOvercounts
<1>1. IInv => NeverOvercounts
  BY DEF IInv, RowsSound, NeverOvercounts, Sound
<1> QED BY <1>1, Invariance, PTL

(* Its window and its name are those of spans stored under it.             *)
THEOREM WindowIsAttained == Spec => []WindowAttained
<1>1. IInv => WindowAttained
  BY DEF IInv, RowsSound, WindowAttained, Sound
<1> QED BY <1>1, Invariance, PTL

(* Spans and trajectories only exist together.                             *)
THEOREM NoOrphanRows == Spec => []NoOrphans
<1>1. IInv => NoOrphans
  BY DEF IInv, RowsSound, NoOrphans, Sound, Attained
<1> QED BY <1>1, Invariance, PTL

(* What was answered 200 is stored from then on.                           *)
THEOREM AckedSpansAreStored == Spec => []AckedIsStored
<1>1. IInv => AckedIsStored BY DEF IInv
<1> QED BY <1>1, Invariance, PTL

(* Spans appear by whole batches, and never disappear.                     *)
THEOREM BatchesAreAtomic == Spec => AllOrNothing
<1>1. ASSUME IInv, [Next]_vars, stored' # stored
      PROVE  \E r \in Requests :
               pc[r] = "commit" /\ pc'[r] = "ok" /\ stored' = stored \cup Body[r]
  <2>1. PICK r \in Requests : Commit(r)
    BY <1>1 DEF Next, Step, Post, InsertRow, ReadRow, WriteRow, UpsertSpan, SelectSpans,
                ReadTotals, FlushTotals, Fail, BreakDeadlock, Done, vars, sessionVars
  <2>2. put[r] = Body[r] /\ pc[r] = "commit" /\ pc'[r] = "ok"
    BY <1>1, <2>1 DEF IInv, Sessions, SessionOK, Commit, At, EndSession, Goto, TypeOK
  <2> QED BY <2>1, <2>2 DEF Commit, VisibleSpans
<1>2. IInv /\ [Next]_vars => [stored' # stored =>
        \E r \in Requests :
          pc[r] = "commit" /\ pc'[r] = "ok" /\ stored' = stored \cup Body[r]]_vars
  BY <1>1
<1> QED BY <1>2, Invariance, PTL DEF Spec, AllOrNothing

-----------------------------------------------------------------------------
(* Why a recompute heals: as long as no other request is in flight, what r *)
(* selected is still what it sees when it flushes and when it commits.     *)

Pending(r) == due[r] \cup (IF pc[r] \in {"total", "flush"} THEN {target[r]} ELSE {})

Alone(r) == \A q \in Requests \ {r} : pc[q] \notin Statements

SoloOK(r) ==
  /\ Alone(r)
  /\ pc[r] \in {"count", "total", "flush", "commit"} =>
       \A t \in TrajsOf(Body[r]) \ Pending(r) :
         View(r, t).counted = SpansOf(t, VisibleSpans(r))
  /\ pc[r] \in {"total", "flush"} => count[r] = SpansOf(target[r], VisibleSpans(r))
  /\ pc[r] = "flush" => seen[r] = View(r, target[r])
  /\ pc[r] = "commit" => due[r] = {}

SoloInv ==
  \A r \in solo : pc[r] # "idle" /\ (pc[r] \in Statements => SoloOK(r))

LEMMA RetotalCounts ==
  ASSUME NEW row \in Row, NEW S \in SUBSET Spans
  PROVE  Retotal(row, row, S).counted = S
  BY DEF Retotal, Row

(* While r is alone, its flush leaves in the row it recomputed exactly     *)
(* what it selected.                                                       *)
LEMMA FlushedView ==
  ASSUME IInv, NEW r \in Requests, SoloOK(r), FlushTotals(r)
  PROVE  \E t \in Trajs :
           /\ t = target[r] /\ t \in TrajsOf(Body[r])
           /\ View(r, t) \in Row /\ count[r] = SpansOf(t, VisibleSpans(r))
           /\ View(r, t)' = Retotal(View(r, t), View(r, t), count[r])
           /\ \A u \in Trajs : u # t => View(r, u)' = View(r, u)
<1> USE DEF IInv
<1>1. pc[r] = "flush" /\ SessionOK(r)
  BY DEF FlushTotals, At, Sessions
<1>2. PICK t \in Trajs : t = target[r] /\ t \in TrajsOf(Body[r])
  BY <1>1, DataAssumption DEF SessionOK, TrajsOf, TypeOK
<1>3. seen[r] = View(r, t) /\ seen[r] \in Row /\ count[r] = SpansOf(t, VisibleSpans(r))
  BY <1>1, <1>2 DEF SoloOK, SessionOK, TypeOK
<1>4. View(r, t)' = Retotal(View(r, t), View(r, t), count[r])
  <2>1. CASE Writes(r)
    <3>1. own'[r][t] = Retotal(View(r, t), View(r, t), count[r])
      BY <1>2, <1>3, <2>1 DEF FlushTotals, TypeOK
    <3>2. own'[r][t] \in Row
      BY <1>3, <3>1, RetotalType DEF TypeOK
    <3> QED BY <3>1, <3>2, NullAssumption DEF View
  <2>2. CASE ~Writes(r)
    <3>1. Retotal(seen[r], seen[r], count[r]) = seen[r]
      BY <1>1, <2>2 DEF Writes
    <3> QED BY <1>3, <2>2, <3>1 DEF FlushTotals, View
  <2> QED BY <2>1, <2>2
<1>5. \A u \in Trajs : u # t => View(r, u)' = View(r, u)
  BY <1>2 DEF FlushTotals, View, TypeOK
<1> QED BY <1>2, <1>3, <1>4, <1>5

(* r's own statements, while it is alone. *)
LEMMA SoloStep ==
  ASSUME IInv, NEW r \in solo, r \in Requests, pc[r] \in Statements, SoloOK(r), Step(r)
  PROVE  pc'[r] # "idle" /\ (pc'[r] \in Statements => SoloOK(r)')
<1> USE DEF IInv
<1>1. CASE Commit(r)
  BY <1>1 DEF Commit, EndSession, Goto, TypeOK, Statements
<1>2. CASE InsertRow(r) \/ ReadRow(r) \/ WriteRow(r)
  <2>1. pc' = [pc EXCEPT ![r] = pc'[r]] /\ pc'[r] \in {"read", "write", "span"}
    BY <1>2 DEF InsertRow, ReadRow, WriteRow, Goto, TypeOK
  <2> QED BY <2>1 DEF SoloOK, Alone, TypeOK
<1>3. CASE UpsertSpan(r)
  <2>1. CASE pc'[r] = "insert"
    BY <1>3, <2>1 DEF UpsertSpan, Goto, SoloOK, Alone, TypeOK
  <2>2. CASE pc'[r] # "insert"
    <3>1. pc' = [pc EXCEPT ![r] = "count"] /\ due'[r] = TrajsOf(Body[r])
      BY <1>3, <2>2 DEF UpsertSpan, Goto, TypeOK
    <3> QED BY <3>1 DEF SoloOK, Alone, TypeOK, Pending
  <2> QED BY <2>1, <2>2
<1>4. CASE SelectSpans(r)
  <2>1. pc[r] = "count" /\ pc' = [pc EXCEPT ![r] = "total"]
    BY <1>4 DEF SelectSpans, At, Goto
  <2>2. PICK t \in due[r] :
          /\ target' = [target EXCEPT ![r] = t]
          /\ due' = [due EXCEPT ![r] = @ \ {t}]
          /\ count' = [count EXCEPT ![r] = SpansOf(t, VisibleSpans(r))]
    BY <1>4 DEF SelectSpans
  <2>3. Pending(r)' = Pending(r)
    BY <2>1, <2>2 DEF Pending, TypeOK
  <2> QED
    BY <1>4, <2>1, <2>2, <2>3 DEF SelectSpans, SoloOK, Alone, TypeOK, View, VisibleSpans
<1>5. CASE ReadTotals(r)
  <2>1. pc[r] = "total" /\ pc' = [pc EXCEPT ![r] = "flush"]
    BY <1>5 DEF ReadTotals, At, Goto
  <2>2. Pending(r)' = Pending(r) /\ seen'[r] = View(r, target[r])
    BY <1>5, <2>1 DEF Pending, ReadTotals, TypeOK
  <2> QED
    BY <1>5, <2>1, <2>2 DEF ReadTotals, SoloOK, Alone, TypeOK, View, VisibleSpans
<1>6. CASE FlushTotals(r)
  <2>1. /\ pc[r] = "flush" /\ SessionOK(r)
        /\ pc' = [pc EXCEPT ![r] = IF due[r] = {} THEN "commit" ELSE "count"]
        /\ due' = due
    BY <1>6 DEF FlushTotals, At, Goto, Sessions
  <2>2. PICK t \in Trajs :
          /\ t = target[r] /\ t \in TrajsOf(Body[r])
          /\ View(r, t) \in Row /\ count[r] = SpansOf(t, VisibleSpans(r))
          /\ View(r, t)' = Retotal(View(r, t), View(r, t), count[r])
          /\ \A u \in Trajs : u # t => View(r, u)' = View(r, u)
    BY <1>6, FlushedView
  <2>4. Retotal(View(r, t), View(r, t), count[r]).counted = count[r]
    BY <2>2, RetotalCounts DEF TypeOK
  <2>6. VisibleSpans(r)' = VisibleSpans(r) /\ Pending(r)' = due[r]
    BY <1>6, <2>1 DEF FlushTotals, VisibleSpans, Pending, TypeOK
  <2>8. ASSUME NEW u \in TrajsOf(Body[r]), u \notin Pending(r)'
        PROVE  View(r, u)'.counted = SpansOf(u, VisibleSpans(r)')
    <3>1. CASE u = t
      BY <2>2, <2>4, <2>6, <3>1
    <3>2. CASE u # t
      <4>1. u \in Trajs
        BY DataAssumption DEF TrajsOf
      <4>2. u \notin Pending(r)
        BY <2>1, <2>2, <2>6, <2>8, <3>2 DEF Pending
      <4> QED BY <2>1, <2>2, <2>6, <3>2, <4>1, <4>2 DEF SoloOK
    <3> QED BY <3>1, <3>2
  <2> QED
    BY <2>1, <2>8 DEF SoloOK, Alone, TypeOK
<1> QED BY <1>1, <1>2, <1>3, <1>4, <1>5, <1>6 DEF Step

LEMMA SoloInvStep == IInv /\ SoloInv /\ solo \subseteq Requests /\ [Next]_vars => SoloInv'
<1> SUFFICES ASSUME IInv, SoloInv, [Next]_vars PROVE SoloInv'
  OBVIOUS
<1> USE DEF IInv
<1> SUFFICES ASSUME NEW r \in solo', r \in Requests
             PROVE  pc'[r] # "idle" /\ (pc'[r] \in Statements => SoloOK(r)')
  <2>1. solo' \subseteq Requests
    BY StepInv DEF TypeOK
  <2> QED BY <2>1 DEF SoloInv
<1>1. ASSUME NEW p \in Requests, Post(p)
      PROVE  pc'[r] # "idle" /\ (pc'[r] \in Statements => SoloOK(r)')
  <2>1. pc[p] = "idle" /\ pc' = [pc EXCEPT ![p] = "insert"]
        /\ solo' = IF Active = {} THEN solo \cup {p} ELSE solo \ Active
    BY <1>1 DEF Post, Goto
  <2>2. CASE r = p
    <3>1. Active = {}
      BY <2>1, <2>2 DEF SoloInv
    <3> QED BY <2>1, <2>2, <3>1 DEF SoloOK, Alone, Active, TypeOK, Statements
  <2>3. CASE r # p
    <3>1. r \in solo /\ pc[r] \notin Statements
      BY <2>1, <2>3 DEF Active
    <3> QED BY <2>1, <2>3, <3>1 DEF SoloInv, TypeOK
  <2> QED BY <2>2, <2>3
<1>2. ASSUME NEW p \in Requests, Step(p) \/ EndSession(p, "failed"), pc[p] \in Statements
      PROVE  pc'[r] # "idle" /\ (pc'[r] \in Statements => SoloOK(r)')
  <2>1. solo' = solo /\ \A q \in Requests \ {p} : pc'[q] = pc[q]
    BY <1>2 DEF Step, InsertRow, ReadRow, WriteRow, UpsertSpan, SelectSpans, ReadTotals,
                FlushTotals, Commit, EndSession, Goto, TypeOK
  <2>2. CASE r = p /\ Step(p)
    BY <1>2, <2>1, <2>2, SoloStep DEF SoloInv
  <2>3. CASE r = p /\ EndSession(p, "failed")
    BY <2>3 DEF EndSession, Goto, TypeOK, Statements
  <2>4. CASE r # p
    BY <1>2, <2>1, <2>4 DEF SoloInv, SoloOK, Alone
  <2> QED BY <1>2, <2>2, <2>3, <2>4
<1>3. CASE \E p \in Requests : Step(p)
  <2>1. PICK p \in Requests : Step(p)
    BY <1>3
  <2>2. pc[p] \in Statements
    BY <2>1 DEF Step, InsertRow, ReadRow, WriteRow, UpsertSpan, SelectSpans, ReadTotals,
                FlushTotals, Commit, At, Statements
  <2> QED BY <1>2, <2>1, <2>2
<1>4. CASE \E p \in Requests : Fail(p)
  BY <1>2, <1>4 DEF Fail
<1>5. CASE BreakDeadlock
  BY <1>2, <1>5 DEF BreakDeadlock, Active
<1>6. CASE UNCHANGED vars
  BY <1>6 DEF vars, sessionVars, SoloInv, SoloOK, Alone, Pending, View, VisibleSpans
<1> QED BY <1>1, <1>3, <1>4, <1>5, <1>6 DEF Next, Done

LEMMA SoloInvariance == Spec => []SoloInv
<1>1. Init => SoloInv
  BY DEF Init, SoloInv
<1>2. IInv => solo \subseteq Requests
  BY DEF IInv, TypeOK
<1> QED BY <1>1, <1>2, SoloInvStep, Invariance, PTL DEF Spec

(* Whatever stale totals overlapping requests left behind, the next        *)
(* request that nothing overlaps leaves exact ones on all it touches.      *)
THEOREM SoloCommitsHeal == Spec => SoloCommitHeals
<1>1. ASSUME IInv, SoloInv, [Next]_vars, NEW r \in Requests PROVE Heals(r)
  <2> SUFFICES ASSUME pc[r] = "commit", pc'[r] = "ok", r \in solo,
                      NEW t \in TrajsOf(Body[r])
               PROVE  rows'[t].counted = SpansOf(t, stored')
    BY DEF Heals
  <2>1. Commit(r)
    BY <1>1 DEF Next, Step, Post, InsertRow, ReadRow, WriteRow, UpsertSpan, SelectSpans,
                ReadTotals, FlushTotals, Fail, BreakDeadlock, Done, vars, sessionVars,
                At, EndSession, Goto, IInv, TypeOK, Commit
  <2>2. View(r, t).counted = SpansOf(t, VisibleSpans(r)) /\ t \in Trajs
    BY <1>1, DataAssumption DEF SoloInv, SoloOK, Pending, Statements, TrajsOf
  <2> QED BY <2>1, <2>2 DEF Commit
<1>2. IInv /\ SoloInv /\ [Next]_vars => [\A r \in Requests : Heals(r)]_vars
  BY <1>1
<1> QED
  BY <1>2, SoloInvariance, Invariance, PTL DEF Spec, SoloCommitHeals

-----------------------------------------------------------------------------
(* With one request at a time, what r sees is what it will commit: the     *)
(* rows are those of an atomic delivery of the spans it has handled.       *)

(* Spans the window of whose trajectory r has widened. *)
Widened(r) == put[r] \cup (IF pc[r] = "span" THEN {cur[r]} ELSE {})

(* A row that summarises the spans S; its duration may be due. *)
Covers(row, S) == Hull(row, S) /\ (row.ended = None => row.duration = None)

(* Its name is the committed one or, if there was none, one of the spans H *)
(* as soon as one of the spans W has one.                                  *)
Named(old, row, W, H) ==
  IF old # NoRow /\ old.name # None THEN row.name = old.name
  ELSE /\ row.name = None => \A s \in W : Name[s] = None
       /\ row.name # None => \E s \in H : row.name = Name[s]

SerialOK(r) ==
  /\ \A t \in Trajs : View(r, t) # NoRow =>
       /\ Covers(View(r, t), SpansOf(t, stored \cup Widened(r)))
       /\ Named(rows[t], View(r, t), SpansOf(t, Widened(r)), SpansOf(t, Handled(r)))
  /\ \A t \in Trajs : own[r][t] # NoRow => t \in TrajsOf(Body[r])
  /\ pc[r] = "write" => seen[r] = View(r, TrajOf[cur[r]])
  /\ pc[r] \in {"count", "total", "flush", "commit"} =>
       \A t \in TrajsOf(Body[r]) \ Pending(r) : View(r, t).duration = DurationOf(View(r, t))

RowsCover == \A t \in Trajs : rows[t] # NoRow => Covers(rows[t], SpansOf(t, stored))

SerialInv ==
  /\ \A q, r \in Active : q = r
  /\ Active \subseteq solo
  /\ RowsCover
  /\ TotalsInSync
  /\ \A r \in Active : SerialOK(r)

LEMMA WidenCovers ==
  ASSUME NEW row \in Row, NEW s \in Spans, NEW S \in SUBSET Spans, Covers(row, S)
  PROVE  Covers(Widen(row, row, s), S \cup {s})
<1> USE DataAssumption, NullAssumption
<1>1. Widen(row, row, s).started \in Int /\ Widen(row, row, s).started <= row.started
      /\ Widen(row, row, s).started <= Start[s]
  BY DEF Widen, Row
<1>2. \A x \in S : Widen(row, row, s).started <= Start[x]
  <2> TAKE x \in S
  <2>1. row.started <= Start[x] /\ Start[x] \in Int /\ row.started \in Int
    BY DEF Covers, Hull, Row
  <2> QED BY <1>1, <2>1
<1>3. Widen(row, row, s).ended = IF Extends(s, row) THEN End[s] ELSE row.ended
  BY DEF Widen, Row
<1>4. End[s] # None => Widen(row, row, s).ended # None /\ Widen(row, row, s).ended >= End[s]
  BY <1>3 DEF Extends, Row
<1>5. \A x \in S : End[x] # None =>
        Widen(row, row, s).ended # None /\ Widen(row, row, s).ended >= End[x]
  <2> TAKE x \in S
  <2> SUFFICES ASSUME End[x] # None
               PROVE  Widen(row, row, s).ended # None /\ Widen(row, row, s).ended >= End[x]
    OBVIOUS
  <2>1. row.ended # None /\ row.ended >= End[x] /\ row.ended \in Int /\ End[x] \in Int
    BY DEF Covers, Hull, Row
  <2>2. End[s] \in Int \cup {None}
    OBVIOUS
  <2> QED BY <1>3, <2>1, <2>2 DEF Extends
<1>6. Widen(row, row, s).ended = None => Widen(row, row, s).duration = None
  <2>1. Widen(row, row, s).duration = row.duration
    BY DEF Widen, Row
  <2> QED BY <1>3, <2>1 DEF Extends, Covers
<1> QED BY <1>1, <1>2, <1>4, <1>5, <1>6 DEF Covers, Hull

LEMMA WidenNamed ==
  ASSUME NEW row \in Row, NEW s \in Spans, NEW old, NEW W, NEW H, s \in H, Named(old, row, W, H)
  PROVE  Named(old, Widen(row, row, s), W \cup {s}, H)
<1>1. Widen(row, row, s).name =
        IF Name[s] # None /\ row.name = None THEN Name[s] ELSE row.name
  BY DEF Widen, Row
<1> QED BY <1>1 DEF Named

(* New totals touch neither the window nor the name. *)
LEMMA RetotalCovers ==
  ASSUME NEW row \in Row, NEW C \in SUBSET Spans
  PROVE  /\ Retotal(row, row, C).started = row.started
         /\ Retotal(row, row, C).ended = row.ended
         /\ Retotal(row, row, C).name = row.name
         /\ Retotal(row, row, C).duration = DurationOf(row)
  BY DEF Retotal, Row

(* A step of the only request in flight keeps the invariant as soon as it  *)
(* leaves that request in order.                                           *)
LEMMA SerialLocal ==
  ASSUME SerialInv, TypeOK, NEW r \in Active, UNCHANGED <<rows, stored, solo>>,
         \A q \in Requests \ {r} : pc'[q] = pc[q],
         pc'[r] \in Statements => SerialOK(r)'
  PROVE  SerialInv'
<1>1. Active' \subseteq {r} /\ r \in Requests
  BY DEF SerialInv, Active
<1>2. \A q \in Active' : q = r /\ pc'[r] \in Statements
  BY <1>1 DEF Active
<1>3. RowsCover' /\ TotalsInSync'
  BY DEF SerialInv, RowsCover, TotalsInSync
<1>4. Active' \subseteq solo'
  BY <1>1 DEF SerialInv
<1>5. \A q \in Active' : SerialOK(q)'
  BY <1>2
<1>6. \A p, q \in Active' : p = q
  BY <1>1
<1> QED BY <1>3, <1>4, <1>5, <1>6 DEF SerialInv

LEMMA SerialPost ==
  ASSUME MaxConcurrent = 1, IInv, SerialInv, NEW r \in Requests, Post(r)
  PROVE  SerialInv'
<1> USE DEF IInv
<1>1. Active = {}
  <2> SUFFICES ASSUME NEW q \in Active PROVE FALSE
    OBVIOUS
  <2>1. Active = {q}
    BY DEF SerialInv
  <2>2. Cardinality(Active) = 1
    BY <2>1, FS_Singleton
  <2> QED BY <2>2 DEF Post
<1>2. pc' = [pc EXCEPT ![r] = "insert"] /\ solo' = solo \cup {r}
      /\ UNCHANGED <<rows, stored, own, put, due, target>>
  BY <1>1 DEF Post, Goto
<1>3. Active' = {r}
  BY <1>1, <1>2 DEF Active, TypeOK, Statements
<1>4. own[r] = NoRows /\ put[r] = {}
  BY DEF Sessions, SessionOK, Post, Statements
<1>5. pc'[r] = "insert"
  BY <1>2 DEF TypeOK
<1>6. Widened(r)' = {} /\ Handled(r)' = {}
  BY <1>2, <1>4, <1>5 DEF Widened, Handled
<1>7. \A t \in Trajs : own'[r][t] = NoRow /\ View(r, t)' = rows[t]
  BY <1>2, <1>4 DEF View, NoRows
<1>8. SerialOK(r)'
  <2>1. ASSUME NEW t \in Trajs, rows[t] # NoRow
        PROVE  /\ Covers(rows[t], SpansOf(t, stored \cup {}))
               /\ Named(rows[t], rows[t], SpansOf(t, {}), SpansOf(t, {}))
    <3>1. stored \cup {} = stored /\ SpansOf(t, {}) = {}
      BY DEF SpansOf
    <3> QED BY <2>1, <3>1 DEF SerialInv, RowsCover, Named
  <2>2. \A t \in Trajs : View(r, t)' # NoRow =>
          /\ Covers(View(r, t)', SpansOf(t, stored' \cup Widened(r)'))
          /\ Named(rows'[t], View(r, t)', SpansOf(t, Widened(r)'), SpansOf(t, Handled(r)'))
    BY <1>2, <1>6, <1>7, <2>1
  <2> QED BY <1>5, <1>7, <2>2 DEF SerialOK
<1>9. RowsCover' /\ TotalsInSync'
  BY <1>2 DEF SerialInv, RowsCover, TotalsInSync
<1>10. Active' \subseteq solo' /\ (\A p, q \in Active' : p = q) /\ \A q \in Active' : SerialOK(q)'
  BY <1>2, <1>3, <1>8
<1> QED BY <1>9, <1>10 DEF SerialInv

LEMMA SerialInsertRow ==
  ASSUME IInv, SerialInv, NEW r \in Active, InsertRow(r)
  PROVE  SerialOK(r)'
<1> USE DEF IInv
<1>1. r \in Requests /\ pc[r] = "insert" /\ SessionOK(r) /\ SerialOK(r)
  BY DEF InsertRow, At, Sessions, SerialInv, Active
<1>2. PICK s \in Body[r], t \in Trajs : s = cur[r] /\ t = TrajOf[s] /\ s \in Spans
  BY <1>1, DataAssumption DEF SessionOK
<1>3. FreshRow(s) \in Row /\ FreshRow(s) # NoRow
  BY <1>2, FreshRowType, NullAssumption
<1>4. \A u \in Trajs : own'[r][u] = IF u = t /\ View(r, t) = NoRow
                                     THEN FreshRow(s) ELSE own[r][u]
  BY <1>1, <1>2 DEF InsertRow, TypeOK
<1>5. pc'[r] = "read" /\ Widened(r)' = put[r] /\ Widened(r) = put[r]
      /\ Handled(r)' = put[r] \cup {s} /\ Handled(r) = put[r]
  BY <1>1, <1>2 DEF InsertRow, Goto, TypeOK, Handled, Widened
<1>6. ASSUME NEW u \in Trajs, View(r, u)' # NoRow
      PROVE  /\ Covers(View(r, u)', SpansOf(u, stored \cup put[r]))
             /\ Named(rows[u], View(r, u)', SpansOf(u, put[r]), SpansOf(u, put[r] \cup {s}))
  <2>1. CASE u = t /\ View(r, t) = NoRow
    <3>1. View(r, u)' = FreshRow(s) /\ rows[u] = NoRow
      BY <1>3, <1>4, <2>1 DEF View, InsertRow
    <3>2. SpansOf(u, stored \cup put[r]) = {} /\ SpansOf(u, put[r]) = {}
      BY <1>1, <1>5, <2>1, <3>1 DEF SpansOf, SessionOK, RowsSound
    <3>3. s \in SpansOf(u, put[r] \cup {s})
      BY <1>2, <2>1 DEF SpansOf
    <3>4. FreshRow(s).name = Name[s] /\ FreshRow(s).duration = None
      BY DEF FreshRow
    <3> QED BY <3>1, <3>2, <3>3, <3>4 DEF Covers, Hull, Named
  <2>2. CASE ~(u = t /\ View(r, t) = NoRow)
    <3>1. View(r, u)' = View(r, u)
      BY <1>4, <2>2 DEF View, InsertRow
    <3>2. SpansOf(u, put[r]) \subseteq SpansOf(u, put[r] \cup {s})
      BY DEF SpansOf
    <3>3. /\ Covers(View(r, u), SpansOf(u, stored \cup put[r]))
          /\ Named(rows[u], View(r, u), SpansOf(u, put[r]), SpansOf(u, put[r]))
      BY <1>1, <1>5, <1>6, <3>1 DEF SerialOK
    <3>4. Named(rows[u], View(r, u), SpansOf(u, put[r]), SpansOf(u, put[r] \cup {s}))
      BY <3>2, <3>3 DEF Named
    <3> QED BY <3>1, <3>3, <3>4
  <2> QED BY <2>1, <2>2
<1>7. \A u \in Trajs : own'[r][u] # NoRow => u \in TrajsOf(Body[r])
  BY <1>1, <1>2, <1>4 DEF SerialOK, TrajsOf
<1>8. rows' = rows /\ stored' = stored
  BY DEF InsertRow
<1> QED BY <1>5, <1>6, <1>7, <1>8 DEF SerialOK

LEMMA SerialReadRow ==
  ASSUME IInv, SerialInv, NEW r \in Active, ReadRow(r)
  PROVE  SerialOK(r)'
<1> USE DEF IInv
<1>1. r \in Requests /\ pc[r] = "read" /\ SerialOK(r)
  BY DEF ReadRow, At, SerialInv, Active
<1>2. pc'[r] = "write" /\ seen'[r] = View(r, TrajOf[cur[r]])
      /\ UNCHANGED <<rows, stored, own, put, cur>>
  BY <1>1 DEF ReadRow, Goto, TypeOK
<1>3. Widened(r)' = Widened(r) /\ Handled(r)' = Handled(r)
  BY <1>1, <1>2 DEF Widened, Handled
<1>4. \A t : View(r, t)' = View(r, t)
  BY <1>2 DEF View
<1> QED BY <1>1, <1>2, <1>3, <1>4 DEF SerialOK

LEMMA SerialWriteRow ==
  ASSUME IInv, SerialInv, NEW r \in Active, WriteRow(r)
  PROVE  SerialOK(r)'
<1> USE DEF IInv
<1>1. r \in Requests /\ pc[r] = "write" /\ SessionOK(r) /\ SerialOK(r)
  BY DEF WriteRow, At, Sessions, SerialInv, Active
<1>2. PICK s \in Spans, t \in Trajs :
        s = cur[r] /\ t = TrajOf[s] /\ s \in Handled(r) /\ s \in Body[r]
  BY <1>1, DataAssumption DEF SessionOK, Handled
<1>3. seen[r] = View(r, t) /\ View(r, t) \in Row /\ View(r, t) # NoRow
  BY <1>1, <1>2, ViewType DEF SessionOK, SerialOK
<1>4. View(r, t)' = Widen(View(r, t), View(r, t), s)
  <2>1. CASE Writes(r)
    <3>1. own'[r][t] = Widen(View(r, t), View(r, t), s)
      BY <1>1, <1>2, <1>3, <2>1 DEF WriteRow, TypeOK
    <3>2. own'[r][t] \in Row
      BY <1>3, <3>1, WidenType
    <3> QED BY <3>1, <3>2, NullAssumption DEF View
  <2>2. CASE ~Writes(r)
    <3>1. Widen(seen[r], seen[r], s) = seen[r]
      BY <1>1, <1>2, <2>2 DEF Writes
    <3> QED BY <1>3, <2>2, <3>1 DEF WriteRow, View
  <2> QED BY <2>1, <2>2
<1>5. \A u \in Trajs : u # t => View(r, u)' = View(r, u)
  BY <1>1, <1>2 DEF WriteRow, View, TypeOK
<1>6. pc'[r] = "span" /\ rows' = rows /\ stored' = stored
      /\ Widened(r) = put[r] /\ Widened(r)' = put[r] \cup {s} /\ Handled(r)' = Handled(r)
  BY <1>1, <1>2 DEF WriteRow, Goto, TypeOK, Widened, Handled
<1>7. ASSUME NEW u \in Trajs, View(r, u)' # NoRow
      PROVE  /\ Covers(View(r, u)', SpansOf(u, stored \cup Widened(r)'))
             /\ Named(rows[u], View(r, u)', SpansOf(u, Widened(r)'), SpansOf(u, Handled(r)))
  <2>1. CASE u = t
    <3>1. SpansOf(u, stored \cup Widened(r)') = SpansOf(t, stored \cup Widened(r)) \cup {s}
          /\ SpansOf(u, Widened(r)') = SpansOf(t, Widened(r)) \cup {s}
          /\ s \in SpansOf(t, Handled(r))
      BY <1>2, <1>6, <2>1 DEF SpansOf
    <3>2. SpansOf(t, stored \cup Widened(r)) \in SUBSET Spans
      BY <1>1, <1>6 DEF SpansOf, TypeOK
    <3>3. Covers(View(r, t), SpansOf(t, stored \cup Widened(r)))
          /\ Named(rows[t], View(r, t), SpansOf(t, Widened(r)), SpansOf(t, Handled(r)))
      BY <1>1, <1>3 DEF SerialOK
    <3>4. Covers(View(r, t)', SpansOf(t, stored \cup Widened(r)) \cup {s})
      BY <1>3, <1>4, <3>2, <3>3, WidenCovers
    <3>5. Named(rows[t], View(r, t)', SpansOf(t, Widened(r)) \cup {s}, SpansOf(t, Handled(r)))
      BY <1>3, <1>4, <3>1, <3>3, WidenNamed
    <3> QED BY <2>1, <3>1, <3>4, <3>5
  <2>2. CASE u # t
    <3>1. SpansOf(u, stored \cup Widened(r)') = SpansOf(u, stored \cup Widened(r))
          /\ SpansOf(u, Widened(r)') = SpansOf(u, Widened(r))
      BY <1>2, <1>6, <2>2 DEF SpansOf
    <3> QED BY <1>1, <1>5, <1>7, <2>2, <3>1 DEF SerialOK
  <2> QED BY <2>1, <2>2
<1>8. \A u \in Trajs : own'[r][u] # NoRow => u \in TrajsOf(Body[r])
  <2>1. \A u \in Trajs : u # t => own'[r][u] = own[r][u]
    BY <1>1, <1>2 DEF WriteRow, TypeOK
  <2>2. t \in TrajsOf(Body[r])
    BY <1>2 DEF TrajsOf
  <2> QED BY <1>1, <2>1, <2>2 DEF SerialOK
<1> QED BY <1>6, <1>7, <1>8 DEF SerialOK

LEMMA SerialUpsertSpan ==
  ASSUME IInv, SerialInv, NEW r \in Active, UpsertSpan(r)
  PROVE  SerialOK(r)'
<1> USE DEF IInv
<1>1. r \in Requests /\ pc[r] = "span" /\ SerialOK(r)
  BY DEF UpsertSpan, At, SerialInv, Active
<1>2. put'[r] = put[r] \cup {cur[r]} /\ pc'[r] \in {"insert", "count"}
      /\ (pc'[r] = "count" => due'[r] = TrajsOf(Body[r]))
  BY <1>1 DEF UpsertSpan, Goto, TypeOK
<1>3. Widened(r)' = Widened(r) /\ Handled(r)' = Handled(r)
  BY <1>1, <1>2 DEF Widened, Handled
<1>4. (\A t : View(r, t)' = View(r, t)) /\ UNCHANGED <<rows, stored, own>>
  BY DEF View, UpsertSpan
<1>5. pc'[r] = "count" => Pending(r)' = TrajsOf(Body[r])
  BY <1>2 DEF Pending
<1> QED BY <1>1, <1>2, <1>3, <1>4, <1>5 DEF SerialOK

LEMMA SerialSelectSpans ==
  ASSUME IInv, SerialInv, NEW r \in Active, SelectSpans(r)
  PROVE  SerialOK(r)'
<1> USE DEF IInv
<1>1. r \in Requests /\ pc[r] = "count" /\ SerialOK(r)
  BY DEF SelectSpans, At, SerialInv, Active
<1>2. pc'[r] = "total" /\ UNCHANGED <<rows, stored, own, put, cur>>
  BY <1>1 DEF SelectSpans, Goto, TypeOK
<1>3. Pending(r)' = Pending(r)
  BY <1>1, <1>2 DEF SelectSpans, Pending, TypeOK
<1>4. Widened(r)' = Widened(r) /\ Handled(r)' = Handled(r)
  BY <1>1, <1>2 DEF Widened, Handled
<1>5. \A t : View(r, t)' = View(r, t)
  BY <1>2 DEF View
<1> QED BY <1>1, <1>2, <1>3, <1>4, <1>5 DEF SerialOK

LEMMA SerialReadTotals ==
  ASSUME IInv, SerialInv, NEW r \in Active, ReadTotals(r)
  PROVE  SerialOK(r)'
<1> USE DEF IInv
<1>1. r \in Requests /\ pc[r] = "total" /\ SerialOK(r)
  BY DEF ReadTotals, At, SerialInv, Active
<1>2. pc'[r] = "flush" /\ UNCHANGED <<rows, stored, own, put, cur, due, target>>
  BY <1>1 DEF ReadTotals, Goto, TypeOK
<1>3. Pending(r)' = Pending(r) /\ Widened(r)' = Widened(r) /\ Handled(r)' = Handled(r)
  BY <1>1, <1>2 DEF Pending, Widened, Handled
<1>4. \A t : View(r, t)' = View(r, t)
  BY <1>2 DEF View
<1> QED BY <1>1, <1>2, <1>3, <1>4 DEF SerialOK

LEMMA SerialFlushTotals ==
  ASSUME IInv, SerialInv, NEW r \in Active, SoloOK(r), FlushTotals(r)
  PROVE  SerialOK(r)'
<1> USE DEF IInv
<1>1. r \in Requests /\ pc[r] = "flush" /\ SerialOK(r)
  BY DEF FlushTotals, At, SerialInv, Active
<1>2. PICK t \in Trajs :
        /\ t = target[r] /\ t \in TrajsOf(Body[r])
        /\ View(r, t) \in Row /\ count[r] = SpansOf(t, VisibleSpans(r))
        /\ View(r, t)' = Retotal(View(r, t), View(r, t), count[r])
        /\ \A u \in Trajs : u # t => View(r, u)' = View(r, u)
  BY <1>1, FlushedView
<1>3. PICK row \in Row : row = View(r, t)
  BY <1>2
<1>4. View(r, t)' = Retotal(row, row, count[r]) /\ count[r] \in SUBSET Spans /\ row # NoRow
  BY <1>1, <1>2, <1>3, NullAssumption DEF TypeOK
<1>5. PICK flushed \in Row : flushed = View(r, t)'
  BY <1>3, <1>4, RetotalType
<1>6. flushed.started = row.started /\ flushed.ended = row.ended /\ flushed.name = row.name
      /\ flushed.duration = DurationOf(row)
  BY <1>4, <1>5, RetotalCovers
<1>7. pc'[r] \in {"count", "commit"} /\ rows' = rows /\ stored' = stored
      /\ Widened(r)' = Widened(r) /\ Handled(r)' = Handled(r) /\ Pending(r)' = due[r]
  BY <1>1 DEF FlushTotals, Goto, TypeOK, Widened, Handled, Pending
<1>8. ASSUME NEW u \in Trajs, View(r, u)' # NoRow
      PROVE  /\ Covers(View(r, u)', SpansOf(u, stored \cup Widened(r)))
             /\ Named(rows[u], View(r, u)', SpansOf(u, Widened(r)), SpansOf(u, Handled(r)))
  <2>1. CASE u = t
    <3>1. Covers(row, SpansOf(t, stored \cup Widened(r)))
          /\ Named(rows[t], row, SpansOf(t, Widened(r)), SpansOf(t, Handled(r)))
      BY <1>1, <1>3, <1>4 DEF SerialOK
    <3>2. Covers(flushed, SpansOf(t, stored \cup Widened(r)))
      BY <1>6, <3>1 DEF Covers, Hull, DurationOf
    <3>3. Named(rows[t], flushed, SpansOf(t, Widened(r)), SpansOf(t, Handled(r)))
      BY <1>6, <3>1 DEF Named
    <3> QED BY <1>5, <2>1, <3>2, <3>3
  <2>2. CASE u # t
    BY <1>1, <1>2, <1>8, <2>2 DEF SerialOK
  <2> QED BY <2>1, <2>2
<1>9. \A u \in Trajs : own'[r][u] # NoRow => u \in TrajsOf(Body[r])
  <2>1. \A u \in Trajs : u # t => own'[r][u] = own[r][u]
    BY <1>1, <1>2 DEF FlushTotals, TypeOK
  <2> QED BY <1>1, <1>2, <2>1 DEF SerialOK
<1>10. ASSUME NEW u \in TrajsOf(Body[r]), u \notin due[r]
       PROVE  View(r, u)'.duration = DurationOf(View(r, u)')
  <2>1. CASE u = t
    BY <1>5, <1>6, <2>1 DEF DurationOf
  <2>2. CASE u # t
    <3>1. u \in Trajs /\ u \notin Pending(r)
      BY <1>1, <1>2, <1>10, <2>2, DataAssumption DEF TrajsOf, Pending
    <3> QED BY <1>1, <1>2, <2>2, <3>1 DEF SerialOK
  <2> QED BY <2>1, <2>2
<1> QED BY <1>7, <1>8, <1>9, <1>10 DEF SerialOK

(* What the only request in flight commits. *)
LEMMA SerialCommit ==
  ASSUME IInv, SoloInv, SerialInv, NEW r \in Active, Commit(r), NEW t \in Trajs
  PROVE  /\ rows'[t] = View(r, t) /\ stored' = stored \cup Body[r]
         /\ rows'[t] # NoRow => Covers(rows'[t], SpansOf(t, stored'))
         /\ t \notin TrajsOf(Body[r]) => rows'[t] = rows[t]
         /\ t \in TrajsOf(Body[r]) =>
              /\ rows'[t] \in Row /\ rows'[t] # NoRow
              /\ rows'[t].counted = SpansOf(t, stored')
              /\ rows'[t].duration = DurationOf(rows'[t])
              /\ Named(rows[t], rows'[t], SpansOf(t, Body[r]), SpansOf(t, Body[r]))
<1> USE DEF IInv
<1>1. r \in Requests /\ pc[r] = "commit" /\ put[r] = Body[r] /\ r \in solo
      /\ SerialOK(r) /\ SoloOK(r)
  BY DEF Commit, At, Sessions, SessionOK, SerialInv, SoloInv, Active, Statements
<1>2. Widened(r) = Body[r] /\ Handled(r) = Body[r] /\ VisibleSpans(r) = stored \cup Body[r]
      /\ Pending(r) = {}
  BY <1>1 DEF Widened, Handled, VisibleSpans, Pending, SoloOK
<1>3. rows'[t] = View(r, t) /\ stored' = stored \cup Body[r]
  BY <1>2 DEF Commit
<1>4. rows'[t] # NoRow => Covers(rows'[t], SpansOf(t, stored'))
  BY <1>1, <1>2, <1>3 DEF SerialOK
<1>5. t \notin TrajsOf(Body[r]) => rows'[t] = rows[t]
  BY <1>1, <1>3 DEF SerialOK, View
<1>6. ASSUME t \in TrajsOf(Body[r])
      PROVE  /\ rows'[t] \in Row /\ rows'[t] # NoRow
             /\ rows'[t].counted = SpansOf(t, stored')
             /\ rows'[t].duration = DurationOf(rows'[t])
             /\ Named(rows[t], rows'[t], SpansOf(t, Body[r]), SpansOf(t, Body[r]))
  <2>1. View(r, t) # NoRow
    BY <1>1, <1>2, <1>6 DEF Sessions, SessionOK, TrajsOf
  <2>2. View(r, t) \in Row
    BY <1>1, <2>1, ViewType
  <2>3. View(r, t).counted = SpansOf(t, VisibleSpans(r))
        /\ View(r, t).duration = DurationOf(View(r, t))
        /\ Named(rows[t], View(r, t), SpansOf(t, Widened(r)), SpansOf(t, Handled(r)))
    BY <1>1, <1>2, <1>6, <2>1 DEF SoloOK, SerialOK
  <2> QED BY <1>2, <1>3, <2>1, <2>2, <2>3
<1> QED BY <1>3, <1>4, <1>5, <1>6

LEMMA SerialInvStep ==
  ASSUME MaxConcurrent = 1, IInv, SoloInv, SerialInv, [Next]_vars
  PROVE  SerialInv'
<1> USE DEF IInv
<1>1. ASSUME NEW r \in Requests, Step(r) PROVE SerialInv'
  <2>1. pc[r] \in Statements
    BY <1>1 DEF Step, InsertRow, ReadRow, WriteRow, UpsertSpan, SelectSpans, ReadTotals,
                FlushTotals, Commit, At, Statements
  <2>2. r \in Active /\ solo' = solo /\ \A q \in Requests \ {r} : pc'[q] = pc[q]
    BY <1>1, <2>1 DEF Active, Step, InsertRow, ReadRow, WriteRow, UpsertSpan, SelectSpans,
                      ReadTotals, FlushTotals, Commit, EndSession, Goto, TypeOK
  <2>3. CASE Commit(r)
    <3>1. Active' = {}
      <4>1. pc'[r] = "ok"
        BY <2>3 DEF Commit, EndSession, Goto, TypeOK
      <4> QED BY <2>2, <4>1 DEF SerialInv, Active, Statements
    <3>2. RowsCover'
      BY <2>2, <2>3, SerialCommit DEF RowsCover
    <3>3. TotalsInSync'
      <4> SUFFICES ASSUME NEW t \in Trajs, rows'[t] # NoRow
                   PROVE  rows'[t].counted = SpansOf(t, stored')
        BY DEF TotalsInSync
      <4>1. CASE t \in TrajsOf(Body[r])
        BY <2>2, <2>3, <4>1, SerialCommit
      <4>2. CASE t \notin TrajsOf(Body[r])
        <5>1. rows'[t] = rows[t] /\ stored' = stored \cup Body[r]
          BY <2>2, <2>3, <4>2, SerialCommit
        <5>2. SpansOf(t, stored') = SpansOf(t, stored)
          BY <4>2, <5>1 DEF SpansOf, TrajsOf
        <5> QED BY <5>1, <5>2 DEF SerialInv, TotalsInSync
      <4> QED BY <4>1, <4>2
    <3> QED BY <3>1, <3>2, <3>3 DEF SerialInv
  <2>4. CASE ~Commit(r)
    <3>1. UNCHANGED <<rows, stored>>
      BY <1>1, <2>4 DEF Step, InsertRow, ReadRow, WriteRow, UpsertSpan, SelectSpans,
                        ReadTotals, FlushTotals
    <3>2. SoloOK(r)
      BY <2>1, <2>2 DEF SerialInv, SoloInv
    <3>3. SerialOK(r)'
      BY <1>1, <2>2, <2>4, <3>2, SerialInsertRow, SerialReadRow, SerialWriteRow,
         SerialUpsertSpan, SerialSelectSpans, SerialReadTotals, SerialFlushTotals DEF Step
    <3> QED BY <2>2, <3>1, <3>3, SerialLocal
  <2> QED BY <2>3, <2>4
<1>2. ASSUME NEW r \in Requests, pc[r] \in Statements, EndSession(r, "failed"),
             UNCHANGED <<rows, stored>>
      PROVE  SerialInv'
  <2>1. r \in Active /\ pc'[r] = "failed" /\ solo' = solo
        /\ \A q \in Requests \ {r} : pc'[q] = pc[q]
    BY <1>2 DEF EndSession, Goto, TypeOK, Active
  <2> QED BY <1>2, <2>1, SerialLocal DEF Statements
<1>3. CASE \E r \in Requests : Post(r)
  BY <1>3, SerialPost
<1>4. CASE \E r \in Requests : Step(r)
  BY <1>1, <1>4
<1>5. CASE \E r \in Requests : Fail(r)
  BY <1>2, <1>5 DEF Fail
<1>6. CASE BreakDeadlock
  BY <1>2, <1>6 DEF BreakDeadlock, Active
<1>7. CASE UNCHANGED vars
  <2>1. Active' = Active /\ solo' = solo /\ RowsCover' = RowsCover
        /\ TotalsInSync' = TotalsInSync
    BY <1>7 DEF vars, sessionVars, Active, RowsCover, TotalsInSync
  <2>2. \A r : SerialOK(r)' = SerialOK(r)
    BY <1>7 DEF vars, sessionVars, SerialOK, View, Pending, Widened, Handled
  <2> QED BY <2>1, <2>2 DEF SerialInv
<1> QED BY <1>3, <1>4, <1>5, <1>6, <1>7 DEF Next, Done

(* That commit is the delivery of its batch, as the abstract specification *)
(* describes it.                                                           *)
LEMMA CommitDelivers ==
  ASSUME IInv, SoloInv, SerialInv, NEW r \in Active, Commit(r), IInv'
  PROVE  Atomic!Deliver(Body[r])
<1> USE NullAssumption, DataAssumption
<1>1. stored' = stored \cup Body[r]
  BY DEF Commit, VisibleSpans, IInv, Sessions, SessionOK, At, Active
<1>2. ASSUME NEW t \in Trajs, Atomic!Of(t, Body[r]) = {} PROVE rows'[t] = rows[t]
  <2>1. t \notin TrajsOf(Body[r])
    BY <1>2 DEF TrajsOf, Atomic!Of
  <2> QED BY <2>1, SerialCommit
<1>3. ASSUME NEW t \in Trajs, Atomic!Of(t, Body[r]) # {}
      PROVE  /\ Atomic!Summarises(rows'[t], Atomic!Of(t, stored'))
             /\ Atomic!KeepsName(rows[t], rows'[t], Atomic!Of(t, Body[r]))
  <2>1. t \in TrajsOf(Body[r])
    BY <1>3 DEF TrajsOf, Atomic!Of
  <2>2. PICK row \in Row : row = rows'[t] /\ row # NoRow
    BY <2>1, SerialCommit
  <2>3. PICK S \in SUBSET Spans : S = SpansOf(t, stored') /\ S = Atomic!Of(t, stored')
    BY DEF IInv, TypeOK, SpansOf, Atomic!Of
  <2>4. /\ Covers(row, S) /\ row.counted = S /\ row.duration = DurationOf(row)
    BY <2>1, <2>2, <2>3, SerialCommit
  <2>5. Attained(row, S)
    BY <2>2, <2>3 DEF IInv, RowsSound, Sound
  <2>6. Named(rows[t], row, Atomic!Of(t, Body[r]), Atomic!Of(t, Body[r]))
    BY <2>1, <2>2, SerialCommit DEF SpansOf, Atomic!Of
  <2>7. Atomic!Summarises(row, S)
    <3>1. row.started \in {Start[s] : s \in S} /\ \A s \in S : row.started <= Start[s]
      BY <2>4, <2>5 DEF Attained, Covers, Hull
    <3>2. row.ended = None => Atomic!Ends(S) = {}
      BY <2>4 DEF Covers, Hull, Atomic!Ends
    <3>3. row.ended # None => row.ended \in Atomic!Ends(S)
      BY <2>5 DEF Attained, Atomic!Ends
    <3>4. \A e \in Atomic!Ends(S) : row.ended >= e
      BY <2>4 DEF Covers, Hull, Atomic!Ends
    <3>5. row.duration = IF row.ended = None THEN None ELSE row.ended - row.started
      BY <2>4 DEF Covers, DurationOf
    <3> QED BY <2>4, <3>1, <3>2, <3>3, <3>4, <3>5 DEF Atomic!Summarises
  <2>8. Atomic!KeepsName(rows[t], row, Atomic!Of(t, Body[r]))
    BY <2>6 DEF Named, Atomic!KeepsName
  <2> QED BY <2>2, <2>3, <2>7, <2>8
<1> QED BY <1>1, <1>2, <1>3 DEF Atomic!Deliver

LEMMA SerialInvariance == ASSUME MaxConcurrent = 1 PROVE Spec => []SerialInv
<1>1. Init => SerialInv
  BY DEF Init, SerialInv, RowsCover, TotalsInSync, Active, Statements, NoRows
<1>2. IInv /\ SoloInv /\ SerialInv /\ [Next]_vars => SerialInv'
  BY SerialInvStep
<1> QED BY <1>1, <1>2, Invariance, SoloInvariance, PTL DEF Spec

(* What the sources promise of the totals and of the window, and           *)
(* overlapping requests break, holds when requests come one at a time:     *)
(* the totals count exactly the stored spans, and the window is their hull *)
(* in whatever order the segments of a run arrived.                        *)
THEOREM SerialKeepsPromises ==
  ASSUME MaxConcurrent = 1 PROVE Spec => [](TotalsInSync /\ WindowConverges)
<1>1. SerialInv => TotalsInSync /\ WindowConverges
  BY DEF SerialInv, RowsCover, Covers, WindowConverges
<1> QED BY <1>1, SerialInvariance, PTL

(* With one request at a time, ingest is the atomic delivery of batches:   *)
(* each commit adds its whole batch and leaves on every trajectory it      *)
(* touches the hull of its stored spans, their exact totals and the first  *)
(* name delivered; no other statement is visible.                          *)
THEOREM SerialIsAtomic ==
  ASSUME MaxConcurrent = 1 PROVE Spec => ImplementsAtomic
<1>1. Init => Atomic!Init
  BY DEF Init, Atomic!Init, NoRows
<1>2. ASSUME IInv, SoloInv, SerialInv, [Next]_vars
      PROVE  [Atomic!Next]_<<rows, stored>>
  <2>1. IInv'
    BY <1>2, StepInv
  <2>2. CASE \E r \in Requests : Commit(r)
    <3>1. PICK r \in Requests : Commit(r)
      BY <2>2
    <3>2. r \in Active
      BY <3>1 DEF Commit, At, Active, Statements
    <3> QED BY <1>2, <2>1, <3>1, <3>2, CommitDelivers DEF Atomic!Next
  <2>3. CASE ~ \E r \in Requests : Commit(r)
    BY <1>2, <2>3 DEF Next, Step, Post, InsertRow, ReadRow, WriteRow, UpsertSpan, SelectSpans,
                ReadTotals, FlushTotals, Fail, BreakDeadlock, Done, vars, sessionVars
  <2> QED BY <2>2, <2>3
<1>3. IInv /\ SoloInv /\ SerialInv /\ [Next]_vars => [Atomic!Next]_<<rows, stored>>
  BY <1>2
<1> QED
  BY <1>1, <1>3, SerialInvariance, Invariance, SoloInvariance, PTL DEF Spec, ImplementsAtomic, Atomic!Spec
=============================================================================
