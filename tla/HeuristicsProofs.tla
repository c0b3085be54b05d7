-------------------------- MODULE HeuristicsProofs --------------------------
(***************************************************************************)
(* The safety of the heuristic evaluations, for any number of overlapping  *)
(* batches and whatever the heuristics find slow.                          *)
(***************************************************************************)
EXTENDS Heuristics, TLAPS

(* The rows v stored for t, within a set of rows. *)
Group(D, v, t) == {h.hit : h \in {x \in D : x.by = v /\ x.traj = t}}

AllOrNone(D, v, t) == Group(D, v, t) = {} \/ Group(D, v, t) = wrote[v][t]

Whole(D) == \A v \in Workers, t \in Trajs : AllOrNone(D, v, t)

(* v will not evaluate t (again). *)
Past(v, t) ==
  pc[v] # "off" /\ t \notin todo[v] /\ ~(pc[v] \in Evaluating /\ cur[v] = t)

OncePerWorker == \A v \in Workers, t \in Trajs : wrote[v][t] # {} => Past(v, t)

EvaluationOK(w) ==
  /\ pc[w] \in Evaluating =>
       /\ cur[w] \in Trajs \ todo[w]
       /\ spans[w] \subseteq SpansOf(cur[w], stored)
  /\ pc[w] \in {"delete", "wait", "insert"} => \A h \in found[w] : h.of \subseteq spans[w]
  /\ pc[w] \in {"wait", "insert"} => Whole(doomed[w]) /\ \A h \in doomed[w] : h.traj = cur[w]
  /\ pc[w] = "insert" => doomed[w] \subseteq hits

Evaluations == \A w \in Workers : EvaluationOK(w)

RowLocks ==
  \A v, w \in Workers : v # w => Deleting(v) \cap Deleting(w) = {}

Delivered == \A r \in Requests : pc[r] # "off" => Body[r] \subseteq stored

IInv ==
  /\ TypeOK /\ OncePerWorker /\ Evaluations /\ RowLocks /\ Delivered
  /\ NeverTorn /\ HitsAreGrounded /\ SeesItsBatch

(* While nothing overlaps the evaluation of w. *)
QuietOK(w) ==
  /\ pc[w] \in Evaluating
  /\ \A v \in Workers \ {w} : ~(pc[v] \in Evaluating /\ cur[v] = cur[w])
  /\ spans[w] = SpansOf(cur[w], stored)
  /\ pc[w] # "baselines" => found[w] = Evaluate(spans[w], stored)
  /\ pc[w] \in {"wait", "insert"} => doomed[w] = RowsOf(cur[w])

QuietInv == \A w \in quiet : QuietOK(w)

-----------------------------------------------------------------------------
(* What the heuristics return names spans they were given. *)
LEMMA EvaluateGrounded ==
  ASSUME NEW S \in SUBSET Spans, NEW B
  PROVE  Evaluate(S, B) \in SUBSET Hit /\ \A h \in Evaluate(S, B) : h.of \subseteq S
<1>1. ToolErrors(S) \in SUBSET Hit /\ \A h \in ToolErrors(S) : h.of \subseteq S
  BY DEF ToolErrors, Hit, Slugs
<1>2. Outliers(S, B) \in SUBSET Hit /\ \A h \in Outliers(S, B) : h.of \subseteq S
  BY DEF Outliers, Hit, Slugs
<1>3. Apologies(S) \in SUBSET Hit /\ \A h \in Apologies(S) : h.of \subseteq S
  BY DEF Apologies, Latest, Hit, Slugs
<1>4. Loops(S) \in SUBSET Hit /\ \A h \in Loops(S) : h.of \subseteq S
  <2>1. \A x : Repeats(x, S) \subseteq S /\ Repeats(x, S) \in SUBSET Spans
    BY DEF Repeats
  <2> QED BY <2>1 DEF Loops, Hit, Slugs
<1>5. Doubts(S) \in SUBSET Hit /\ \A h \in Doubts(S) : h.of \subseteq S
  BY DEF Doubts, Latest, Hit, Slugs
<1> QED BY <1>1, <1>2, <1>3, <1>4, <1>5 DEF Evaluate

(* A row is its three columns. *)
LEMMA SameRow ==
  ASSUME NEW g \in HitRow, NEW h \in HitRow,
         g.by = h.by, g.traj = h.traj, g.hit = h.hit
  PROVE  g = h
  BY DEF HitRow

(* Taking whole groups out of whole groups leaves whole groups. *)
LEMMA GroupWithout ==
  ASSUME NEW D \in SUBSET HitRow, NEW E \in SUBSET HitRow, E \subseteq D,
         NEW v \in Workers, NEW t \in Trajs, AllOrNone(D, v, t), AllOrNone(E, v, t)
  PROVE  AllOrNone(D \ E, v, t)
<1>1. CASE Group(E, v, t) = {}
  <2>1. Group(D \ E, v, t) = Group(D, v, t)
    BY <1>1 DEF Group
  <2> QED BY <2>1 DEF AllOrNone
<1>2. CASE Group(E, v, t) = wrote[v][t]
  <2> SUFFICES ASSUME NEW h \in D \ E, h.by = v, h.traj = t PROVE FALSE
    BY DEF Group, AllOrNone
  <2>1. h.hit \in wrote[v][t]
    BY DEF Group, AllOrNone
  <2>2. PICK g \in E : g.by = v /\ g.traj = t /\ g.hit = h.hit
    BY <1>2, <2>1 DEF Group
  <2> QED BY <2>2, SameRow
<1> QED BY <1>1, <1>2 DEF AllOrNone

(* So does keeping the rows that are still there. *)
LEMMA GroupWithin ==
  ASSUME NEW D \in SUBSET HitRow, NEW E \in SUBSET HitRow,
         NEW v \in Workers, NEW t \in Trajs, AllOrNone(D, v, t), AllOrNone(E, v, t)
  PROVE  AllOrNone(D \cap E, v, t)
<1> DEFINE G == wrote[v][t]
<1>1. CASE Group(D, v, t) = {} \/ Group(E, v, t) = {}
  <2>1. Group(D \cap E, v, t) = {}
    BY <1>1 DEF Group
  <2> QED BY <2>1 DEF AllOrNone
<1>2. CASE Group(D, v, t) = G /\ Group(E, v, t) = G
  <2>1. Group(D \cap E, v, t) \subseteq G
    BY <1>2 DEF Group
  <2>2. ASSUME NEW k \in G PROVE k \in Group(D \cap E, v, t)
    <3>1. PICK d \in D : d.by = v /\ d.traj = t /\ d.hit = k
      BY <1>2, <2>2 DEF Group
    <3>2. PICK e \in E : e.by = v /\ e.traj = t /\ e.hit = k
      BY <1>2, <2>2 DEF Group
    <3>3. d = e
      BY <3>1, <3>2, SameRow
    <3> QED BY <3>1, <3>3 DEF Group
  <2> QED BY <2>1, <2>2 DEF AllOrNone
<1> QED BY <1>1, <1>2 DEF AllOrNone

-----------------------------------------------------------------------------
(* A statement of w that stores nothing. *)
LEMMA LocalStep ==
  ASSUME IInv, NEW w \in Workers, TypeOK', UNCHANGED <<stored, hits, wrote>>,
         \A v \in Workers \ {w} :
           /\ pc'[v] = pc[v] /\ todo'[v] = todo[v] /\ cur'[v] = cur[v]
           /\ spans'[v] = spans[v] /\ found'[v] = found[v] /\ doomed'[v] = doomed[v],
         w \in Requests => pc[w] # "off",
         \A t \in Trajs : wrote[w][t] # {} => Past(w, t)',
         EvaluationOK(w)',
         \A v \in Workers \ {w} : Deleting(v) \cap Deleting(w)' = {},
         w \in Requests /\ pc'[w] \in Evaluating =>
           SpansOf(cur'[w], Body[w]) \subseteq spans'[w]
  PROVE  IInv'
<1> USE DEF IInv
<1>1. OncePerWorker'
  <2> SUFFICES ASSUME NEW v \in Workers, v # w, NEW t \in Trajs, wrote[v][t] # {}
               PROVE  Past(v, t)'
    BY DEF OncePerWorker
  <2> QED BY DEF OncePerWorker, Past
<1>2. Evaluations'
  <2> SUFFICES ASSUME NEW v \in Workers, v # w PROVE EvaluationOK(v)'
    BY DEF Evaluations
  <2>1. EvaluationOK(v)
    BY DEF Evaluations
  <2> QED BY <2>1 DEF EvaluationOK, Whole, AllOrNone
<1>3. RowLocks'
  <2>1. \A v \in Workers \ {w} : Deleting(v)' = Deleting(v)
    BY DEF Deleting
  <2> QED BY <2>1 DEF RowLocks
<1>4. Delivered'
  BY WorkAssumption DEF Delivered, Workers
<1>5. NeverTorn' /\ HitsAreGrounded' /\ SeesItsBatch'
  BY DEF NeverTorn, HitsAreGrounded, SeesItsBatch, Workers
<1> QED BY <1>1, <1>2, <1>3, <1>4, <1>5

LEMMA DeliverStep == ASSUME IInv, NEW r \in Requests, Deliver(r) PROVE IInv'
<1> USE DEF IInv
<1>1. r \in Workers /\ Body[r] \subseteq Spans /\ pc[r] = "off"
      /\ pc' = [pc EXCEPT ![r] = "next"] /\ stored' = stored \cup Body[r]
      /\ todo' = [todo EXCEPT ![r] = TrajsOf(Body[r])] /\ quiet' = {}
      /\ UNCHANGED <<hits, cur, spans, found, doomed, wrote>>
  BY WorkAssumption DEF Deliver, Goto, Workers
<1>2. TypeOK'
  <2>1. TrajsOf(Body[r]) \subseteq Trajs
    BY <1>1, WorkAssumption DEF TrajsOf
  <2> QED BY <1>1, <2>1 DEF TypeOK
<1>3. \A t : SpansOf(t, stored) \subseteq SpansOf(t, stored')
  BY <1>1 DEF SpansOf
<1>4. OncePerWorker'
  <2> SUFFICES ASSUME NEW v \in Workers, NEW t \in Trajs, wrote[v][t] # {} PROVE Past(v, t)'
    BY <1>1 DEF OncePerWorker
  <2>1. Past(v, t)
    BY DEF OncePerWorker
  <2> QED BY <1>1, <2>1 DEF Past, TypeOK
<1>5. Evaluations'
  <2> SUFFICES ASSUME NEW w \in Workers PROVE EvaluationOK(w)'
    BY DEF Evaluations
  <2>1. EvaluationOK(w)
    BY DEF Evaluations
  <2>2. w # r => pc'[w] = pc[w] /\ todo'[w] = todo[w]
    BY <1>1 DEF TypeOK
  <2>3. Whole(doomed[w])' = Whole(doomed[w])
    BY <1>1 DEF Whole, AllOrNone
  <2> QED BY <1>1, <1>3, <2>1, <2>2, <2>3 DEF EvaluationOK, TypeOK, Evaluating
<1>6. RowLocks'
  BY <1>1 DEF RowLocks, Deleting, TypeOK
<1>7. Delivered'
  BY <1>1 DEF Delivered, TypeOK
<1>8. NeverTorn' /\ HitsAreGrounded'
  BY <1>1, <1>3 DEF NeverTorn, HitsAreGrounded
<1>9. SeesItsBatch'
  BY <1>1 DEF SeesItsBatch, Evaluating, TypeOK
<1> QED BY <1>2, <1>4, <1>5, <1>6, <1>7, <1>8, <1>9

LEMMA StartBackfillStep == ASSUME IInv, StartBackfill PROVE IInv'
<1> USE DEF IInv
<1>1. Backfill \in Workers /\ Backfill \notin Requests /\ TrajsOf(stored) \subseteq Trajs
  BY WorkAssumption DEF Workers, TrajsOf, TypeOK
<1>2. TypeOK' /\ pc'[Backfill] \in {"done", "next"}
  BY <1>1 DEF StartBackfill, Goto, TypeOK
<1>3. \A t \in Trajs : wrote[Backfill][t] = {}
  BY <1>1 DEF StartBackfill, OncePerWorker, Past
<1>4. EvaluationOK(Backfill)' /\ Deleting(Backfill)' = {}
  BY <1>2 DEF EvaluationOK, Evaluating, Deleting
<1> QED
  BY <1>1, <1>2, <1>3, <1>4, LocalStep DEF StartBackfill, Goto, TypeOK

LEMMA ReadSpansStep == ASSUME IInv, NEW w \in Workers, ReadSpans(w) PROVE IInv'
<1> USE DEF IInv
<1>1. pc[w] = "next" /\ pc' = [pc EXCEPT ![w] = "baselines"]
      /\ UNCHANGED <<stored, hits, found, doomed, wrote>>
  BY DEF ReadSpans, Goto
<1>2. PICK t \in todo[w] :
        /\ todo' = [todo EXCEPT ![w] = @ \ {t}]
        /\ cur' = [cur EXCEPT ![w] = t]
        /\ spans' = [spans EXCEPT ![w] = SpansOf(t, stored)]
        /\ quiet' = IF Evaluators(t) = {} THEN quiet \cup {w} ELSE quiet \ Evaluators(t)
  BY DEF ReadSpans
<1>3. t \in Trajs
  BY DEF TypeOK
<1>4. TypeOK'
  BY <1>1, <1>2, <1>3 DEF TypeOK, SpansOf, Evaluating
<1>5. \A u \in Trajs : wrote[w][u] # {} => Past(w, u)'
  BY <1>1, <1>2 DEF OncePerWorker, Past, TypeOK
<1>6. EvaluationOK(w)' /\ Deleting(w)' = {}
  BY <1>1, <1>2, <1>3 DEF EvaluationOK, Deleting, TypeOK
<1>7. w \in Requests => SpansOf(cur'[w], Body[w]) \subseteq spans'[w]
  BY <1>1, <1>2 DEF Delivered, SpansOf, TypeOK
<1>8. \A v \in Workers \ {w} :
        /\ pc'[v] = pc[v] /\ todo'[v] = todo[v] /\ cur'[v] = cur[v]
        /\ spans'[v] = spans[v] /\ found'[v] = found[v] /\ doomed'[v] = doomed[v]
  BY <1>1, <1>2 DEF TypeOK
<1>9. \A v \in Workers \ {w} : Deleting(v) \cap Deleting(w)' = {}
  BY <1>6
<1> QED BY <1>1, <1>4, <1>5, <1>6, <1>7, <1>8, <1>9, LocalStep

LEMMA ReadBaselinesStep == ASSUME IInv, NEW w \in Workers, ReadBaselines(w) PROVE IInv'
<1> USE DEF IInv
<1>1. EvaluationOK(w) /\ pc[w] = "baselines" /\ pc' = [pc EXCEPT ![w] = "delete"]
      /\ found' = [found EXCEPT ![w] = Evaluate(spans[w], stored)]
      /\ UNCHANGED <<stored, hits, todo, cur, spans, doomed, wrote, quiet>>
  BY DEF ReadBaselines, Goto, Evaluations
<1>2. /\ Evaluate(spans[w], stored) \in SUBSET Hit
      /\ \A h \in Evaluate(spans[w], stored) : h.of \subseteq spans[w]
  BY EvaluateGrounded DEF TypeOK
<1>3. TypeOK'
  BY <1>1, <1>2 DEF TypeOK, Evaluating
<1>4. \A t \in Trajs : wrote[w][t] # {} => Past(w, t)'
  BY <1>1 DEF OncePerWorker, Past, TypeOK, Evaluating
<1>5. EvaluationOK(w)' /\ Deleting(w)' = {}
  BY <1>1, <1>2 DEF EvaluationOK, Deleting, TypeOK, Evaluating
<1> QED
  BY <1>1, <1>3, <1>4, <1>5, LocalStep DEF TypeOK, SeesItsBatch, Evaluating

LEMMA DeleteHitsStep == ASSUME IInv, NEW w \in Workers, DeleteHits(w) PROVE IInv'
<1> USE DEF IInv
<1>1. EvaluationOK(w) /\ pc[w] = "delete" /\ pc' = [pc EXCEPT ![w] = "wait"]
      /\ doomed' = [doomed EXCEPT ![w] = RowsOf(cur[w])]
      /\ UNCHANGED <<stored, hits, todo, cur, spans, found, wrote, quiet>>
  BY DEF DeleteHits, Goto, Evaluations
<1>2. Whole(RowsOf(cur[w]))
  <2> SUFFICES ASSUME NEW v \in Workers, NEW t \in Trajs
               PROVE  AllOrNone(RowsOf(cur[w]), v, t)
    BY DEF Whole
  <2>1. CASE t = cur[w]
    <3>1. Group(RowsOf(cur[w]), v, t) = {h.hit : h \in {x \in hits : x.by = v /\ x.traj = t}}
      BY <2>1 DEF Group, RowsOf
    <3> QED BY <3>1 DEF NeverTorn, AllOrNone
  <2>2. CASE t # cur[w]
    <3>1. Group(RowsOf(cur[w]), v, t) = {}
      BY <2>2 DEF Group, RowsOf
    <3> QED BY <3>1 DEF AllOrNone
  <2> QED BY <2>1, <2>2
<1>3. TypeOK'
  BY <1>1 DEF TypeOK, Evaluating, RowsOf
<1>4. \A t \in Trajs : wrote[w][t] # {} => Past(w, t)'
  BY <1>1 DEF OncePerWorker, Past, TypeOK, Evaluating
<1>5. EvaluationOK(w)' /\ Deleting(w)' = {}
  BY <1>1, <1>2 DEF EvaluationOK, Deleting, TypeOK, Evaluating, Whole, AllOrNone, RowsOf
<1> QED
  BY <1>1, <1>3, <1>4, <1>5, LocalStep DEF TypeOK, SeesItsBatch, Evaluating

LEMMA LockHitsStep == ASSUME IInv, NEW w \in Workers, LockHits(w) PROVE IInv'
<1> USE DEF IInv
<1>1. EvaluationOK(w) /\ pc[w] = "wait" /\ pc' = [pc EXCEPT ![w] = "insert"]
      /\ doomed' = [doomed EXCEPT ![w] = @ \cap hits]
      /\ UNCHANGED <<stored, hits, todo, cur, spans, found, wrote, quiet>>
      /\ \A v \in Workers \ {w} : Deleting(v) \cap doomed[w] = {}
  BY DEF LockHits, Goto, Evaluations
<1>2. Whole(doomed[w] \cap hits)
  <2> SUFFICES ASSUME NEW v \in Workers, NEW t \in Trajs
               PROVE  AllOrNone(doomed[w] \cap hits, v, t)
    BY DEF Whole
  <2>1. AllOrNone(hits, v, t) /\ AllOrNone(doomed[w], v, t)
    BY <1>1 DEF AllOrNone, Group, NeverTorn, EvaluationOK, Whole
  <2>2. doomed[w] \in SUBSET HitRow /\ hits \in SUBSET HitRow
    BY DEF TypeOK
  <2> QED BY <2>1, <2>2, GroupWithin
<1>3. TypeOK'
  BY <1>1 DEF TypeOK, Evaluating
<1>4. \A t \in Trajs : wrote[w][t] # {} => Past(w, t)'
  BY <1>1 DEF OncePerWorker, Past, TypeOK, Evaluating
<1>5. EvaluationOK(w)' /\ Deleting(w)' \subseteq doomed[w]
  BY <1>1, <1>2 DEF EvaluationOK, Deleting, TypeOK, Evaluating, Whole, AllOrNone
<1> QED
  BY <1>1, <1>3, <1>4, <1>5, LocalStep DEF TypeOK, SeesItsBatch, Evaluating

LEMMA FailEvaluationStep == ASSUME IInv, NEW w \in Workers, FailEvaluation(w) PROVE IInv'
<1> USE DEF IInv
<1>1. PICK rest \in SUBSET todo[w] : EndEvaluation(w, rest)
  BY DEF FailEvaluation
<1>2. pc'[w] \in {"next", "done"} /\ todo'[w] = rest /\ pc[w] \in Evaluating
      /\ UNCHANGED <<stored, hits, wrote>>
  BY <1>1 DEF EndEvaluation, Goto, TypeOK, FailEvaluation
<1>3. TypeOK'
  BY <1>1, <1>2 DEF EndEvaluation, Goto, TypeOK
<1>4. \A t \in Trajs : wrote[w][t] # {} => Past(w, t)'
  BY <1>2 DEF OncePerWorker, Past, Evaluating
<1>5. EvaluationOK(w)' /\ Deleting(w)' = {}
  BY <1>2 DEF EvaluationOK, Deleting, Evaluating
<1>6. \A v \in Workers \ {w} :
        /\ pc'[v] = pc[v] /\ todo'[v] = todo[v] /\ cur'[v] = cur[v]
        /\ spans'[v] = spans[v] /\ found'[v] = found[v] /\ doomed'[v] = doomed[v]
  BY <1>1 DEF EndEvaluation, Goto, TypeOK
<1> QED
  BY <1>2, <1>3, <1>4, <1>5, <1>6, LocalStep DEF Evaluating

LEMMA CommitHitsStep == ASSUME IInv, NEW w \in Workers, CommitHits(w) PROVE IInv'
<1> USE DEF IInv
<1> DEFINE new == {[by |-> w, traj |-> cur[w], hit |-> h] : h \in found[w]}
<1>1. /\ EvaluationOK(w) /\ pc[w] = "insert" /\ pc'[w] \in {"next", "done"}
      /\ hits' = (hits \ doomed[w]) \cup new
      /\ wrote' = [wrote EXCEPT ![w][cur[w]] = found[w]]
      /\ stored' = stored /\ todo' = todo
  BY DEF CommitHits, EndEvaluation, Goto, Evaluations, TypeOK
<1>2. \A v \in Workers \ {w} :
        /\ pc'[v] = pc[v] /\ cur'[v] = cur[v] /\ spans'[v] = spans[v]
        /\ found'[v] = found[v] /\ doomed'[v] = doomed[v] /\ wrote'[v] = wrote[v]
  BY <1>1 DEF CommitHits, EndEvaluation, Goto, TypeOK
<1>3. /\ cur[w] \in Trajs /\ cur[w] \notin todo[w] /\ wrote[w][cur[w]] = {}
      /\ wrote'[w][cur[w]] = found[w]
      /\ \A t \in Trajs : t # cur[w] => wrote'[w][t] = wrote[w][t]
  BY <1>1 DEF EvaluationOK, Evaluating, OncePerWorker, Past, TypeOK
<1>4. new \in SUBSET HitRow
  BY <1>3 DEF TypeOK, HitRow
<1>5. TypeOK'
  <2>1. hits' \subseteq HitRow
    BY <1>1, <1>4 DEF TypeOK
  <2>2. wrote' \in [Workers -> [Trajs -> SUBSET Hit]]
    BY <1>1, <1>3 DEF TypeOK
  <2> QED BY <2>1, <2>2 DEF CommitHits, EndEvaluation, Goto, TypeOK
<1>6. OncePerWorker'
  <2> SUFFICES ASSUME NEW v \in Workers, NEW t \in Trajs, wrote'[v][t] # {}
               PROVE  Past(v, t)'
    BY DEF OncePerWorker
  <2>1. v = w => Past(w, t)'
    BY <1>1, <1>3 DEF OncePerWorker, Past, Evaluating
  <2> QED BY <1>1, <1>2, <2>1 DEF OncePerWorker, Past
<1>7. Evaluations'
  <2> SUFFICES ASSUME NEW v \in Workers PROVE EvaluationOK(v)'
    BY DEF Evaluations
  <2>1. CASE v = w
    BY <1>1, <2>1 DEF EvaluationOK, Evaluating
  <2>2. CASE v # w
    <3>1. EvaluationOK(v)
      BY DEF Evaluations
    <3>2. ASSUME Whole(doomed[v]) PROVE Whole(doomed[v])'
      <4> SUFFICES ASSUME NEW u \in Workers, NEW t \in Trajs
                   PROVE  AllOrNone(doomed[v], u, t)'
        BY DEF Whole
      <4>1. AllOrNone(doomed[v], u, t)
        BY <3>2 DEF Whole
      <4> QED BY <1>2, <1>3, <2>2, <4>1 DEF AllOrNone
    <3>3. pc[v] = "insert" => doomed[v] \subseteq hits'
      BY <1>1, <2>2, <3>1 DEF RowLocks, Deleting, EvaluationOK
    <3> QED BY <1>1, <1>2, <2>2, <3>1, <3>2, <3>3 DEF EvaluationOK
  <2> QED BY <2>1, <2>2
<1>8. RowLocks'
  BY <1>1, <1>2 DEF RowLocks, Deleting
<1>9. Delivered'
  <2> SUFFICES ASSUME NEW r \in Requests, pc'[r] # "off" PROVE Body[r] \subseteq stored'
    BY DEF Delivered
  <2>1. pc[r] # "off"
    BY <1>1, <1>2 DEF Workers
  <2> QED BY <1>1, <2>1 DEF Delivered
<1>10. \A v \in Workers, t \in Trajs : AllOrNone(hits, v, t)'
  <2> SUFFICES ASSUME NEW v \in Workers, NEW t \in Trajs PROVE AllOrNone(hits, v, t)'
    OBVIOUS
  <2>1. AllOrNone(hits, v, t) /\ AllOrNone(doomed[w], v, t)
    BY <1>1 DEF AllOrNone, Group, NeverTorn, EvaluationOK, Whole
  <2>2. AllOrNone(hits \ doomed[w], v, t)
    BY <1>1, <2>1, GroupWithout DEF TypeOK, EvaluationOK
  <2>3. CASE v = w /\ t = cur[w]
    <3>1. Group(hits \ doomed[w], v, t) = {}
      BY <1>3, <2>2, <2>3 DEF AllOrNone
    <3>2. Group(new, v, t) = found[w]
      <4>1. ASSUME NEW h \in found[w] PROVE h \in Group(new, v, t)
        <5> DEFINE g == [by |-> w, traj |-> cur[w], hit |-> h]
        <5>1. g \in new /\ g.by = v /\ g.traj = t /\ g.hit = h
          BY <2>3, <4>1
        <5> QED BY <5>1 DEF Group
      <4>2. \A h \in Group(new, v, t) : h \in found[w]
        BY DEF Group
      <4> QED BY <4>1, <4>2
    <3>3. Group(hits', v, t) = Group(hits \ doomed[w], v, t) \cup Group(new, v, t)
      BY <1>1 DEF Group
    <3> QED BY <1>3, <2>3, <3>1, <3>2, <3>3 DEF AllOrNone
  <2>4. CASE ~(v = w /\ t = cur[w])
    <3>1. Group(hits', v, t) = Group(hits \ doomed[w], v, t)
      BY <1>1, <2>4 DEF Group
    <3>2. wrote'[v][t] = wrote[v][t]
      BY <1>2, <1>3, <2>4
    <3> QED BY <2>2, <3>1, <3>2 DEF AllOrNone
  <2> QED BY <2>3, <2>4
<1>11. NeverTorn'
  BY <1>10 DEF NeverTorn, AllOrNone, Group
<1>12. HitsAreGrounded'
  <2> SUFFICES ASSUME NEW g \in hits' PROVE g.hit.of \subseteq SpansOf(g.traj, stored)
    BY <1>1 DEF HitsAreGrounded, SpansOf
  <2>1. CASE g \in hits
    BY <2>1 DEF HitsAreGrounded
  <2>2. CASE g \in new
    BY <1>1, <2>2 DEF EvaluationOK, Evaluating
  <2> QED BY <1>1, <2>1, <2>2
<1>13. SeesItsBatch'
  BY <1>1, <1>2 DEF SeesItsBatch, Evaluating, Workers
<1> QED BY <1>5, <1>6, <1>7, <1>8, <1>9, <1>11, <1>12, <1>13

LEMMA CrashStep == ASSUME IInv, Crash PROVE IInv'
<1> USE DEF IInv
<1>1. Running \subseteq Workers /\ UNCHANGED <<stored, hits, wrote>>
  BY DEF Running, Workers, Crash
<1>2. \A w \in Running :
        /\ pc'[w] = "lost" /\ todo'[w] = {} /\ pc[w] # "off"
  BY <1>1 DEF Crash, Running, Evaluating
<1>3. \A w \in Workers \ Running :
        /\ pc'[w] = pc[w] /\ todo'[w] = todo[w] /\ cur'[w] = cur[w]
        /\ spans'[w] = spans[w] /\ found'[w] = found[w] /\ doomed'[w] = doomed[w]
  BY DEF Crash
<1>4. TypeOK'
  BY <1>1 DEF Crash, TypeOK
<1>5. OncePerWorker'
  <2> SUFFICES ASSUME NEW w \in Workers, NEW t \in Trajs, wrote[w][t] # {} PROVE Past(w, t)'
    BY <1>1 DEF OncePerWorker
  <2> QED BY <1>2, <1>3 DEF OncePerWorker, Past, Evaluating
<1>6. Evaluations'
  <2> SUFFICES ASSUME NEW w \in Workers PROVE EvaluationOK(w)'
    BY DEF Evaluations
  <2>1. EvaluationOK(w)
    BY DEF Evaluations
  <2>2. CASE w \in Running
    BY <1>2, <2>2 DEF EvaluationOK, Evaluating
  <2>3. CASE w \notin Running
    BY <1>1, <1>3, <2>1, <2>3 DEF EvaluationOK, Whole, AllOrNone
  <2> QED BY <2>2, <2>3
<1>7. RowLocks'
  <2>1. \A w \in Workers : Deleting(w)' \subseteq Deleting(w)
    BY <1>2, <1>3 DEF Deleting
  <2> QED BY <2>1 DEF RowLocks
<1>8. Delivered'
  <2> SUFFICES ASSUME NEW r \in Requests, pc'[r] # "off" PROVE Body[r] \subseteq stored
    BY <1>1 DEF Delivered
  <2>1. pc[r] # "off"
    BY <1>2, <1>3 DEF Workers
  <2> QED BY <2>1 DEF Delivered
<1>9. NeverTorn' /\ HitsAreGrounded'
  BY <1>1 DEF NeverTorn, HitsAreGrounded, SpansOf
<1>10. SeesItsBatch'
  BY <1>2, <1>3 DEF SeesItsBatch, Evaluating, Workers
<1> QED BY <1>4, <1>5, <1>6, <1>7, <1>8, <1>9, <1>10

LEMMA InitInv == Init => IInv
<1> SUFFICES ASSUME Init PROVE IInv
  OBVIOUS
<1>1. TypeOK
  BY DEF Init, TypeOK, Evaluating
<1>2. OncePerWorker /\ Evaluations /\ RowLocks
  BY DEF Init, OncePerWorker, Evaluations, EvaluationOK, RowLocks, Deleting, Evaluating
<1>3. Delivered /\ SeesItsBatch
  BY DEF Init, Delivered, SeesItsBatch, Evaluating, Workers
<1>4. NeverTorn /\ HitsAreGrounded
  BY DEF Init, NeverTorn, HitsAreGrounded
<1> QED BY <1>1, <1>2, <1>3, <1>4 DEF IInv

LEMMA StepInv == IInv /\ [Next]_vars => IInv'
<1> SUFFICES ASSUME IInv, [Next]_vars PROVE IInv'
  OBVIOUS
<1>1. ASSUME NEW r \in Requests, Deliver(r) PROVE IInv'
  BY <1>1, DeliverStep
<1>2. CASE StartBackfill
  BY <1>2, StartBackfillStep
<1>3. ASSUME NEW w \in Workers, Step(w) PROVE IInv'
  BY <1>3, ReadSpansStep, ReadBaselinesStep, DeleteHitsStep, LockHitsStep, CommitHitsStep
     DEF Step
<1>4. ASSUME NEW w \in Workers, FailEvaluation(w) PROVE IInv'
  BY <1>4, FailEvaluationStep
<1>5. CASE Crash
  BY <1>5, CrashStep
<1>6. CASE UNCHANGED vars
  <2>1. UNCHANGED <<stored, hits, pc, todo, cur, spans, found, doomed, wrote, quiet>>
    BY <1>6 DEF vars, workVars
  <2>2. TypeOK' /\ OncePerWorker' /\ RowLocks' /\ Delivered'
    BY <2>1 DEF IInv, TypeOK, OncePerWorker, Past, RowLocks, Deleting, Delivered
  <2>3. Evaluations'
    BY <2>1 DEF IInv, Evaluations, EvaluationOK, Whole, AllOrNone
  <2>4. NeverTorn' /\ HitsAreGrounded' /\ SeesItsBatch'
    BY <2>1 DEF IInv, NeverTorn, HitsAreGrounded, SeesItsBatch
  <2> QED BY <2>2, <2>3, <2>4 DEF IInv
<1> QED BY <1>1, <1>2, <1>3, <1>4, <1>5, <1>6 DEF Next, Done

-----------------------------------------------------------------------------
(* A step elsewhere leaves a quiet evaluation quiet. *)
LEMMA QuietStays ==
  ASSUME NEW w \in Workers, QuietOK(w), stored' = stored,
         pc'[w] = pc[w], cur'[w] = cur[w], spans'[w] = spans[w], found'[w] = found[w],
         doomed'[w] = doomed[w],
         {h \in hits' : h.traj = cur[w]} = {h \in hits : h.traj = cur[w]},
         \A v \in Workers \ {w} :
           pc'[v] \in Evaluating /\ cur'[v] = cur[w] => pc[v] \in Evaluating /\ cur[v] = cur[w]
  PROVE  QuietOK(w)'
<1>1. RowsOf(cur[w])' = RowsOf(cur[w])
  BY DEF RowsOf
<1> QED BY <1>1 DEF QuietOK

(* So does a statement of v that neither starts an evaluation nor stores. *)
LEMMA QuietElsewhere ==
  ASSUME IInv, QuietInv, NEW v \in Workers, NEW w \in quiet, v # w,
         UNCHANGED <<stored, hits>>,
         \A u \in Workers \ {v} :
           /\ pc'[u] = pc[u] /\ cur'[u] = cur[u] /\ spans'[u] = spans[u]
           /\ found'[u] = found[u] /\ doomed'[u] = doomed[u],
         pc'[v] \in Evaluating => pc[v] \in Evaluating /\ cur'[v] = cur[v]
  PROVE  QuietOK(w)'
<1>1. w \in Workers /\ QuietOK(w)
  BY DEF IInv, TypeOK, QuietInv
<1>2. \A u \in Workers \ {w} :
        pc'[u] \in Evaluating /\ cur'[u] = cur[w] => pc[u] \in Evaluating /\ cur[u] = cur[w]
  OBVIOUS
<1> QED BY <1>1, <1>2, QuietStays

LEMMA QuietReadSpans ==
  ASSUME IInv, QuietInv, NEW v \in Workers, ReadSpans(v) PROVE QuietInv'
<1>1. TypeOK
  BY DEF IInv
<1>2. pc[v] = "next" /\ pc' = [pc EXCEPT ![v] = "baselines"]
      /\ UNCHANGED <<stored, hits, found, doomed, wrote>>
  BY DEF ReadSpans, Goto
<1>3. PICK t \in todo[v] :
        /\ cur' = [cur EXCEPT ![v] = t]
        /\ spans' = [spans EXCEPT ![v] = SpansOf(t, stored)]
        /\ quiet' = IF Evaluators(t) = {} THEN quiet \cup {v} ELSE quiet \ Evaluators(t)
  BY DEF ReadSpans
<1>4. \A u \in Workers \ {v} :
        /\ pc'[u] = pc[u] /\ cur'[u] = cur[u] /\ spans'[u] = spans[u]
  BY <1>1, <1>2, <1>3 DEF TypeOK
<1>5. pc'[v] = "baselines" /\ cur'[v] = t /\ spans'[v] = SpansOf(t, stored)
  BY <1>1, <1>2, <1>3 DEF TypeOK
<1>6. \A u \in quiet : u # v
  BY <1>2 DEF QuietInv, QuietOK, Evaluating
<1> SUFFICES ASSUME NEW w \in quiet' PROVE QuietOK(w)'
  BY DEF QuietInv
<1>7. CASE w = v
  <2>1. Evaluators(t) = {}
    BY <1>3, <1>6, <1>7
  <2>2. \A u \in Workers \ {w} : ~(pc'[u] \in Evaluating /\ cur'[u] = cur'[w])
    BY <1>4, <1>5, <1>7, <2>1 DEF Evaluators
  <2> QED BY <1>2, <1>5, <1>7, <2>2 DEF QuietOK, Evaluating
<1>8. CASE w # v
  <2>1. w \in quiet /\ w \in Workers /\ QuietOK(w)
    BY <1>1, <1>3, <1>8 DEF TypeOK, QuietInv
  <2>2. cur[w] # t
    BY <1>3, <1>8, <2>1 DEF Evaluators, QuietOK
  <2>3. \A u \in Workers \ {w} :
          pc'[u] \in Evaluating /\ cur'[u] = cur[w] => pc[u] \in Evaluating /\ cur[u] = cur[w]
    BY <1>4, <1>5, <2>2
  <2> QED BY <1>2, <1>4, <1>8, <2>1, <2>3, QuietStays
<1> QED BY <1>7, <1>8

(* The statements within an evaluation. *)
LEMMA QuietWithin ==
  ASSUME IInv, QuietInv, NEW v \in Workers,
         ReadBaselines(v) \/ DeleteHits(v) \/ LockHits(v)
  PROVE  QuietInv'
<1>1. TypeOK
  BY DEF IInv
<1>2. /\ UNCHANGED <<stored, hits, cur, spans, quiet>>
      /\ pc[v] \in Evaluating /\ pc'[v] \in Evaluating
      /\ \A u \in Workers \ {v} :
            pc'[u] = pc[u] /\ found'[u] = found[u] /\ doomed'[u] = doomed[u]
  BY <1>1 DEF TypeOK, ReadBaselines, DeleteHits, LockHits, Goto, Evaluating
<1> SUFFICES ASSUME NEW w \in quiet PROVE QuietOK(w)'
  BY <1>2 DEF QuietInv
<1>3. CASE w # v
  BY <1>2, <1>3, QuietElsewhere
<1>4. CASE w = v
  <2>1. QuietOK(v)
    BY <1>4 DEF QuietInv
  <2>2. \A u \in Workers \ {v} : ~(pc'[u] \in Evaluating /\ cur'[u] = cur'[v])
    BY <1>2, <2>1 DEF QuietOK
  <2>3. \A t : RowsOf(t)' = RowsOf(t)
    BY <1>2 DEF RowsOf
  <2>4. CASE ReadBaselines(v)
    <3>1. pc'[v] = "delete" /\ found'[v] = Evaluate(spans[v], stored)
      BY <1>1, <2>4 DEF TypeOK, ReadBaselines, Goto
    <3> QED BY <1>2, <1>4, <2>1, <2>2, <3>1 DEF QuietOK
  <2>5. CASE DeleteHits(v)
    <3>1. pc[v] = "delete" /\ pc'[v] = "wait" /\ found' = found /\ doomed'[v] = RowsOf(cur[v])
      BY <1>1, <2>5 DEF TypeOK, DeleteHits, Goto
    <3> QED BY <1>2, <1>4, <2>1, <2>2, <2>3, <3>1 DEF QuietOK
  <2>6. CASE LockHits(v)
    <3>1. pc[v] = "wait" /\ pc'[v] = "insert" /\ found' = found
          /\ doomed'[v] = doomed[v] \cap hits
      BY <1>1, <2>6 DEF TypeOK, LockHits, Goto
    <3>2. doomed'[v] = RowsOf(cur[v])
      BY <2>1, <3>1 DEF QuietOK, RowsOf
    <3> QED BY <1>2, <1>4, <2>1, <2>2, <2>3, <3>1, <3>2 DEF QuietOK
  <2> QED BY <2>4, <2>5, <2>6
<1> QED BY <1>3, <1>4

(* The end of an evaluation only touches the rows of its trajectory. *)
LEMMA QuietEnd ==
  ASSUME IInv, QuietInv, NEW v \in Workers, NEW rest, EndEvaluation(v, rest),
         stored' = stored,
         \A t : t # cur[v] => {h \in hits' : h.traj = t} = {h \in hits : h.traj = t},
         pc[v] \in Evaluating
  PROVE  QuietInv'
<1>1. TypeOK
  BY DEF IInv
<1>2. /\ quiet' = quiet \ {v} /\ pc'[v] \notin Evaluating
      /\ \A u \in Workers \ {v} :
            /\ pc'[u] = pc[u] /\ cur'[u] = cur[u] /\ spans'[u] = spans[u]
            /\ found'[u] = found[u] /\ doomed'[u] = doomed[u]
  BY <1>1 DEF TypeOK, EndEvaluation, Goto, Evaluating
<1> SUFFICES ASSUME NEW w \in quiet, w # v PROVE QuietOK(w)'
  BY <1>2 DEF QuietInv
<1>3. w \in Workers /\ QuietOK(w)
  BY <1>1 DEF TypeOK, QuietInv
<1>4. cur[w] # cur[v]
  BY <1>3 DEF QuietOK
<1>5. \A u \in Workers \ {w} :
        pc'[u] \in Evaluating /\ cur'[u] = cur[w] => pc[u] \in Evaluating /\ cur[u] = cur[w]
  BY <1>2
<1> QED BY <1>2, <1>3, <1>4, <1>5, QuietStays

LEMMA QuietCommit ==
  ASSUME IInv, QuietInv, NEW v \in Workers, CommitHits(v) PROVE QuietInv'
<1>1. EvaluationOK(v) /\ pc[v] = "insert" /\ EndEvaluation(v, todo[v]) /\ stored' = stored
      /\ hits' = (hits \ doomed[v])
                   \cup {[by |-> v, traj |-> cur[v], hit |-> h] : h \in found[v]}
  BY DEF IInv, Evaluations, CommitHits
<1>2. \A h \in doomed[v] : h.traj = cur[v]
  BY <1>1 DEF EvaluationOK
<1>3. ASSUME NEW t, t # cur[v]
      PROVE  {h \in hits' : h.traj = t} = {h \in hits : h.traj = t}
  BY <1>1, <1>2, <1>3
<1> QED BY <1>1, <1>3, QuietEnd DEF Evaluating

LEMMA QuietStep == IInv /\ QuietInv /\ [Next]_vars => QuietInv'
<1> SUFFICES ASSUME IInv, QuietInv, [Next]_vars PROVE QuietInv'
  OBVIOUS
<1>1. TypeOK
  BY DEF IInv
<1>2. ASSUME NEW r \in Requests, Deliver(r) PROVE QuietInv'
  BY <1>2 DEF Deliver, QuietInv
<1>3. CASE StartBackfill
  <2>1. Backfill \in Workers /\ quiet' = quiet /\ pc[Backfill] = "off"
        /\ pc'[Backfill] \notin Evaluating
        /\ UNCHANGED <<stored, hits, cur, spans, found, doomed>>
        /\ \A u \in Workers \ {Backfill} : pc'[u] = pc[u]
    BY <1>1, <1>3 DEF TypeOK, Workers, StartBackfill, Goto, Evaluating
  <2>2. \A w \in quiet : w # Backfill
    BY <2>1 DEF QuietInv, QuietOK, Evaluating
  <2> SUFFICES ASSUME NEW w \in quiet PROVE QuietOK(w)'
    BY <2>1 DEF QuietInv
  <2> QED BY <2>1, <2>2, QuietElsewhere
<1>4. ASSUME NEW v \in Workers, Step(v) PROVE QuietInv'
  BY <1>4, QuietReadSpans, QuietWithin, QuietCommit DEF Step
<1>5. ASSUME NEW v \in Workers, FailEvaluation(v) PROVE QuietInv'
  <2>1. PICK rest : EndEvaluation(v, rest)
    BY <1>5 DEF FailEvaluation
  <2>2. pc[v] \in Evaluating /\ UNCHANGED <<stored, hits>>
    BY <1>5 DEF FailEvaluation
  <2> QED BY <2>1, <2>2, QuietEnd
<1>6. CASE Crash
  <2>1. UNCHANGED <<stored, hits>> /\ quiet' = quiet \ Running
    BY <1>6 DEF Crash
  <2>2. \A u \in Running : pc'[u] \notin Evaluating
    BY <1>6 DEF Crash, Running, Workers, Evaluating
  <2>3. \A u \in Workers \ Running :
          /\ pc'[u] = pc[u] /\ cur'[u] = cur[u] /\ spans'[u] = spans[u]
          /\ found'[u] = found[u] /\ doomed'[u] = doomed[u]
    BY <1>6 DEF Crash
  <2> SUFFICES ASSUME NEW w \in quiet \ Running PROVE QuietOK(w)'
    BY <2>1 DEF QuietInv
  <2>4. w \in Workers /\ QuietOK(w)
    BY <1>1 DEF TypeOK, QuietInv
  <2>5. \A u \in Workers \ {w} :
          pc'[u] \in Evaluating /\ cur'[u] = cur[w] => pc[u] \in Evaluating /\ cur[u] = cur[w]
    BY <2>2, <2>3
  <2> QED BY <2>1, <2>3, <2>4, <2>5, QuietStays
<1>7. CASE UNCHANGED vars
  BY <1>7 DEF vars, workVars, QuietInv, QuietOK, RowsOf
<1> QED BY <1>2, <1>3, <1>4, <1>5, <1>6, <1>7 DEF Next, Done

(* Only a commit changes the hits: that of the worker whose statement it was. *)
LEMMA QuietRepair ==
  IInv /\ QuietInv /\ [Next]_vars => [\A w \in Workers : Repairs(w)]_vars
<1> SUFFICES ASSUME IInv, QuietInv, Next, NEW w \in Workers, pc[w] = "insert",
                    pc'[w] \in {"next", "done"}, hits' # hits, w \in quiet
             PROVE  /\ {h.hit : h \in {x \in hits' : x.traj = cur[w]}}
                          = Evaluate(SpansOf(cur[w], stored), stored)
                    /\ \A h \in {x \in hits' : x.traj = cur[w]} : h.by = w
  BY DEF Repairs, Done
<1>1. PICK v \in Workers : CommitHits(v)
  BY DEF Next, Step, Deliver, StartBackfill, ReadSpans, ReadBaselines, DeleteHits, LockHits,
     FailEvaluation, Crash, Done, vars
<1>2. v = w
  BY <1>1 DEF CommitHits, EndEvaluation, Goto, IInv, TypeOK
<1>3. QuietOK(w)
  BY DEF QuietInv
<1>4. hits' = (hits \ RowsOf(cur[w]))
                \cup {[by |-> w, traj |-> cur[w], hit |-> h] : h \in found[w]}
  BY <1>1, <1>2, <1>3 DEF CommitHits, QuietOK
<1>5. {x \in hits' : x.traj = cur[w]} = {[by |-> w, traj |-> cur[w], hit |-> h] : h \in found[w]}
  BY <1>4 DEF RowsOf
<1>6. found[w] = Evaluate(SpansOf(cur[w], stored), stored)
  BY <1>3 DEF QuietOK
<1>7. ASSUME NEW h \in found[w]
      PROVE  h \in {x.hit : x \in {[by |-> w, traj |-> cur[w], hit |-> g] : g \in found[w]}}
  <2> DEFINE row == [by |-> w, traj |-> cur[w], hit |-> h]
  <2>1. row \in {[by |-> w, traj |-> cur[w], hit |-> g] : g \in found[w]} /\ row.hit = h
    BY <1>7
  <2> QED BY <2>1
<1>8. {x.hit : x \in {[by |-> w, traj |-> cur[w], hit |-> g] : g \in found[w]}} = found[w]
  BY <1>7
<1> QED BY <1>5, <1>6, <1>8

-----------------------------------------------------------------------------
(* The inductive invariant holds in every reachable state. *)
THEOREM Invariance == Spec => []IInv
BY InitInv, StepInv, PTL DEF Spec

(* Every variable keeps its type. *)
THEOREM TypeCorrect == Spec => []TypeOK
<1>1. IInv => TypeOK
  BY DEF IInv
<1> QED BY <1>1, Invariance, PTL

(* The rows one evaluation stored for a trajectory are all there or all    *)
(* gone, however evaluations delete and insert around each other.          *)
THEOREM HitsAreNeverTorn == Spec => []NeverTorn
<1>1. IInv => NeverTorn
  BY DEF IInv
<1> QED BY <1>1, Invariance, PTL

(* Hits name stored spans of their own trajectory only. *)
THEOREM HitsNameStoredSpans == Spec => []HitsAreGrounded
<1>1. IInv => HitsAreGrounded
  BY DEF IInv
<1> QED BY <1>1, Invariance, PTL

(* The task of a batch evaluates spans that include the batch. *)
THEOREM TasksSeeTheirBatch == Spec => []SeesItsBatch
<1>1. IInv => SeesItsBatch
  BY DEF IInv
<1> QED BY <1>1, Invariance, PTL

(* An evaluation nothing overlapped leaves exactly the hits of the stored  *)
(* spans, whatever was there before.                                       *)
THEOREM QuietEvaluationsRepair == Spec => QuietEvaluationRepairs
<1>1. Init => QuietInv
  BY DEF Init, QuietInv
<1> QED
  BY <1>1, InitInv, StepInv, QuietStep, QuietRepair, PTL DEF Spec, QuietEvaluationRepairs
=============================================================================
