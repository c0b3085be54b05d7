----------------------------- MODULE Heuristics -----------------------------
(***************************************************************************)
(* The evaluation of heuristics after ingest.                              *)
(*                                                                         *)
(* Every committed POST /v1/traces starts an asyncio task that evaluates   *)
(* the trajectories of the batch one after the other                       *)
(* (api/app/ingest/hook.py); the backfill command, a process of its own,   *)
(* evaluates them all.  One evaluation is one transaction: it reads the    *)
(* spans and the baselines, deletes the trajectory's heuristic_hits, and   *)
(* inserts what the heuristics return (api/app/heuristics/engine.py).      *)
(* Nothing orders the evaluations of one trajectory.                       *)
(*                                                                         *)
(* Under READ COMMITTED the DELETE finds the rows committed when it        *)
(* starts, waits for the transactions that are deleting some of them, and  *)
(* does not see what those insert in their place.                          *)
(***************************************************************************)
EXTENDS Integers, FiniteSets

CONSTANTS
  Spans, Trajs, Requests,
  Backfill,       \* the backfill process
  TrajOf, Body,   \* as in Ingest
  Tools, Llms,    \* the spans of these kinds
  Failed,         \* tool spans with status ERROR
  Call,           \* what a tool span called: kind, name and arguments
  Start,          \* start times; llm spans of one trajectory have different ones
  Wordless,       \* llm spans without response text
  Apologetic,     \* llm spans whose text matches an apology phrase
  Doubtful,       \* llm spans that refuse, or whose text is short
  LoopThreshold,  \* so many equal calls are a loop
  Slow(_, _),     \* Slow(s, B): is s an outlier against the baselines of B?
  None

Workers == Requests \cup {Backfill}

ASSUME WorkAssumption ==
  /\ TrajOf \in [Spans -> Trajs]
  /\ Body \in [Requests -> (SUBSET Spans) \ {{}}]
  /\ Backfill \notin Requests
  /\ Tools \subseteq Spans /\ Llms \subseteq Spans
  /\ None \notin Trajs

Slugs == {"tool_error", "latency_outlier", "apology_phrase", "loop", "low_confidence"}

(* A hit: the heuristic and the spans it was found on.  The details of a   *)
(* latency outlier hold a tool and its times, the others name the spans.   *)
Hit == [slug : Slugs, of : SUBSET Spans]

(* A heuristic_hits row.  Its key is fresh: two evaluations that return    *)
(* equal hits store two rows.                                              *)
HitRow == [by : Workers, traj : Trajs, hit : Hit]

VARIABLES
  stored,  \* committed spans
  hits,    \* committed heuristic_hits rows
  pc,      \* the next statement of a worker
  todo,    \* the trajectories a worker still has to evaluate
  cur,     \* the trajectory it is evaluating
  spans,   \* the spans it read
  found,   \* the hits the heuristics returned
  doomed,  \* the rows its DELETE found
  wrote,   \* history: the hits a worker committed for a trajectory
  quiet    \* history: workers whose evaluation nothing has overlapped yet

workVars == <<pc, todo, cur, spans, found, doomed, wrote, quiet>>
vars == <<stored, hits, workVars>>

Evaluating == {"baselines", "delete", "wait", "insert"}
TrajsOf(S) == {TrajOf[s] : s \in S}
SpansOf(t, S) == {s \in S : TrajOf[s] = t}
RowsOf(t) == {h \in hits : h.traj = t}

TypeOK ==
  /\ stored \subseteq Spans
  /\ hits \subseteq HitRow
  /\ pc \in [Workers -> {"off", "next", "done", "lost"} \cup Evaluating]
  /\ todo \in [Workers -> SUBSET Trajs]
  /\ cur \in [Workers -> Trajs \cup {None}]
  /\ spans \in [Workers -> SUBSET Spans]
  /\ found \in [Workers -> SUBSET Hit]
  /\ doomed \in [Workers -> SUBSET HitRow]
  /\ wrote \in [Workers -> [Trajs -> SUBSET Hit]]
  /\ quiet \subseteq Workers

Init ==
  /\ stored = {} /\ hits = {}
  /\ pc = [w \in Workers |-> "off"]
  /\ todo = [w \in Workers |-> {}]
  /\ cur = [w \in Workers |-> None]
  /\ spans = [w \in Workers |-> {}]
  /\ found = [w \in Workers |-> {}]
  /\ doomed = [w \in Workers |-> {}]
  /\ wrote = [w \in Workers |-> [t \in Trajs |-> {}]]
  /\ quiet = {}

-----------------------------------------------------------------------------
(* The heuristics: functions of the spans S of one trajectory, and of the  *)
(* spans B the latency baselines were computed from.                       *)

(* Mutant: a slug the product does not know. *)
ToolErrors_Misnamed(S) == {[slug |-> "tool_failure", of |-> {s}] : s \in S \cap Tools \cap Failed}

ToolErrors(S) == {[slug |-> "tool_error", of |-> {s}] : s \in S \cap Tools \cap Failed}

Repeats(s, S) == {x \in S \cap Tools : Call[x] = Call[s]}

Loops(S) ==
  {[slug |-> "loop", of |-> Repeats(s, S)] :
     s \in {x \in S \cap Tools : Cardinality(Repeats(x, S)) >= LoopThreshold}}

Outliers(S, B) ==
  {[slug |-> "latency_outlier", of |-> {s}] : s \in {x \in S \cap Tools : Slow(x, B)}}

(* The spans come ordered by their start: the last of them. *)
Latest(S) == {s \in S : \A x \in S : Start[x] <= Start[s]}

Apologies(S) ==
  {[slug |-> "apology_phrase", of |-> {s}] :
     s \in Latest((S \cap Llms) \ Wordless) \cap Apologetic}

Doubts(S) ==
  {[slug |-> "low_confidence", of |-> {s}] : s \in Latest(S \cap Llms) \cap Doubtful}

Evaluate(S, B) ==
  ToolErrors(S) \cup Outliers(S, B) \cup Apologies(S) \cup Loops(S) \cup Doubts(S)

-----------------------------------------------------------------------------
Goto(w, step) == pc' = [pc EXCEPT ![w] = step]

(* The workers inside an evaluation of t. *)
Evaluators(t) == {v \in Workers : pc[v] \in Evaluating /\ cur[v] = t}

(* Mutant: the task is scheduled and the batch never committed. *)
Deliver_Early(r) ==
  /\ pc[r] = "off"
  /\ todo' = [todo EXCEPT ![r] = TrajsOf(Body[r])]
  /\ Goto(r, "next")
  /\ quiet' = {}
  /\ UNCHANGED <<stored, hits, cur, spans, found, doomed, wrote>>

(* The commit of a batch, and the task scheduled after it.  What ingest    *)
(* writes is the subject of Ingest; evaluations read its spans only.       *)
Deliver(r) ==
  /\ pc[r] = "off"
  /\ stored' = stored \cup Body[r]
  /\ todo' = [todo EXCEPT ![r] = TrajsOf(Body[r])]
  /\ Goto(r, "next")
  /\ quiet' = {}
  /\ UNCHANGED <<hits, cur, spans, found, doomed, wrote>>

(* python -m app.cli.backfill_heuristics: every trajectory there is. *)
StartBackfill ==
  /\ pc[Backfill] = "off"
  /\ todo' = [todo EXCEPT ![Backfill] = TrajsOf(stored)]
  /\ Goto(Backfill, IF stored = {} THEN "done" ELSE "next")
  /\ UNCHANGED <<stored, hits, cur, spans, found, doomed, wrote, quiet>>

(* Mutant: the SELECT lost its WHERE trajectory_id. *)
ReadSpans_Unfiltered(w) ==
  /\ pc[w] = "next"
  /\ \E t \in todo[w] :
       /\ todo' = [todo EXCEPT ![w] = @ \ {t}]
       /\ cur' = [cur EXCEPT ![w] = t]
       /\ spans' = [spans EXCEPT ![w] = stored]
       /\ quiet' = IF Evaluators(t) = {} THEN quiet \cup {w} ELSE quiet \ Evaluators(t)
  /\ Goto(w, "baselines")
  /\ UNCHANGED <<stored, hits, found, doomed, wrote>>

(* The next trajectory of the list, in set order: any.  The trajectory row *)
(* is there, as a span never exists without one.                           *)
ReadSpans(w) ==
  /\ pc[w] = "next"
  /\ \E t \in todo[w] :
       /\ todo' = [todo EXCEPT ![w] = @ \ {t}]
       /\ cur' = [cur EXCEPT ![w] = t]
       /\ spans' = [spans EXCEPT ![w] = SpansOf(t, stored)]
       /\ quiet' = IF Evaluators(t) = {} THEN quiet \cup {w} ELSE quiet \ Evaluators(t)
  /\ Goto(w, "baselines")
  /\ UNCHANGED <<stored, hits, found, doomed, wrote>>

(* The SELECT of compute_p95_baselines, then the heuristics. *)
ReadBaselines(w) ==
  /\ pc[w] = "baselines"
  /\ found' = [found EXCEPT ![w] = Evaluate(spans[w], stored)]
  /\ Goto(w, "delete")
  /\ UNCHANGED <<stored, hits, todo, cur, spans, doomed, wrote, quiet>>

(* Mutant: hits that were found again are not deleted. *)
DeleteHits_Stale(w) ==
  /\ pc[w] = "delete"
  /\ doomed' = [doomed EXCEPT ![w] = {h \in RowsOf(cur[w]) : h.hit \notin found[w]}]
  /\ Goto(w, "wait")
  /\ UNCHANGED <<stored, hits, todo, cur, spans, found, wrote, quiet>>

(* Mutant: nothing is deleted. *)
DeleteHits_Nothing(w) ==
  /\ pc[w] = "delete"
  /\ Goto(w, "wait")
  /\ UNCHANGED <<stored, hits, todo, cur, spans, found, doomed, wrote, quiet>>

(* DELETE FROM heuristic_hits WHERE trajectory_id = ...: its snapshot. *)
DeleteHits(w) ==
  /\ pc[w] = "delete"
  /\ doomed' = [doomed EXCEPT ![w] = RowsOf(cur[w])]
  /\ Goto(w, "wait")
  /\ UNCHANGED <<stored, hits, todo, cur, spans, found, wrote, quiet>>

(* The DELETE has every row to itself; rows others deleted meanwhile are   *)
(* skipped.                                                                *)
Deleting(v) == IF pc[v] = "insert" THEN doomed[v] ELSE {}

LockHits(w) ==
  /\ pc[w] = "wait"
  /\ \A v \in Workers \ {w} : Deleting(v) \cap doomed[w] = {}
  /\ doomed' = [doomed EXCEPT ![w] = @ \cap hits]
  /\ Goto(w, "insert")
  /\ UNCHANGED <<stored, hits, todo, cur, spans, found, wrote, quiet>>

(* The evaluation is over; the worker takes up `rest` next. *)
EndEvaluation(w, rest) ==
  /\ todo' = [todo EXCEPT ![w] = rest]
  /\ cur' = [cur EXCEPT ![w] = None]
  /\ spans' = [spans EXCEPT ![w] = {}]
  /\ found' = [found EXCEPT ![w] = {}]
  /\ doomed' = [doomed EXCEPT ![w] = {}]
  /\ quiet' = quiet \ {w}
  /\ Goto(w, IF rest = {} THEN "done" ELSE "next")

(* The INSERTs and the COMMIT. *)
CommitHits(w) ==
  /\ pc[w] = "insert"
  /\ hits' = (hits \ doomed[w])
               \cup {[by |-> w, traj |-> cur[w], hit |-> h] : h \in found[w]}
  /\ wrote' = [wrote EXCEPT ![w][cur[w]] = found[w]]
  /\ EndEvaluation(w, todo[w])
  /\ UNCHANGED stored

(* Mutant: a failed evaluation is put back on the list. *)
FailEvaluation_Retries(w) ==
  /\ pc[w] \in Evaluating
  /\ EndEvaluation(w, todo[w] \cup {cur[w]})
  /\ UNCHANGED <<stored, hits, wrote>>

(* An evaluation raises: it is rolled back.  The task logs it and goes on  *)
(* with the next trajectory; the backfill stops.                           *)
FailEvaluation(w) ==
  /\ pc[w] \in Evaluating
  /\ EndEvaluation(w, IF w = Backfill THEN {} ELSE todo[w])
  /\ UNCHANGED <<stored, hits, wrote>>

(* The API process dies, and its tasks with it: nothing else remembers     *)
(* that they were due.                                                     *)
Running == {r \in Requests : pc[r] \in Evaluating \cup {"next"}}

Crash ==
  /\ Running # {}
  /\ pc' = [w \in Workers |-> IF w \in Running THEN "lost" ELSE pc[w]]
  /\ todo' = [w \in Workers |-> IF w \in Running THEN {} ELSE todo[w]]
  /\ cur' = [w \in Workers |-> IF w \in Running THEN None ELSE cur[w]]
  /\ spans' = [w \in Workers |-> IF w \in Running THEN {} ELSE spans[w]]
  /\ found' = [w \in Workers |-> IF w \in Running THEN {} ELSE found[w]]
  /\ doomed' = [w \in Workers |-> IF w \in Running THEN {} ELSE doomed[w]]
  /\ quiet' = quiet \ Running
  /\ UNCHANGED <<stored, hits, wrote>>

(* Everything delivered has been evaluated, or was lost. *)
Done ==
  /\ \A w \in Workers : pc[w] \in {"done", "lost"}
  /\ UNCHANGED vars

Step(w) ==
  \/ ReadSpans(w) \/ ReadBaselines(w) \/ DeleteHits(w) \/ LockHits(w)
  \/ CommitHits(w)

Next ==
  \/ \E r \in Requests : Deliver(r)
  \/ StartBackfill
  \/ \E w \in Workers : Step(w) \/ FailEvaluation(w)
  \/ Crash
  \/ Done

(* The event loop runs its tasks; nobody promises a crash, a failure, a    *)
(* batch or a backfill.                                                    *)
Spec == Init /\ [][Next]_vars /\ \A w \in Workers : WF_vars(Step(w))

-----------------------------------------------------------------------------
(* The rows one evaluation stored for a trajectory stay together: a reader *)
(* finds all of them or none, also when two evaluations delete and insert  *)
(* around each other.                                                      *)
NeverTorn ==
  \A w \in Workers, t \in Trajs :
    {h.hit : h \in {x \in hits : x.by = w /\ x.traj = t}} \in {{}, wrote[w][t]}

(* A hit only names stored spans of the trajectory it is filed under.      *)
HitsAreGrounded == \A h \in hits : h.hit.of \subseteq SpansOf(h.traj, stored)

(* The evaluation a batch triggers sees that batch, as it is scheduled     *)
(* after the commit.                                                       *)
SeesItsBatch ==
  \A r \in Requests :
    pc[r] \in Evaluating => SpansOf(cur[r], Body[r]) \subseteq spans[r]

(* Evaluating again repairs: when neither a batch nor another evaluation   *)
(* of the trajectory came between, the hits are exactly those of the       *)
(* stored spans, whatever duplicates or stale hits were there.             *)
Repairs(w) ==
  pc[w] = "insert" /\ pc'[w] \in {"next", "done"} /\ hits' # hits /\ w \in quiet =>
    LET rows == {h \in hits' : h.traj = cur[w]} IN
    /\ {h.hit : h \in rows} = Evaluate(SpansOf(cur[w], stored), stored)
    /\ \A h \in rows : h.by = w

QuietEvaluationRepairs == [][\A w \in Workers : Repairs(w)]_vars

(* No task waits for ever: waits for row locks form no cycle.              *)
EveryTaskEnds ==
  \A w \in Workers : pc[w] = "next" ~> pc[w] \in {"done", "lost"}

(* "Running the engine twice should not duplicate hits."                   *)
(* (api/tests/heuristics/test_engine.py:29)                                *)
NoDuplicateHits ==
  \A g, h \in hits : g.traj = h.traj /\ g.hit = h.hit => g = h
=============================================================================
