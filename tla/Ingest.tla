------------------------------- MODULE Ingest -------------------------------
(***************************************************************************)
(* OTLP ingest: POST /v1/traces writes one batch of spans, and the         *)
(* trajectories they belong to, in one database transaction                *)
(* (api/app/otlp/receiver.py, api/app/otlp/ingest.py).                     *)
(*                                                                         *)
(* The database is Postgres under READ COMMITTED.  A transaction sees what *)
(* is committed when each statement starts, plus its own writes; a written *)
(* row is locked until the transaction ends; an UPDATE applies the columns *)
(* the session found changed to the newest version of the row.  Every SQL  *)
(* statement of a request is one step here, so any interleaving of         *)
(* requests at statement granularity is a behaviour.                       *)
(*                                                                         *)
(* Data abstraction.  The columns step_count, token_count, input_tokens    *)
(* and output_tokens are sums over one SELECT of the trajectory's spans:   *)
(* `counted` is the set of spans that SELECT returned.  `name` stands for  *)
(* each column filled by the first span that has a value (name,            *)
(* environment, agent_version_id).  Times are integers.                    *)
(***************************************************************************)
EXTENDS Integers, FiniteSets

CONSTANTS
  Spans,          \* span ids
  Trajs,          \* trajectory ids
  Requests,       \* deliveries of a batch; a retry is a request with the same body
  Names,
  TrajOf,         \* the trajectory of a span: its attribute or its trace id
  Start,          \* start time of a span
  End,            \* end time of a span, None when the exporter left it 0
  Name,           \* trajectory name a span carries, or None
  Body,           \* the spans of a request
  MaxConcurrent,  \* bound: how many requests are in flight at once
  None,           \* SQL NULL
  NoRow           \* no such row

Row == [started : Int, ended : Int \cup {None}, name : Names \cup {None},
        counted : SUBSET Spans, duration : Int \cup {None}]

ASSUME DataAssumption ==
  /\ TrajOf \in [Spans -> Trajs]
  /\ Start \in [Spans -> Int]
  /\ End \in [Spans -> Int \cup {None}]
  /\ Name \in [Spans -> Names \cup {None}]
  /\ Body \in [Requests -> (SUBSET Spans) \ {{}}]
  /\ MaxConcurrent \in Nat \ {0}
ASSUME NullAssumption ==
  /\ None \notin Int
  /\ None \notin Names
  /\ NoRow \notin Row

VARIABLES
  rows,    \* committed trajectories rows
  stored,  \* committed spans rows
  pc,      \* the statement a request executes next
  todo,    \* spans of the body not yet handled
  cur,     \* the span being handled
  due,     \* trajectories whose totals are not yet recomputed
  target,  \* the trajectory being recomputed
  seen,    \* the trajectories row as the session last SELECTed it
  count,   \* the spans the recompute SELECTed
  own,     \* a transaction's uncommitted rows; it holds their locks
  put,     \* a transaction's uncommitted spans; it holds their locks
  solo     \* history: requests that never overlapped another one

sessionVars == <<pc, todo, cur, due, target, seen, count, own, put, solo>>
vars == <<rows, stored, sessionVars>>

Statements == {"insert", "read", "write", "span", "count", "total", "flush", "commit"}
Outcomes == {"ok", "failed"}
Active == {r \in Requests : pc[r] \in Statements}
NoRows == [t \in Trajs |-> NoRow]
TrajsOf(S) == {TrajOf[s] : s \in S}
SpansOf(t, S) == {s \in S : TrajOf[s] = t}

TypeOK ==
  /\ rows \in [Trajs -> Row \cup {NoRow}]
  /\ stored \subseteq Spans
  /\ pc \in [Requests -> Statements \cup Outcomes \cup {"idle"}]
  /\ todo \in [Requests -> SUBSET Spans]
  /\ cur \in [Requests -> Spans \cup {None}]
  /\ due \in [Requests -> SUBSET Trajs]
  /\ target \in [Requests -> Trajs \cup {None}]
  /\ seen \in [Requests -> Row \cup {NoRow}]
  /\ count \in [Requests -> SUBSET Spans]
  /\ own \in [Requests -> [Trajs -> Row \cup {NoRow}]]
  /\ put \in [Requests -> SUBSET Spans]
  /\ solo \subseteq Requests

Init ==
  /\ rows = NoRows
  /\ stored = {}
  /\ pc = [r \in Requests |-> "idle"]
  /\ todo = [r \in Requests |-> {}]
  /\ cur = [r \in Requests |-> None]
  /\ due = [r \in Requests |-> {}]
  /\ target = [r \in Requests |-> None]
  /\ seen = [r \in Requests |-> NoRow]
  /\ count = [r \in Requests |-> {}]
  /\ own = [r \in Requests |-> NoRows]
  /\ put = [r \in Requests |-> {}]
  /\ solo = {}

-----------------------------------------------------------------------------
(* What a statement of request r sees and what it waits for. *)

View(r, t) == IF own[r][t] # NoRow THEN own[r][t] ELSE rows[t]

VisibleSpans(r) == stored \cup put[r]

Holders(r, t) == {q \in Requests \ {r} : own[q][t] # NoRow}

(* Mutant: a trajectory without a name is called by its id. *)
FreshRow_IdAsName(s) ==
  [started |-> Start[s], ended |-> End[s],
   name |-> IF Name[s] = None THEN TrajOf[s] ELSE Name[s],
   counted |-> {}, duration |-> None]

(* Mutant: an unset end time is replaced by the start time. *)
FreshRow_AlwaysEnded(s) ==
  [started |-> Start[s], ended |-> IF End[s] = None THEN Start[s] ELSE End[s],
   name |-> Name[s], counted |-> {}, duration |-> None]

(* The row the first span of a trajectory creates. *)
FreshRow(s) ==
  [started |-> Start[s], ended |-> End[s], name |-> Name[s],
   counted |-> {}, duration |-> None]

(* Mutant: the span handled last ends the trajectory. *)
Extends_LastWins(s, old) == End[s] # None

Extends(s, old) ==
  End[s] # None /\ (IF old.ended = None THEN TRUE ELSE End[s] > old.ended)

(* The columns the session changes after comparing span s with the row it  *)
(* read, `old`, applied to the row as the UPDATE finds it, `new`.          *)
Widen(new, old, s) ==
  [new EXCEPT
    !.started = IF Start[s] < old.started THEN Start[s] ELSE @,
    !.ended   = IF Extends(s, old) THEN End[s] ELSE @,
    !.name    = IF Name[s] # None /\ old.name = None THEN Name[s] ELSE @]

DurationOf(row) ==
  IF row.ended # None THEN row.ended - row.started ELSE row.duration

(* Likewise for the totals, from the spans S the session selected. *)
Retotal(new, old, S) ==
  [new EXCEPT
    !.counted  = IF S # old.counted THEN S ELSE @,
    !.duration = IF DurationOf(old) # old.duration THEN DurationOf(old) ELSE @]

Writes(r) == \* does the pending flush of r emit an UPDATE?
  \/ pc[r] = "write" /\ Widen(seen[r], seen[r], cur[r]) # seen[r]
  \/ pc[r] = "flush" /\ Retotal(seen[r], seen[r], count[r]) # seen[r]

(* Mutant: the totals are written without the row lock. *)
Blockers_UnlockedTotals(r) ==
  CASE pc[r] = "insert" ->
         IF View(r, TrajOf[cur[r]]) = NoRow THEN Holders(r, TrajOf[cur[r]]) ELSE {}
    [] pc[r] = "write" ->
         IF Writes(r) THEN Holders(r, TrajOf[cur[r]]) ELSE {}
    [] pc[r] = "span" -> {q \in Requests \ {r} : cur[r] \in put[q]}
    [] OTHER -> {}

(* The transactions whose end the next statement of r waits for. *)
Blockers(r) ==
  CASE pc[r] = "insert" ->
         IF View(r, TrajOf[cur[r]]) = NoRow THEN Holders(r, TrajOf[cur[r]]) ELSE {}
    [] pc[r] = "write" ->
         IF Writes(r) THEN Holders(r, TrajOf[cur[r]]) ELSE {}
    [] pc[r] = "span" -> {q \in Requests \ {r} : cur[r] \in put[q]}
    [] pc[r] = "flush" -> IF Writes(r) THEN Holders(r, target[r]) ELSE {}
    [] OTHER -> {}

At(r, step) == pc[r] = step /\ Blockers(r) = {}

Goto(r, step) == pc' = [pc EXCEPT ![r] = step]

-----------------------------------------------------------------------------
(* The client delivers r, for the first time or again.  The order of the   *)
(* spans in a body is the order in which the exporter queued them: any.    *)
Post(r) ==
  /\ pc[r] = "idle"
  /\ Cardinality(Active) < MaxConcurrent
  /\ Goto(r, "insert")
  /\ \E s \in Body[r] :
       /\ cur' = [cur EXCEPT ![r] = s]
       /\ todo' = [todo EXCEPT ![r] = Body[r] \ {s}]
  /\ solo' = IF Active = {} THEN solo \cup {r} ELSE solo \ Active
  /\ UNCHANGED <<rows, stored, due, target, seen, count, own, put>>

(* Mutant: the trajectory is created in a transaction of its own. *)
InsertRow_Autocommits(r) ==
  LET t == TrajOf[cur[r]] IN
  /\ At(r, "insert")
  /\ rows' = IF View(r, t) = NoRow THEN [rows EXCEPT ![t] = FreshRow(cur[r])] ELSE rows
  /\ Goto(r, "read")
  /\ UNCHANGED <<stored, todo, cur, due, target, seen, count, own, put, solo>>

(* INSERT ... ON CONFLICT DO NOTHING: waits for an uncommitted insert of   *)
(* the same trajectory, and does nothing when the row exists.              *)
InsertRow(r) ==
  LET t == TrajOf[cur[r]] IN
  /\ At(r, "insert")
  /\ own' = IF View(r, t) = NoRow
            THEN [own EXCEPT ![r][t] = FreshRow(cur[r])] ELSE own
  /\ Goto(r, "read")
  /\ UNCHANGED <<rows, stored, todo, cur, due, target, seen, count, put, solo>>

(* session.get: the row as committed now, or as this transaction left it. *)
ReadRow(r) ==
  /\ At(r, "read")
  /\ seen' = [seen EXCEPT ![r] = View(r, TrajOf[cur[r]])]
  /\ Goto(r, "write")
  /\ UNCHANGED <<rows, stored, todo, cur, due, target, count, own, put, solo>>

(* The comparisons with the row read, flushed by the next statement. *)
WriteRow(r) ==
  LET t == TrajOf[cur[r]] IN
  /\ At(r, "write")
  /\ own' = IF Writes(r)
            THEN [own EXCEPT ![r][t] = Widen(View(r, t), seen[r], cur[r])]
            ELSE own
  /\ seen' = [seen EXCEPT ![r] = NoRow]
  /\ Goto(r, "span")
  /\ UNCHANGED <<rows, stored, todo, cur, due, target, count, put, solo>>

(* Mutant: only the last span of the batch reaches the transaction. *)
UpsertSpan_KeepsLast(r) ==
  /\ At(r, "span")
  /\ put' = [put EXCEPT ![r] = {cur[r]}]
  /\ \/ \E s \in todo[r] :
          /\ cur' = [cur EXCEPT ![r] = s]
          /\ todo' = [todo EXCEPT ![r] = @ \ {s}]
          /\ Goto(r, "insert")
          /\ UNCHANGED due
     \/ /\ todo[r] = {}
        /\ due' = [due EXCEPT ![r] = TrajsOf(Body[r])]
        /\ cur' = [cur EXCEPT ![r] = None]
        /\ Goto(r, "count")
        /\ UNCHANGED todo
  /\ UNCHANGED <<rows, stored, target, seen, count, own, solo>>

(* INSERT ... ON CONFLICT (span_id) DO UPDATE, then on to the next span,   *)
(* or to the totals of every trajectory the batch touched.                 *)
UpsertSpan(r) ==
  /\ At(r, "span")
  /\ put' = [put EXCEPT ![r] = @ \cup {cur[r]}]
  /\ \/ \E s \in todo[r] :
          /\ cur' = [cur EXCEPT ![r] = s]
          /\ todo' = [todo EXCEPT ![r] = @ \ {s}]
          /\ Goto(r, "insert")
          /\ UNCHANGED due
     \/ /\ todo[r] = {}
        /\ due' = [due EXCEPT ![r] = TrajsOf(Body[r])]
        /\ cur' = [cur EXCEPT ![r] = None]
        /\ Goto(r, "count")
        /\ UNCHANGED todo
  /\ UNCHANGED <<rows, stored, target, seen, count, own, solo>>

(* Mutant: the SELECT of the recompute lost its WHERE trajectory_id. *)
SelectSpans_Unfiltered(r) ==
  /\ At(r, "count")
  /\ \E t \in due[r] :
       /\ target' = [target EXCEPT ![r] = t]
       /\ due' = [due EXCEPT ![r] = @ \ {t}]
       /\ count' = [count EXCEPT ![r] = VisibleSpans(r)]
  /\ Goto(r, "total")
  /\ UNCHANGED <<rows, stored, todo, cur, seen, own, put, solo>>

(* Mutant: the totals are those of the batch, not of the trajectory. *)
SelectSpans_BatchOnly(r) ==
  /\ At(r, "count")
  /\ \E t \in due[r] :
       /\ target' = [target EXCEPT ![r] = t]
       /\ due' = [due EXCEPT ![r] = @ \ {t}]
       /\ count' = [count EXCEPT ![r] = SpansOf(t, put[r])]
  /\ Goto(r, "total")
  /\ UNCHANGED <<rows, stored, todo, cur, seen, own, put, solo>>

(* recompute_totals takes the touched trajectories in set order: any. *)
SelectSpans(r) ==
  /\ At(r, "count")
  /\ \E t \in due[r] :
       /\ target' = [target EXCEPT ![r] = t]
       /\ due' = [due EXCEPT ![r] = @ \ {t}]
       /\ count' = [count EXCEPT ![r] = SpansOf(t, VisibleSpans(r))]
  /\ Goto(r, "total")
  /\ UNCHANGED <<rows, stored, todo, cur, seen, own, put, solo>>

ReadTotals(r) ==
  /\ At(r, "total")
  /\ seen' = [seen EXCEPT ![r] = View(r, target[r])]
  /\ Goto(r, "flush")
  /\ UNCHANGED <<rows, stored, todo, cur, due, target, count, own, put, solo>>

(* The new totals, flushed by the next SELECT or by the commit. *)
FlushTotals(r) ==
  LET t == target[r] IN
  /\ At(r, "flush")
  /\ own' = IF Writes(r)
            THEN [own EXCEPT ![r][t] = Retotal(View(r, t), seen[r], count[r])]
            ELSE own
  /\ target' = [target EXCEPT ![r] = None]
  /\ seen' = [seen EXCEPT ![r] = NoRow]
  /\ count' = [count EXCEPT ![r] = {}]
  /\ Goto(r, IF due[r] = {} THEN "commit" ELSE "count")
  /\ UNCHANGED <<rows, stored, todo, cur, due, put, solo>>

(* Mutant: a failed session is not rolled back and keeps its locks. *)
EndSession_Leaks(r, outcome) ==
  /\ Goto(r, outcome)
  /\ own' = [own EXCEPT ![r] = IF outcome = "failed" THEN @ ELSE NoRows]
  /\ put' = [put EXCEPT ![r] = IF outcome = "failed" THEN @ ELSE {}]
  /\ todo' = [todo EXCEPT ![r] = {}]
  /\ cur' = [cur EXCEPT ![r] = None]
  /\ due' = [due EXCEPT ![r] = {}]
  /\ target' = [target EXCEPT ![r] = None]
  /\ seen' = [seen EXCEPT ![r] = NoRow]
  /\ count' = [count EXCEPT ![r] = {}]
  /\ UNCHANGED solo

(* The session of r is over: its private state and its locks are gone. *)
EndSession(r, outcome) ==
  /\ Goto(r, outcome)
  /\ own' = [own EXCEPT ![r] = NoRows]
  /\ put' = [put EXCEPT ![r] = {}]
  /\ todo' = [todo EXCEPT ![r] = {}]
  /\ cur' = [cur EXCEPT ![r] = None]
  /\ due' = [due EXCEPT ![r] = {}]
  /\ target' = [target EXCEPT ![r] = None]
  /\ seen' = [seen EXCEPT ![r] = NoRow]
  /\ count' = [count EXCEPT ![r] = {}]
  /\ UNCHANGED solo

(* COMMIT, then 200. *)
Commit(r) ==
  /\ At(r, "commit")
  /\ rows' = [t \in Trajs |-> View(r, t)]
  /\ stored' = VisibleSpans(r)
  /\ EndSession(r, "ok")

(* Mutant: the session commits on its way out of a failed request. *)
Fail_Commits(r) ==
  /\ pc[r] \in Statements
  /\ rows' = [t \in Trajs |-> View(r, t)]
  /\ stored' = VisibleSpans(r)
  /\ EndSession(r, "failed")

(* The request dies before its commit (error, lost connection, crash):     *)
(* the session is closed and the transaction rolled back.                  *)
Fail(r) ==
  /\ pc[r] \in Statements
  /\ EndSession(r, "failed")
  /\ UNCHANGED <<rows, stored>>

(* Postgres aborts one transaction of a set in which each waits for        *)
(* another one of the set.                                                 *)
Deadlocked(W) == W # {} /\ \A r \in W : Blockers(r) \cap W # {}

BreakDeadlock ==
  \E W \in SUBSET Active :
    /\ Deadlocked(W)
    /\ \E r \in W : EndSession(r, "failed")
    /\ UNCHANGED <<rows, stored>>

(* The process has answered every request it was sent. *)
Done ==
  /\ \A r \in Requests : pc[r] \in Outcomes
  /\ UNCHANGED vars

Step(r) ==
  \/ InsertRow(r) \/ ReadRow(r) \/ WriteRow(r) \/ UpsertSpan(r)
  \/ SelectSpans(r) \/ ReadTotals(r) \/ FlushTotals(r) \/ Commit(r)

Next ==
  \/ \E r \in Requests : Post(r) \/ Step(r) \/ Fail(r)
  \/ BreakDeadlock
  \/ Done

(* The event loop and the database run every statement that is not         *)
(* waiting; nobody promises that a client posts or that anything fails.    *)
Fairness ==
  /\ \A r \in Requests : WF_vars(Step(r))
  /\ WF_vars(BreakDeadlock)

Spec == Init /\ [][Next]_vars /\ Fairness

-----------------------------------------------------------------------------
(* Safety, whatever overlaps. *)

(* Two transactions never hold uncommitted versions of one trajectories    *)
(* row: the waits of ON CONFLICT DO NOTHING and of the flushed UPDATEs     *)
(* cover every write path of ingest.                                       *)
WritersExclude ==
  \A t \in Trajs : \A q, r \in Requests :
    own[q][t] # NoRow /\ own[r][t] # NoRow => q = r

(* A trajectory never counts a span that is not stored under it, so a      *)
(* rolled back or another trajectory's span never shows in its totals.     *)
NeverOvercounts ==
  \A t \in Trajs : rows[t] # NoRow => rows[t].counted \subseteq SpansOf(t, stored)

(* The time window and the name of a committed trajectory are those of     *)
(* spans that were committed with it, never of a delivery that failed.     *)
Attained(row, S) ==
  /\ \E s \in S : row.started = Start[s]
  /\ row.ended # None => \E s \in S : row.ended = End[s]
  /\ row.name # None => \E s \in S : row.name = Name[s]

WindowAttained ==
  \A t \in Trajs : rows[t] # NoRow => Attained(rows[t], SpansOf(t, stored))

(* No span without its trajectory and no trajectory without a span.        *)
NoOrphans == \A t \in Trajs : rows[t] # NoRow <=> SpansOf(t, stored) # {}

(* A batch answered 200 is stored; nothing ingest does later removes it.   *)
AckedIsStored == \A r \in Requests : pc[r] = "ok" => Body[r] \subseteq stored

(* Spans become visible only by whole batches, at the step that answers    *)
(* that batch, and none disappears.                                        *)
AllOrNothing ==
  [][stored' # stored =>
       \E r \in Requests :
         pc[r] = "commit" /\ pc'[r] = "ok" /\ stored' = stored \cup Body[r]]_vars

(* Recomputing from scratch heals: a request that no other overlapped      *)
(* leaves exact totals for every trajectory it touched, whatever earlier   *)
(* overlapping requests had left there.                                    *)
Heals(r) ==
  pc[r] = "commit" /\ pc'[r] = "ok" /\ r \in solo =>
    \A t \in TrajsOf(Body[r]) : rows'[t].counted = SpansOf(t, stored')

SoloCommitHeals == [][\A r \in Requests : Heals(r)]_vars

(* Every request posted is answered: the waits form no cycle that lasts.   *)
EveryRequestAnswered ==
  \A r \in Requests : pc[r] \in Statements ~> pc[r] \in Outcomes

-----------------------------------------------------------------------------
(* What the sources promise of the totals and of the window.               *)

(* "partial-ingest doesn't leave trajectory totals out of sync with the    *)
(* spans they summarize" (otlp/ingest.py:15-16).                           *)
TotalsInSync ==
  \A t \in Trajs : rows[t] # NoRow => rows[t].counted = SpansOf(t, stored)

(* "Later segment arrives before earlier one - window converges to correct *)
(* span." (api/tests/test_otlp_resume.py): with no request in flight, the  *)
(* window is the hull of the stored spans.                                 *)
Hull(row, S) ==
  /\ \A s \in S : row.started <= Start[s]
  /\ \A s \in S : End[s] # None => row.ended # None /\ row.ended >= End[s]

WindowConverges ==
  Active = {} =>
    \A t \in Trajs : rows[t] # NoRow => Hull(rows[t], SpansOf(t, stored))

(* With one request at a time, ingest is the atomic delivery of batches.   *)
Atomic == INSTANCE AtomicIngest WITH rows <- rows, stored <- stored
ImplementsAtomic == Atomic!Spec
=============================================================================
