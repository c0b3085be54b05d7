------------------------------ MODULE ReadSide -------------------------------
(***************************************************************************)
(* The reports of the API: the dashboard, the list of agents, an agent's   *)
(* metrics, time series, worklist, profile and failures, the triage queue, *)
(* the clusters, and the search over runs (api/app/services, api/triage.py *)
(* and api/clusters.py).                                                   *)
(*                                                                         *)
(* A report is a sequence of SELECTs, and ingest, the heuristics and users *)
(* write between them: READ COMMITTED gives every SELECT a snapshot of its *)
(* own.  One SELECT is one step.  Nothing here is written by a report.     *)
(*                                                                         *)
(* Times are in units of half a bucket of the time series; what the        *)
(* arithmetic of floats computes is scaled: rates are in hundredths.       *)
(***************************************************************************)
EXTENDS Integers, Sequences, FiniteSets, FiniteSetsExt, SequencesExt

CONSTANTS
  Runs,           \* ids of trajectories
  Agents, Names,  \* ids of agents, and what they may be called
  Envs, Labels, Prompts, \* environments, labels of versions, system prompts
  Batches,        \* what a batch may say of a run
  Calls,          \* tool spans: run, at (after the run's start), tool, error, dur, named
  Findings,       \* heuristic hits there may be: heuristic, tool, sig, severity in hundredths
  Outcomes,       \* sets of them an evaluation may find
  Histories,      \* contents of the tables before the first report
  Step,           \* the bucket of agent_timeseries
  Hour, Bars,     \* the bucket of the dashboard, and how many make the window
  Limit, Page,    \* the LIMIT of a ranking, and of a page of runs
  MinSample,      \* how many runs or calls make a rate
  Log2, Decay,    \* math.log2(n + 1) and 2 ** (-h / 168) in hundredths, from 0 to what
                  \* occurs; above, the last is taken
  None, NoRun,
  Filters,        \* of the searches: agent, env, version, tag ("any", or None for untagged)
  Ages, Tags,     \* how old a run is when its first span arrives; what users tag
  Asked, Touched, \* bounds: the agents a report is asked of, the runs others change
  Start, MaxNow, MaxWrites   \* the time of the report, and bounds

(* What a report may find in the table of trajectories: the columns that   *)
(* others change.  started_at is not NULL and a tag is one of ALLOWED_TAGS.*)
Verdicts == {"good", "bad", "interesting", "todo", None}

RunRow ==
  [start : Int, tag : Verdicts, done : {"yes", "no", None}, down : Nat,
   agent : Agents \cup {None}, service : Names, env : Envs \cup {None},
   version : (Agents \X Labels) \cup {None}, prompt : Prompts \cup {None},
   dur : Nat \cup {None}, input : Nat, output : Nat]

AgentRow == [name : Names, versions : SUBSET Labels]

(* `by' is how far the start moves; the totals are what it counts.         *)
Batch == [agent : Agents, env : Envs \cup {None}, version : Labels \cup {None}, prompt : Prompts \cup {None},
          tag : Verdicts, done : {"yes", "no", None},
          by : Int, dur : Nat \cup {None}, input : Nat, output : Nat]

ASSUME ReadSideAssumption ==
  /\ {Step, Hour, Bars, Limit, Page, MinSample} \subseteq Nat \ {0}
  /\ IsFiniteSet(Runs) /\ Touched \subseteq Runs
  /\ \A h \in Histories : h.run \in [Runs -> RunRow \cup {NoRun}]
  /\ \A h \in Histories : h.hits \in [Runs -> [found : SUBSET Findings, at : Int]]
  /\ \A h \in Histories : h.agent \in [Agents -> AgentRow \cup {None}]
  /\ Batches \subseteq Batch
  /\ IsFiniteSet(Findings) /\ \A f \in Findings : f.severity \in Nat
  /\ None \notin Agents \cup AgentRow
  /\ {Log2, Decay} \subseteq Seq(Nat) \ {<<>>}
  /\ Tags \subseteq Verdicts /\ Ages \subseteq Int /\ Start \in Int /\ MaxNow \in Int
  /\ None \notin Int /\ None # "bad"
  /\ NoRun \notin RunRow
  /\ IsFiniteSet(Calls) /\ \A c \in Calls : c.run \in Runs
  /\ Outcomes \subseteq SUBSET Findings

VARIABLES
  now,
  agent,      \* the agents: name and versions, or None
  run,        \* the trajectories
  hits,       \* the hits of each and when they were written
  reader      \* the report, or the walk over the pages, in progress

vars == <<now, agent, run, hits, reader>>

Window == Bars * Hour

Rows == {r \in Runs : run[r] # NoRun}

Severities == [tool_error |-> 3, loop |-> 3, latency_outlier |-> 2, low_confidence |-> 2, apology_phrase |-> 1]

Pct(n, of) == IF of = 0 THEN 0 ELSE (100 * n) \div of

-----------------------------------------------------------------------------
(* What the SELECTs have in common. *)
Since(t) == {r \in Rows : run[r].start >= t}
Between(t, u) == {r \in Since(t) : run[r].start < u}
Of(a, S) == {r \in S : run[r].agent = a}
Errors(S) == {r \in S : run[r].tag = "bad"}
Flagged(S) == {r \in S : run[r].tag # None}
Timed(S) == {r \in S : run[r].dur # None}
Tokens(S) == SumFunction([r \in S |-> run[r].input + run[r].output])
Down(S) == SumFunction([r \in S |-> run[r].down])

Trunc(t, unit) == (t \div unit) * unit

(* percentile_cont: between the values at the two places next to the rank  *)
(* p * (n - 1).                                                            *)
Place(value, k) ==
  CHOOSE v \in Range(value) :
    /\ Cardinality({x \in DOMAIN value : value[x] < v}) < k
    /\ Cardinality({x \in DOMAIN value : value[x] <= v}) >= k

Quantile(p, value) ==
  LET rank == p * (Cardinality(DOMAIN value) - 1)
      part == rank % 100
      low == Place(value, (rank \div 100) + 1)
      high == Place(value, (rank \div 100) + (IF part = 0 THEN 1 ELSE 2))
  IN IF DOMAIN value = {} THEN None ELSE (low * (100 - part) + high * part) \div 100

Latency(p, S) == Quantile(p, [r \in Timed(S) |-> run[r].dur])

Latencies(S) == <<Latency(50, S), Latency(95, S), Latency(99, S)>>

CallsIn(S) == {c \in Calls : c.run \in S}
Failed(C) == {c \in C : c.error}
StartOf(c) == run[c.run].start + c.at

(* ORDER BY of two columns, descending, and LIMIT.  Of rows that tie, which *)
(* come first is open.                                                     *)
Exceeds(k, l) == k[1] > l[1] \/ (k[1] = l[1] /\ k[2] > l[2])

Smaller(m, n) == IF m < n THEN m ELSE n

Largest(key, n) ==
  LET size == Smaller(Cardinality(DOMAIN key), n) IN
  CHOOSE s \in [1 .. size -> DOMAIN key] :
    \A i \in 1 .. size :
      /\ \A j \in 1 .. (i - 1) : s[j] # s[i]
      /\ \A x \in DOMAIN key : Exceeds(key[x], key[s[i]]) => \E j \in 1 .. (i - 1) : s[j] = x

-----------------------------------------------------------------------------
(* Dashboard. *)
(* Mutant: runs without an environment are left out. *)
EnvSplit_NotNull(since) ==
  {<<e, Cardinality({r \in Since(since) : run[r].env = e})>> :
     e \in {run[r].env : r \in Since(since)} \ {None}}

EnvSplit(since) ==
  {<<e, Cardinality({r \in Since(since) : run[r].env = e})>> :
     e \in {run[r].env : r \in Since(since)}}

EnvKeys == {"prod", "staging", "dev", "other"}

EnvKey(e) == IF e \in EnvKeys THEN e ELSE "other"

(* The rows of the last day by hour, and then the bars up to the hour it   *)
(* has become.  The first hour of the rows is cut and is not shown.        *)
VolumeRows(since) ==
  [hour \in {Trunc(run[r].start, Hour) : r \in Since(since)} |->
    [k \in EnvKeys |->
      Cardinality({r \in Since(since) : Trunc(run[r].start, Hour) = hour /\ EnvKey(run[r].env) = k})]]

VolumeByDay(rows, t) ==
  [i \in 1 .. Bars |->
    LET hour == Trunc(t, Hour) - (Bars - i) * Hour IN
    IF hour \in DOMAIN rows THEN rows[hour] ELSE [k \in EnvKeys |-> 0]]

TopTools(since, S) ==
  LET C == CallsIn(S \cap Since(since))
      usage == {[tool |-> n, calls |-> Cardinality({c \in C : c.tool = n}),
                 errors |-> Cardinality({c \in Failed(C) : c.tool = n})] : n \in {c.tool : c \in C}}
  IN Largest([u \in usage |-> <<u.calls, 0>>], Limit)

RecentFlagged(since) == Largest([r \in Flagged(Since(since)) |-> <<run[r].start, 0>>], Limit)

MostRan(since) ==
  LET ran == {[name |-> a, runs |-> Cardinality(Of(a, Since(since))),
               errors |-> Cardinality(Errors(Of(a, Since(since))))] :
               a \in {run[r].agent : r \in Since(since)} \ {None}}
  IN Largest([m \in ran |-> <<m.runs, 0>>], Limit)

(* Aligned to the bucket, and filled up where there are no runs. *)
LatencySeries(t, S) ==
  [i \in 1 .. Bars |->
    LET bucket == Trunc(t, Hour) - (Bars - i) * Hour
        within == {r \in Timed(S) : Trunc(run[r].start, Hour) = bucket}
    IN [runs |-> Cardinality(within), p |-> Latencies(within)]]

Overview(q, since, got) ==
  CASE q = "runs" -> Cardinality(Since(since))
    [] q = "agents" -> Cardinality({run[r].agent : r \in Since(since)} \ {None})
    [] q = "flagged" -> Cardinality(Flagged(Since(since)))
    [] q = "errors" -> Cardinality(Errors(Since(since)))
    [] q = "tokens" -> Tokens(Since(since))
    [] q = "latency" -> Latencies(Since(since))
    [] q = "volume rows" -> VolumeRows(now - Bars * Hour)
    [] q = "volume" -> VolumeByDay(got["volume rows"], now)
    [] q = "envs" -> EnvSplit(since)
    [] q = "tools" -> TopTools(since, Rows)
    [] q = "recent" -> RecentFlagged(since)
    [] q = "most ran" -> MostRan(since)
    [] q = "series" -> LatencySeries(now, Rows)

-----------------------------------------------------------------------------
(* The list of agents, and one agent's metrics. *)
Sparkline(S) ==
  [day \in {Trunc(run[r].start, Hour) : r \in S} |-> Cardinality({r \in S : Trunc(run[r].start, Hour) = day})]

AgentList(q, since) ==
  [a \in Agents |->
    LET S == Of(a, Since(since)) IN
    CASE q = "runs" -> Cardinality(S)
      [] q = "errors" -> Cardinality(Errors(S))
      [] q = "p95" -> Latency(95, S)
      [] q = "spark" -> Sparkline(S)
      [] q = "versions" -> IF agent[a] = None THEN 0 ELSE Cardinality(agent[a].versions)
      [] q = "envs" -> {run[r].env : r \in S} \ {None}]

Metrics(q, a, since) ==
  LET S == Of(a, Since(since)) IN
  CASE q = "runs" -> Cardinality(S)
    [] q = "errors" -> Cardinality(Errors(S))
    [] q = "tokens" -> Tokens(S)
    [] q = "latency" -> Latencies(S)
    [] q = "series" -> LatencySeries(now, Of(a, Rows))
    [] q = "tools" -> TopTools(since, Of(a, Rows))
    [] q = "prompts" -> {[text |-> t, runs |-> Cardinality({r \in Of(a, Rows) : run[r].prompt = t})] :
                           t \in {run[r].prompt : r \in Of(a, Rows)} \ {None}}

-----------------------------------------------------------------------------
(* agent_timeseries.  The division of two integers is a numeric one and    *)
(* the CAST to BIGINT rounds: the key of a time is the nearest boundary,   *)
(* and what is nearest to the end of the window belongs to no bucket.      *)
BucketKey(t) == ((t + Step \div 2) \div Step) * Step

Ending(t) == Trunc(t, Step)
Buckets(t) == {Ending(t) - Window + Step * (i - 1) : i \in 1 .. Window \div Step}

TimeSeries(q, a, t) ==
  LET S == Of(a, Between(Ending(t) - Window, Ending(t)))
      C == {c \in CallsIn(Of(a, Rows)) : StartOf(c) >= Ending(t) - Window /\ StartOf(c) < Ending(t)}
  IN [b \in Buckets(t) |->
       LET here == {r \in S : BucketKey(run[r].start) = b}
           calls == {c \in C : BucketKey(StartOf(c)) = b}
           known == {r \in here : run[r].done # None}
       IN CASE q = "p95_latency" -> [value |-> Latency(95, here), count |-> Cardinality(Timed(here))]
            [] q = "tool_success" -> [value |-> Pct(Cardinality(calls \ Failed(calls)), Cardinality(calls)),
                                      count |-> Cardinality(calls)]
            [] q = "feedback_down" -> LET n == Cardinality({r \in here : run[r].down > 0}) IN
                                      [value |-> n, count |-> n]
            [] q = "completion_rate" -> [value |-> Pct(Cardinality({r \in known : run[r].done = "yes"}),
                                                       Cardinality(known)),
                                         count |-> Cardinality(known)]
            [] q = "token_efficiency" ->
                 LET asked == SumFunction([r \in here |-> run[r].input]) IN
                 [value |-> Pct(SumFunction([r \in here |-> run[r].output]), asked), count |-> asked]]

-----------------------------------------------------------------------------
(* agent_worklist.  An item is scored when it is made, by the clock of then. *)
Hits(S, t) == {h \in S \X Findings : h[2] \in hits[h[1]].found /\ hits[h[1]].at >= t}

Entry(table, n) == table[Smaller(n + 1, Len(table))]

Score(severity, affected, seen) ==
  severity * Entry(Log2, affected) * Entry(Decay, IF now > seen THEN now - seen ELSE 0)

Urgency(score) == IF score >= 80000 THEN "high" ELSE IF score >= 40000 THEN "med" ELSE "low"

Item(signal, severity, affected, weight, seen) ==
  [signal |-> signal, affected |-> affected, seen |-> seen,
   score |-> Score(severity, weight, seen), urgency |-> Urgency(Score(severity, weight, seen))]

(* Hits are counted where the item speaks of runs. *)
HeuristicItems(rows) ==
  {LET group == {h \in rows : h[2].heuristic = k[1] /\ h[2].tool = k[2]} IN
   Item(k, IF k[1] \in DOMAIN Severities THEN Severities[k[1]] ELSE 1,
        Cardinality(group), Cardinality(group), Max({hits[h[1]].at : h \in group})) :
     k \in {<<h[2].heuristic, h[2].tool>> : h \in rows}}

FeedbackItems(S) ==
  IF S = {} THEN {}
  ELSE {Item(<<"thumbs_down", Cardinality(S)>>, 3, Down(S), Down(S), Max({run[r].start : r \in S}))}

CompletionRate(S) ==
  LET known == {r \in S : run[r].done # None} IN
  IF Cardinality(known) < MinSample THEN None
  ELSE Pct(Cardinality({r \in known : run[r].done = "yes"}), Cardinality(known))

ToolStats(a, t, u) ==
  LET C == {c \in CallsIn(Of(a, Rows)) : c.named /\ StartOf(c) >= t /\ StartOf(c) < u} IN
  [n \in {c.tool : c \in C} |->
    LET calls == {c \in C : c.tool = n} IN
    [ok |-> Cardinality(calls \ Failed(calls)), total |-> Cardinality(calls)]]

OrOne(n) == IF n = 0 THEN 1 ELSE n

Climbed(p95, before) ==
  None \notin {p95, before} /\ 0 \notin {p95, before} /\ 100 * p95 >= 125 * before

ToolDrops(stats, before, t) ==
  LET Rate(st, n) == Pct(st[n].ok, st[n].total) IN
  {Item(<<"tool_success_drop", n>>, 2, stats[n].total, stats[n].total, t) :
     n \in {m \in DOMAIN stats \cap DOMAIN before :
              stats[m].total >= MinSample /\ Rate(before, m) - Rate(stats, m) >= 5}}

(* What has become worse since the window before: from the rows read and   *)
(* a SELECT of its own for how many runs that is.                          *)
Worklist(q, a, t, got) ==
  LET current == Of(a, Between(t - Window, t))
      before == Of(a, Between(t - 2 * Window, t - Window))
      count == Cardinality(current)
  IN CASE q = "hits" -> HeuristicItems(Hits(Of(a, Rows), t - Window))
       [] q = "thumbs" -> FeedbackItems({r \in Of(a, Since(t - Window)) : run[r].down > 0})
       [] q = "p95" -> Latency(95, current)
       [] q = "p95 before" -> Latency(95, before)
       [] q = "latency" -> IF ~ Climbed(got["p95"], got["p95 before"]) THEN {}
                           ELSE {Item(<<"latency_delta", None>>, 2, count, OrOne(count), t)}
       [] q = "rate" -> CompletionRate(current)
       [] q = "rate before" -> CompletionRate(before)
       [] q = "completion" ->
            IF None \in {got["rate"], got["rate before"]} \/ got["rate before"] - got["rate"] < 5 THEN {}
            ELSE {Item(<<"completion_drop", None>>, 3, count, OrOne(count), t)}
       [] q = "tools" -> ToolStats(a, t - Window, t)
       [] q = "tool drops" -> ToolDrops(got["tools"], ToolStats(a, t - 2 * Window, t - Window), t)

Ranked(got) ==
  LET items == UNION {got[q] : q \in {"hits", "thumbs", "latency", "completion", "tool drops"}}
  IN Largest([x \in items |-> <<x.score, x.seen>>], 2 * Limit)

-----------------------------------------------------------------------------
(* The rest of an agent's page: its profile and the CSV of its failures.   *)
(* The worklist in the middle of the profile has a clock of its own.       *)
Profile(q, a, since, t, got) ==
  LET S == Of(a, Since(since))
      C == {c \in CallsIn(Of(a, Rows)) : StartOf(c) >= since}
      named == {c \in C : c.named}
  IN CASE q = "snapshot runs" -> Cardinality(S)
       [] q = "snapshot p95" -> Latency(95, S)
       [] q = "snapshot p95 before" -> Latency(95, Of(a, Between(since - Window, since)))
       [] q = "snapshot tools" -> IF C = {} THEN None ELSE Pct(Cardinality(C \ Failed(C)), Cardinality(C))
       [] q = "snapshot down" -> Down(S)
       [] q = "landscape" ->
            LET tools == {[name |-> n, calls |-> Cardinality({c \in named : c.tool = n}),
                           ok |-> Cardinality({c \in named \ Failed(named) : c.tool = n}),
                           p95 |-> Quantile(95, [c \in {c \in named : c.tool = n} |-> c.dur])] :
                           n \in {c.tool : c \in named}}
            IN Largest([l \in tools |-> <<l.calls, 0>>], 2 * Limit)
       [] OTHER -> Worklist(q, a, t, got)

FailuresCsv(q, a, since) ==
  LET hit == {h[1] : h \in Hits(Rows, since)} IN
  CASE q = "kinds" -> [r \in hit |-> {f.heuristic : f \in hits[r].found}]
    [] q = "rows" -> {[id |-> r, errored |-> Cardinality({c \in Failed(CallsIn({r})) : StartOf(c) >= since}),
                       tag |-> run[r].tag, down |-> run[r].down] :
                       r \in {s \in Of(a, Since(since)) :
                                s \in hit \/ run[s].down > 0 \/ run[s].tag \in {"bad", "todo"}}}

-----------------------------------------------------------------------------
(* Triage and clusters.  A page of the queue, and for each run on it a     *)
(* SELECT of its hits: all of them, whatever the page was filtered by.     *)
Clamp(severity) == IF severity > 100 THEN 100 ELSE severity

Queue(heuristics) ==
  LET Found(r) == {f \in hits[r].found : heuristics # {} => f.heuristic \in heuristics}
      Weight(r) == SumFunction([f \in Found(r) |-> Clamp(f.severity)])
      s == Largest([r \in {q \in Rows : Found(q) # {}} |-> <<Weight(r), run[r].start>>], Limit)
  IN [i \in DOMAIN s |-> [id |-> s[i], score |-> Weight(s[i]), count |-> Cardinality(Found(s[i]))]]

QueueItems(page, items) ==
  IF Len(items) < Len(page) THEN Append(items, hits[page[Len(items) + 1].id].found) ELSE items

Signature(found) == {f.sig : f \in found} \ {None}

ListClusters ==
  LET signed == {r \in Rows : Signature(hits[r].found) # {}}
      clusters == {[sig |-> g, members |-> {r \in signed : Signature(hits[r].found) = g}] :
                     g \in {Signature(hits[r].found) : r \in signed}}
  IN Largest([c \in clusters |-> <<Cardinality(c.members), 0>>], Limit)

Facets(q) ==
  CASE q = "services" -> {run[r].service : r \in Rows}
    [] q = "environments" -> {run[r].env : r \in Rows} \ {None}
    [] q = "tags" -> {run[r].tag : r \in Rows} \ {None}

-----------------------------------------------------------------------------
(* The search.  The slots of the pattern agent.env.version and the tag are *)
(* conjuncts; a slot that is "*" is none, and one that is not drops the    *)
(* rows whose column is NULL.  An agent is sought by its name.             *)
Matches(row, agents, f) ==
  /\ row # NoRun
  /\ f.agent # None => row.agent # None /\ agents[row.agent] # None /\ agents[row.agent].name = f.agent
  /\ f.env # None => row.env = f.env
  /\ f.version # None => row.version # None /\ row.version[2] = f.version
  /\ f.tag # "any" => row.tag = f.tag

Matching(f) == {r \in Runs : Matches(run[r], agent, f)}

(* Mutant: without ORDER BY the rows come in any order. *)
Pages_Unordered(S, offset) ==
  LET left == Cardinality(S) - offset
      size == IF left < 0 THEN 0 ELSE IF left < Page THEN left ELSE Page
  IN {X \in SUBSET S : Cardinality(X) = size}

(* ORDER BY started_at DESC LIMIT OFFSET: of the runs that started at the  *)
(* same time, which are on the page is open.                               *)
Pages(S, offset) ==
  LET AtStart(v) == {r \in S : run[r].start = v}
      Newer(v) == Cardinality({r \in S : run[r].start > v})
      Ranks(v) == (Newer(v) + 1) .. (Newer(v) + Cardinality(AtStart(v)))
  IN {X \in SUBSET S : \A v \in {run[r].start : r \in S} :
        Cardinality(X \cap AtStart(v)) = Cardinality(Ranks(v) \cap ((offset + 1) .. (offset + Page)))}

Tied(S) == \E q, r \in S : q # r /\ run[q].start = run[r].start

-----------------------------------------------------------------------------
(* A report in progress: what it is of, when it was asked, the SELECTs it  *)
(* has to do, what they returned, how many `writes' there were since and   *)
(* how many rows they changed, `torn'.  A walk asks for page after page:   *)
(* `seen' is what the pages held, `base' the runs that have matched since  *)
(* it began, and `lost' counts the matching runs that were given another   *)
(* start, older or newer, or do not match any more.                        *)
Queries ==
  [overview |-> <<"runs", "agents", "flagged", "errors", "tokens", "latency", "volume rows", "volume",
                  "envs", "tools", "recent", "most ran", "series">>,
   agents |-> <<"runs", "errors", "p95", "spark", "versions", "envs">>,
   metrics |-> <<"runs", "errors", "tokens", "latency", "series", "tools", "prompts">>,
   timeseries |-> <<"p95_latency", "tool_success", "feedback_down", "completion_rate", "token_efficiency">>,
   worklist |-> <<"hits", "thumbs", "p95", "p95 before", "latency", "rate", "rate before", "completion",
                  "tools", "tool drops">>,
   profile |-> <<"snapshot runs", "snapshot p95", "snapshot p95 before", "snapshot tools", "snapshot down",
                 "hits", "thumbs", "p95", "p95 before", "latency", "rate", "rate before", "completion",
                 "tools", "tool drops", "landscape">>,
   failures |-> <<"kinds", "rows">>,
   queue |-> <<"page">> \o [i \in 1 .. Limit |-> "items"],
   clusters |-> <<"clusters">>,
   facets |-> <<"services", "environments", "tags">>,
   walk |-> <<"total", "page">>]

Init ==
  /\ now = Start
  /\ \E h \in Histories : agent = h.agent /\ run = h.run /\ hits = h.hits
  /\ reader = [op |-> "idle"]

Begin(op, a, f) ==
  /\ reader.op = "idle"
  /\ reader' = [op |-> op, agent |-> a, filter |-> f, since |-> now - Window, at |-> now,
                todo |-> Queries[op], got |-> <<>>, writes |-> 0, torn |-> 0,
                offset |-> 0, seen |-> {}, base |-> {}, lost |-> 0, tied |-> FALSE]
  /\ UNCHANGED <<now, agent, run, hits>>

(* The reports of an agent are of one there is. *)
BeginOf(op, a) == agent[a] # None /\ Begin(op, a, {})

Answer(q) ==
  LET since == reader.since
      a == reader.agent
      got == reader.got
  IN
  CASE reader.op = "overview" -> Overview(q, since, got)
    [] reader.op = "agents" -> AgentList(q, since)
    [] reader.op = "metrics" -> Metrics(q, a, since)
    [] reader.op = "timeseries" -> TimeSeries(q, a, reader.at)
    [] reader.op = "worklist" -> Worklist(q, a, reader.at, got)
    [] reader.op = "profile" -> Profile(q, a, since, IF q = "hits" THEN now ELSE reader.at, got)
    [] reader.op = "failures" -> FailuresCsv(q, a, since)
    [] reader.op = "queue" -> IF q = "page" THEN Queue(reader.filter)
                              ELSE QueueItems(got["page"], IF q \in DOMAIN got THEN got[q] ELSE <<>>)
    [] reader.op = "clusters" -> ListClusters
    [] reader.op = "facets" -> Facets(q)

(* The next SELECT of a report. *)
Select ==
  /\ reader.op \notin {"idle", "walk"}
  /\ reader.todo # <<>>
  /\ LET q == Head(reader.todo) IN
     reader' = [reader EXCEPT
       !.got = [p \in DOMAIN reader.got \cup {q} |-> IF p = q THEN Answer(q) ELSE reader.got[p]],
       !.at = IF q = "hits" THEN now ELSE @,
       !.todo = Tail(reader.todo)]
  /\ UNCHANGED <<now, agent, run, hits>>

(* A request of the walk begins with a count, *)
Count ==
  /\ reader.op = "walk" /\ reader.todo # <<>> /\ Head(reader.todo) = "total"
  /\ LET S == Matching(reader.filter) IN
     reader' = [reader EXCEPT !.got = [total |-> Cardinality(S)], !.todo = Tail(@),
                              !.base = IF reader.offset = 0 THEN S ELSE @]
  /\ UNCHANGED <<now, agent, run, hits>>

(* and then takes the page.  A caller goes on until a page is not full. *)
Turn ==
  /\ reader.op = "walk" /\ reader.todo = <<"page">>
  /\ \E X \in Pages(Matching(reader.filter), reader.offset) :
       reader' = [reader EXCEPT !.seen = @ \cup X, !.offset = @ + Page,
                                !.tied = @ \/ Tied(Matching(reader.filter)),
                                !.todo = IF Cardinality(X) < Page THEN <<>> ELSE Queries["walk"]]
  /\ UNCHANGED <<now, agent, run, hits>>

(* What others do meanwhile: ingest, the heuristics, feedback and users.   *)
(* One transaction leaves these tables.                                    *)
Wrote(agents, rows, found) ==
  /\ reader.op # "idle" /\ reader.todo # <<>> /\ reader.writes < MaxWrites
  /\ agent' = agents /\ run' = rows /\ hits' = found
  /\ LET f == reader.filter
         changed == {r \in Runs : rows[r] # run[r] \/ found[r] # hits[r]}
         stay == {r \in Runs : Matches(rows[r], agents, f)}
         moved == {r \in Matching(f) : r \notin stay \/ rows[r].start # run[r].start}
         walks == reader.op = "walk"
     IN reader' = [reader EXCEPT !.writes = @ + 1,
                     !.torn = @ + Cardinality(changed),
                     !.base = IF walks THEN @ \cap stay ELSE @,
                     !.lost = IF walks THEN @ + Cardinality(moved) ELSE @]
  /\ UNCHANGED now

WroteRun(r, row) == Wrote(agent, [run EXCEPT ![r] = row], hits)

Or(new, old) == IF new = None THEN old ELSE new

(* The agent of a batch, with the version it names. *)
Versioned(b) ==
  [agent EXCEPT ![b.agent].versions = IF b.version = None THEN @ ELSE @ \cup {b.version}]

VersionOf(b) == IF b.version = None THEN None ELSE <<b.agent, b.version>>

Arrive(r, age, b) ==
  /\ run[r] = NoRun /\ agent[b.agent] # None
  /\ Wrote(Versioned(b),
           [run EXCEPT ![r] =
              [start |-> now - age, tag |-> b.tag, done |-> b.done, down |-> 0,
               agent |-> b.agent, service |-> agent[b.agent].name, env |-> b.env,
               version |-> VersionOf(b), prompt |-> b.prompt,
               dur |-> b.dur, input |-> b.input, output |-> b.output]],
           hits)

(* A later batch: what was NULL is filled, the totals are counted again.   *)
(* The start is compared with the row as it was read, and written over the *)
(* row as it is: it may become later, too.                                 *)
Deliver(r, b) ==
  /\ run[r] # NoRun /\ agent[b.agent] # None
  /\ LET old == run[r] IN
     Wrote(Versioned(b),
           [run EXCEPT ![r] =
              [start |-> old.start + b.by, tag |-> Or(b.tag, old.tag), done |-> Or(b.done, old.done),
               down |-> old.down,
               agent |-> Or(old.agent, b.agent), service |-> agent[b.agent].name, env |-> Or(old.env, b.env),
               version |-> Or(old.version, VersionOf(b)), prompt |-> Or(old.prompt, b.prompt),
               dur |-> Or(b.dur, old.dur), input |-> b.input, output |-> b.output]],
           hits)

Thumb(r) == run[r] # NoRun /\ WroteRun(r, [run[r] EXCEPT !.down = @ + 1])

PatchTag(r, tag) == run[r] # NoRun /\ run[r].tag # tag /\ WroteRun(r, [run[r] EXCEPT !.tag = tag])

(* The hits of an evaluation replace those of the one before. *)
Evaluate(r, found) ==
  run[r] # NoRun /\ Wrote(agent, run, [hits EXCEPT ![r] = [found |-> found, at |-> now]])

Rename(a, name) ==
  /\ agent[a] # None /\ \A b \in Agents : agent[b] # None => agent[b].name # name
  /\ Wrote([agent EXCEPT ![a].name = name], run, hits)

(* The foreign keys of its runs, and those to its versions, become NULL.   *)
Delete(a) ==
  /\ agent[a] # None
  /\ Wrote([agent EXCEPT ![a] = None],
           [r \in Runs |->
              IF run[r] = NoRun THEN NoRun
              ELSE [run[r] EXCEPT !.agent = IF @ = a THEN None ELSE @,
                                  !.version = IF @ # None /\ @[1] = a THEN None ELSE @]],
           hits)

Tick == now < MaxNow /\ now' = now + 1 /\ UNCHANGED <<agent, run, hits, reader>>

Next ==
  \/ \E a \in Asked : \E op \in {"metrics", "timeseries", "worklist", "profile", "failures"} : BeginOf(op, a)
  \/ \E op \in {"overview", "agents", "clusters", "facets"} : Begin(op, None, {})
  \/ \E f \in SUBSET {k.heuristic : k \in Findings} : Cardinality(f) < 2 /\ Begin("queue", None, f)
  \/ \E f \in Filters : Begin("walk", None, f)
  \/ Select
  \/ Count
  \/ Turn
  \/ \E r \in Touched :
       \/ \E age \in Ages, b \in Batches : Arrive(r, age, b)
       \/ \E b \in Batches : Deliver(r, b)
       \/ Thumb(r)
       \/ \E tag \in Tags : PatchTag(r, tag)
       \/ \E found \in Outcomes : Evaluate(r, found)
  \/ \E a \in Asked : Delete(a) \/ \E name \in Names : Rename(a, name)
  \/ Tick

Spec == Init /\ [][Next]_vars

-----------------------------------------------------------------------------
(* Properties.  Figures may differ by the rows written between them. *)
Apart(m, n) == m - n \in (- reader.torn) .. reader.torn
AtMost(m, n) == m <= n + reader.torn
Ascending(p) == p[1] = None \/ (p[1] <= p[2] /\ p[2] <= p[3])
RunsOf(series) == SumFunction([i \in DOMAIN series |-> series[i].runs])

OverviewAgrees(got) ==
  /\ AtMost(got["errors"], got["flagged"])
  /\ AtMost(got["flagged"], got["runs"])
  /\ Apart(SumFunction([e \in got["envs"] |-> e[2]]), got["runs"])
  /\ Apart(Len(got["recent"]), Smaller(got["flagged"], Limit))
  /\ AtMost(RunsOf(got["most ran"]), got["runs"])
  /\ AtMost(RunsOf(got["series"]), got["runs"])
  /\ AtMost(SumFunction([i \in 1 .. Bars |-> SumFunction(got["volume"][i])]), got["runs"])
  /\ Ascending(got["latency"])

AgentListAgrees(got) ==
  \A a \in Agents :
    /\ AtMost(got["errors"][a], got["runs"][a])
    /\ Apart(SumFunction(got["spark"][a]), got["runs"][a])

MetricsAgree(got) ==
  /\ AtMost(got["errors"], got["runs"])
  /\ AtMost(RunsOf(got["series"]), got["runs"])
  /\ Ascending(got["latency"])

ProfileAgrees(got) ==
  /\ \A i \in got["latency"] \cup got["completion"] : AtMost(i.affected, got["snapshot runs"])
  /\ \A i \in got["thumbs"] :
       /\ AtMost(i.signal[2], got["snapshot runs"])
       /\ reader.torn = 0 => i.affected <= got["snapshot down"]
  /\ LET ranked == Ranked(got) IN
     \A i \in DOMAIN ranked : \A j \in 1 .. i : ranked[j].score >= ranked[i].score

FailuresAgree(got) ==
  AtMost(Cardinality({row \in got["rows"] : row.down = 0 /\ row.tag \notin {"bad", "todo"}
                                            /\ row.id \notin DOMAIN got["kinds"]}), 0)

QueueAgrees(got) ==
  LET page == got["page"]
      Shown(i) == Cardinality(got["items"][i])
  IN /\ AtMost(Cardinality({i \in DOMAIN page : Shown(i) < page[i].count}), 0)
     /\ reader.filter = {} => AtMost(Cardinality({i \in DOMAIN page : Shown(i) > page[i].count}), 0)

Agrees(op, got) ==
  CASE op = "overview" -> OverviewAgrees(got)
    [] op = "agents" -> AgentListAgrees(got)
    [] op = "metrics" -> MetricsAgree(got)
    [] op = "profile" -> ProfileAgrees(got)
    [] op = "failures" -> FailuresAgree(got)
    [] op = "queue" -> QueueAgrees(got)
    [] OTHER -> TRUE

(* The figures of one report, each read by a SELECT of its own, differ by  *)
(* no more than the number of runs written in between: errors are among    *)
(* the flagged runs and those among the runs, the environments, the bars   *)
(* and the series add up to the runs, the signals of the profile's         *)
(* worklist are about runs of its snapshot, a row of failures.csv has a    *)
(* reason, and the queue lists the hits it counts.  How long the report    *)
(* takes, and an hour that ends meanwhile, makes no difference.            *)
FiguresAgree == reader.op \in DOMAIN Queries /\ reader.todo = <<>> => Agrees(reader.op, reader.got)

(* A caller who asks for page after page of GET /api/runs sees every run   *)
(* that matched all along, but for as many as were given another start (a  *)
(* late batch, or one that had read an older row, moved started_at either  *)
(* way) or stopped to match meanwhile, and provided no two matching runs   *)
(* started at the same time.                                               *)
PagingMissesNothing ==
  reader.op = "walk" /\ reader.todo = <<>> /\ ~ reader.tied =>
    Cardinality(reader.base \ reader.seen) <= reader.lost

=============================================================================
