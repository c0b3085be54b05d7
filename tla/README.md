# LangPerf in TLA+

Specifications of LangPerf's server and SDK, the TLC runs that check them on
small instances, and TLAPS proofs of what matters most. Paths are relative to
the repository; line numbers per definition are in `PROJECT.json` ("map").

LangPerf records what AI agents do. An agent's SDK exports spans in batches over
OTLP; the API stores them, groups them into *trajectories*, keeps totals and a
time window per trajectory, and evaluates heuristics on it; people and the
agent's own users then tag, annotate and rate trajectories.

## 1. The system

| Component | State | Operations | Talks to |
|---|---|---|---|
| OTLP ingest (`api/app/otlp`) | tables `trajectories`, `spans`; per request a session with a transaction | `POST /v1/traces`: insert or read the trajectory, widen it, upsert the span, for each span; recompute totals; commit | starts heuristics after the commit; copies root-span signals |
| Heuristics (`api/app/heuristics`, `ingest/hook.py`, `cli/`) | table `heuristic_hits`; asyncio tasks in memory | evaluate a trajectory: read spans, read baselines, delete hits, insert hits, commit; backfill | reads what ingest wrote; read by triage and worklist |
| Signals (`api/feedback.py`, `services/trajectories.py`, `_apply_sdk_signals`, `sdk/langperf/feedback.py`) | verdict columns of `trajectories`; the SDK's feedback threads | `PATCH /api/trajectories/{id}`, `POST /v1/feedback` with retries, the root span of a delivery | shares rows with ingest |
| Agent versions, agents, tokens (`otlp/agent_resolver.py`, `services/agents.py`) | `agents`, `agent_versions` | upsert a version inside ingest; create, rotate, issue, rename, move, delete | authorises ingest and feedback |
| Users and sessions (`api/auth.py`, `auth/`, `ingest/org.py`) | `organizations`, `users`, `sessions` | signup (first user only), login, logout, expiry, single-user mode | guards the UI's API (`require_user`) |
| Projects (`services/projects.py`, `projects/helpers.py`) | `projects` | create, rename, delete when empty, the default one on demand | agents |
| Collaboration (`services/comments.py`, `mentions.py`, `failure_modes.py`, `rewrites.py`; `api/notifications.py`, `shared_links.py`, `reviewers.py`, `nodes.py`) | one table each | write, edit, resolve, delete, mention, mark read, share, revoke, assign, tag, annotate, revise | trajectories, users |
| Logs (`logs/`, `api/logs.py`, `api/settings.py`, `live-console.tsx`) | ring buffer, subscriber queues, the forwarder's copy of the setting, files, console lines | emit, recent, stream, forward, rotate, prune, show | reads the setting an administrator saves |
| SDK tracing (`sdk/langperf`) | three context variables per flow of control, the registered provider | init; open and close trajectories, nodes and tools; mark, metric, user | exports to ingest |
| Read side (overview, metrics, time series, worklist, profile, failures, triage, clusters, runs) | none | sequences of SELECTs, grouped and ranked | reads what all others write |
| Web UI, scripts, examples, schemas, migrations | none at run time | rendering, seeding, validation | the API |

**What is hard here.** Every handler is `async` and holds its own database
session, so requests interleave at every `await`, which is at every SQL
statement; several API processes would interleave the same way. The database
runs at READ COMMITTED and no code takes a lock of its own: each read-modify-write
of a `trajectories` row relies on the row locks that its UPDATE takes, after
the decision was made on an earlier SELECT. Exporters retry; feedback threads
time out and try again; evaluations are tasks in memory that die with the
process; two requests may take row locks in opposite orders. These hazards are
listed, each at its line, in `PROJECT.json` ("hazards").

**What makes each part correct.**
Ingest: a batch is stored as a whole or not at all, and stays; a trajectory's
totals, window and name are those of spans stored under it; nobody waits for
ever; undisturbed by other batches, the row is exactly the summary of its spans.
Heuristics: hits are those of one evaluation, about spans that are there, and an
evaluation that nothing disturbs leaves exactly the right ones. Signals: whatever
the row says somebody successfully said, an acknowledged thumb shows, and nobody
undoes a column they have nothing to say about. The workspace (accounts, agents,
projects, collaboration): unique keys and references hold although they are
checked before they are written; a credential that was replaced stays dead; what
a batch leaves is attributed to batches that wrote it; what was saved is undone
only by who wrote the same column. Logs: a record is handled, queued and filed
once; turning forwarding off takes effect; the console is in order but for one
seam; the forwarder catches up as long as its path can be used. Tracing: every span is stamped with the
trajectory it hangs in, and marks reach its root. Read side: figures of one page
agree up to what was written meanwhile, and pages miss no more runs than were
moved or taken away while they were turned.

## 2. The modules

### `Ingest`, `AtomicIngest`, `MCIngest`, `IngestProofs`

One action per SQL statement of `POST /v1/traces`. The order of actions in a
request is the order of the calls in `ingest.py`:

| Action | Code |
|---|---|
| `Post` | a delivery passes the token check and is decoded (`receiver.py:36-87`) |
| `InsertRow` | `INSERT ... ON CONFLICT DO NOTHING` of the trajectory (`ingest.py:191-193`) |
| `ReadRow` | `session.get(Trajectory)` (`ingest.py:195`) |
| `WriteRow` | the comparisons (`204-232`) and the UPDATE the next statement flushes |
| `UpsertSpan` | `INSERT ... ON CONFLICT (span_id) DO UPDATE` (`ingest.py:92-145`), next span |
| `SelectSpans`, `ReadTotals`, `FlushTotals` | `_recompute_single` (`272-306`), for each touched trajectory |
| `Commit` | `session.commit()` and the 200 (`receiver.py:91-95`) |
| `Fail`, `BreakDeadlock` | an error, lost connection or crash; Postgres aborting one of a cycle |

`rows` and `stored` are the committed tables; `own[r]` and `put[r]` the
uncommitted rows of request `r`, which are also the locks it holds; `seen[r]`
is the row its session last selected. Each request re-selects the row for each
span: SQLAlchemy's identity map is weak and nothing keeps the object alive
between spans. A flush writes only the columns that differ from what was read
(`Widen` and `Retotal` take the row as found and the row as read), and waits only
if it writes at all (`Writes`, `Blockers`).

Abstractions. The four total columns are sums over one SELECT, so the model
keeps the set of spans that SELECT returned (`counted`). `name` stands for each
column that the first span with a value fills (name, environment,
agent_version_id; see the hazard at `ingest.py:220` for service_name). Times
are integers. A span id always comes with the same trajectory, times and name,
as an exporter's retry resends what it sent. Requests with a bad token or body
touch nothing and are left out.

`AtomicIngest` says what ingest promises without transactions: a delivery
adds its spans at once and every touched row summarises them.

### `Heuristics`, `MCHeuristics`, `HeuristicsProofs`

A worker is the task of one batch (`schedule_heuristics`) or the backfill
process. An evaluation is `ReadSpans`, `ReadBaselines` (which also computes the
hits), `DeleteHits` (the snapshot of the DELETE), `LockHits` (its wait for rows
another transaction is deleting), `CommitHits`. `LockHits` takes all rows of its
DELETE at once. Postgres takes them one by one, so two DELETEs may also wait for
each other; it then fails one of them, which is `FailEvaluation`. `FailEvaluation` is an exception
(the task goes on, the backfill ends), `Crash` the end of the API process, which
takes every task with it. The five heuristics are functions of a set of spans;
each span is reduced to what they read of it: its kind, whether it failed, what
it called, its start, whether its text is missing, apologetic or doubtful, and
whether it is slow against a set of baseline spans (`Slow`).
A hit row carries the worker that wrote it, in the place of its fresh uuid.

### `Signals`, `MCSignals`, `SignalsProofs`

The columns `status_tag`, `notes`, `completed`, `feedback_thumbs_up/down` of one
trajectory (different trajectories do not meet here). A delivery is `Post`,
`InsertRow`, `ReadRow`, `WriteSignals`, `Commit`; an edit is `Edit`, `ReadRow`,
`Store`; a feedback's thread makes attempts (`Feedback`, `Retry`), each of which
is `ReadRow`, `Store` on the server, and ends with `Acknowledge` or `GiveUp`. `Retry` is
possible at any time while a thread waits: it may be an error status, or the
5-second timeout while the server is still at work. `Updated` is the UPDATE of
the columns that changed against what was read. Notes are the sequence of
paragraphs of the text.

### `Accounts`, `Agents`, `Collab`, composed by `Workspace`, `MCWorkspace`, `WorkspaceProofs`, `CollabProofs`

The API of one organization as a set of requests. `Ask[r]` is what request `r`
asks; `Workloads` are the sets of requests that are served together in one
behaviour. Each request goes `sent` → `routed` (`Dispatch`: `require_user`) →
`writing` (its SELECTs are done, `seen[r]` is what they found) → for some
`committed` (the row is read once more for the answer) → its answer. `Accounts`
has this life of a request and the tables of users and sessions; `Agents` and
`Collab` extend it with theirs and share `users`, `projects` and the requests;
`Workspace` interleaves the three.

Where a handler checks and then writes, the constraint of the database is part
of the writing step: unique keys (`Named`, `Slugged`, `Taken`, `Duplicate`, in
which NULLs are distinct), foreign keys, `ON DELETE CASCADE` and `SET NULL`
(`Thread`, `DeleteAgent`). A step that violates one answers 500 and writes
nothing (`Refuse`). An UPDATE writes the columns that differ from those the
session read (`Update`, `Changed`) and fails when the row is gone; a DELETE
of a row that is gone does nothing. `Fail` is any error between two steps.

| Action | Code |
|---|---|
| `Signup`/`CreateUser`, `Login`/`CreateSession`, `Logout`, `Expire` | `api/auth.py:62-114`, `auth/session.py` |
| `CreateAgent`/`InsertAgent`, `Select`/`Mint`/`HasToken`, `DeleteAgent`, `PatchAgent`/`WritePatch`, `Reload` (the row once more after the commit, an error when it is gone) | `services/agents.py` |
| `CreateProject`, `UpdateProject`, `WriteSlug`, `DeleteProject`/`DropProject` | `services/projects.py` |
| `Authorise`, `ResolveVersion`, `WriteBatch` | a batch: the token, `agent_resolver.py` (a version is named by its sha, short sha or package), attribution and `last_token_used_at` |
| `FindTrajectory`, `InsertComment`, `UpdateComment`, `ResolveComment`, `DeleteComment` | `services/comments.py` |
| `MarkRead`, `MarkAllRead`/`WriteRead`; `InsertLink`, `RevokeLink`, `ResolveLink`; `Assign`/`WriteAssignee`; `PatchNode`/`WriteNote` | `api/notifications.py`, `shared_links.py`, `reviewers.py`, `nodes.py` |
| `TagTrajectory`/`InsertTag`, `DetachTag`; `InsertRewrite`, `UpdateRewrite`, `DeleteRewrite` | `services/failure_modes.py`, `rewrites.py` |

The SELECTs of one handler are one step: what matters is what lies between the
last of them and the write. A batch writes one trajectory's attribution in
one step; its statements and locks are those of `Ingest`.

### `Logs`, `MCLogs`, `LogsProofs`

One process, its loggers, the ring buffer with its subscriber queues, the file
forwarder as a task (`Begin`, `Check`, `Take`, `Timeout` are its awaits), the SSE
streams, and one console in a browser (`AnswerHistory`, `ShowHistory`, `Receive`).
`Emit` logs a line on a logger; which handlers see it follows from `attached` and
`propagating` (`Handled`). The forwarder logs too, so its own warnings come back
to it. Failures of `Take` are caught and logged; `Die` is what no try surrounds: a
path from which no name of a day can be made, a directory that cannot be listed
(`Paths`). The task is over then, until the process is started again.
`Stop` loses all that is in memory; files and the setting stay. Time is
counted in ticks of five seconds (the timeout of the forwarder's `get`) and in
days (rotation and pruning). A behaviour is about the forwarder (`scene =
"admin"`) or about the console: they meet in the buffer only, which both have.

### `ReadSide`, `MCReadSide`, `ReadSideProofs`

Every report is the list of its SELECTs (`Queries`), each one a step (`Select`)
that evaluates an operator over the tables as they are then; what Python does
with the rows (bars, grouping by heuristic and tool, scores, ranking, severity
clamps, deltas against the window before) is in the same operators. `Arrive`,
`Deliver`, `Thumb`, `PatchTag`, `Evaluate`, `Rename` and `Delete` are what first
and later batches, feedback, users and the heuristics write in between. A batch
may change every column of its run: the agent, version, environment and prompt
it is the first to say, the verdict of its root span, the totals. The start moves
either way, as the UPDATE takes the smaller of the batch and the row *as read*
(`ingest.py:203-205`; this is the race of `IngestWindowRace`). `torn` counts the
runs written, `writes` the transactions; deleting an agent writes all its runs.
The queue is a page and one more SELECT for the hits of each of its runs
(`QueueItems`), so `Queries` lists `Limit` of these; those beyond the page read
nothing. A walk (`Count`, `Turn`) asks for page after page of a search by OFFSET; `lost`
counts the runs that matched and were given another start, later or earlier, or
do not match any more.
`percentile_cont` and `date_trunc` are modelled by what Postgres computes; a
percentile is found by counting how many values are smaller (`Place`, `Quantile`)
and ORDER BY with LIMIT is any listing that leaves out no larger row (`Largest`),
so which of two rows that tie comes first is open, as it is in SQL.

### `Tracing`, `MCTracing`, `TracingProofs`

`init()` is two steps: the check of the flag (`InitSdk`) and, after git has been
asked who the agent is, the registration (`Register`). What langperf's own provider makes
is recorded (`Recording`): everything while it is the registered one, and the
calls that the OpenAI instrumentation traces in any case, as `init()` hands it
that provider.

A flow of control (`task`) has its context variables (`ctx`: the OpenTelemetry
context with baggage and current span, the root, the trajectory id) and the
`with` blocks it is in. A task starts with a copy of its creator's variables
(`Spawn`), a thread with none (`StartThread`). A block belongs to the body or to
a generator, and closes when it is the innermost of its own frame, so blocks of
different frames may end in any order; a generator may also be closed by another
task, in whose context nothing can be restored (`ExitElsewhere`). `OnStart` is the span processor that
stamps the baggage; `Baggage`, `EnterTrajectory` and `Restored` are the entry and
exit of `trajectory()`; `EnterNode` is `@node`, `@tool` and the traced calls of
the instrumentation (kinds `node`, `tool`, `call`). A block returns, raises or is cancelled.

## 3. The runs

| Run | Instance | Shows |
|---|---|---|
| `IngestConcurrent` | 4 batches (one a retry) of 5 spans, 2 trajectories, 3 in flight; failures, deadlocks | row writers exclude each other; totals never count what is not stored; window and name come from stored spans; no orphans; acknowledged batches stay; whole batches only; a batch nobody overlapped leaves exact totals; every request is answered |
| `IngestSerial` | 3 batches, one at a time | implements `AtomicIngest` in every order of arrival |
| `IngestTotalsRace` | 3 batches of one trajectory | **violation**: totals out of sync with the spans |
| `IngestWindowRace` | the same | **violation**: the window does not converge |
| `Heuristics` | 2 overlapping batches, 2 trajectories, 6 spans, the backfill, failures, crashes | hits are never torn, name stored spans only; a task sees its batch; an undisturbed evaluation repairs; every task ends |
| `HeuristicsTwice` | the same | **violation**: hits are duplicated |
| `Signals` | 2 root spans, 2 edits, 2 feedbacks of 2 attempts, failures | signals have sources, thumbs never exceed the successful attempts, an acknowledged thumb shows, untouched columns are kept |
| `SignalsNotes` | the same | **violation**: a note is lost |
| `Workspace` | 65 requests in workloads of any two of a part, any three that meet in a row and some longer ones; an empty and a used deployment; failures | unique keys, agents' projects, attribution of batches, whole threads, saved columns, unread notifications, tags, dead tokens |
| `Logs` | 3 records, buffer, queues and history of 2, 2 streams, 5 settings (2 with paths that cannot be used), 3 days, restarts | records once; off means off; one seam in the console; the forwarder catches up |
| `ReadSide` | 5 runs of 2 agents, 2 histories, 3 kinds of late batches, 2 writes during a report, an hour that ends meanwhile, pages and rankings of 2 | the figures of a report agree; a walk over pages misses no run that was not moved or taken away |
| `Tracing` | 2 flows of control, 3 spans, a named final and an unnamed non-final trajectory, tools and traced calls, generators that end in their own or another context, another provider | the context variables agree; children stay with their trajectory; marks reach the root |

Bounds and why they are enough. `MaxConcurrent = 3` with two trajectories
gives a cycle of waits, a third party to it, and a request that waits for a
holder that fails; a lost update needs two. The spans of `t1` are chosen so that
the second one extends the window at both ends and the third has no end; names
differ. The first two bodies touch both trajectories and spans are taken in
either order, so locks are taken in opposite orders. In `Heuristics` a loop, and
the last word of the model, appear only when both batches are there, and the
slow call only once the other trajectory is part of the baseline, so stale
reads make a difference; each of the five heuristics finds something in some state or
stops finding it. In `Signals` `MaxAttempts` is 2 where the SDK makes 4:
the interesting case, a late answer together with a retry, needs two. One feedback
belongs to another agent, and one edit and one mark use a tag that is not
allowed, so each refusal is taken.

In `Workspace` two requests suffice for a check that is stale when the write
comes, three for a cycle through a third row (move into a project while the
default one is renamed and dropped; rotate, issue and a batch). In `Logs` a
buffer and queues of 2 overflow with the third record, the third of the days lets files age
past `keep_days = 1`, and `MaxRecords` bounds the records of a whole behaviour,
also those the forwarder causes itself: failures end when they are used
up. `CatchesUp` has that proviso, and another: it is about behaviours in which
every enabled setting the forwarder loads has a path that can be used. Without
it TLC ends in `Die` (see below), which `Logs.cfg` also explores. In `ReadSide` two writes are one more than
any pair of SELECTs needs to disagree, the batches move a start both ways, and `MinSample`, `Limit` and `Page` of 2
are reached and exceeded by five runs. In `Tracing` three spans are a trajectory, a
nested one and a node in either; three open blocks let two frames
cross.

Each property of a passing run has a mutant in its module (`PROJECT.json`,
"mutants"): the change of one definition that a plausible bug would make, under which TLC
finds the property violated.

**Fairness.** `Ingest` assumes weak fairness of each request's next statement
and of deadlock detection: the event loop resumes a coroutine whose statement
has returned, and Postgres grants a free lock and looks for deadlocks after
`deadlock_timeout`. A statement that waits for a lock is not enabled, so this
does not assume lock waits away. `Heuristics` assumes it for each worker's next
statement. Nothing is assumed about clients, failures, crashes, batches or the
start of the backfill. `Logs` assumes weak fairness of the forwarder's next
step: the event loop runs a task whose await is over; nothing is assumed of log
records, days, clients, restarts or failures. `Signals`, `Workspace`, `ReadSide` and
`Tracing` assume none and state safety only. Their behaviours end when every
request, report or program has, so deadlock is not checked there; nor in `Logs`,
where the process may be down for good.

### What the violations say

* `TotalsInSync`: the module's docstring promises that totals are not "out of
  sync with the spans they summarize". Two overlapping batches of one trajectory each
  SELECT the spans without the other's; the later commit wins. It heals with
  the next batch nothing overlaps (`SoloCommitHeals`), which for the last two
  batches of a run never comes.
* `WindowConverges`: `test_otlp_resume.py:224` promises convergence of segments that arrive
  in any order. It holds for any order (`ImplementsAtomic`, and `SerialKeepsPromises` for
  every set of batches), not for overlapping requests; what remains true is that the window's ends are those
  of stored spans (`WindowAttained`). Unlike totals, the window is never
  recomputed.
* `NoDuplicateHits`: `test_engine.py:29` says running twice does not duplicate.
  One after the other it does not; overlapping, each inserts its own.
* `NotesSurvive`: `feedback.py:66` says notes survive; a note committed between
  the feedback's SELECT and UPDATE does not.

### What else the models make visible

The first four contradict a statement in the repository too. The models have
them as ordinary steps, and the properties that hold say what is left:

* `agent_resolver.py:7-8` promises a row for each tuple of agent, sha and
  package. A NULL in the unique key makes tuples distinct, so of two first batches
  without a package (or without a sha) that overlap each inserts its own, and
  every later batch of that version fails in `scalar_one_or_none` (`:141`,
  `ResolveVersion`; the workload `part1`, `part2`, `part3`). `KeysUnique` holds of keys without a NULL.
* `failure_modes.py:57` calls tagging idempotent. Of two taggings that race the
  second meets the primary key and is answered 500 (`InsertTag`). The tag itself is
  there (`TaggedUntilDetached`).
* `file_forwarder.py:4-5` needs no restart, and `:86` says the task must not die.
  `_rotate_path` (`:104`) and `_prune` (`:114`) are outside any try: a path without a name
  raises ValueError, a directory that cannot be listed OSError, either ends
  `run()`, and saving a good path starts nothing (`Die`). `CatchesUp` is stated for good paths.
* `tracer.py:37-38` says only the first call of `init()` wires the provider up. Two
  that overlap both do, as the flag is read at `:64` and set at `:154`: OpenTelemetry
  keeps the first provider, `flush()` the second (`InitSdk` twice, then `Register`).
  The instance has one caller of `init()`, since no property depends on it.

The others are denied by no statement, or are a matter of a word in a docstring:

* A trajectory shared by two agents shows the service name of the last and
  belongs to the first (`ingest.py:220`). A batch authorised before a rotation
  sets `last_token_used_at` after it. `BatchesAttributed` says what remains true.
* The default project may be renamed and then deleted (`projects.py:134`);
  `get_default_project_id` makes another on demand.
* A version's `last_seen_at` does not move: the nudge assigns the label the row
  has (`agent_resolver.py:145`).
* The worklist counts hits where it says runs (`agent_worklist.py:130`), and an
  evaluation makes old hits recent. The queue counts the hits of its filter and
  lists all of them; its `total` is the number of items on the page.
* `error_rate` may exceed 1 when a run is marked between two SELECTs.
* On Postgres the bucket key of `agent_timeseries.py:89-97` rounds where its
  docstring says floor: buckets are shifted by half a step.
* The first bar of the dashboard is cut: rows begin 24 hours ago, bars with a full hour.
* `list_runs` orders by `started_at` alone, so runs that start at the same time
  may be shown twice or not at all.
* A slow reader's queue drops the newest lines and nobody is told; `/recent`
  filters the last four times `limit` lines only.
* The console replaces what the stream has shown by the history, whose answer
  may be older: lines in between are missing, or come twice at the seam. After a
  restart of the API a new line may carry the number of the last one shown and
  is then taken for a repetition.
* `_prune` also deletes the undated file when it is old, where its docstring says
  rotated files.
* In a generator that outlives a block begun around or inside it, a node brings
  back the baggage of a trajectory that is over, and not its root. A trajectory
  without a name inside a named one keeps the outer one's name. A cancelled
  tool has neither result nor error. Marks on a root that has ended vanish.
  After another library has registered a provider only the traced OpenAI calls are
  recorded, with the trajectory's id and no parent that is. A generator that another task closes
  leaves its trajectory current in the task that iterated it.

## 4. The proofs

The theorems hold for every value of the constants that satisfies the named
assumptions of the modules. Each has an inductive invariant, made of named
parts, that holds initially (`...Init`), is kept by every action (one lemma per
action, or per group of actions that write the same thing), and implies the
property. An invariant of a component is proved under the invariants of the
components below it: `CInv` uses `AInv`, which uses `BInv`.

### What is assumed

| Assumption | What it says | Why the code or the database justifies it |
|---|---|---|
| `DataAssumption`, `NullAssumption` (`Ingest`) | types; batches are not empty; `None` and `NoRow` are no values | an empty export reaches no row |
| `WorkAssumption` (`Heuristics`) | types; `Slow` may be any operator | |
| `SignalAssumption`, `NoRowAssumption` (`Signals`) | types; calls of different kinds differ; `Clear` is no value; feedbacks are finitely many | counts of thumbs are of finite sets |
| `TracingAssumption` | a trajectory has an id; `final` is a Boolean; other blocks are nodes, tools or traced calls | `trajectory()` makes a uuid when it is given none |
| `AccountsAssumption`, `UsersAssumption` | members have a profile each and different e-mails; new ids are new | `users.email` is unique, ids are uuids |
| `AgentsAssumption`, `AgentRowsAssumption` | agents and projects of a used deployment refer to each other and have unique names and slugs | foreign keys and unique constraints of what is there already |
| `CollabAssumption`, `ItemsAssumption` | comments that are there have their authors and parents; an id is of one table; columns of a rewrite have the types of its schema | foreign keys, uuids, pydantic |
| `LogsAssumption` | limits are positive; `HistoryLimit <= ConsoleMax`; settings are typed, their paths anything (`Paths`) | the console asks for 300 lines and keeps 3000; pydantic checks types only |
| `LoggersAssumption` | each logger's ancestry ends in the root and has no repetition; root is not in `Direct` | parents of loggers form a tree; `_DIRECT_ATTACH_LOGGERS` does not list the root |
| `ReadSideAssumption` | tables and batches are finite and typed; tags are verdicts; durations and severities are not negative; spans belong to runs; limits, buckets and windows are positive; the tables of logarithms and powers are not empty | `started_at` is NOT NULL, tags are `ALLOWED_TAGS`, `spans.trajectory_id` is a foreign key; the rest are literals of the code |

`NoRow \notin ...` and the like say that what stands for SQL's NULL, or for a row
that is not there, is not mistaken for a row.

### `IngestProofs`

`TypeOK`, `WritersExclude`, `NeverOvercounts`, `WindowAttained`, `NoOrphans`,
`AckedIsStored`, `AllOrNothing` and `SoloCommitHeals`, for any batches and any number of
concurrent requests. None is inductive alone: a commit publishes whatever the
session prepared, so the invariant must say that it was prepared right. `IInv` adds
that each session is sound (where it stands, what is handled, read and counted
agree: the spans already put and still to do make up the body, what it counted is visible
to it), that its own rows are backed by spans visible to it, and that there
is a row, own or committed, for each of those spans; for `SoloCommitHeals`, that a solo
request's counts are those of what is visible, as nothing is committed while it
runs alone. With `WritersExclude`, the row a transaction overwrites is the row
that is there.

Two theorems are about one request at a time, which is the instance
`IngestSerial` checks (`MaxConcurrent = 1`; their hypothesis says no more). `SerialIsAtomic`:
every step of `Ingest` is a step of `AtomicIngest` or a stutter. Only
`Commit` maps to a step, and it must find that the rows it publishes summarise
the spans, so `SerialInv` carries the summary along the request: what the one request
reads is what is committed or what it wrote itself, its rows cover exactly the
spans it has widened them by, the name is the first's that had one, the duration of
a trajectory already recomputed is that of its window, and committed totals are those of stored
spans. `SerialKeepsPromises` takes from the same invariant that
`TotalsInSync` and `WindowConverges` hold then: the two promises that the race
runs refute are refuted by overlapping requests only.

### `HeuristicsProofs`

`TypeOK`, `NeverTorn`, `HitsAreGrounded`, `SeesItsBatch` and
`QuietEvaluationRepairs`. `NeverTorn` needs that the set of rows a DELETE
found is, for every worker and trajectory, all that this worker stored there or
none of it; the repair needs that during a quiet evaluation the rows of the trajectory are
the ones the DELETE found, and what was read is what is stored. `QuietInv` says
both.

### `SignalsProofs`

`TypeOK`, `SignalsHaveSources`, `NeverOvercounts`,
`AckedThumbShows` and `UntouchedColumnsKept`. A success may store what was read
long before, so `IInv` says of every row a call read or holds uncommitted what
the property says of the committed one, with that call's own words added
(`Sourced`, `Counts`); `OwnKeeps` says that the uncommitted row of an ingest
differs from the committed one only where its root span has something to say,
which rests on its lock (`OneOwner`); `Threads` connects a thread to its
attempts. `AckedThumbShows` follows from `Shown`: the thumb of each successful
attempt shows, as the only writer that changes a thumb column writes what it read plus one.

### `TracingProofs`

`ContextsAgree`, `ChildrenStay` and `MarksReachRoot`, for blocks nested as deep
as one likes. A block that ends brings back the context it was entered in, so it
is not enough to know the context of now: `IInv` is about every context a task
has, has had or will have again (`After(t, p)`, the one after its first `p` open blocks).
Each of them names spans there are, and its baggage is that of its current span
(`Grounded`): all `ChildrenStay` rests on, and kept by every order of endings.
As long as blocks have ended in order, root, id and baggage of each agree, and only a
trajectory changes root and id (`Aligned`, `StepOK`). A generator closed elsewhere
restores nothing, so the task it ran in counts as crossed from then on. Without a generator blocks do
end in order, and the root is that of the innermost open trajectory
(`Nested`, `Innermost`), which is what marks need.

### `WorkspaceProofs`, `CollabProofs`

About the composition, so every action of every part is shown to keep each
invariant. `BInv` (`BaseInvariant`): requests and the tables they share are
typed, sessions and authorised requests are of users that are there, e-mails are unique, and a signup that
saw an organization still sees one. `AInv` (`AgentsInvariant`): keys are unique
and agents housed (`Keys`); what a handler has found of an agent or a version
stays true as long as the rows are there (`SeenOK`); and what is written is accounted for (`Written`: each
version and attribution has a batch, answered, whose findings it repeats). From
it follow `KeysUnique`, `ProjectsOutliveAgents`, `BatchesAttributed` and
`RevokedStaysRevoked`. The last needs to know what a step may do to the token
of a row (`TokensMinted`): leave it, or mint one that nobody has had. An edit or a batch
whose session still holds the row as it was before a rotation does not write the column, as
it has not changed it.

`CInv` (`CollabInvariant`): rows stay in their tables and no deleted row comes
back (`ItemBirths`); what a handler found is there or was changed as some rival
asked (`Holds`); `ThreadsWhole`, `ReadWasListed` and `TaggedUntilDetached`, which are inductive
with that. `SavedStays` is `Holds` for the requests that have written: no step
changes a column but as a request for it asks (`RowKept`), although several
sessions write from rows they read earlier. `TypeOK` of the whole API follows from the
three.

### `LogsProofs`

`TypeOK`, `RecordsOnce`, `OffMeansOff` and `OneSeam`. `HandledOnce` proves from the tree of
loggers that a record passes exactly one logger that holds the handler:
those with one of their own do not propagate. Hence records enter the buffer and
the queues in the order of logging (`Buffered`: each is ordered, and nothing in
it is newer than the newest record, so what comes next belongs at its end). What files
have is older than what waits in the forwarder's queue, and is there once (`Filed`).
`Shown` says the same of the page and of what is on its way to it: what it shows has no seam,
or has the one where history met the stream and goes on with lines newer than its last
(`Seamed`). `OffMeansOff` needs that the forwarder's copy of the setting is no older
than a reload interval and one timeout (`Young`), which rests on `Tick`: five
seconds pass only while the forwarder waits in its `get`, whose timeout is that long.

### `ReadSideProofs`

`PagingMissesNothing` for any number of runs, any page length, any filter and any writes in
between. The argument is one of ranks. A run's rank is the number of
matching runs not older than it; without ties, ranks fill `1..n` (a pigeonhole argument,
`RanksFill`), so a page is a range of ranks. `WalkInv` says: there is a set `X`
of runs, no more than the writes so far that gave a matching run another start or made it stop matching (`lost`), such that every run
the walk owes and has not shown is in `X` or lies behind the pages turned
(`Excuses`, `OutOfReach`). A run that arrives or begins to match pushes others back,
which is harmless, as it is not owed itself. A write that moves `m` runs (one
batch moves one, the deletion of an agent all of its own) excuses no more than
`m` (`Slips`): what has moved may cross the turned pages itself, a run that becomes newer
between two pages is on neither; and as many of those behind cross them as have gone
from before them. So `X` grows by no more than `lost` does. When a page comes
back short nothing lies behind it. `X` is quantified because the state does not
say which runs have slipped.

`FiguresAgree` for any runs, calls and findings, any limits, buckets and windows,
and any writes and turns of the clock between the SELECTs. The snapshots of two
SELECTs are gone when their results are compared, so the invariant keeps what
they leave behind. `ReportInv` says: there is a set `X` of runs, no more than
the runs written so far (`torn`), such that every SELECT that has been done returned
what holds of *some* tables that differ from those of now in runs of `X` only
(`Accounts`, `Unlike`). A SELECT adds a result that holds of the tables as they
are (`SelectAnswers`, and `...Answers` for each report); a write of a run adds that run to `X`; the clock changes
nothing, as `since` is fixed and what is shown by hours may be cut but not added
to (`VolumeAnswers`). Two sets of runs taken from tables that differ in `X` only
differ in runs of `X` only (`CloseCounts`), so when the report is complete two counts differ by
`torn` at most (`...Agreement`, one per report). The window lies in the past,
which is what makes runs of the current window runs of the snapshot. For the
queue, whose items are one SELECT each, the invariant also says that the hits
listed for a run outside `X` are those it has (`Lists`).

Below that are facts about what one SELECT computes, for every input:
sums over the parts of a finite set count the whole (`SumOfParts`), what ORDER BY
with LIMIT picks exists and descends (`LargestType`), and p50, p95 and p99 of the
same values ascend (`QuantilesAscend`). They
need induction over sets and numbers, and the induction theorems of the library
cannot be instantiated; instead the set of inputs for which a fact fails is
taken, and if it had a member it would have a minimal one (`WFMin` with the
orderings `FS_StrictSubsetOrderingWellFounded` and `NatLessThanWellFounded`,
which take sets and no operators).

`ReportInv` itself is not a run's invariant: its quantifier over all tables is
too large to enumerate. TLC checks what follows from it, and the proof of every
step is what shows that it is inductive.

### What is only model-checked

* Liveness, `EveryRequestAnswered`, `EveryTaskEnds` and `CatchesUp`: the prover
  does not reach fairness and ENABLED.

Every invariant and action property of a passing run is a theorem. What the
violation runs refute is not, of course; `SerialKeepsPromises` proves where two
of those promises hold.

Some definitions have the form they have so that a prover can use them: `Thread`
is the least set closed under replies instead of a recursion over them, `Recent` picks by rank
instead of sorting, `Largest` and `Place` choose by comparison and count instead
of sorting, rows are sets of records, `Hits` is a subset of a product.

## 5. Not modelled, and the plan

Left out for good: OTLP decoding, span kinds and token counts (`otlp/decoder.py`,
`attrs.py`: pure translation of one payload), response schemas, rendering of
Markdown, CSV and the web pages, the migrations and what `lifespan` does with
Alembic (before the program serves), password hashes, `agent_naming.py` (nothing
in the API calls it), the free text filter of searches, the heat map (empty),
examples and scripts.

Left out so far: truncation and capture of tool arguments, what `flush()` does
beyond which provider it is given to and the batch exporter's bounded queue (a
library's), the label and `last_seen_at` of
versions, the statements inside a batch together with the agent's row lock
(`agent_resolver.py:113`).

What follows: the statements inside a batch together with the agent's row lock,
which needs the resolver and the ingest in one module at the grain of statements.
