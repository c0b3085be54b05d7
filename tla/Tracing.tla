------------------------------- MODULE Tracing -------------------------------
(***************************************************************************)
(* The SDK in the traced process (sdk/langperf): init, trajectories, nodes *)
(* and tools as `with' blocks, the marks, and the processor that stamps    *)
(* the baggage on every span.                                              *)
(*                                                                         *)
(* What is current is kept in three context variables: the OpenTelemetry   *)
(* context (baggage and current span), the root span and the id of the     *)
(* trajectory.  A task starts with a copy of its parent's, a thread with   *)
(* none.  A generator runs in the context of whoever iterates it, so that  *)
(* its blocks need not nest with those of the body around it.              *)
(*                                                                         *)
(* Export is OpenTelemetry's: a span that has ended is no longer written.  *)
(***************************************************************************)
EXTENDS Naturals, Sequences, FiniteSets, FiniteSetsExt

CONSTANTS
  Tasks, Main,    \* flows of control, and the one there is from the start
  Calls,          \* arguments of trajectory(): id, name, final
  Callers,        \* modules that call init(): root, origin, inside, name
  NodeKinds,      \* of the blocks that are no trajectories
  None,
  MaxSpans, MaxBlocks, MaxSignals  \* bounds: spans, blocks open in a task, attributes signals have set

(* A trajectory always has an id: the caller's, or a fresh uuid. *)
ASSUME TracingAssumption ==
  /\ Main \in Tasks
  /\ None \notin Nat
  /\ NodeKinds \subseteq {"node", "tool", "call"}
  /\ \A c \in Calls : c.id # None /\ c.final \in BOOLEAN

VARIABLES
  sdk,       \* whose tracer provider is registered, and what calls of init() have left
  task,      \* of each flow: whether it runs, the context it began with, whether it
             \* iterates a generator, and whether blocks have ended out of order
  ctx,       \* its context variables
  blocks,    \* the blocks it is in, the innermost last
  span       \* all spans, in the order they started

vars == <<sdk, task, ctx, blocks, span>>

Empty == [otel |-> [id |-> None, name |-> None, span |-> None], root |-> None, tid |-> None]

Running(t) == task[t].state = "running"

-----------------------------------------------------------------------------
(* init(): a call that finds none done, and a token, goes on.  Finding out *)
(* who the agent is runs git, and another thread may call init meanwhile:  *)
(* then both register.                                                     *)
InitSdk(c, token) ==
  /\ ~ sdk.initialized
  /\ token
  /\ sdk' = [sdk EXCEPT !.begun = @ \cup {c}]
  /\ UNCHANGED <<task, ctx, blocks, span>>

Signature(c) ==
  CASE c.root # None /\ c.origin # None /\ c.inside -> <<"git", c.origin, c.name>>
    [] c.root # None /\ c.origin = None /\ c.inside -> <<"repo", c.root, c.name>>
    [] OTHER -> <<"mod", c.name>>

(* The first provider that is registered stays, set_tracer_provider does   *)
(* nothing then; but the identity and the provider kept for flush() are    *)
(* those of the last call.                                                 *)
Register(c) ==
  LET first == sdk.provider = None IN
  /\ c \in sdk.begun
  /\ sdk' = [initialized |-> TRUE, identity |-> Signature(c), begun |-> sdk.begun \ {c},
             provider |-> IF first THEN "langperf" ELSE sdk.provider,
             exporter |-> IF first THEN Signature(c) ELSE sdk.exporter]
  /\ UNCHANGED <<task, ctx, blocks, span>>

OtherProvider ==
  /\ sdk.provider = None
  /\ sdk' = [sdk EXCEPT !.provider = "other"]
  /\ UNCHANGED <<task, ctx, blocks, span>>

(* What langperf's provider makes is recorded and exported: everything if  *)
(* it is the registered one, and the calls that the instrumentation        *)
(* traces, to which init() hands it, in any case.                          *)
Recording(kind) == sdk.provider = "langperf" \/ (kind = "call" /\ sdk.initialized)

-----------------------------------------------------------------------------
(* A span starts under the current one, and the processor stamps on it the *)
(* baggage of the context it starts in.                                    *)
OnStart(otel, kind) ==
  [kind |-> kind, recorded |-> Recording(kind), ended |-> FALSE,
   parent |-> IF otel.span # None /\ span[otel.span].recorded THEN otel.span ELSE None,
   id |-> otel.id, name |-> otel.name,
   completed |-> None, tool |-> None, signals |-> {}]

Next_ == Len(span) + 1

Room(t) == Running(t) /\ Len(span) < MaxSpans /\ Len(blocks[t]) < MaxBlocks

Push(t, kind, frame, final) ==
  /\ blocks' = [blocks EXCEPT ![t] =
       Append(@, [kind |-> kind, span |-> Next_, outer |-> ctx[t], frame |-> frame, final |-> final])]
  /\ task' = [task EXCEPT ![t].generator = @ \/ frame = "generator"]

(* Mutant: the name is put into a new context instead of the one with the id. *)
Baggage_Unchained(otel, c) ==
  IF c.name # None THEN [otel EXCEPT !.name = c.name] ELSE [otel EXCEPT !.id = c.id]

(* Mutant: only the root span gets the name. *)
Baggage_NoName(otel, c) == [otel EXCEPT !.id = c.id]

(* A trajectory without a name leaves the name of the one around it. *)
Baggage(otel, c) == [otel EXCEPT !.id = c.id, !.name = IF c.name # None THEN c.name ELSE @]

(* with trajectory(...), in the body of the task or in a generator. *)
EnterTrajectory(t, c, frame) ==
  LET bag == Baggage(ctx[t].otel, c)
      started == OnStart(bag, "trajectory")
  IN /\ Room(t)
     /\ span' = Append(span, [started EXCEPT !.id = c.id, !.name = IF c.name # None THEN c.name ELSE @])
     /\ ctx' = [ctx EXCEPT ![t] = [otel |-> [bag EXCEPT !.span = Next_], root |-> Next_, tid |-> c.id]]
     /\ Push(t, "trajectory", frame, c.final)
     /\ UNCHANGED sdk

(* with node(...), a function under @node or @tool, or a call that the     *)
(* instrumentation traces, once it is installed.                           *)
EnterNode(t, kind, frame) ==
  /\ Room(t)
  /\ kind = "call" => sdk.initialized
  /\ span' = Append(span, OnStart(ctx[t].otel, kind))
  /\ ctx' = [ctx EXCEPT ![t].otel.span = Next_]
  /\ Push(t, kind, frame, FALSE)
  /\ UNCHANGED sdk

(* Set an attribute: it is dropped on a span that has ended or is not recorded. *)
Set(s, attribute, value) ==
  IF s # None /\ span[s].recorded /\ ~ span[s].ended
  THEN [span EXCEPT ![s] = [@ EXCEPT ![attribute] = value]] ELSE span

(* What is stamped before the end: a final segment says whether it         *)
(* completed, a tool has its result or its error, a cancelled one neither. *)
Stamped(b, how) ==
  CASE b.kind = "trajectory" /\ b.final -> Set(b.span, "completed", how = "returned")
    [] b.kind = "tool" /\ how = "returned" -> Set(b.span, "tool", "result")
    [] b.kind = "tool" /\ how = "raised" -> Set(b.span, "tool", "error")
    [] OTHER -> span

(* Mutant: no finally, the context is restored only on return. *)
Restored_NoFinally(c, b, how) ==
  IF b.kind = "trajectory" /\ how # "returned" THEN [c EXCEPT !.otel.span = b.outer.otel.span]
  ELSE IF b.kind = "trajectory" THEN b.outer ELSE [c EXCEPT !.otel = b.outer.otel]

(* Every variable gets the value it had when the block was entered. *)
Restored(c, b, how) ==
  IF b.kind = "trajectory" THEN b.outer ELSE [c EXCEPT !.otel = b.outer.otel]

(* The block is the innermost of its frame, but another frame's may have   *)
(* begun since.                                                            *)
Close(t, i, how) ==
  LET b == blocks[t][i] IN
  /\ \A j \in (i + 1) .. Len(blocks[t]) : blocks[t][j].frame # b.frame
  /\ span' = [Stamped(b, how) EXCEPT ![b.span].ended = TRUE]
  /\ blocks' = [blocks EXCEPT ![t] = SubSeq(@, 1, i - 1) \o SubSeq(@, i + 1, Len(@))]
  /\ UNCHANGED sdk

(* The end of a block. *)
Exit(t, i, how) ==
  /\ Running(t)
  /\ Close(t, i, how)
  /\ ctx' = [ctx EXCEPT ![t] = Restored(@, blocks[t][i], how)]
  /\ task' = [task EXCEPT ![t].crossed = @ \/ i # Len(blocks[t])]

(* A generator that t iterated is closed, or goes on, in the context of u: *)
(* the tokens of its block are of another context, reset() of the first    *)
(* one raises, OpenTelemetry's detach() only logs, and nothing is restored *)
(* in either.                                                              *)
ExitElsewhere(u, t, i, how) ==
  /\ Running(u) /\ u # t
  /\ blocks[t][i].frame = "generator"
  /\ Close(t, i, how)
  /\ task' = [task EXCEPT ![t].crossed = TRUE]
  /\ UNCHANGED ctx

-----------------------------------------------------------------------------
(* mark() and set_user() reach for the root of the trajectory, metric()    *)
(* for the current span.                                                   *)
Signal(t, s, signal) ==
  /\ Running(t)
  /\ s # None /\ MapThenSumSet(LAMBDA q : Cardinality(span[q].signals), DOMAIN span) < MaxSignals
  /\ span' = Set(s, "signals", span[s].signals \cup {signal})
  /\ UNCHANGED <<sdk, task, ctx, blocks>>

Mark(t) == Signal(t, ctx[t].root, "tag")

Metric(t) == Signal(t, ctx[t].otel.span, "metric")

(* A task begins with a copy of the context, a thread with an empty one. *)
Begin(u, c, crossed) ==
  /\ task[u].state = "new"
  /\ task' = [task EXCEPT ![u] = [state |-> "running", base |-> c, generator |-> FALSE, crossed |-> crossed]]
  /\ ctx' = [ctx EXCEPT ![u] = c]
  /\ UNCHANGED <<sdk, blocks, span>>

Spawn(t, u) == Running(t) /\ Begin(u, ctx[t], task[t].crossed)

StartThread(t, u) == Running(t) /\ Begin(u, Empty, FALSE)

(* A generator may outlive the task that iterated it. *)
Finish(t) ==
  /\ Running(t) /\ \A i \in DOMAIN blocks[t] : blocks[t][i].frame = "generator"
  /\ task' = [task EXCEPT ![t].state = "finished"]
  /\ UNCHANGED <<sdk, ctx, blocks, span>>

-----------------------------------------------------------------------------
Init ==
  /\ sdk = [initialized |-> FALSE, identity |-> None, begun |-> {}, provider |-> None, exporter |-> None]
  /\ task = [t \in Tasks |->
       [state |-> IF t = Main THEN "running" ELSE "new", base |-> Empty,
        generator |-> FALSE, crossed |-> FALSE]]
  /\ ctx = [t \in Tasks |-> Empty]
  /\ blocks = [t \in Tasks |-> <<>>]
  /\ span = <<>>

Frames == {"body", "generator"}

Next ==
  \/ \E c \in Callers, token \in BOOLEAN : InitSdk(c, token)
  \/ \E c \in Callers : Register(c)
  \/ OtherProvider
  \/ \E t \in Tasks :
       \/ \E c \in Calls, f \in Frames : EnterTrajectory(t, c, f)
       \/ \E kind \in NodeKinds, f \in Frames : EnterNode(t, kind, f)
       \/ \E i \in DOMAIN blocks[t], how \in {"returned", "raised", "cancelled"} :
            Exit(t, i, how) \/ \E u \in Tasks : ExitElsewhere(u, t, i, how)
       \/ Mark(t)
       \/ Metric(t)
       \/ \E u \in Tasks : Spawn(t, u) \/ StartThread(t, u)
       \/ Finish(t)

Spec == Init /\ [][Next]_vars

-----------------------------------------------------------------------------
(* The three context variables of a running task speak of the same         *)
(* trajectory: the id in the baggage, which stamps the spans of others, is *)
(* the one current_trajectory_id() returns, mark() writes to a root span   *)
(* of that id, and the current span is of it as well.  It holds however    *)
(* blocks end and with generators in between, until a generator outlives   *)
(* a block that began inside it or around it, where a node of it brings    *)
(* back the baggage of a trajectory that is over, and not its root, or is  *)
(* closed in another context, where its trajectory stays current.          *)
ContextsAgree ==
  \A t \in Tasks : Running(t) /\ ~ task[t].crossed =>
    LET c == ctx[t] IN
    /\ c.otel.id = c.tid
    /\ c.root = None <=> c.tid = None
    /\ c.root # None => span[c.root].kind = "trajectory" /\ span[c.root].id = c.tid
    /\ c.otel.span # None => span[c.otel.span].id = c.tid

(* A span that is not the root of a trajectory carries the id and the name *)
(* of the span it is a child of: what ingest groups by the attribute and   *)
(* what it links by the parent are the same trajectory, and none is split  *)
(* by a task that outlives its block or by a generator.                    *)
ChildrenStay ==
  \A s \in DOMAIN span : span[s].parent # None /\ span[s].kind # "trajectory" =>
    /\ span[s].id = span[span[s].parent].id
    /\ span[s].name = span[span[s].parent].name

(* In a task that iterates no traced generator, mark() reaches the root of *)
(* the innermost trajectory the task is in, and when it is in none of its  *)
(* own, that of the context it began with: whatever way the blocks before  *)
(* have ended.                                                             *)
MarksReachRoot ==
  \A t \in Tasks : Running(t) /\ ~ task[t].generator =>
    LET own == {i \in DOMAIN blocks[t] : blocks[t][i].kind = "trajectory"} IN
    /\ \A i \in own : (\A j \in own : j <= i) => ctx[t].root = blocks[t][i].span
    /\ own = {} => ctx[t].root = task[t].base.root
    /\ blocks[t] = <<>> => ctx[t] = task[t].base

=============================================================================
