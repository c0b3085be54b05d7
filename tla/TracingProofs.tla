---------------------------- MODULE TracingProofs ----------------------------
(***************************************************************************)
(* The context variables of the SDK, for any number of tasks, threads,     *)
(* generators and blocks, however they nest and end.                       *)
(***************************************************************************)
EXTENDS Tracing, SequenceTheorems, TLAPS

TIds == {None} \cup {c.id : c \in Calls}

TNames == {None} \cup {c.name : c \in Calls}

Refs == {None} \cup (Nat \ {0})

Otel == [id : TIds, name : TNames, span : Refs]

Context == [otel : Otel, root : Refs, tid : TIds]

Kinds == {"trajectory"} \cup NodeKinds

Block == [kind : Kinds, span : Nat \ {0}, outer : Context, frame : Frames, final : BOOLEAN]

SpanRow == [kind : Kinds, recorded : BOOLEAN, ended : BOOLEAN, parent : Refs,
            id : TIds, name : TNames, completed : BOOLEAN \cup {None},
            tool : {None, "result", "error"}, signals : SUBSET {"tag", "metric"}]

TaskRow == [state : {"new", "running", "finished"}, base : Context,
            generator : BOOLEAN, crossed : BOOLEAN]

TypeOK ==
  /\ task \in [Tasks -> TaskRow]
  /\ ctx \in [Tasks -> Context]
  /\ blocks \in [Tasks -> Seq(Block)]
  /\ span \in Seq(SpanRow)

(* The spans a context names are there; its baggage is that of its span.   *)
Grounded(c) ==
  /\ {c.root, c.otel.span} \subseteq {None} \cup DOMAIN span
  /\ c.otel.span # None =>
       span[c.otel.span].id = c.otel.id /\ span[c.otel.span].name = c.otel.name

(* Every context a task has, had or will have again is grounded. *)
TaskGrounded(t) ==
  /\ Grounded(ctx[t]) /\ Grounded(task[t].base)
  /\ \A i \in DOMAIN blocks[t] :
       blocks[t][i].span \in DOMAIN span /\ Grounded(blocks[t][i].outer)

ParentsThere == \A s \in DOMAIN span : span[s].parent \in {None} \cup DOMAIN span

Unstarted(t) == task[t].state = "new" => blocks[t] = <<>>

(* The context after the first p blocks of a task began, those of them it  *)
(* is still in.                                                            *)
After(t, p) == IF p < Len(blocks[t]) THEN blocks[t][p + 1].outer ELSE ctx[t]

Agree(c) ==
  /\ c.otel.id = c.tid
  /\ c.root = None <=> c.tid = None
  /\ c.root # None => span[c.root].kind = "trajectory" /\ span[c.root].id = c.tid

SameTrajectory(c, d) == c.root = d.root /\ c.tid = d.tid

(* Only a trajectory changes root and id. *)
StepOK(t, p) ==
  blocks[t][p].kind # "trajectory" => SameTrajectory(After(t, p), blocks[t][p].outer)

(* As long as blocks end in order, all contexts among them agree. *)
Aligned(t) ==
  ~ task[t].crossed =>
    /\ \A p \in 0 .. Len(blocks[t]) : Agree(After(t, p))
    /\ \A p \in 1 .. Len(blocks[t]) : StepOK(t, p)

Trajectories(t, p) == {i \in 1 .. p : blocks[t][i].kind = "trajectory"}

(* The root after p blocks is that of the innermost trajectory. *)
Innermost(t, p) ==
  /\ \A i \in Trajectories(t, p) :
       (\A j \in Trajectories(t, p) : j <= i) => After(t, p).root = blocks[t][i].span
  /\ Trajectories(t, p) = {} => After(t, p).root = task[t].base.root

(* Without a generator blocks do end in order. *)
Nested(t) ==
  ~ task[t].generator =>
    /\ \A i \in 1 .. Len(blocks[t]) : blocks[t][i].frame = "body"
    /\ After(t, 0) = task[t].base
    /\ \A p \in 1 .. Len(blocks[t]) : StepOK(t, p)
    /\ \A p \in 0 .. Len(blocks[t]) : Innermost(t, p)

TaskOK(t) == TaskGrounded(t) /\ Unstarted(t) /\ Aligned(t) /\ Nested(t)

IInv == TypeOK /\ ParentsThere /\ ChildrenStay /\ \A t \in Tasks : TaskOK(t)

-----------------------------------------------------------------------------
(* The spans. *)

Fixed == {"kind", "recorded", "parent", "id", "name"}

(* What a step may do to the spans: start one, and set attributes of those *)
(* there are, but not what they are and whose.                             *)
SpansKept ==
  /\ Len(span) \in Nat /\ Len(span') \in Nat /\ Len(span) <= Len(span')
  /\ DOMAIN span = 1 .. Len(span) /\ DOMAIN span' = 1 .. Len(span')
  /\ \A s \in DOMAIN span : \A k \in Fixed : span'[s][k] = span[s][k]

LEMMA SpanType ==
  ASSUME TypeOK
  PROVE  /\ Len(span) \in Nat /\ DOMAIN span = 1 .. Len(span)
         /\ \A s \in DOMAIN span : span[s] \in SpanRow
BY LenProperties, ElementOfSeq DEF TypeOK

LEMMA SameSpans ==
  ASSUME TypeOK, span' = span
  PROVE  SpansKept /\ span' \in Seq(SpanRow)
BY SpanType DEF SpansKept, TypeOK

LEMMA StartedSpan ==
  ASSUME TypeOK, NEW r \in SpanRow, span' = Append(span, r)
  PROVE  /\ SpansKept /\ span' \in Seq(SpanRow)
         /\ DOMAIN span' = DOMAIN span \cup {Next_}
         /\ \A s \in DOMAIN span : span'[s] = span[s]
         /\ Next_ \in Nat \ {0} /\ Next_ \notin DOMAIN span /\ span'[Next_] = r
<1>1. span \in Seq(SpanRow) /\ Len(span) \in Nat /\ DOMAIN span = 1 .. Len(span)
  BY SpanType DEF TypeOK
<1>2. /\ span' \in Seq(SpanRow) /\ Len(span') = Len(span) + 1
      /\ \A s \in 1 .. Len(span) : span'[s] = span[s]
      /\ span'[Len(span) + 1] = r
  BY <1>1, AppendProperties
<1>3. DOMAIN span' = 1 .. Len(span')
  BY <1>2, LenProperties
<1> QED BY <1>1, <1>2, <1>3 DEF SpansKept, Next_

(* Rows of the same spans. *)
KeptIn(new) ==
  /\ new \in Seq(SpanRow) /\ Len(new) = Len(span)
  /\ \A q \in DOMAIN span : \A k \in Fixed : new[q][k] = span[q][k]

(* A row is replaced by one with the same fixed columns. *)
LEMMA ReplacedSpan ==
  ASSUME NEW old \in Seq(SpanRow), NEW s \in DOMAIN old, NEW row \in SpanRow,
         \A k \in Fixed : row[k] = old[s][k]
  PROVE  LET new == [old EXCEPT ![s] = row] IN
         /\ new \in Seq(SpanRow) /\ Len(new) = Len(old)
         /\ \A q \in DOMAIN old : \A k \in Fixed : new[q][k] = old[q][k]
<1> DEFINE new == [old EXCEPT ![s] = row]
<1>1. DOMAIN old = 1 .. Len(old)
  BY LenProperties
<1>2. /\ new \in Seq(SpanRow) /\ Len(new) = Len(old)
      /\ \A q \in 1 .. Len(old) : new[q] = IF q = s THEN row ELSE old[q]
  BY <1>1, ExceptSeq
<1> QED BY <1>1, <1>2

(* What set_attribute leaves alone, recorded or not. *)
LEMMA SetSpan ==
  ASSUME TypeOK, NEW s \in {None} \cup DOMAIN span,
         NEW attribute \in {"completed", "tool", "signals"}, NEW value,
         s # None => [span[s] EXCEPT ![attribute] = value] \in SpanRow
  PROVE  KeptIn(Set(s, attribute, value))
<1>1. CASE s # None /\ span[s].recorded /\ ~ span[s].ended
  <2> DEFINE row == [span[s] EXCEPT ![attribute] = value]
  <2>1. s \in DOMAIN span /\ row \in SpanRow /\ \A k \in Fixed : row[k] = span[s][k]
    BY <1>1, SpanType DEF Fixed, SpanRow
  <2>2. Set(s, attribute, value) = [span EXCEPT ![s] = row]
    BY <1>1 DEF Set
  <2> HIDE DEF row
  <2> QED BY <2>1, <2>2, ReplacedSpan DEF TypeOK, KeptIn
<1>2. CASE ~ (s # None /\ span[s].recorded /\ ~ span[s].ended)
  BY <1>2 DEF Set, TypeOK, KeptIn
<1> QED BY <1>1, <1>2

(* What was there is as grounded, and as much in agreement, as before.     *)
LEMMA ContextKept ==
  ASSUME TypeOK, SpansKept, NEW c \in Context
  PROVE  /\ Grounded(c) => Grounded(c)'
         /\ Grounded(c) /\ Agree(c) => Agree(c)'
BY TracingAssumption DEF Grounded, Agree, SpansKept, Fixed, Context, Otel, Refs

-----------------------------------------------------------------------------
(* The stacks of blocks. *)

LEMMA BlocksType ==
  ASSUME TypeOK, NEW t \in Tasks
  PROVE  /\ blocks[t] \in Seq(Block) /\ Len(blocks[t]) \in Nat
         /\ DOMAIN blocks[t] = 1 .. Len(blocks[t])
         /\ \A i \in DOMAIN blocks[t] : blocks[t][i] \in Block
         /\ \A p \in 0 .. Len(blocks[t]) : After(t, p) \in Context
<1>1. blocks[t] \in Seq(Block) /\ ctx[t] \in Context
  BY DEF TypeOK
<1>2. /\ Len(blocks[t]) \in Nat /\ DOMAIN blocks[t] = 1 .. Len(blocks[t])
      /\ \A i \in DOMAIN blocks[t] : blocks[t][i] \in Block
  BY <1>1, LenProperties, ElementOfSeq
<1>3. \A p \in 0 .. Len(blocks[t]) : After(t, p) \in Context
  <2> TAKE p \in 0 .. Len(blocks[t])
  <2>1. CASE p < Len(blocks[t])
    <3>1. blocks[t][p + 1] \in Block
      BY <1>2, <2>1
    <3> QED BY <2>1, <3>1 DEF After, Block
  <2>2. CASE ~ (p < Len(blocks[t]))
    BY <1>1, <2>2 DEF After
  <2> QED BY <2>1, <2>2
<1> QED BY <1>1, <1>2, <1>3

LEMMA AfterGrounded ==
  ASSUME TypeOK, NEW t \in Tasks, TaskGrounded(t), NEW p \in 0 .. Len(blocks[t])
  PROVE  Grounded(After(t, p))
BY BlocksType DEF TaskGrounded, After

(* What a task has is as grounded as before, whatever its next context.    *)
LEMMA GroundedKept ==
  ASSUME TypeOK, SpansKept, NEW t \in Tasks, TaskGrounded(t)
  PROVE  /\ Grounded(ctx[t]) /\ \A c : c = ctx[t] => Grounded(c)'
         /\ \A c : c = task[t].base => Grounded(c)'
         /\ \A i \in DOMAIN blocks[t] :
              /\ blocks[t][i].span \in DOMAIN span'
              /\ \A c : c = blocks[t][i].outer => Grounded(c)'
<1>1. \A c : c = ctx[t] => Grounded(c)'
  BY ContextKept DEF TypeOK, TaskGrounded
<1>2. \A c : c = task[t].base => Grounded(c)'
  BY ContextKept DEF TypeOK, TaskRow, TaskGrounded
<1>3. ASSUME NEW i \in DOMAIN blocks[t], NEW c, c = blocks[t][i].outer
      PROVE  Grounded(c)'
  <2>1. c \in Context /\ Grounded(c)
    BY <1>3, BlocksType DEF TaskGrounded, Block
  <2> QED BY <2>1, ContextKept
<1>4. \A i \in DOMAIN blocks[t] : blocks[t][i].span \in DOMAIN span'
  BY DEF TaskGrounded, SpansKept
<1> QED BY <1>1, <1>2, <1>3, <1>4 DEF TaskGrounded

(* So is what agrees. *)
LEMMA AgreeKept ==
  ASSUME TypeOK, SpansKept, NEW t \in Tasks, TaskGrounded(t),
         NEW p \in 0 .. Len(blocks[t]), Agree(After(t, p)), NEW c, c = After(t, p)
  PROVE  Agree(c)'
<1>1. c \in Context /\ Grounded(c) /\ Agree(c)
  BY BlocksType, AfterGrounded
<1> QED BY <1>1, ContextKept

(* A task whose blocks and context a step leaves alone. *)
LEMMA TaskKept ==
  ASSUME TypeOK, SpansKept, NEW t \in Tasks, TaskOK(t),
         task'[t].base = task[t].base, task'[t].generator = task[t].generator,
         task'[t].crossed = task[t].crossed, Unstarted(t)',
         ctx'[t] = ctx[t], blocks'[t] = blocks[t]
  PROVE  TaskOK(t)'
<1>1. /\ \A p : After(t, p)' = After(t, p)
      /\ \A p : Trajectories(t, p)' = Trajectories(t, p)
  BY DEF After, Trajectories
<1>2. TaskGrounded(t)'
  BY GroundedKept DEF TaskGrounded, TaskOK
<1>4. \A p : StepOK(t, p)' <=> StepOK(t, p)
  BY <1>1 DEF StepOK, SameTrajectory
<1>5. \A p : Innermost(t, p)' <=> Innermost(t, p)
  BY <1>1 DEF Innermost
<1>6. Aligned(t)'
  <2> SUFFICES ASSUME ~ task'[t].crossed
               PROVE  (\A p \in 0 .. Len(blocks[t]) : Agree(After(t, p)))'
                      /\ \A p \in 1 .. Len(blocks'[t]) : StepOK(t, p)'
    BY DEF Aligned
  <2>1. ASSUME NEW p \in 0 .. Len(blocks[t])
        PROVE  Agree(After(t, p))'
    <3>1. \A c : c = After(t, p) => Agree(c)'
      BY AgreeKept DEF TaskOK, Aligned
    <3> QED BY <1>1, <3>1
  <2> QED BY <1>4, <2>1 DEF TaskOK, Aligned
<1>7. Nested(t)'
  BY <1>1, <1>4, <1>5 DEF TaskOK, Nested
<1> QED BY <1>2, <1>6, <1>7 DEF TaskOK

(* A task that a step of another leaves alone. *)
LEMMA OthersOK ==
  ASSUME TypeOK, SpansKept, NEW t \in Tasks, TaskOK(t),
         task'[t] = task[t], ctx'[t] = ctx[t], blocks'[t] = blocks[t]
  PROVE  TaskOK(t)'
BY TaskKept DEF TaskOK, Unstarted

-----------------------------------------------------------------------------
(* The steps. *)

(* The spans after a step that starts none. *)
LEMMA SpansOK ==
  ASSUME IInv, SpansKept, DOMAIN span' = DOMAIN span
  PROVE  /\ ChildrenStay'
         /\ ParentsThere'
BY DEF IInv, ParentsThere, ChildrenStay, SpansKept, Fixed

(* The spans after a step that starts one. *)
LEMMA NewSpanOK ==
  ASSUME IInv, SpansKept, DOMAIN span' = DOMAIN span \cup {Next_},
         Next_ \notin DOMAIN span,
         span'[Next_].parent \in {None} \cup DOMAIN span,
         span'[Next_].parent # None /\ span'[Next_].kind # "trajectory" =>
           /\ span'[Next_].id = span[span'[Next_].parent].id
           /\ span'[Next_].name = span[span'[Next_].parent].name
  PROVE  /\ ChildrenStay'
         /\ ParentsThere'
<1>1. \A s \in DOMAIN span : /\ span[s].parent \in {None} \cup DOMAIN span
                             /\ span'[s].parent = span[s].parent /\ span'[s].kind = span[s].kind
                             /\ span'[s].id = span[s].id /\ span'[s].name = span[s].name
  BY DEF IInv, ParentsThere, SpansKept, Fixed
<1>2. None \notin DOMAIN span
  BY TracingAssumption DEF SpansKept
<1> QED BY <1>1, <1>2 DEF IInv, ChildrenStay, ParentsThere

(* A block begins. *)
LEMMA Entered ==
  ASSUME TypeOK, SpansKept, NEW t \in Tasks, TaskOK(t), NEW b \in Block, NEW c \in Context,
         Running(t), b.outer = ctx[t],
         blocks' = [blocks EXCEPT ![t] = Append(@, b)],
         ctx' = [ctx EXCEPT ![t] = c],
         task' = [task EXCEPT ![t].generator = @ \/ b.frame = "generator"],
         b.span \in DOMAIN span', Grounded(c)',
         b.kind = "trajectory" => c.root = b.span /\ Agree(c)',
         b.kind # "trajectory" => SameTrajectory(c, ctx[t]) /\ c.otel.id = ctx[t].otel.id
  PROVE  TaskOK(t)'
<1>0. PICK n : n = Len(blocks[t])
  OBVIOUS
<1>1. TaskGrounded(t) /\ Aligned(t) /\ Nested(t)
  BY DEF TaskOK
<1>2. /\ n \in Nat /\ DOMAIN blocks[t] = 1 .. n /\ blocks[t] \in Seq(Block)
      /\ 1 .. n + 1 = (1 .. n) \cup {n + 1} /\ 0 .. n + 1 = (0 .. n) \cup {n + 1}
  BY <1>0, BlocksType
<1>3. /\ blocks'[t] = Append(blocks[t], b) /\ ctx'[t] = c
      /\ task'[t].generator = (task[t].generator \/ b.frame = "generator")
      /\ task'[t].base = task[t].base /\ task'[t].crossed = task[t].crossed
      /\ task'[t].state = task[t].state
  BY DEF TypeOK, TaskRow
<1>4. /\ Len(blocks'[t]) = n + 1 /\ blocks'[t][n + 1] = b
      /\ \A i \in 1 .. n : blocks'[t][i] = blocks[t][i]
      /\ DOMAIN blocks'[t] = 1 .. n + 1
  <2>1. blocks'[t] \in Seq(Block)
    BY <1>2, <1>3, AppendProperties
  <2> QED BY <1>0, <1>2, <1>3, <2>1, AppendProperties, LenProperties
<1>5. /\ \A p \in 0 .. n : After(t, p)' = After(t, p)
      /\ After(t, n + 1)' = c /\ After(t, n) = ctx[t]
  BY <1>0, <1>2, <1>3, <1>4 DEF After
<1>6. /\ \A p \in 0 .. n : Trajectories(t, p)' = Trajectories(t, p)
      /\ \A p \in 0 .. n : Trajectories(t, p) \subseteq 1 .. n
      /\ Trajectories(t, n + 1)' =
           Trajectories(t, n) \cup (IF b.kind = "trajectory" THEN {n + 1} ELSE {})
  <2>1. /\ \A p \in 0 .. n : Trajectories(t, p) \subseteq 1 .. n
        /\ \A p \in 0 .. n : \A i \in 1 .. p : i \in 1 .. n
    BY <1>2 DEF Trajectories
  <2>2. \A p \in 0 .. n : Trajectories(t, p)' = Trajectories(t, p)
    BY <1>4, <2>1 DEF Trajectories
  <2>3. Trajectories(t, n + 1)' = {i \in (1 .. n) \cup {n + 1} : blocks'[t][i].kind = "trajectory"}
    BY <1>2 DEF Trajectories
  <2>4. n + 1 \notin 1 .. n
    BY <1>2
  <2> QED BY <1>4, <2>1, <2>2, <2>3, <2>4 DEF Trajectories
<1>7. TaskGrounded(t)'
  <2>1. ASSUME NEW i \in 1 .. n
        PROVE  blocks'[t][i].span \in DOMAIN span' /\ Grounded(blocks[t][i].outer)'
    BY <1>1, <1>2, <1>4, GroundedKept
  <2>2. Grounded(task[t].base)'
    BY <1>1, <1>3, GroundedKept
  <2>3. blocks'[t][n + 1].span \in DOMAIN span' /\ \A i : i = n + 1 => Grounded(blocks[t][i].outer)'
    BY <1>1, <1>4, GroundedKept
  <2>4. Grounded(ctx[t])'
    BY <1>3
  <2> QED BY <1>2, <1>4, <2>1, <2>2, <2>3, <2>4 DEF TaskGrounded
<1>8. Unstarted(t)'
  BY <1>3 DEF Unstarted, Running
<1>9. \A p \in 1 .. n + 1 : (p \in 1 .. n => StepOK(t, p)) => StepOK(t, p)'
  <2>1. ASSUME NEW p \in 1 .. n, StepOK(t, p)
        PROVE  StepOK(t, p)'
    <3>1. p \in 0 .. n /\ blocks'[t][p] = blocks[t][p] /\ After(t, p)' = After(t, p)
      BY <1>2, <1>4, <1>5
    <3> QED BY <2>1, <3>1 DEF StepOK, SameTrajectory
  <2>2. StepOK(t, n + 1)'
    BY <1>4, <1>5 DEF StepOK
  <2> QED BY <1>2, <2>1, <2>2
<1>10. Aligned(t)'
  <2> SUFFICES ASSUME ~ task[t].crossed
               PROVE  /\ \A p \in 0 .. n + 1 : Agree(After(t, p))'
                      /\ \A p \in 1 .. n + 1 : StepOK(t, p)'
    BY <1>3, <1>4 DEF Aligned
  <2>1. /\ \A p \in 0 .. n : Agree(After(t, p))
        /\ \A p \in 1 .. n : StepOK(t, p)
    BY <1>0, <1>1 DEF Aligned
  <2>2. ASSUME NEW p \in 0 .. n
        PROVE  Agree(After(t, p))'
    <3>1. \A d : d = After(t, p) => Agree(d)'
      BY <1>1, <2>1, AgreeKept, <1>0
    <3> QED BY <1>5, <3>1
  <2>3. Agree(c)'
    <3>1. CASE b.kind # "trajectory"
      <4>1. ctx[t] = After(t, n) /\ n \in 0 .. n
        BY <1>2, <1>5
      <4>2. Agree(ctx[t]) /\ \A d : d = ctx[t] => Agree(d)'
        BY <1>1, <2>1, <4>1, AgreeKept, <1>0
      <4> QED BY <3>1, <4>2 DEF Agree, SameTrajectory
    <3> QED BY <3>1
  <2>4. Agree(After(t, n + 1))'
    BY <1>5, <2>3
  <2> QED BY <1>2, <1>9, <2>1, <2>2, <2>4
<1>11. Nested(t)'
  <2> SUFFICES ASSUME ~ task'[t].generator
               PROVE  /\ \A i \in 1 .. n + 1 : blocks'[t][i].frame = "body"
                      /\ After(t, 0)' = task'[t].base
                      /\ \A p \in 1 .. n + 1 : StepOK(t, p)'
                      /\ \A p \in 0 .. n + 1 : Innermost(t, p)'
    BY <1>4 DEF Nested
  <2>1. ~ task[t].generator /\ b.frame = "body"
    BY <1>3 DEF TypeOK, TaskRow, Block, Frames
  <2>2. /\ \A i \in 1 .. n : blocks[t][i].frame = "body"
        /\ After(t, 0) = task[t].base
        /\ \A p \in 1 .. n : StepOK(t, p)
        /\ \A p \in 0 .. n : Innermost(t, p)
    BY <1>0, <1>1, <2>1 DEF Nested
  <2>3. ASSUME NEW p \in 0 .. n
        PROVE  Innermost(t, p)'
    <3>1. /\ After(t, p)' = After(t, p) /\ Trajectories(t, p)' = Trajectories(t, p)
          /\ \A i \in Trajectories(t, p) : blocks'[t][i] = blocks[t][i]
          /\ Innermost(t, p)
      BY <1>4, <1>5, <1>6, <2>2
    <3> QED BY <1>3, <3>1 DEF Innermost
  <2>4. Innermost(t, n + 1)'
    <3>1. CASE b.kind = "trajectory"
      <4>1. \A i \in Trajectories(t, n) : i < n + 1
        BY <1>2, <1>6
      <4> QED BY <1>2, <1>4, <1>5, <1>6, <3>1, <4>1 DEF Innermost
    <3>2. CASE b.kind # "trajectory"
      <4>1. Trajectories(t, n + 1)' = Trajectories(t, n) /\ c.root = After(t, n).root
        BY <1>5, <1>6, <3>2 DEF SameTrajectory
      <4>2. Innermost(t, n) /\ Trajectories(t, n) \subseteq 1 .. n
        BY <1>2, <1>6, <2>2
      <4> QED BY <1>3, <1>4, <1>5, <4>1, <4>2 DEF Innermost
    <3> QED BY <3>1, <3>2
  <2>5. 0 \in 0 .. n
    BY <1>2
  <2> QED BY <1>2, <1>3, <1>4, <1>5, <1>9, <2>1, <2>2, <2>3, <2>4, <2>5
<1> QED BY <1>7, <1>8, <1>10, <1>11 DEF TaskOK

(* The innermost block of a task ends, all of them in order. *)
LEMMA Popped ==
  ASSUME TypeOK, NEW t \in Tasks, NEW n, n = Len(blocks[t]), n \in DOMAIN blocks[t], NEW how,
         StepOK(t, n),
         blocks' = [blocks EXCEPT ![t] = SubSeq(@, 1, n - 1) \o SubSeq(@, n + 1, Len(@))],
         ctx' = [ctx EXCEPT ![t] = Restored(@, blocks[t][n], how)]
  PROVE  /\ Len(blocks'[t]) = n - 1
         /\ \A i \in 1 .. n - 1 : blocks'[t][i] = blocks[t][i]
         /\ \A p \in 0 .. n - 1 : After(t, p)' = After(t, p)
<1> DEFINE b == blocks[t][n]
           first == SubSeq(blocks[t], 1, n - 1)
<1>1. /\ n \in Nat \ {0} /\ blocks[t] \in Seq(Block) /\ b \in Block
      /\ DOMAIN blocks[t] = 1 .. n
      /\ ctx[t] \in Context /\ b.outer \in Context
  <2>1. /\ n \in Nat \ {0} /\ DOMAIN blocks[t] = 1 .. n /\ b \in Block
    BY BlocksType
  <2> QED BY <2>1, BlocksType DEF TypeOK, Block
<1>2. /\ first \in Seq(Block) /\ Len(first) = n - 1
      /\ \A i \in 1 .. n - 1 : first[i] = blocks[t][i]
  <2>1. \A i \in 1 .. n - 1 : blocks[t][i] \in Block
    BY <1>1, BlocksType
  <2> QED BY <1>1, <2>1, SubSeqProperties
<1>3. blocks'[t] = first
  <2>1. SubSeq(blocks[t], n + 1, n) = <<>>
    BY <1>1, SubSeqEmpty
  <2>2. blocks'[t] = first \o SubSeq(blocks[t], n + 1, n)
    BY DEF TypeOK
  <2> QED BY <1>2, <2>1, <2>2, ConcatEmptySeq
<1>4. ctx'[t] = b.outer
  <2>1. ctx'[t] = Restored(ctx[t], b, how)
    BY DEF TypeOK
  <2>2. CASE b.kind = "trajectory"
    BY <2>1, <2>2 DEF Restored
  <2>3. CASE b.kind # "trajectory"
    <3>1. ctx[t].root = b.outer.root /\ ctx[t].tid = b.outer.tid
      BY <1>1, <2>3 DEF StepOK, SameTrajectory, After
    <3> QED BY <1>1, <2>1, <2>3, <3>1 DEF Restored, Context
  <2> QED BY <2>2, <2>3
<1>5. ASSUME NEW p \in 0 .. n - 1
      PROVE  After(t, p)' = After(t, p)
  <2>1. CASE p < n - 1
    BY <1>1, <1>2, <1>3, <2>1 DEF After
  <2>2. CASE p = n - 1
    BY <1>1, <1>2, <1>3, <1>4, <2>2 DEF After
  <2> QED BY <1>1, <2>1, <2>2
<1> QED BY <1>2, <1>3, <1>5

(* What is left of the blocks when one of them ends. *)
Without(s, i) == SubSeq(s, 1, i - 1) \o SubSeq(s, i + 1, Len(s))

LEMMA Removed ==
  ASSUME NEW s \in Seq(Block), NEW i \in 1 .. Len(s)
  PROVE  /\ Without(s, i) \in Seq(Block) /\ DOMAIN Without(s, i) = 1 .. Len(s) - 1
         /\ \A j \in DOMAIN Without(s, i) : \E k \in 1 .. Len(s) : Without(s, i)[j] = s[k]
<1> DEFINE n == Len(s)
           a == SubSeq(s, 1, i - 1)
           z == SubSeq(s, i + 1, n)
           new == Without(s, i)
<1>1. /\ n \in Nat /\ i \in Nat /\ i <= n /\ 1 <= i
      /\ \A k \in 1 .. n : s[k] \in Block
  BY LenProperties, ElementOfSeq
<1>2. /\ a \in Seq(Block) /\ Len(a) = i - 1
      /\ \A j \in 1 .. i - 1 : a[j] = s[j]
  <2>1. \A k \in 1 .. i - 1 : s[k] \in Block
    BY <1>1
  <2> QED BY <1>1, <2>1, SubSeqProperties
<1>3. /\ z \in Seq(Block) /\ Len(z) = n - i
      /\ \A j \in 1 .. n - i : z[j] = s[i + j]
  <2>1. \A k \in i + 1 .. n : s[k] \in Block
    BY <1>1
  <2>2. /\ z \in Seq(Block) /\ Len(z) = IF i + 1 <= n THEN n - (i + 1) + 1 ELSE 0
        /\ \A j \in 1 .. n - (i + 1) + 1 : z[j] = s[i + 1 + j - 1]
    BY <1>1, <2>1, SubSeqProperties
  <2> HIDE DEF z
  <2>3. \A j \in 1 .. n - i : j \in 1 .. n - (i + 1) + 1 /\ i + 1 + j - 1 = i + j
    BY <1>1
  <2>4. n - i = IF i + 1 <= n THEN n - (i + 1) + 1 ELSE 0
    BY <1>1
  <2> QED BY <2>2, <2>3, <2>4
<1> HIDE DEF a, z, n, new
<1>4. /\ new \in Seq(Block) /\ Len(new) = n - 1
      /\ \A j \in 1 .. n - 1 : new[j] = IF j <= i - 1 THEN a[j] ELSE z[j - (i - 1)]
  <2>1. new = a \o z
    BY DEF a, z, n, new, Without
  <2>2. /\ new \in Seq(Block) /\ Len(new) = Len(a) + Len(z)
        /\ \A j \in 1 .. Len(a) + Len(z) : new[j] = IF j <= Len(a) THEN a[j] ELSE z[j - Len(a)]
    BY <1>2, <1>3, <2>1, ConcatProperties
  <2>3. Len(a) + Len(z) = n - 1
    BY <1>1, <1>2, <1>3
  <2> QED BY <1>2, <2>2, <2>3
<1>5. DOMAIN new = 1 .. n - 1
  BY <1>4, LenProperties
<1>6. ASSUME NEW j \in 1 .. n - 1
      PROVE  \E k \in 1 .. n : new[j] = s[k]
  <2>0. j \in Nat /\ 1 <= j /\ j <= n - 1
    BY <1>1
  <2>1. CASE j <= i - 1
    <3>1. j \in 1 .. i - 1 /\ j \in 1 .. n
      BY <1>1, <2>0, <2>1
    <3> QED BY <1>2, <1>4, <2>1, <3>1
  <2>2. CASE j > i - 1
    <3>1. ~(j <= i - 1) /\ j - (i - 1) \in 1 .. n - i
      BY <1>1, <2>0, <2>2
    <3>2. new[j] = s[i + (j - (i - 1))]
      BY <1>3, <1>4, <3>1
    <3>3. i + (j - (i - 1)) \in 1 .. n
      BY <1>1, <2>0, <2>2
    <3> QED BY <3>2, <3>3
  <2> QED BY <1>1, <2>0, <2>1, <2>2
<1> QED BY <1>4, <1>5, <1>6 DEF n, new

(* A block ends. *)
LEMMA Exited ==
  ASSUME TypeOK, NEW t \in Tasks, TaskOK(t), NEW i \in DOMAIN blocks[t], NEW how,
         SpansKept, Exit(t, i, how)
  PROVE  /\ TaskOK(t)' /\ blocks'[t] \in Seq(Block) /\ ctx'[t] \in Context
<1> DEFINE b == blocks[t][i]
<1>1. PICK n : n = Len(blocks[t])
  OBVIOUS
<1>2. /\ n \in Nat /\ i \in 1 .. n /\ DOMAIN blocks[t] = 1 .. n
      /\ blocks[t] \in Seq(Block) /\ b \in Block /\ ctx[t] \in Context
  BY <1>1, BlocksType DEF TypeOK
<1>3. TaskGrounded(t) /\ Aligned(t) /\ Nested(t)
  BY DEF TaskOK
<1>4. /\ blocks'[t] = SubSeq(blocks[t], 1, i - 1) \o SubSeq(blocks[t], i + 1, n)
      /\ ctx'[t] = Restored(ctx[t], b, how)
      /\ task'[t].generator = task[t].generator /\ task'[t].base = task[t].base
      /\ task'[t].state = "running"
      /\ task'[t].crossed = (task[t].crossed \/ i # n)
  BY <1>1 DEF Exit, Close, TypeOK, TaskRow, Running
<1>5. /\ blocks'[t] \in Seq(Block) /\ DOMAIN blocks'[t] = 1 .. n - 1
      /\ \A j \in DOMAIN blocks'[t] : \E k \in 1 .. n : blocks'[t][j] = blocks[t][k]
  <2>1. i \in 1 .. Len(blocks[t]) /\ blocks'[t] = Without(blocks[t], i)
    BY <1>1, <1>2, <1>4 DEF Without
  <2>2. /\ Without(blocks[t], i) \in Seq(Block)
        /\ DOMAIN Without(blocks[t], i) = 1 .. Len(blocks[t]) - 1
        /\ \A j \in DOMAIN Without(blocks[t], i) :
             \E k \in 1 .. Len(blocks[t]) : Without(blocks[t], i)[j] = blocks[t][k]
    BY <1>2, <2>1, Removed
  <2> QED BY <1>1, <2>1, <2>2
<1>6. ctx'[t] \in Context
  BY <1>2, <1>4 DEF Restored, Block, Context
<1>7. TaskGrounded(t)'
  <2>1. \A j \in DOMAIN blocks'[t] :
          blocks'[t][j].span \in DOMAIN span' /\ Grounded(blocks[t][j].outer)'
    BY <1>2, <1>3, <1>5, GroundedKept
  <2>2. Grounded(task[t].base)'
    BY <1>3, <1>4, GroundedKept
  <2>3. \A c : c = ctx[t] \/ c = b.outer => Grounded(c)'
    BY <1>2, <1>3, GroundedKept
  <2>4. Grounded(ctx[t])'
    <3>1. CASE b.kind = "trajectory"
      BY <1>4, <2>3, <3>1 DEF Restored
    <3>2. CASE b.kind # "trajectory"
      <4>1. ctx'[t].root = ctx[t].root /\ ctx'[t].otel = b.outer.otel
        BY <1>2, <1>4, <3>2 DEF Restored, Context
      <4> QED BY <2>3, <4>1 DEF Grounded
    <3> QED BY <3>1, <3>2
  <2> QED BY <2>1, <2>2, <2>4 DEF TaskGrounded
<1>8. Unstarted(t)'
  BY <1>4 DEF Unstarted
<1>9. ASSUME i = n, \A p \in 1 .. n : StepOK(t, p)
      PROVE  /\ Len(blocks'[t]) = n - 1
             /\ \A j \in 1 .. n - 1 : blocks'[t][j] = blocks[t][j]
             /\ \A p \in 0 .. n - 1 : After(t, p)' = After(t, p)
             /\ \A p \in 1 .. n - 1 : StepOK(t, p)'
  <2>1. StepOK(t, n) /\ n \in DOMAIN blocks[t] /\ n = Len(blocks[t])
    BY <1>1, <1>2, <1>9
  <2>2. /\ blocks' = [blocks EXCEPT ![t] = SubSeq(@, 1, n - 1) \o SubSeq(@, n + 1, Len(@))]
        /\ ctx' = [ctx EXCEPT ![t] = Restored(@, blocks[t][n], how)]
    BY <1>9 DEF Exit, Close
  <2>3. /\ Len(blocks'[t]) = n - 1
        /\ \A j \in 1 .. n - 1 : blocks'[t][j] = blocks[t][j]
        /\ \A p \in 0 .. n - 1 : After(t, p)' = After(t, p)
    BY <2>1, <2>2, Popped
  <2>4. ASSUME NEW p \in 1 .. n - 1
        PROVE  StepOK(t, p)'
    <3>1. p \in 0 .. n - 1 /\ p \in 1 .. n
      BY <1>2
    <3>2. After(t, p)' = After(t, p) /\ blocks'[t][p] = blocks[t][p] /\ StepOK(t, p)
      BY <1>9, <2>3, <3>1
    <3> QED BY <3>2 DEF StepOK, SameTrajectory
  <2> QED BY <2>3, <2>4
<1>10. Aligned(t)'
  <2> SUFFICES ASSUME ~ task[t].crossed, i = n
               PROVE  Aligned(t)'
    BY <1>4 DEF Aligned
  <2>1. /\ \A p \in 0 .. n : Agree(After(t, p))
        /\ \A p \in 1 .. n : StepOK(t, p)
    BY <1>1, <1>3 DEF Aligned
  <2>2. ASSUME NEW p \in 0 .. n - 1
        PROVE  Agree(After(t, p))'
    <3>1. p \in 0 .. n /\ Agree(After(t, p))
      BY <1>2, <2>1
    <3>2. \A c : c = After(t, p) => Agree(c)'
      BY <1>1, <1>3, <3>1, AgreeKept
    <3> QED BY <1>9, <2>1, <3>2
  <2> QED BY <1>9, <2>1, <2>2 DEF Aligned
<1>11. Nested(t)'
  <2> SUFFICES ASSUME ~ task[t].generator
               PROVE  Nested(t)'
    BY <1>4 DEF Nested
  <2>1. /\ \A j \in 1 .. n : blocks[t][j].frame = "body"
        /\ After(t, 0) = task[t].base
        /\ \A p \in 1 .. n : StepOK(t, p)
        /\ \A p \in 0 .. n : Innermost(t, p)
    BY <1>1, <1>3 DEF Nested
  <2>2. i = n
    <3>1. \A j \in i + 1 .. n : blocks[t][j].frame # b.frame
      BY <1>1 DEF Exit, Close
    <3>2. i # n => n \in i + 1 .. n /\ n \in 1 .. n
      BY <1>2
    <3> QED BY <1>2, <2>1, <3>1, <3>2
  <2>3. /\ Len(blocks'[t]) = n - 1
        /\ \A j \in 1 .. n - 1 : blocks'[t][j] = blocks[t][j]
        /\ \A p \in 0 .. n - 1 : After(t, p)' = After(t, p)
        /\ \A p \in 1 .. n - 1 : StepOK(t, p)'
    BY <1>9, <2>1, <2>2
  <2>4. ASSUME NEW p \in 0 .. n - 1
        PROVE  Innermost(t, p)'
    <3>1. /\ p \in 0 .. n /\ \A j \in 1 .. p : j \in 1 .. n - 1
      BY <1>2
    <3>2. /\ After(t, p)' = After(t, p) /\ Innermost(t, p)
          /\ Trajectories(t, p)' = Trajectories(t, p)
          /\ \A j \in Trajectories(t, p) : blocks'[t][j] = blocks[t][j]
      BY <2>1, <2>3, <3>1 DEF Trajectories
    <3> QED BY <1>4, <3>2 DEF Innermost
  <2>5. 0 \in 0 .. n - 1 /\ \A j \in 1 .. n - 1 : j \in 1 .. n
    BY <1>2
  <2> QED BY <1>4, <2>1, <2>3, <2>4, <2>5 DEF Nested
<1> QED BY <1>5, <1>6, <1>7, <1>8, <1>10, <1>11 DEF TaskOK

(* A step of one task. *)
LEMMA StepOfOne ==
  ASSUME IInv, SpansKept, ChildrenStay', ParentsThere', span' \in Seq(SpanRow),
         NEW t \in Tasks, TaskOK(t)', NEW r \in TaskRow, NEW c \in Context, NEW s \in Seq(Block),
         task' = [task EXCEPT ![t] = r], ctx' = [ctx EXCEPT ![t] = c],
         blocks' = [blocks EXCEPT ![t] = s]
  PROVE  IInv'
<1>1. TypeOK'
  BY DEF IInv, TypeOK
<1>2. ASSUME NEW u \in Tasks, u # t
      PROVE  TaskOK(u)'
  <2>1. task'[u] = task[u] /\ ctx'[u] = ctx[u] /\ blocks'[u] = blocks[u]
    BY <1>2 DEF IInv, TypeOK
  <2> QED BY <2>1, OthersOK DEF IInv
<1> QED BY <1>1, <1>2 DEF IInv

(* The row of a span that starts, with the baggage it starts in. *)
LEMMA Started ==
  ASSUME TypeOK, ParentsThere, NEW o \in Otel, o.span \in {None} \cup DOMAIN span,
         NEW kind \in Kinds
  PROVE  /\ OnStart(o, kind) \in SpanRow
         /\ OnStart(o, kind).parent \in {None, o.span}
         /\ OnStart(o, kind).kind = kind
         /\ OnStart(o, kind).id = o.id /\ OnStart(o, kind).name = o.name
<1>1. Recording(kind) \in BOOLEAN /\ o.span \in Refs
  BY DEF Recording, Otel
<1> QED BY <1>1 DEF OnStart, SpanRow, Otel, Refs

(* The types after a block has begun. *)
LEMMA EnteredAll ==
  ASSUME IInv, SpansKept, ChildrenStay', ParentsThere', span' \in Seq(SpanRow),
         NEW t \in Tasks, TaskOK(t)', NEW b \in Block, NEW c \in Context,
         blocks' = [blocks EXCEPT ![t] = Append(@, b)],
         ctx' = [ctx EXCEPT ![t] = c],
         task' = [task EXCEPT ![t].generator = @ \/ b.frame = "generator"]
  PROVE  IInv'
<1>1. task[t] \in TaskRow /\ blocks[t] \in Seq(Block)
  BY DEF IInv, TypeOK
<1>2. PICK g \in BOOLEAN : g = (task[t].generator \/ b.frame = "generator")
  OBVIOUS
<1>3. PICK r : r = [task[t] EXCEPT !.generator = g]
  OBVIOUS
<1>4. PICK s : s = Append(blocks[t], b)
  OBVIOUS
<1>5. r \in TaskRow /\ s \in Seq(Block)
  BY <1>1, <1>3, <1>4, AppendProperties DEF TaskRow
<1>6. task' = [task EXCEPT ![t] = r] /\ blocks' = [blocks EXCEPT ![t] = s]
  <2>1. blocks' = [blocks EXCEPT ![t] = s]
    BY <1>4
  <2>2. task' = [task EXCEPT ![t] = r]
    BY <1>2, <1>3
  <2> QED BY <2>1, <2>2
<1> QED BY <1>5, <1>6, StepOfOne

LEMMA EnterTrajectoryOK ==
  ASSUME IInv, NEW t \in Tasks, NEW c \in Calls, NEW f \in Frames, EnterTrajectory(t, c, f)
  PROVE  IInv'
<1> DEFINE bag == Baggage(ctx[t].otel, c)
           row == [OnStart(bag, "trajectory") EXCEPT !.id = c.id, !.name = IF c.name # None THEN c.name ELSE @]
<1> PICK new : new = [otel |-> [bag EXCEPT !.span = Next_], root |-> Next_, tid |-> c.id]
  OBVIOUS
<1> PICK b : b = [kind |-> "trajectory", span |-> Next_, outer |-> ctx[t], frame |-> f, final |-> c.final]
  OBVIOUS
<1>1. TypeOK /\ ParentsThere /\ TaskOK(t) /\ Running(t) /\ ctx[t] \in Context
  BY DEF IInv, TypeOK, EnterTrajectory, Room
<1>2. /\ bag \in Otel /\ bag.span = ctx[t].otel.span /\ bag.id = c.id
      /\ bag.name = IF c.name # None THEN c.name ELSE ctx[t].otel.name
  BY <1>1 DEF Baggage, Otel, Context, TIds, TNames
<1>3. ctx[t].otel.span \in {None} \cup DOMAIN span
  BY <1>1 DEF TaskOK, TaskGrounded, Grounded
<1> HIDE DEF bag
<1>4. /\ OnStart(bag, "trajectory") \in SpanRow
      /\ OnStart(bag, "trajectory").parent \in {None} \cup DOMAIN span
      /\ OnStart(bag, "trajectory").kind = "trajectory"
      /\ OnStart(bag, "trajectory").name = bag.name
  BY <1>1, <1>2, <1>3, Started DEF Kinds
<1>5. /\ row \in SpanRow /\ row.parent \in {None} \cup DOMAIN span
      /\ row.kind = "trajectory" /\ row.id = c.id /\ row.name = bag.name
  <2> DEFINE start == OnStart(bag, "trajectory")
  <2>1. c.id \in TIds /\ start.name \in TNames /\ bag.name \in TNames
    BY <1>2, <1>4 DEF TIds, Otel, SpanRow
  <2>2. (IF c.name # None THEN c.name ELSE start.name) = bag.name
    BY <1>2, <1>4
  <2> HIDE DEF start
  <2>3. start \in SpanRow /\ start.kind = "trajectory" /\ start.parent \in {None} \cup DOMAIN span
    BY <1>4 DEF start
  <2>4. row = [start EXCEPT !.id = c.id, !.name = IF c.name # None THEN c.name ELSE start.name]
    BY DEF start
  <2> QED BY <2>1, <2>2, <2>3, <2>4 DEF SpanRow
<1>6. span' = Append(span, row)
  BY DEF EnterTrajectory, bag
<1> HIDE DEF row
<1>7. /\ SpansKept /\ span' \in Seq(SpanRow)
      /\ DOMAIN span' = DOMAIN span \cup {Next_}
      /\ Next_ \in Nat \ {0} /\ Next_ \notin DOMAIN span /\ span'[Next_] = row
  BY <1>1, <1>5, <1>6, StartedSpan
<1>8. ChildrenStay' /\ ParentsThere'
  <2>1. span'[Next_].parent \in {None} \cup DOMAIN span /\ span'[Next_].kind = "trajectory"
    BY <1>5, <1>7
  <2> QED BY <1>7, <2>1, NewSpanOK
<1>9. /\ new \in Context /\ c.id # None /\ c.final \in BOOLEAN /\ Next_ # None
      /\ new.root = Next_ /\ new.tid = c.id
      /\ new.otel.span = Next_ /\ new.otel.id = c.id /\ new.otel.name = bag.name
  BY <1>2, <1>7, TracingAssumption DEF Context, Otel, Refs, TIds
<1>10. Grounded(new)' /\ Agree(new)'
  <2>1. PICK n : n = Next_
    OBVIOUS
  <2>2. /\ n \in DOMAIN span' /\ n # None
        /\ span'[n].id = new.otel.id /\ span'[n].name = new.otel.name
        /\ span'[n].kind = "trajectory" /\ span'[n].id = new.tid
        /\ new.root = n /\ new.otel.span = n /\ new.otel.id = new.tid /\ new.tid # None
    BY <1>5, <1>7, <1>9, <2>1
  <2>3. Grounded(new)'
    BY <2>2 DEF Grounded
  <2>4. Agree(new)'
    BY <2>2 DEF Agree
  <2> QED BY <2>3, <2>4
<1>11. /\ b \in Block /\ b.kind = "trajectory" /\ b.outer = ctx[t] /\ b.span = Next_
       /\ b.frame = f
  BY <1>1, <1>7, <1>9 DEF Block, Kinds
<1>12. /\ blocks' = [blocks EXCEPT ![t] = Append(@, b)]
       /\ ctx' = [ctx EXCEPT ![t] = new]
       /\ task' = [task EXCEPT ![t].generator = @ \/ b.frame = "generator"]
  BY <1>11 DEF EnterTrajectory, Push, bag
<1>13. b.span \in DOMAIN span' /\ new.root = b.span
  BY <1>7, <1>9, <1>11
<1>14. TaskOK(t)'
  BY <1>1, <1>7, <1>9, <1>10, <1>11, <1>12, <1>13, Entered
<1> QED BY <1>1, <1>7, <1>8, <1>9, <1>11, <1>12, <1>14, EnteredAll

LEMMA EnterNodeOK ==
  ASSUME IInv, NEW t \in Tasks, NEW kind \in NodeKinds, NEW f \in Frames,
         EnterNode(t, kind, f)
  PROVE  IInv'
<1> PICK new : new = [ctx[t] EXCEPT !.otel = [ctx[t].otel EXCEPT !.span = Next_]]
  OBVIOUS
<1> PICK b : b = [kind |-> kind, span |-> Next_, outer |-> ctx[t], frame |-> f, final |-> FALSE]
  OBVIOUS
<1> PICK row : row = OnStart(ctx[t].otel, kind)
  OBVIOUS
<1>1. /\ TypeOK /\ ParentsThere /\ TaskOK(t) /\ Running(t)
      /\ ctx[t] \in Context /\ ctx[t].otel \in Otel
  BY DEF IInv, TypeOK, EnterNode, Room, Context
<1>2. /\ ctx[t].otel.span \in {None} \cup DOMAIN span
      /\ ctx[t].otel.span # None =>
           /\ span[ctx[t].otel.span].id = ctx[t].otel.id
           /\ span[ctx[t].otel.span].name = ctx[t].otel.name
      /\ ctx[t].root \in {None} \cup DOMAIN span
  BY <1>1 DEF TaskOK, TaskGrounded, Grounded
<1>3. /\ row \in SpanRow /\ row.parent \in {None, ctx[t].otel.span} /\ row.kind = kind
      /\ row.id = ctx[t].otel.id /\ row.name = ctx[t].otel.name
  BY <1>1, <1>2, Started DEF Kinds
<1>4. span' = Append(span, row)
  BY DEF EnterNode
<1>5. /\ SpansKept /\ span' \in Seq(SpanRow)
      /\ DOMAIN span' = DOMAIN span \cup {Next_}
      /\ Next_ \in Nat \ {0} /\ Next_ \notin DOMAIN span /\ span'[Next_] = row
  BY <1>1, <1>3, <1>4, StartedSpan
<1>6. ChildrenStay' /\ ParentsThere'
  <2>1. /\ span'[Next_].parent \in {None} \cup DOMAIN span
        /\ span'[Next_].parent # None =>
             /\ span'[Next_].id = span[span'[Next_].parent].id
             /\ span'[Next_].name = span[span'[Next_].parent].name
    BY <1>2, <1>3, <1>5
  <2> QED BY <1>5, <2>1, NewSpanOK
<1>7. /\ new \in Context /\ Next_ # None
      /\ new.root = ctx[t].root /\ new.tid = ctx[t].tid
      /\ new.otel.span = Next_ /\ new.otel.id = ctx[t].otel.id /\ new.otel.name = ctx[t].otel.name
  BY <1>1, <1>5, TracingAssumption DEF Context, Otel, Refs
<1>8. Grounded(new)'
  <2>1. PICK n : n = Next_
    OBVIOUS
  <2>2. /\ n \in DOMAIN span' /\ n # None /\ new.otel.span = n
        /\ new.root \in {None} \cup DOMAIN span'
        /\ span'[n].id = new.otel.id /\ span'[n].name = new.otel.name
    BY <1>2, <1>3, <1>5, <1>7, <2>1
  <2> QED BY <2>2 DEF Grounded
<1>9. /\ b \in Block /\ b.kind # "trajectory" /\ b.outer = ctx[t] /\ b.span = Next_
      /\ b.frame = f
  BY <1>1, <1>5, TracingAssumption DEF Block, Kinds
<1>10. SameTrajectory(new, ctx[t]) /\ new.otel.id = ctx[t].otel.id /\ b.span \in DOMAIN span'
  BY <1>5, <1>7, <1>9 DEF SameTrajectory
<1>11. /\ blocks' = [blocks EXCEPT ![t] = Append(@, b)]
       /\ ctx' = [ctx EXCEPT ![t] = new]
       /\ task' = [task EXCEPT ![t].generator = @ \/ b.frame = "generator"]
  BY <1>9 DEF EnterNode, Push
<1>12. TaskOK(t)'
  BY <1>1, <1>5, <1>7, <1>8, <1>9, <1>10, <1>11, Entered
<1> QED BY <1>5, <1>6, <1>7, <1>9, <1>11, <1>12, EnteredAll

(* The spans of a step that sets an attribute of one. *)
LEMMA SetKept ==
  ASSUME TypeOK, NEW new \in Seq(SpanRow), Len(new) = Len(span), span' = new,
         \A q \in DOMAIN span : \A k \in Fixed : new[q][k] = span[q][k]
  PROVE  SpansKept /\ DOMAIN span' = DOMAIN span
<1>1. Len(span) \in Nat /\ DOMAIN span = 1 .. Len(span) /\ DOMAIN new = 1 .. Len(new)
  BY SpanType, LenProperties
<1> QED BY <1>1 DEF SpansKept

LEMMA SignalOK ==
  ASSUME IInv, NEW t \in Tasks, NEW s \in {None} \cup DOMAIN span,
         NEW signal \in {"tag", "metric"}, Signal(t, s, signal)
  PROVE  IInv'
<1>1. TypeOK /\ s \in DOMAIN span
  BY DEF IInv, Signal
<1>2. PICK new : new = Set(s, "signals", span[s].signals \cup {signal})
  OBVIOUS
<1>3. span' = new /\ UNCHANGED <<task, ctx, blocks>>
  BY <1>2 DEF Signal
<1>a. PICK a : a = "signals"
  OBVIOUS
<1>v. PICK v : v = span[s].signals \cup {signal}
  OBVIOUS
<1>4. [span[s] EXCEPT ![a] = v] \in SpanRow
  <2>1. span[s] \in SpanRow
    BY <1>1, SpanType
  <2>2. span[s].signals \cup {signal} \in SUBSET {"tag", "metric"}
    BY <2>1 DEF SpanRow
  <2> QED BY <1>a, <1>v, <2>1, <2>2 DEF SpanRow
<1>5. /\ new \in Seq(SpanRow) /\ Len(new) = Len(span)
      /\ \A q \in DOMAIN span : \A k \in Fixed : new[q][k] = span[q][k]
  <2>1. new = Set(s, a, v) /\ a \in {"completed", "tool", "signals"}
    BY <1>a, <1>v, <1>2
  <2> QED BY <1>1, <1>4, <2>1, SetSpan DEF KeptIn
<1>6. SpansKept /\ DOMAIN span' = DOMAIN span
  BY <1>1, <1>3, <1>5, SetKept
<1>7. ChildrenStay' /\ ParentsThere'
  BY <1>6, SpansOK
<1>8. TypeOK' /\ \A u \in Tasks : TaskOK(u)'
  <2>1. TypeOK'
    BY <1>1, <1>3, <1>5 DEF TypeOK
  <2> QED BY <1>3, <1>6, <2>1, OthersOK DEF IInv
<1> QED BY <1>7, <1>8 DEF IInv

(* What the end of a block writes on its span. *)
LEMMA StampedKept ==
  ASSUME TypeOK, NEW b \in Block, b.span \in DOMAIN span,
         NEW how \in {"returned", "raised", "cancelled"}
  PROVE  KeptIn(Stamped(b, how))
<1>1. span[b.span] \in SpanRow
  BY SpanType
<1>2. \A v \in BOOLEAN : KeptIn(Set(b.span, "completed", v))
  <2> TAKE v \in BOOLEAN
  <2>1. [span[b.span] EXCEPT !["completed"] = v] \in SpanRow
    BY <1>1 DEF SpanRow
  <2>2. "completed" \in {"completed", "tool", "signals"} /\ b.span \in {None} \cup DOMAIN span
    OBVIOUS
  <2> QED BY <2>1, <2>2, SetSpan, Zenon
<1>3. \A v \in {"result", "error"} : KeptIn(Set(b.span, "tool", v))
  <2> TAKE v \in {"result", "error"}
  <2>1. [span[b.span] EXCEPT !["tool"] = v] \in SpanRow
    BY <1>1 DEF SpanRow
  <2>2. "tool" \in {"completed", "tool", "signals"} /\ b.span \in {None} \cup DOMAIN span
    OBVIOUS
  <2> QED BY <2>1, <2>2, SetSpan, Zenon
<1>6. KeptIn(span)
  BY DEF TypeOK, KeptIn
<1>7. (how = "returned") \in BOOLEAN
  OBVIOUS
<1> QED BY <1>2, <1>3, <1>6, <1>7 DEF Stamped

(* The spans and the blocks when a block is closed, in whatever context. *)
LEMMA Closed ==
  ASSUME IInv, NEW t \in Tasks, NEW i \in DOMAIN blocks[t],
         NEW how \in {"returned", "raised", "cancelled"}, Close(t, i, how)
  PROVE  /\ SpansKept /\ span' \in Seq(SpanRow) /\ ChildrenStay' /\ ParentsThere'
         /\ blocks'[t] \in Seq(Block) /\ blocks' = [blocks EXCEPT ![t] = blocks'[t]]
         /\ \A j \in DOMAIN blocks'[t] : \E k \in DOMAIN blocks[t] : blocks'[t][j] = blocks[t][k]
<1>1. PICK b : b = blocks[t][i]
  OBVIOUS
<1>2. TypeOK /\ b \in Block /\ b.span \in DOMAIN span
  BY <1>1, BlocksType DEF IInv, TaskOK, TaskGrounded
<1>3. PICK old : old = Stamped(b, how)
  OBVIOUS
<1>4. /\ old \in Seq(SpanRow) /\ Len(old) = Len(span)
      /\ \A q \in DOMAIN span : \A k \in Fixed : old[q][k] = span[q][k]
  BY <1>2, <1>3, StampedKept DEF KeptIn
<1>5. DOMAIN old = DOMAIN span /\ old[b.span] \in SpanRow
  <2>1. DOMAIN old = 1 .. Len(old) /\ DOMAIN span = 1 .. Len(span)
    BY <1>2, <1>4, LenProperties, SpanType
  <2> QED BY <1>2, <1>4, <2>1, ElementOfSeq
<1>6. PICK row : row = [old[b.span] EXCEPT !.ended = TRUE]
  OBVIOUS
<1>7. row \in SpanRow /\ \A k \in Fixed : row[k] = old[b.span][k]
  BY <1>5, <1>6 DEF SpanRow, Fixed
<1>8. PICK new : new = [old EXCEPT ![b.span] = row]
  OBVIOUS
<1>9. /\ new \in Seq(SpanRow) /\ Len(new) = Len(old)
      /\ \A q \in DOMAIN old : \A k \in Fixed : new[q][k] = old[q][k]
  BY <1>2, <1>4, <1>5, <1>7, <1>8, ReplacedSpan
<1>10. span' = new
  BY <1>1, <1>3, <1>6, <1>8 DEF Close
<1>11. SpansKept /\ DOMAIN span' = DOMAIN span
  BY <1>2, <1>4, <1>5, <1>9, <1>10, SetKept
<1>12. ChildrenStay' /\ ParentsThere'
  BY <1>11, SpansOK
<1>13. PICK left : left = Without(blocks[t], i)
  OBVIOUS
<1>14. blocks' = [blocks EXCEPT ![t] = left] /\ blocks'[t] = left
  BY <1>2, <1>13 DEF Close, Without, TypeOK
<1>15. /\ blocks[t] \in Seq(Block) /\ DOMAIN blocks[t] = 1 .. Len(blocks[t])
       /\ i \in 1 .. Len(blocks[t])
  BY <1>2, BlocksType
<1>16. /\ left \in Seq(Block)
       /\ \A j \in DOMAIN left : \E k \in DOMAIN blocks[t] : left[j] = blocks[t][k]
  <2>1. /\ Without(blocks[t], i) \in Seq(Block)
        /\ DOMAIN Without(blocks[t], i) = 1 .. Len(blocks[t]) - 1
        /\ \A j \in DOMAIN Without(blocks[t], i) :
             \E k \in 1 .. Len(blocks[t]) : Without(blocks[t], i)[j] = blocks[t][k]
    BY <1>15, Removed
  <2> QED BY <1>13, <1>15, <2>1
<1> QED BY <1>9, <1>10, <1>11, <1>12, <1>14, <1>16

LEMMA ExitOK ==
  ASSUME IInv, NEW t \in Tasks, NEW i \in DOMAIN blocks[t],
         NEW how \in {"returned", "raised", "cancelled"}, Exit(t, i, how)
  PROVE  IInv'
<1>1. TypeOK /\ TaskOK(t) /\ Close(t, i, how)
  BY DEF IInv, Exit
<1>2. /\ SpansKept /\ span' \in Seq(SpanRow) /\ ChildrenStay' /\ ParentsThere'
      /\ blocks' = [blocks EXCEPT ![t] = blocks'[t]]
  BY <1>1, Closed
<1>3. TaskOK(t)' /\ blocks'[t] \in Seq(Block) /\ ctx'[t] \in Context
  BY <1>1, <1>2, Exited
<1>4. PICK x \in BOOLEAN : x = (task[t].crossed \/ i # Len(blocks[t]))
  OBVIOUS
<1>5. PICK r : r = [task[t] EXCEPT !.crossed = x]
  OBVIOUS
<1>6. r \in TaskRow
  BY <1>1, <1>5 DEF TypeOK, TaskRow
<1>7. task' = [task EXCEPT ![t] = r]
  BY <1>4, <1>5 DEF Exit
<1>8. ctx' = [ctx EXCEPT ![t] = ctx'[t]]
  <2>1. PICK c : ctx' = [ctx EXCEPT ![t] = c]
    BY DEF Exit
  <2> QED BY <1>1, <2>1 DEF TypeOK
<1>9. PICK c \in Context, s \in Seq(Block) : c = ctx'[t] /\ s = blocks'[t]
  BY <1>3
<1> QED BY <1>2, <1>3, <1>6, <1>7, <1>8, <1>9, StepOfOne

(* Only a task with a generator has blocks that end elsewhere, and from    *)
(* then on its blocks count as out of order.                               *)
LEMMA ExitElsewhereOK ==
  ASSUME IInv, NEW u \in Tasks, NEW t \in Tasks, NEW i \in DOMAIN blocks[t],
         NEW how \in {"returned", "raised", "cancelled"}, ExitElsewhere(u, t, i, how)
  PROVE  IInv'
<1>1. /\ TypeOK /\ TaskGrounded(t) /\ Unstarted(t) /\ Nested(t) /\ Close(t, i, how)
      /\ task[t] \in TaskRow /\ ctx[t] \in Context
  BY DEF IInv, TaskOK, ExitElsewhere, TypeOK
<1>2. /\ SpansKept /\ span' \in Seq(SpanRow) /\ ChildrenStay' /\ ParentsThere'
      /\ blocks'[t] \in Seq(Block) /\ blocks' = [blocks EXCEPT ![t] = blocks'[t]]
      /\ \A j \in DOMAIN blocks'[t] : \E k \in DOMAIN blocks[t] : blocks'[t][j] = blocks[t][k]
  BY <1>1, Closed
<1>3. task[t].generator /\ task[t].state # "new"
  <2>1. i \in 1 .. Len(blocks[t]) /\ blocks[t][i].frame # "body"
    BY <1>1, BlocksType DEF ExitElsewhere
  <2>2. blocks[t] # <<>>
    BY <2>1
  <2> QED BY <1>1, <2>1, <2>2 DEF Nested, Unstarted, TaskRow
<1>4. PICK r : r = [task[t] EXCEPT !.crossed = TRUE]
  OBVIOUS
<1>5. /\ r \in TaskRow /\ r.generator = TRUE /\ r.crossed = TRUE
      /\ r.state # "new" /\ r.base = task[t].base
  BY <1>1, <1>3, <1>4 DEF TaskRow
<1>6. task' = [task EXCEPT ![t] = r] /\ ctx' = [ctx EXCEPT ![t] = ctx[t]]
  BY <1>1, <1>4 DEF ExitElsewhere, TypeOK
<1>7. task'[t] = r /\ ctx'[t] = ctx[t]
  BY <1>1, <1>6 DEF TypeOK
<1>8. TaskGrounded(t)'
  <2>1. \A j \in DOMAIN blocks'[t] :
          blocks'[t][j].span \in DOMAIN span' /\ Grounded(blocks[t][j].outer)'
    BY <1>1, <1>2, GroundedKept
  <2>2. Grounded(task[t].base)' /\ Grounded(ctx[t])'
    BY <1>1, <1>2, <1>5, <1>7, GroundedKept
  <2> QED BY <2>1, <2>2 DEF TaskGrounded
<1>9. TaskOK(t)'
  BY <1>5, <1>7, <1>8 DEF TaskOK, Unstarted, Aligned, Nested
<1>10. PICK s \in Seq(Block) : s = blocks'[t]
  BY <1>2
<1> QED BY <1>1, <1>2, <1>5, <1>6, <1>9, <1>10, StepOfOne

LEMMA BeginOK ==
  ASSUME IInv, NEW u \in Tasks, NEW c \in Context, NEW crossed \in BOOLEAN,
         Grounded(c), ~ crossed => Agree(c), Begin(u, c, crossed)
  PROVE  IInv'
<1>1. /\ TypeOK /\ SpansKept /\ span' \in Seq(SpanRow) /\ span' = span
      /\ DOMAIN span' = DOMAIN span
  BY SameSpans DEF IInv, Begin
<1>2. ChildrenStay' /\ ParentsThere'
  BY <1>1, SpansOK
<1>3. blocks[u] = <<>> /\ blocks[u] \in Seq(Block)
  BY <1>1 DEF IInv, TaskOK, Unstarted, Begin, TypeOK
<1>4. PICK r : r = [state |-> "running", base |-> c, generator |-> FALSE, crossed |-> crossed]
  OBVIOUS
<1>5. /\ r \in TaskRow /\ r.state = "running" /\ r.base = c /\ r.generator = FALSE
      /\ r.crossed = crossed
  BY <1>4 DEF TaskRow
<1>6. /\ task' = [task EXCEPT ![u] = r] /\ ctx' = [ctx EXCEPT ![u] = c]
      /\ blocks' = [blocks EXCEPT ![u] = blocks[u]]
  BY <1>1, <1>4 DEF Begin, TypeOK
<1>7. task'[u] = r /\ ctx'[u] = c /\ blocks'[u] = <<>>
  BY <1>1, <1>3, <1>6 DEF TypeOK
<1>8. /\ Len(blocks'[u]) = 0 /\ DOMAIN blocks'[u] = {} /\ 1 .. 0 = {} /\ 0 .. 0 = {0}
      /\ \A p : After(u, p)' = IF p < 0 THEN blocks'[u][p + 1].outer ELSE c
  <2>1. Len(<<>>) = 0 /\ DOMAIN <<>> = {}
    OBVIOUS
  <2>2. \A p : After(u, p)' = IF p < 0 THEN blocks'[u][p + 1].outer ELSE c
    BY <1>7, <2>1 DEF After
  <2>3. 1 .. 0 = {} /\ 0 .. 0 = {0}
    OBVIOUS
  <2> QED BY <1>7, <2>1, <2>2, <2>3
<1>9. After(u, 0)' = c
  BY <1>8
<1>10. TaskGrounded(u)'
  <2>1. Grounded(ctx[u])' /\ Grounded(task[u].base)'
    BY <1>1, <1>5, <1>7 DEF Grounded
  <2> QED BY <1>8, <2>1 DEF TaskGrounded
<1>11. Unstarted(u)'
  BY <1>7 DEF Unstarted
<1>12. Aligned(u)'
  <2>1. ~ crossed => Agree(c)'
    BY <1>1 DEF Agree
  <2>2. ~ crossed => \A p \in 0 .. 0 : Agree(After(u, p))'
    BY <1>8, <1>9, <2>1
  <2> QED BY <1>5, <1>7, <1>8, <2>2 DEF Aligned
<1>13. Nested(u)'
  <2>1. Trajectories(u, 0)' = {}
    BY <1>8 DEF Trajectories
  <2>2. Innermost(u, 0)'
    BY <1>5, <1>7, <1>9, <2>1 DEF Innermost
  <2>3. \A p \in 0 .. 0 : Innermost(u, p)'
    BY <1>8, <2>2
  <2> QED BY <1>5, <1>7, <1>8, <1>9, <2>3 DEF Nested
<1>14. TaskOK(u)'
  BY <1>10, <1>11, <1>12, <1>13 DEF TaskOK
<1> QED BY <1>1, <1>2, <1>3, <1>5, <1>6, <1>14, StepOfOne

(* A task or a thread begins. *)
LEMMA SpawnOK ==
  ASSUME IInv, NEW t \in Tasks, NEW u \in Tasks, Spawn(t, u)
  PROVE  IInv'
<1>1. /\ TypeOK /\ TaskGrounded(t) /\ Aligned(t)
      /\ ctx[t] \in Context /\ task[t].crossed \in BOOLEAN
  BY DEF IInv, TypeOK, TaskOK, TaskRow
<1>2. Grounded(ctx[t])
  BY <1>1 DEF TaskGrounded
<1>3. ~ task[t].crossed => Agree(ctx[t])
  <2>1. /\ Len(blocks[t]) \in 0 .. Len(blocks[t])
        /\ After(t, Len(blocks[t])) = ctx[t]
    BY <1>1, BlocksType DEF After
  <2> QED BY <1>1, <2>1 DEF Aligned
<1>4. Begin(u, ctx[t], task[t].crossed)
  BY DEF Spawn
<1>5. \A c \in Context, x \in BOOLEAN :
        Grounded(c) /\ (~ x => Agree(c)) /\ Begin(u, c, x) => IInv'
  BY BeginOK
<1> QED BY <1>1, <1>2, <1>3, <1>4, <1>5, Zenon

LEMMA EmptyOK == Empty \in Context /\ Grounded(Empty) /\ Agree(Empty)
BY DEF Empty, Context, Otel, Refs, TIds, TNames, Grounded, Agree

LEMMA StartThreadOK ==
  ASSUME IInv, NEW t \in Tasks, NEW u \in Tasks, StartThread(t, u)
  PROVE  IInv'
<1>1. Begin(u, Empty, FALSE)
  BY DEF StartThread
<1> QED BY <1>1, EmptyOK, BeginOK

LEMMA FinishOK ==
  ASSUME IInv, NEW t \in Tasks, Finish(t)
  PROVE  IInv'
<1>1. /\ TypeOK /\ SpansKept /\ span' \in Seq(SpanRow) /\ DOMAIN span' = DOMAIN span
      /\ TaskOK(t) /\ task[t] \in TaskRow /\ ctx[t] \in Context /\ blocks[t] \in Seq(Block)
  BY SameSpans DEF IInv, Finish, TypeOK
<1>2. ChildrenStay' /\ ParentsThere'
  BY <1>1, SpansOK
<1>3. PICK r : r = [task[t] EXCEPT !.state = "finished"]
  OBVIOUS
<1>4. /\ r \in TaskRow /\ r.base = task[t].base /\ r.generator = task[t].generator
      /\ r.crossed = task[t].crossed /\ r.state = "finished"
  BY <1>1, <1>3 DEF TaskRow
<1>5. /\ task' = [task EXCEPT ![t] = r] /\ ctx' = [ctx EXCEPT ![t] = ctx[t]]
      /\ blocks' = [blocks EXCEPT ![t] = blocks[t]]
  BY <1>1, <1>3 DEF Finish, TypeOK
<1>6. task'[t] = r /\ ctx'[t] = ctx[t] /\ blocks'[t] = blocks[t] /\ Unstarted(t)'
  BY <1>1, <1>4, <1>5 DEF TypeOK, Unstarted
<1>7. TaskOK(t)'
  BY <1>1, <1>4, <1>6, TaskKept
<1> QED BY <1>1, <1>2, <1>4, <1>5, <1>7, StepOfOne

(* Only what init() keeps changes, or nothing. *)
LEMMA SdkOK ==
  ASSUME IInv, UNCHANGED <<task, ctx, blocks, span>>
  PROVE  IInv'
<1>1. TypeOK /\ SpansKept /\ DOMAIN span' = DOMAIN span /\ TypeOK'
  BY SameSpans DEF IInv, TypeOK
<1>2. ChildrenStay' /\ ParentsThere'
  BY <1>1, SpansOK
<1>3. \A t \in Tasks : TaskOK(t)'
  BY <1>1, OthersOK DEF IInv
<1> QED BY <1>1, <1>2, <1>3 DEF IInv

-----------------------------------------------------------------------------
LEMMA InitOK ==
  ASSUME Init
  PROVE  IInv
<1>1. /\ span = <<>> /\ span \in Seq(SpanRow) /\ DOMAIN span = {}
  BY DEF Init
<1>2. \A t \in Tasks : task[t] \in TaskRow /\ task[t].base = Empty /\ ctx[t] = Empty
                       /\ blocks[t] = <<>> /\ Len(blocks[t]) = 0 /\ DOMAIN blocks[t] = {}
  BY EmptyOK DEF Init, TaskRow
<1>3. TypeOK
  <2>1. task \in [Tasks -> TaskRow]
    BY <1>2 DEF Init
  <2>2. ctx \in [Tasks -> Context]
    BY EmptyOK DEF Init
  <2>3. blocks \in [Tasks -> Seq(Block)]
    BY DEF Init
  <2> QED BY <1>1, <2>1, <2>2, <2>3 DEF TypeOK
<1>4. ChildrenStay /\ ParentsThere
  BY <1>1 DEF ChildrenStay, ParentsThere
<1>5. ASSUME NEW t \in Tasks
      PROVE  TaskOK(t)
  <2>1. 1 .. 0 = {} /\ 0 .. 0 = {0} /\ \A p \in 0 .. 0 : After(t, p) = Empty
    BY <1>2 DEF After
  <2>2. TaskGrounded(t) /\ Unstarted(t)
    BY <1>2, EmptyOK DEF TaskGrounded, Unstarted
  <2>3. Aligned(t)
    BY <1>2, <2>1, EmptyOK DEF Aligned
  <2>4. \A p \in 0 .. 0 : Innermost(t, p)
    BY <1>2, <2>1 DEF Innermost, Trajectories
  <2>5. Nested(t)
    BY <1>2, <2>1, <2>4 DEF Nested
  <2> QED BY <2>2, <2>3, <2>5 DEF TaskOK
<1> QED BY <1>3, <1>4, <1>5 DEF IInv

LEMMA StepInv ==
  ASSUME IInv, [Next]_vars
  PROVE  IInv'
<1>1. ASSUME NEW c \in Callers, NEW token \in BOOLEAN, InitSdk(c, token)
      PROVE  IInv'
  BY <1>1, SdkOK DEF InitSdk
<1>2. ASSUME OtherProvider \/ \E c \in Callers : Register(c)
      PROVE  IInv'
  BY <1>2, SdkOK DEF OtherProvider, Register
<1>3. ASSUME NEW t \in Tasks, Mark(t) \/ Metric(t)
      PROVE  IInv'
  <2>1. {ctx[t].root, ctx[t].otel.span} \subseteq {None} \cup DOMAIN span
    BY DEF IInv, TaskOK, TaskGrounded, Grounded
  <2>2. \E s \in {ctx[t].root, ctx[t].otel.span}, signal \in {"tag", "metric"} :
          Signal(t, s, signal)
    BY <1>3 DEF Mark, Metric
  <2> QED BY <2>1, <2>2, SignalOK
<1>4. CASE UNCHANGED vars
  BY <1>4, SdkOK DEF vars
<1> QED BY <1>1, <1>2, <1>3, <1>4, EnterTrajectoryOK, EnterNodeOK, ExitOK, ExitElsewhereOK, SpawnOK,
           StartThreadOK, FinishOK DEF Next

(* IInv is inductive: every context a task of the traced program has or    *)
(* will have restored names spans there are, and until blocks end out of   *)
(* order they agree all the way down its stack.                            *)
THEOREM TracingInvariant == Spec => []IInv
<1>1. Init => IInv
  BY InitOK
<1>2. IInv /\ [Next]_vars => IInv'
  BY StepInv
<1> QED BY <1>1, <1>2, PTL DEF Spec

(* Baggage, root and current span of a running task speak of one           *)
(* trajectory, for any number of tasks, threads and generators, however    *)
(* deep the with blocks of trajectory() and node() nest and end.           *)
THEOREM AllContextsAgree == Spec => []ContextsAgree
<1>1. ASSUME IInv
      PROVE  ContextsAgree
  <2> SUFFICES ASSUME NEW t \in Tasks, ~ task[t].crossed, NEW c, c = ctx[t]
               PROVE  /\ c.otel.id = c.tid
                      /\ c.root = None <=> c.tid = None
                      /\ c.root # None => span[c.root].kind = "trajectory" /\ span[c.root].id = c.tid
                      /\ c.otel.span # None => span[c.otel.span].id = c.tid
    BY DEF ContextsAgree
  <2>1. TypeOK /\ TaskGrounded(t) /\ Aligned(t)
    BY <1>1 DEF IInv, TaskOK
  <2>2. Len(blocks[t]) \in 0 .. Len(blocks[t]) /\ After(t, Len(blocks[t])) = ctx[t]
    BY <2>1, BlocksType DEF After
  <2>3. Agree(ctx[t]) /\ Grounded(ctx[t])
    BY <2>1, <2>2 DEF Aligned, TaskGrounded
  <2> QED BY <2>3 DEF Agree, Grounded
<1> QED BY <1>1, TracingInvariant, PTL

(* The processor stamps a span with the trajectory and the name of the     *)
(* span it is a child of, in any task and after any way of ending blocks:  *)
(* no trajectory is split between attribute and parent.                    *)
THEOREM NoTrajectorySplit == Spec => []ChildrenStay
<1>1. IInv => ChildrenStay
  BY DEF IInv
<1> QED BY <1>1, TracingInvariant, PTL

(* mark() and set_user() reach the root of the innermost trajectory that   *)
(* is open, and after the last block the context is what the task began    *)
(* with, whether blocks return, raise or are cancelled.                    *)
THEOREM MarksFindRoot == Spec => []MarksReachRoot
<1>1. ASSUME IInv
      PROVE  MarksReachRoot
  <2> SUFFICES ASSUME NEW t \in Tasks, ~ task[t].generator,
                      NEW own, own = {i \in DOMAIN blocks[t] : blocks[t][i].kind = "trajectory"}
               PROVE  /\ \A i \in own : (\A j \in own : j <= i) => ctx[t].root = blocks[t][i].span
                      /\ own = {} => ctx[t].root = task[t].base.root
                      /\ blocks[t] = <<>> => ctx[t] = task[t].base
    BY DEF MarksReachRoot
  <2>1. TypeOK /\ Nested(t)
    BY <1>1 DEF IInv, TaskOK
  <2>2. /\ Len(blocks[t]) \in 0 .. Len(blocks[t]) /\ After(t, Len(blocks[t])) = ctx[t]
        /\ own = Trajectories(t, Len(blocks[t]))
    BY <2>1, BlocksType DEF After, Trajectories
  <2>3. Innermost(t, Len(blocks[t])) /\ After(t, 0) = task[t].base
    BY <2>1, <2>2 DEF Nested
  <2>4. blocks[t] = <<>> => After(t, 0) = ctx[t]
    BY DEF After
  <2> QED BY <2>2, <2>3, <2>4 DEF Innermost
<1> QED BY <1>1, TracingInvariant, PTL

=============================================================================
