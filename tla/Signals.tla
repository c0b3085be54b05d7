------------------------------ MODULE Signals -------------------------------
(***************************************************************************)
(* The verdict on one trajectory: its status tag, notes, completion and    *)
(* thumbs.  Three parties write these columns of one trajectories row:     *)
(*   - ingest copies what mark() and trajectory(final=...) stamped on a    *)
(*     root span (api/app/otlp/ingest.py, _apply_sdk_signals);             *)
(*   - a user edits tag and notes (PATCH /api/trajectories/{id});          *)
(*   - the SDK's feedback() posts thumbs and a note from a background      *)
(*     thread that retries whatever goes wrong, a late answer included     *)
(*     (sdk/langperf/feedback.py, api/app/api/feedback.py).                *)
(*                                                                         *)
(* Each call reads the row, computes new columns from what it read, and    *)
(* UPDATEs the columns that differ from what it read.  The row lock only   *)
(* orders the UPDATEs, as in module Ingest; everything else ingest writes  *)
(* is left to that module.                                                 *)
(***************************************************************************)
EXTENDS Integers, Sequences, FiniteSets

CONSTANTS
  Deliveries,     \* POST /v1/traces with a root span of the trajectory
  Edits,          \* PATCH /api/trajectories/{id}
  Feedbacks,      \* calls of langperf.feedback
  MaxAttempts,    \* POSTs one feedback call makes at most
  Tags, AllowedTags, Notes,
  Mark,           \* of a delivery: the tag, note, completed its root span carries
  Patch,          \* of an edit: the tag and note it sets
  Thumb,          \* of a feedback: its thumb and note
  Foreign,        \* feedbacks with the token of another agent
  None,           \* no value, NULL
  Clear,          \* in an edit: set the column to NULL
  NoRow

Attempts == Feedbacks \X (1 .. MaxAttempts)
Calls == Deliveries \cup Edits \cup Attempts

ASSUME SignalAssumption ==
  /\ Mark \in [Deliveries -> [tag : Tags \cup {None}, note : Notes \cup {None},
                              completed : BOOLEAN \cup {None}]]
  /\ Patch \in [Edits -> [tag : Tags \cup {None, Clear}, note : Notes \cup {None, Clear}]]
  /\ Thumb \in [Feedbacks -> [thumb : {"up", "down"}, note : Notes \cup {None}]]
  /\ IsFiniteSet(Feedbacks) /\ MaxAttempts \in Nat \ {0}
  /\ AllowedTags \subseteq Tags
  /\ None \notin Tags \cup Notes /\ Clear \notin Tags \cup Notes \cup {None}
  /\ Deliveries \cap Edits = {}
  /\ Deliveries \cap Attempts = {} /\ Edits \cap Attempts = {}

(* `notes` is the text's paragraphs, none of them when it is NULL. *)
Row == [tag : AllowedTags \cup {None}, notes : Seq(Notes), completed : BOOLEAN \cup {None},
        up : Nat, down : Nat]

ASSUME NoRowAssumption == NoRow \notin Row

VARIABLES
  row,     \* the committed row
  pc,      \* the next statement of a call, or its outcome
  seen,    \* the row as a call read it
  own,     \* the uncommitted row of an ingest transaction, which holds its lock
  thread,  \* the background thread of a feedback
  tries    \* the POSTs it has made

vars == <<row, pc, seen, own, thread, tries>>

TypeOK ==
  /\ row \in Row \cup {NoRow}
  /\ pc \in [Calls -> {"idle", "insert", "read", "write", "commit", "ok", "failed", "rejected"}]
  /\ seen \in [Calls -> Row \cup {NoRow}]
  /\ own \in [Calls -> Row \cup {NoRow}]
  /\ thread \in [Feedbacks -> {"off", "waiting", "acked", "gone"}]
  /\ tries \in [Feedbacks -> 0 .. MaxAttempts]

Init ==
  /\ row = NoRow
  /\ pc = [c \in Calls |-> "idle"]
  /\ seen = [c \in Calls |-> NoRow]
  /\ own = [c \in Calls |-> NoRow]
  /\ thread = [f \in Feedbacks |-> "off"]
  /\ tries = [f \in Feedbacks |-> 0]

-----------------------------------------------------------------------------
(* The row ingest inserts for a new trajectory: no signals yet. *)
FreshRow == [tag |-> None, notes |-> <<>>, completed |-> None, up |-> 0, down |-> 0]

(* Mutant: unknown tags are copied too. *)
Marked_AnyTag(old, mark) ==
  [old EXCEPT
    !.tag       = IF mark.tag # None THEN mark.tag ELSE @,
    !.notes     = IF mark.note # None THEN <<mark.note>> ELSE @,
    !.completed = IF mark.completed # None THEN mark.completed ELSE @]

(* What _apply_sdk_signals makes of a row. *)
Marked(old, mark) ==
  [old EXCEPT
    !.tag       = IF mark.tag \in AllowedTags THEN mark.tag ELSE @,
    !.notes     = IF mark.note # None THEN <<mark.note>> ELSE @,
    !.completed = IF mark.completed # None THEN mark.completed ELSE @]

Edited(old, patch) ==
  [old EXCEPT
    !.tag   = IF patch.tag = Clear THEN None ELSE IF patch.tag # None THEN patch.tag ELSE @,
    !.notes = IF patch.note = Clear THEN <<>>
              ELSE IF patch.note # None THEN <<patch.note>> ELSE @]

(* Mutant: both thumbs are counted. *)
Rated_Both(old, rating) ==
  [old EXCEPT !.up = @ + 1, !.down = @ + 1,
              !.notes = IF rating.note # None THEN Append(@, rating.note) ELSE @]

Rated(old, rating) ==
  [old EXCEPT
    !.up    = IF rating.thumb = "up" THEN @ + 1 ELSE @,
    !.down  = IF rating.thumb = "down" THEN @ + 1 ELSE @,
    !.notes = IF rating.note # None THEN Append(@, rating.note) ELSE @]

Wanted(c) ==
  IF c \in Deliveries THEN Marked(seen[c], Mark[c])
  ELSE IF c \in Edits THEN Edited(seen[c], Patch[c])
  ELSE Rated(seen[c], Thumb[c[1]])

(* Mutant: every column is written, as it was read. *)
Updated_WholeRow(current, old, new) == new

(* The UPDATE: the columns that changed, the others as they are now. *)
Updated(current, old, new) ==
  [k \in DOMAIN current |-> IF new[k] # old[k] THEN new[k] ELSE current[k]]

View(c) == IF own[c] # NoRow THEN own[c] ELSE row

Locked(c) == \E d \in Calls \ {c} : own[d] # NoRow

Goto(c, step) == pc' = [pc EXCEPT ![c] = step]

-----------------------------------------------------------------------------
(* Ingest of a root span, one statement at a time. *)

Post(d) ==
  /\ pc[d] = "idle"
  /\ Goto(d, "insert")
  /\ UNCHANGED <<row, seen, own, thread, tries>>

InsertRow(d) ==
  /\ pc[d] = "insert"
  /\ View(d) = NoRow => ~Locked(d)
  /\ own' = [own EXCEPT ![d] = IF row = NoRow THEN FreshRow ELSE @]
  /\ Goto(d, "read")
  /\ UNCHANGED <<row, seen, thread, tries>>

WriteSignals(d) ==
  /\ d \in Deliveries /\ pc[d] = "write"
  /\ IF Wanted(d) = seen[d] THEN UNCHANGED own
     ELSE /\ ~Locked(d)
          /\ own' = [own EXCEPT ![d] = Updated(View(d), seen[d], Wanted(d))]
  /\ Goto(d, "commit")
  /\ seen' = [seen EXCEPT ![d] = NoRow]
  /\ UNCHANGED <<row, thread, tries>>

Commit(d) ==
  /\ pc[d] = "commit"
  /\ row' = View(d)
  /\ own' = [own EXCEPT ![d] = NoRow]
  /\ Goto(d, "ok")
  /\ UNCHANGED <<seen, thread, tries>>

(* A user saves an edit; a POST of a feedback begins in Attempt, below. *)
Edit(e) ==
  /\ pc[e] = "idle"
  /\ Goto(e, "read")
  /\ UNCHANGED <<row, seen, own, thread, tries>>

(* The SELECT, and what is refused because of it: an unknown trajectory,   *)
(* another agent's trajectory, a tag outside the allowed ones.             *)
Refused(c) ==
  \/ View(c) = NoRow
  \/ c \in Edits /\ Patch[c].tag \in Tags \ AllowedTags
  \/ c \in Attempts /\ c[1] \in Foreign

(* Mutant: what is refused is answered 204. *)
ReadRow_Accepts(c) ==
  /\ pc[c] = "read"
  /\ IF Refused(c)
     THEN Goto(c, "ok") /\ UNCHANGED seen
     ELSE Goto(c, "write") /\ seen' = [seen EXCEPT ![c] = View(c)]
  /\ UNCHANGED <<row, own, thread, tries>>

ReadRow(c) ==
  /\ pc[c] = "read"
  /\ IF Refused(c)
     THEN Goto(c, "rejected") /\ UNCHANGED seen
     ELSE Goto(c, "write") /\ seen' = [seen EXCEPT ![c] = View(c)]
  /\ UNCHANGED <<row, own, thread, tries>>

(* UPDATE and COMMIT. *)
Store(c) ==
  /\ c \in Edits \cup Attempts /\ pc[c] = "write"
  /\ IF Wanted(c) = seen[c] THEN UNCHANGED row
     ELSE ~Locked(c) /\ row' = Updated(row, seen[c], Wanted(c))
  /\ Goto(c, "ok")
  /\ seen' = [seen EXCEPT ![c] = NoRow]
  /\ UNCHANGED <<own, thread, tries>>

(* Mutant: the transaction is committed on its way out. *)
Fail_Commits(c) ==
  /\ pc[c] \in {"insert", "read", "write", "commit"}
  /\ row' = View(c)
  /\ own' = [own EXCEPT ![c] = NoRow]
  /\ seen' = [seen EXCEPT ![c] = NoRow]
  /\ Goto(c, "failed")
  /\ UNCHANGED <<thread, tries>>

(* A call dies and is rolled back. *)
Fail(c) ==
  /\ pc[c] \in {"insert", "read", "write", "commit"}
  /\ own' = [own EXCEPT ![c] = NoRow]
  /\ seen' = [seen EXCEPT ![c] = NoRow]
  /\ Goto(c, "failed")
  /\ UNCHANGED <<row, thread, tries>>

-----------------------------------------------------------------------------
(* The SDK's background thread. *)

Attempt(f) ==
  /\ tries' = [tries EXCEPT ![f] = @ + 1]
  /\ Goto(<<f, tries[f] + 1>>, "read")

Feedback(f) ==
  /\ thread[f] = "off"
  /\ thread' = [thread EXCEPT ![f] = "waiting"]
  /\ Attempt(f)
  /\ UNCHANGED <<row, seen, own>>

(* The 204 arrives. *)
Acknowledge(f) ==
  /\ thread[f] = "waiting" /\ pc[<<f, tries[f]>>] = "ok"
  /\ thread' = [thread EXCEPT ![f] = "acked"]
  /\ UNCHANGED <<row, pc, seen, own, tries>>

(* An error status, a lost connection, or 5 seconds without an answer      *)
(* while the API may still be at work.                                     *)
Retry(f) ==
  /\ thread[f] = "waiting" /\ tries[f] < MaxAttempts
  /\ Attempt(f)
  /\ UNCHANGED <<row, seen, own, thread>>

(* The last attempt went wrong too, or the process exits: the thread is a  *)
(* daemon.                                                                 *)
GiveUp(f) ==
  /\ thread[f] = "waiting"
  /\ thread' = [thread EXCEPT ![f] = "gone"]
  /\ UNCHANGED <<row, pc, seen, own, tries>>

Done ==
  /\ \A f \in Feedbacks : thread[f] \in {"acked", "gone"}
  /\ \A c \in Calls : pc[c] \in {"idle", "ok", "failed", "rejected"}
  /\ \A c \in Deliveries \cup Edits : pc[c] # "idle"
  /\ UNCHANGED vars

Step(c) == InsertRow(c) \/ ReadRow(c) \/ WriteSignals(c) \/ Commit(c) \/ Store(c)

Next ==
  \/ \E d \in Deliveries : Post(d)
  \/ \E e \in Edits : Edit(e)
  \/ \E c \in Calls : Step(c) \/ Fail(c)
  \/ \E f \in Feedbacks : Feedback(f) \/ Acknowledge(f) \/ Retry(f) \/ GiveUp(f)
  \/ Done

Spec == Init /\ [][Next]_vars

-----------------------------------------------------------------------------
(* The columns a call may set. *)
Sets(c) ==
  IF c \in Deliveries
  THEN {k \in {"tag", "completed"} : Mark[c][k] # None}
         \cup (IF Mark[c].note # None THEN {"notes"} ELSE {})
  ELSE IF c \in Edits
  THEN (IF Patch[c].tag # None THEN {"tag"} ELSE {})
         \cup (IF Patch[c].note # None THEN {"notes"} ELSE {})
  ELSE {Thumb[c[1]].thumb} \cup (IF Thumb[c[1]].note # None THEN {"notes"} ELSE {})

Succeeds(c) == pc[c] # "ok" /\ pc'[c] = "ok"

Stored == {c \in Calls : pc[c] = "ok"}

TagOf(c) ==
  IF c \in Deliveries THEN Mark[c].tag
  ELSE IF c \in Edits THEN Patch[c].tag ELSE None

NoteOf(c) ==
  IF c \in Deliveries THEN Mark[c].note
  ELSE IF c \in Edits THEN Patch[c].note ELSE Thumb[c[1]].note

(* Whatever the row says, a call that succeeded said: nothing of a call    *)
(* that was rolled back, and a completion only from the root span of a     *)
(* final segment, as the others carry none.                                *)
SignalsHaveSources ==
  row # NoRow =>
    /\ row.tag # None => \E c \in Stored : TagOf(c) = row.tag
    /\ \A i \in DOMAIN row.notes : \E c \in Stored : NoteOf(c) = row.notes[i]
    /\ row.completed # None =>
         \E d \in Stored \cap Deliveries : Mark[d].completed = row.completed

(* The thumbs never count more than the attempts that succeeded; a thread  *)
(* that timed out and tried again may have made several.                   *)
Counted(thumb) == {a \in Stored \cap Attempts : Thumb[a[1]].thumb = thumb}

NeverOvercounts ==
  row # NoRow => /\ row.up <= Cardinality(Counted("up"))
                 /\ row.down <= Cardinality(Counted("down"))

(* Overlapping feedbacks lose counts, but never all of them: a thumb that  *)
(* was acknowledged once shows for ever.                                   *)
AckedThumbShows ==
  \A f \in Feedbacks : thread[f] = "acked" => row # NoRow /\ row[Thumb[f].thumb] > 0

(* A call never undoes, with a value it read earlier, a column it has      *)
(* nothing to say about: an edit of the tag loses no thumb, a thumb loses  *)
(* no tag, a late segment loses no completion.                             *)
UntouchedColumnsKept ==
  [][\A c \in Calls : Succeeds(c) /\ row # NoRow =>
       \A k \in DOMAIN row \ Sets(c) : row'[k] = row[k]]_vars

(* "Append rather than overwrite so earlier SME / SDK notes survive."      *)
(* (api/app/api/feedback.py:66)                                            *)
NotesSurvive ==
  [][\A a \in Attempts : Succeeds(a) /\ row # NoRow =>
       SubSeq(row'.notes, 1, Len(row.notes)) = row.notes]_vars
=============================================================================
