--------------------------- MODULE SignalsProofs ----------------------------
(***************************************************************************)
(* The safety of the signals of a trajectory, for any number of            *)
(* deliveries, edits, feedbacks and attempts.                              *)
(***************************************************************************)
EXTENDS Signals, FiniteSetTheorems, TLAPS

Columns == {"tag", "notes", "completed", "up", "down"}

OneOwner == \A c, d \in Calls : own[c] # NoRow /\ own[d] # NoRow => c = d

(* Where a call stands and what it holds there. *)
CallOK(c) ==
  /\ pc[c] \in {"insert", "commit"} => c \in Deliveries
  /\ own[c] # NoRow => c \in Deliveries /\ pc[c] \in {"read", "write", "commit"}
  /\ c \in Deliveries /\ pc[c] \in {"read", "write", "commit"} => View(c) # NoRow
  /\ pc[c] = "write" => seen[c] # NoRow /\ View(c) # NoRow
  /\ pc[c] = "write" /\ c \in Edits => Patch[c].tag \notin Tags \ AllowedTags

Sessions == \A c \in Calls : CallOK(c)

ThreadOK(f) ==
  /\ thread[f] = "off" <=> tries[f] = 0
  /\ \A i \in 1 .. MaxAttempts : i > tries[f] => pc[<<f, i>>] = "idle"
  /\ thread[f] = "acked" => pc[<<f, tries[f]>>] = "ok"

Threads == \A f \in Feedbacks : ThreadOK(f)

(* An uncommitted row differs from the committed one where its call has    *)
(* something to say.                                                       *)
OwnKeeps ==
  \A c \in Calls : own[c] # NoRow /\ row # NoRow =>
    \A k \in Columns \ Sets(c) : own[c][k] = row[k]

(* What row r says, some call in S said. *)
Backed(r, S) ==
  r # NoRow =>
    /\ r.tag # None => \E c \in S : TagOf(c) = r.tag
    /\ \A i \in DOMAIN r.notes : \E c \in S : NoteOf(c) = r.notes[i]
    /\ r.completed # None => \E d \in S \cap Deliveries : Mark[d].completed = r.completed

Sourced ==
  /\ Backed(row, Stored)
  /\ \A c \in Calls : Backed(seen[c], Stored \cup {c}) /\ Backed(own[c], Stored \cup {c})

(* Row r counts no more thumbs than the attempts in S have. *)
Votes(S, k) == {a \in S \cap Attempts : Thumb[a[1]].thumb = k}

Within(r, S) ==
  r # NoRow => \A k \in {"up", "down"} : r[k] <= Cardinality(Votes(S, k))

Counts ==
  /\ Within(row, Stored)
  /\ \A c \in Calls : Within(seen[c], Stored) /\ Within(own[c], Stored)

Shown ==
  \A a \in Attempts : pc[a] = "ok" => row # NoRow /\ row[Thumb[a[1]].thumb] > 0

Basics == TypeOK /\ OneOwner /\ Sessions /\ Threads

IInv == Basics /\ OwnKeeps /\ Sourced /\ Counts /\ Shown

-----------------------------------------------------------------------------
(* Rows and what the calls make of them. *)

LEMMA FreshRowType == FreshRow \in Row
BY DEF FreshRow, Row

LEMMA RowColumns ==
  ASSUME NEW r \in Row
  PROVE  /\ DOMAIN r = Columns
         /\ r.tag \in AllowedTags \cup {None} /\ r.notes \in Seq(Notes)
         /\ r.completed \in BOOLEAN \cup {None} /\ r.up \in Nat /\ r.down \in Nat
BY DEF Row, Columns

(* An UPDATE writes the columns that changed and yields a row. *)
LEMMA UpdatedColumns ==
  ASSUME NEW r \in Row, NEW old \in Row, NEW new \in Row
  PROVE  /\ Updated(r, old, new) \in Row
         /\ \A k \in Columns : Updated(r, old, new)[k] = IF new[k] # old[k] THEN new[k] ELSE r[k]
<1> DEFINE u == Updated(r, old, new)
<1>1. u = [k \in Columns |-> IF new[k] # old[k] THEN new[k] ELSE r[k]]
  BY RowColumns DEF Updated
<1>2. \A k \in Columns : u[k] = IF new[k] # old[k] THEN new[k] ELSE r[k]
  BY <1>1
<1>3. /\ u.tag \in AllowedTags \cup {None} /\ u.notes \in Seq(Notes)
      /\ u.completed \in BOOLEAN \cup {None} /\ u.up \in Nat /\ u.down \in Nat
  BY <1>2, RowColumns DEF Columns
<1>4. u = [tag |-> u.tag, notes |-> u.notes, completed |-> u.completed,
           up |-> u.up, down |-> u.down]
  BY <1>1 DEF Columns
<1>5. u \in Row
  BY <1>3, <1>4 DEF Row
<1> QED BY <1>2, <1>5

LEMMA MarkedColumns ==
  ASSUME NEW r \in Row, NEW d \in Deliveries
  PROVE  LET m == Mark[d] IN
         /\ Marked(r, m) \in Row
         /\ Marked(r, m).tag = IF m.tag \in AllowedTags THEN m.tag ELSE r.tag
         /\ Marked(r, m).notes = IF m.note # None THEN <<m.note>> ELSE r.notes
         /\ Marked(r, m).completed = IF m.completed # None THEN m.completed ELSE r.completed
         /\ Marked(r, m).up = r.up /\ Marked(r, m).down = r.down
<1> DEFINE m == Mark[d]
<1>1. /\ m.tag \in Tags \cup {None} /\ m.note \in Notes \cup {None}
      /\ m.completed \in BOOLEAN \cup {None}
  BY SignalAssumption
<1>2. /\ (IF m.tag \in AllowedTags THEN m.tag ELSE r.tag) \in AllowedTags \cup {None}
      /\ (IF m.note # None THEN <<m.note>> ELSE r.notes) \in Seq(Notes)
      /\ (IF m.completed # None THEN m.completed ELSE r.completed) \in BOOLEAN \cup {None}
  BY <1>1, RowColumns
<1>3. \A a \in AllowedTags \cup {None}, b \in Seq(Notes), c \in BOOLEAN \cup {None} :
        [r EXCEPT !.tag = a, !.notes = b, !.completed = c] \in Row
  BY DEF Row
<1>4. Marked(r, m) \in Row
  BY <1>2, <1>3 DEF Marked
<1> QED BY <1>4 DEF Marked, Row

LEMMA EditedColumns ==
  ASSUME NEW r \in Row, NEW e \in Edits, Patch[e].tag \notin Tags \ AllowedTags
  PROVE  LET p == Patch[e] IN
         /\ Edited(r, p) \in Row
         /\ Edited(r, p).tag = IF p.tag = Clear THEN None
                               ELSE IF p.tag # None THEN p.tag ELSE r.tag
         /\ Edited(r, p).notes = IF p.note = Clear THEN <<>>
                                 ELSE IF p.note # None THEN <<p.note>> ELSE r.notes
         /\ Edited(r, p).completed = r.completed
         /\ Edited(r, p).up = r.up /\ Edited(r, p).down = r.down
<1> DEFINE p == Patch[e]
<1>1. /\ p.tag \in AllowedTags \cup {None, Clear} /\ p.note \in Notes \cup {None, Clear}
  BY SignalAssumption
<1>2. /\ (IF p.tag = Clear THEN None ELSE IF p.tag # None THEN p.tag ELSE r.tag)
            \in AllowedTags \cup {None}
      /\ (IF p.note = Clear THEN <<>> ELSE IF p.note # None THEN <<p.note>> ELSE r.notes)
            \in Seq(Notes)
  BY <1>1, RowColumns
<1>3. \A a \in AllowedTags \cup {None}, b \in Seq(Notes) :
        [r EXCEPT !.tag = a, !.notes = b] \in Row
  BY DEF Row
<1>4. Edited(r, p) \in Row
  BY <1>2, <1>3 DEF Edited
<1> QED BY <1>4 DEF Edited, Row

LEMMA RatedColumns ==
  ASSUME NEW r \in Row, NEW f \in Feedbacks
  PROVE  LET t == Thumb[f] IN
         /\ Rated(r, t) \in Row
         /\ Rated(r, t).tag = r.tag /\ Rated(r, t).completed = r.completed
         /\ Rated(r, t).notes = IF t.note # None THEN Append(r.notes, t.note) ELSE r.notes
         /\ Rated(r, t).up = IF t.thumb = "up" THEN r.up + 1 ELSE r.up
         /\ Rated(r, t).down = IF t.thumb = "down" THEN r.down + 1 ELSE r.down
<1> DEFINE t == Thumb[f]
<1>1. t.thumb \in {"up", "down"} /\ t.note \in Notes \cup {None}
  BY SignalAssumption
<1>2. /\ (IF t.thumb = "up" THEN r.up + 1 ELSE r.up) \in Nat
      /\ (IF t.thumb = "down" THEN r.down + 1 ELSE r.down) \in Nat
      /\ (IF t.note # None THEN Append(r.notes, t.note) ELSE r.notes) \in Seq(Notes)
  BY <1>1, RowColumns
<1>3. \A a \in Nat, b \in Nat, c \in Seq(Notes) :
        [r EXCEPT !.up = a, !.down = b, !.notes = c] \in Row
  BY DEF Row
<1>4. Rated(r, t) \in Row
  BY <1>2, <1>3 DEF Rated
<1> QED BY <1>4 DEF Rated, Row

LEMMA AttemptsAreCalls ==
  /\ \A a \in Attempts : a[1] \in Feedbacks /\ a[2] \in 1 .. MaxAttempts /\ a = <<a[1], a[2]>>
  /\ \A f \in Feedbacks, i \in 1 .. MaxAttempts : <<f, i>> \in Attempts
  /\ \A c \in Calls : /\ c \in Deliveries => c \notin Edits /\ c \notin Attempts
                      /\ c \in Edits => c \notin Attempts
                      /\ c \in Deliveries \/ c \in Edits \/ c \in Attempts
BY SignalAssumption DEF Attempts, Calls

(* What a call wants to write is a row, and differs from the row it read   *)
(* only in the columns it may set.                                         *)
LEMMA WantedColumns ==
  ASSUME TypeOK, NEW c \in Calls, CallOK(c), pc[c] = "write"
  PROVE  /\ seen[c] \in Row /\ Wanted(c) \in Row
         /\ \A k \in Columns \ Sets(c) : Wanted(c)[k] = seen[c][k]
<1>1. seen[c] \in Row
  BY DEF TypeOK, CallOK
<1>2. CASE c \in Deliveries
  <2>1. Wanted(c) = Marked(seen[c], Mark[c])
    BY <1>2 DEF Wanted
  <2>2. Sets(c) = {k \in {"tag", "completed"} : Mark[c][k] # None}
                    \cup (IF Mark[c].note # None THEN {"notes"} ELSE {})
    BY <1>2 DEF Sets
  <2>3. Mark[c].tag = None => Mark[c].tag \notin AllowedTags
    BY SignalAssumption
  <2>4. /\ Mark[c].tag = None => Wanted(c).tag = seen[c].tag
        /\ Mark[c].note = None => Wanted(c).notes = seen[c].notes
        /\ Mark[c].completed = None => Wanted(c).completed = seen[c].completed
        /\ Wanted(c).up = seen[c].up /\ Wanted(c).down = seen[c].down
        /\ Wanted(c) \in Row
    <3> DEFINE w == Marked(seen[c], Mark[c])
    <3>1. /\ w.tag = IF Mark[c].tag \in AllowedTags THEN Mark[c].tag ELSE seen[c].tag
          /\ w.notes = IF Mark[c].note # None THEN <<Mark[c].note>> ELSE seen[c].notes
          /\ w.up = seen[c].up /\ w.down = seen[c].down /\ w \in Row
      BY <1>1, <1>2, MarkedColumns
    <3>2. Mark[c].completed = None => w.completed = seen[c].completed
      BY <1>1, <1>2, MarkedColumns
    <3> QED BY <2>1, <2>3, <3>1, <3>2
  <2>5. ASSUME NEW k \in Columns \ Sets(c)
        PROVE  Wanted(c)[k] = seen[c][k]
    <3>1. CASE k = "tag" BY <2>2, <2>4, <2>5, <3>1
    <3>2. CASE k = "notes" BY <2>2, <2>4, <2>5, <3>2
    <3>3. CASE k = "completed" BY <2>2, <2>4, <2>5, <3>3
    <3> QED BY <2>4, <2>5, <3>1, <3>2, <3>3 DEF Columns
  <2> QED BY <1>1, <2>4, <2>5
<1>3. CASE c \in Edits
  <2>1. Wanted(c) = Edited(seen[c], Patch[c]) /\ Patch[c].tag \notin Tags \ AllowedTags
    BY <1>3, AttemptsAreCalls DEF Wanted, CallOK
  <2>2. Sets(c) = (IF Patch[c].tag # None THEN {"tag"} ELSE {})
                    \cup (IF Patch[c].note # None THEN {"notes"} ELSE {})
    BY <1>3, AttemptsAreCalls DEF Sets
  <2>3. Patch[c].tag = None => Edited(seen[c], Patch[c]).tag = seen[c].tag
    BY <1>1, <1>3, <2>1, EditedColumns, SignalAssumption
  <2>4. Patch[c].note = None => Edited(seen[c], Patch[c]).notes = seen[c].notes
    BY <1>1, <1>3, <2>1, EditedColumns, SignalAssumption
  <2>5. /\ Wanted(c) \in Row /\ Wanted(c).completed = seen[c].completed
        /\ Wanted(c).up = seen[c].up /\ Wanted(c).down = seen[c].down
    <3> DEFINE w == Edited(seen[c], Patch[c])
    <3>1. /\ w \in Row /\ w.completed = seen[c].completed
          /\ w.up = seen[c].up /\ w.down = seen[c].down
      BY <1>1, <1>3, <2>1, EditedColumns
    <3> QED BY <2>1, <3>1
  <2>6. ASSUME NEW k \in Columns \ Sets(c)
        PROVE  Wanted(c)[k] = seen[c][k]
    <3>1. CASE k = "tag" BY <2>1, <2>2, <2>3, <2>6, <3>1
    <3>2. CASE k = "notes" BY <2>1, <2>2, <2>4, <2>6, <3>2
    <3> QED BY <2>5, <2>6, <3>1, <3>2 DEF Columns
  <2> QED BY <1>1, <2>5, <2>6
<1>4. CASE c \in Attempts
  <2> DEFINE f == c[1]
  <2>1. f \in Feedbacks /\ Thumb[f].thumb \in {"up", "down"}
    BY <1>4, AttemptsAreCalls, SignalAssumption
  <2>2. Wanted(c) = Rated(seen[c], Thumb[f])
    BY <1>4, AttemptsAreCalls DEF Wanted
  <2>3. Sets(c) = {Thumb[f].thumb} \cup (IF Thumb[f].note # None THEN {"notes"} ELSE {})
    BY <1>4, AttemptsAreCalls DEF Sets
  <2> QED BY <1>1, <2>1, <2>2, <2>3, RatedColumns DEF Columns
<1> QED BY <1>2, <1>3, <1>4, AttemptsAreCalls

-----------------------------------------------------------------------------
(* The types, the owner of the uncommitted row, where calls and threads    *)
(* stand.                                                                  *)

LEMMA InitBasics == Init => Basics
<1> SUFFICES ASSUME Init PROVE Basics
  OBVIOUS
<1>1. TypeOK
  BY SignalAssumption DEF Init, TypeOK
<1>2. OneOwner
  BY DEF Init, OneOwner
<1>3. Sessions
  BY DEF Init, Sessions, CallOK
<1>4. Threads
  BY AttemptsAreCalls DEF Init, Threads, ThreadOK, Calls
<1> QED BY <1>1, <1>2, <1>3, <1>4 DEF Basics

(* What an edit or an attempt stores. *)
LEMMA StoredRow ==
  ASSUME Basics, NEW c \in Calls, Store(c)
  PROVE  /\ pc[c] = "write" /\ own[c] = NoRow /\ row \in Row /\ row # NoRow
         /\ seen[c] \in Row /\ Wanted(c) \in Row
         /\ \/ row' = row /\ Wanted(c) = seen[c]
            \/ ~Locked(c) /\ row' = Updated(row, seen[c], Wanted(c))
         /\ row' \in Row
<1>1. pc[c] = "write" /\ c \notin Deliveries /\ CallOK(c) /\ TypeOK
  BY AttemptsAreCalls DEF Store, Basics, Sessions
<1>2. own[c] = NoRow /\ row # NoRow /\ row \in Row
  BY <1>1 DEF CallOK, View, TypeOK
<1>3. seen[c] \in Row /\ Wanted(c) \in Row
  BY <1>1, WantedColumns
<1>4. \/ row' = row /\ Wanted(c) = seen[c]
      \/ ~Locked(c) /\ row' = Updated(row, seen[c], Wanted(c))
  BY DEF Store
<1> QED BY <1>1, <1>2, <1>3, <1>4, UpdatedColumns

(* The uncommitted row a delivery leaves when it has written its signals. *)
LEMMA WrittenRow ==
  ASSUME Basics, NEW d \in Calls, WriteSignals(d)
  PROVE  /\ pc[d] = "write" /\ d \in Deliveries
         /\ View(d) \in Row /\ seen[d] \in Row /\ Wanted(d) \in Row
         /\ \/ own' = own /\ Wanted(d) = seen[d]
            \/ /\ ~Locked(d)
               /\ own' = [own EXCEPT ![d] = Updated(View(d), seen[d], Wanted(d))]
               /\ own'[d] \in Row
               /\ own'[d] = Updated(View(d), seen[d], Wanted(d))
<1>1. pc[d] = "write" /\ d \in Deliveries /\ CallOK(d) /\ TypeOK
  BY DEF WriteSignals, Basics, Sessions
<1>2. View(d) \in Row
  BY <1>1 DEF CallOK, View, TypeOK
<1>3. seen[d] \in Row /\ Wanted(d) \in Row
  BY <1>1, WantedColumns
<1>4. \/ own' = own /\ Wanted(d) = seen[d]
      \/ ~Locked(d) /\ own' = [own EXCEPT ![d] = Updated(View(d), seen[d], Wanted(d))]
  BY DEF WriteSignals
<1> QED BY <1>1, <1>2, <1>3, <1>4, UpdatedColumns DEF TypeOK

LEMMA CommittedRow ==
  ASSUME Basics, NEW d \in Calls, Commit(d)
  PROVE  /\ pc[d] = "commit" /\ d \in Deliveries /\ row' \in Row
         /\ row' = IF own[d] = NoRow THEN row ELSE own[d]
<1>1. pc[d] = "commit" /\ CallOK(d) /\ TypeOK
  BY DEF Commit, Basics, Sessions
<1> QED BY <1>1 DEF Commit, CallOK, View, TypeOK

LEMMA StepCases ==
  ASSUME [Next]_vars
  PROVE  \/ \E c \in Calls : \/ c \in Deliveries /\ Post(c)
                             \/ c \in Edits /\ Edit(c)
                             \/ InsertRow(c) \/ ReadRow(c) \/ WriteSignals(c) \/ Commit(c)
                             \/ Store(c) \/ Fail(c)
         \/ \E f \in Feedbacks : Feedback(f) \/ Acknowledge(f) \/ Retry(f) \/ GiveUp(f)
         \/ UNCHANGED vars
<1>1. Deliveries \subseteq Calls /\ Edits \subseteq Calls
  BY DEF Calls
<1> QED BY <1>1 DEF Next, Step, Done

LEMMA NextAttempt ==
  ASSUME Basics, NEW f \in Feedbacks, Feedback(f) \/ Retry(f)
  PROVE  /\ tries[f] \in Nat /\ tries[f] + 1 \in 1 .. MaxAttempts /\ MaxAttempts \in Nat
         /\ pc[<<f, tries[f] + 1>>] = "idle"
<1>1. MaxAttempts \in Nat /\ MaxAttempts > 0 /\ tries[f] \in 0 .. MaxAttempts
  BY SignalAssumption DEF Basics, TypeOK
<1>2. ThreadOK(f)
  BY DEF Basics, Threads
<1>3. tries[f] = 0 \/ tries[f] < MaxAttempts
  BY <1>2 DEF ThreadOK, Feedback, Retry
<1> QED BY <1>1, <1>2, <1>3 DEF ThreadOK

LEMMA StepType ==
  ASSUME Basics, [Next]_vars
  PROVE  TypeOK'
<1> USE DEF Basics
<1>1. ASSUME NEW c \in Calls, Post(c) \/ Edit(c)
      PROVE  TypeOK'
  BY <1>1 DEF TypeOK, Post, Edit, Goto
<1>2. ASSUME NEW c \in Calls, InsertRow(c)
      PROVE  TypeOK'
  BY <1>2, FreshRowType DEF TypeOK, InsertRow, Goto
<1>3. ASSUME NEW c \in Calls, ReadRow(c)
      PROVE  TypeOK'
  <2>1. View(c) \in Row \cup {NoRow}
    BY DEF TypeOK, View
  <2> QED BY <1>3, <2>1 DEF TypeOK, ReadRow, Goto
<1>4. ASSUME NEW c \in Calls, WriteSignals(c)
      PROVE  TypeOK'
  <2>1. own' \in [Calls -> Row \cup {NoRow}]
    BY <1>4, WrittenRow DEF TypeOK
  <2> QED BY <1>4, <2>1 DEF TypeOK, WriteSignals, Goto
<1>5. ASSUME NEW c \in Calls, Commit(c)
      PROVE  TypeOK'
  <2>1. row' \in Row
    BY <1>5, CommittedRow
  <2> QED BY <1>5, <2>1 DEF TypeOK, Commit, Goto
<1>6. ASSUME NEW c \in Calls, Store(c)
      PROVE  TypeOK'
  <2>1. row' \in Row
    BY <1>6, StoredRow
  <2> QED BY <1>6, <2>1 DEF TypeOK, Store, Goto
<1>7. ASSUME NEW c \in Calls, Fail(c)
      PROVE  TypeOK'
  BY <1>7 DEF TypeOK, Fail, Goto
<1>8. ASSUME NEW f \in Feedbacks, Feedback(f) \/ Retry(f)
      PROVE  TypeOK'
  <2>1. tries[f] \in Nat /\ tries[f] + 1 \in 1 .. MaxAttempts /\ MaxAttempts \in Nat
    BY <1>8, NextAttempt
  <2>2. tries[f] + 1 \in 0 .. MaxAttempts
    BY <2>1
  <2> QED BY <1>8, <2>2 DEF TypeOK, Feedback, Retry, Attempt, Goto
<1>9. ASSUME NEW f \in Feedbacks, Acknowledge(f) \/ GiveUp(f)
      PROVE  TypeOK'
  BY <1>9 DEF TypeOK, Acknowledge, GiveUp
<1>10. CASE UNCHANGED vars
  <2>1. UNCHANGED row /\ UNCHANGED pc /\ UNCHANGED seen /\ UNCHANGED own
        /\ UNCHANGED thread /\ UNCHANGED tries
    BY <1>10 DEF vars
  <2> QED BY <2>1 DEF TypeOK
<1> QED
  BY <1>1, <1>2, <1>3, <1>4, <1>5, <1>6, <1>7, <1>8, <1>9, <1>10, StepCases

(* The committed row moves by the success of one call only. *)
LEMMA RowMoves ==
  ASSUME Basics, [Next]_vars
  PROVE  \/ row' = row /\ \A c \in Calls : pc'[c] = "ok" <=> pc[c] = "ok"
         \/ \E c \in Calls :
              /\ Commit(c) \/ Store(c)
              /\ pc[c] # "ok" /\ pc' = [pc EXCEPT ![c] = "ok"]
<1> USE DEF Basics, TypeOK
<1>1. ASSUME NEW c \in Calls,
             \/ c \in Deliveries /\ Post(c)
             \/ c \in Edits /\ Edit(c)
             \/ InsertRow(c) \/ ReadRow(c) \/ WriteSignals(c) \/ Fail(c)
      PROVE  row' = row /\ \A d \in Calls : pc'[d] = "ok" <=> pc[d] = "ok"
  BY <1>1 DEF Post, Edit, InsertRow, ReadRow, WriteSignals, Fail, Goto
<1>2. ASSUME NEW c \in Calls, Commit(c) \/ Store(c)
      PROVE  pc[c] # "ok" /\ pc' = [pc EXCEPT ![c] = "ok"]
  BY <1>2 DEF Commit, Store, Goto
<1>3. ASSUME NEW f \in Feedbacks, Feedback(f) \/ Retry(f)
      PROVE  row' = row /\ \A d \in Calls : pc'[d] = "ok" <=> pc[d] = "ok"
  <2>1. pc[<<f, tries[f] + 1>>] = "idle"
    BY <1>3, NextAttempt
  <2> QED BY <1>3, <2>1 DEF Feedback, Retry, Attempt, Goto
<1>4. ASSUME NEW f \in Feedbacks, Acknowledge(f) \/ GiveUp(f)
      PROVE  row' = row /\ \A d \in Calls : pc'[d] = "ok" <=> pc[d] = "ok"
  BY <1>4 DEF Acknowledge, GiveUp
<1>5. CASE UNCHANGED vars
  BY <1>5 DEF vars
<1> QED BY <1>1, <1>2, <1>3, <1>4, <1>5, StepCases

LEMMA RowStays ==
  ASSUME Basics, [Next]_vars, row # NoRow
  PROVE  row' # NoRow
<1>1. ASSUME NEW c \in Calls, Commit(c)
      PROVE  row' # NoRow
  BY <1>1, CommittedRow
<1>2. ASSUME NEW c \in Calls, Store(c)
      PROVE  row' # NoRow
  BY <1>2, StoredRow, NoRowAssumption
<1> QED BY <1>1, <1>2, RowMoves

(* Uncommitted rows appear by an insert and change by the signals. *)
LEMMA OwnMoves ==
  ASSUME Basics, [Next]_vars
  PROVE  \/ \E c \in Calls : InsertRow(c) \/ WriteSignals(c)
         \/ \A c \in Calls : own'[c] = own[c] \/ own'[c] = NoRow
<1> USE DEF Basics, TypeOK
<1>1. ASSUME NEW c \in Calls,
             \/ c \in Deliveries /\ Post(c)
             \/ c \in Edits /\ Edit(c)
             \/ ReadRow(c) \/ Store(c) \/ Fail(c) \/ Commit(c)
      PROVE  \A d \in Calls : own'[d] = own[d] \/ own'[d] = NoRow
  BY <1>1 DEF Post, Edit, ReadRow, Store, Fail, Commit
<1>2. ASSUME NEW f \in Feedbacks, Feedback(f) \/ Acknowledge(f) \/ Retry(f) \/ GiveUp(f)
      PROVE  own' = own
  BY <1>2 DEF Feedback, Acknowledge, Retry, GiveUp
<1>3. CASE UNCHANGED vars
  BY <1>3 DEF vars
<1> QED BY <1>1, <1>2, <1>3, StepCases

LEMMA SeenMoves ==
  ASSUME Basics, [Next]_vars
  PROVE  \/ \E c \in Calls :
              ReadRow(c) /\ own' = own /\ row' = row /\ seen' = [seen EXCEPT ![c] = View(c)]
         \/ \A c \in Calls : seen'[c] = seen[c] \/ seen'[c] = NoRow
<1> USE DEF Basics, TypeOK
<1>1. ASSUME NEW c \in Calls,
             \/ c \in Deliveries /\ Post(c)
             \/ c \in Edits /\ Edit(c)
             \/ InsertRow(c) \/ WriteSignals(c) \/ Store(c) \/ Fail(c) \/ Commit(c)
      PROVE  \A d \in Calls : seen'[d] = seen[d] \/ seen'[d] = NoRow
  BY <1>1 DEF Post, Edit, InsertRow, WriteSignals, Store, Fail, Commit
<1>2. ASSUME NEW c \in Calls, ReadRow(c)
      PROVE  \/ own' = own /\ row' = row /\ seen' = [seen EXCEPT ![c] = View(c)]
             \/ seen' = seen
  BY <1>2 DEF ReadRow
<1>3. ASSUME NEW f \in Feedbacks, Feedback(f) \/ Acknowledge(f) \/ Retry(f) \/ GiveUp(f)
      PROVE  seen' = seen
  BY <1>3 DEF Feedback, Acknowledge, Retry, GiveUp
<1>4. CASE UNCHANGED vars
  BY <1>4 DEF vars
<1> QED BY <1>1, <1>2, <1>3, <1>4, StepCases

LEMMA StepOwner ==
  ASSUME Basics, [Next]_vars
  PROVE  OneOwner'
<1> USE DEF Basics, TypeOK
<1>1. ASSUME NEW c \in Calls, InsertRow(c)
      PROVE  OneOwner'
  <2>1. own' = own \/ (~Locked(c) /\ own' = [own EXCEPT ![c] = FreshRow])
    BY <1>1 DEF InsertRow, View, Sessions, CallOK
  <2> QED BY <2>1 DEF OneOwner, Locked
<1>2. ASSUME NEW c \in Calls, WriteSignals(c)
      PROVE  OneOwner'
  <2>1. own' = own \/ (~Locked(c) /\ \A d \in Calls \ {c} : own'[d] = own[d])
    BY <1>2, WrittenRow
  <2> QED BY <2>1 DEF OneOwner, Locked
<1>3. CASE \A c \in Calls : own'[c] = own[c] \/ own'[c] = NoRow
  BY <1>3 DEF OneOwner
<1> QED BY <1>1, <1>2, <1>3, OwnMoves

(* A step of call c leaves the others where they stand. *)
LEMMA OthersStand ==
  ASSUME Basics, NEW c \in Calls,
         \A d \in Calls \ {c} : pc'[d] = pc[d] /\ seen'[d] = seen[d] /\ own'[d] = own[d],
         row # NoRow => row' # NoRow,
         CallOK(c)'
  PROVE  Sessions'
<1> SUFFICES ASSUME NEW d \in Calls, d # c
             PROVE  CallOK(d)'
  BY DEF Sessions
<1>1. CallOK(d)
  BY DEF Basics, Sessions
<1>2. View(d) # NoRow => View(d)' # NoRow
  BY DEF View
<1> QED BY <1>1, <1>2 DEF CallOK

LEMMA StepSessions ==
  ASSUME Basics, [Next]_vars
  PROVE  Sessions'
<1> USE DEF Basics
<1>0. row # NoRow => row' # NoRow
  BY RowStays
<1>1. ASSUME NEW c \in Calls, \/ c \in Deliveries /\ Post(c)
                              \/ c \in Edits /\ Edit(c)
      PROVE  Sessions'
  <2>1. /\ \A d \in Calls \ {c} : pc'[d] = pc[d] /\ seen'[d] = seen[d] /\ own'[d] = own[d]
        /\ pc[c] = "idle" /\ pc'[c] = IF c \in Deliveries THEN "insert" ELSE "read"
        /\ own'[c] = own[c] /\ row' = row
    BY <1>1, AttemptsAreCalls DEF Post, Edit, Goto, TypeOK
  <2>2. CallOK(c)'
    BY <2>1 DEF Sessions, CallOK
  <2> QED BY <1>0, <2>1, <2>2, OthersStand
<1>2. ASSUME NEW c \in Calls, InsertRow(c)
      PROVE  Sessions'
  <2>1. /\ \A d \in Calls \ {c} : pc'[d] = pc[d] /\ seen'[d] = seen[d] /\ own'[d] = own[d]
        /\ pc[c] = "insert" /\ pc'[c] = "read" /\ row' = row
        /\ own'[c] = IF row = NoRow THEN FreshRow ELSE own[c]
    BY <1>2 DEF InsertRow, Goto, TypeOK
  <2>2. CallOK(c)'
    BY <2>1, FreshRowType, NoRowAssumption DEF Sessions, CallOK, View
  <2> QED BY <1>0, <2>1, <2>2, OthersStand
<1>3. ASSUME NEW c \in Calls, ReadRow(c)
      PROVE  Sessions'
  <2>1. /\ \A d \in Calls \ {c} : pc'[d] = pc[d] /\ seen'[d] = seen[d] /\ own'[d] = own[d]
        /\ pc[c] = "read" /\ own' = own /\ row' = row
        /\ \/ Refused(c) /\ pc'[c] = "rejected"
           \/ ~Refused(c) /\ pc'[c] = "write" /\ seen'[c] = View(c)
    BY <1>3 DEF ReadRow, Goto, TypeOK
  <2>2. c \in Deliveries => View(c) # NoRow /\ ~Refused(c)
    BY <2>1, AttemptsAreCalls DEF Sessions, CallOK, Refused
  <2>3. ~Refused(c) => View(c) # NoRow /\ (c \in Edits => Patch[c].tag \notin Tags \ AllowedTags)
    BY DEF Refused
  <2>4. View(c)' = View(c)
    BY <2>1 DEF View
  <2>5. CallOK(c)'
    BY <2>1, <2>2, <2>3, <2>4 DEF Sessions, CallOK
  <2> QED BY <1>0, <2>1, <2>5, OthersStand
<1>4. ASSUME NEW c \in Calls, WriteSignals(c)
      PROVE  Sessions'
  <2>1. /\ \A d \in Calls \ {c} : pc'[d] = pc[d] /\ seen'[d] = seen[d] /\ own'[d] = own[d]
        /\ pc'[c] = "commit" /\ row' = row
    BY <1>4, WrittenRow DEF WriteSignals, Goto, TypeOK
  <2>2. View(c) # NoRow /\ c \in Deliveries /\ (own'[c] = own[c] \/ own'[c] # NoRow)
    BY <1>4, WrittenRow, NoRowAssumption
  <2>3. CallOK(c)'
    BY <2>1, <2>2 DEF CallOK, View
  <2> QED BY <1>0, <2>1, <2>3, OthersStand
<1>5. ASSUME NEW c \in Calls, Commit(c) \/ Store(c) \/ Fail(c)
      PROVE  Sessions'
  <2>1. /\ \A d \in Calls \ {c} : pc'[d] = pc[d] /\ seen'[d] = seen[d] /\ own'[d] = own[d]
        /\ pc'[c] \in {"ok", "failed"} /\ own'[c] \in {own[c], NoRow}
        /\ own'[c] # NoRow => pc[c] = "write" /\ c \notin Deliveries
    BY <1>5, AttemptsAreCalls DEF Commit, Store, Fail, Goto, TypeOK
  <2>2. CallOK(c)'
    BY <2>1 DEF Sessions, CallOK
  <2> QED BY <1>0, <2>1, <2>2, OthersStand
<1>6. ASSUME NEW f \in Feedbacks, Feedback(f) \/ Retry(f)
      PROVE  Sessions'
  <2>1. PICK c \in Attempts : c = <<f, tries[f] + 1>> /\ c \in Calls /\ pc[c] = "idle"
    BY <1>6, NextAttempt, AttemptsAreCalls DEF Calls
  <2>2. /\ \A d \in Calls \ {c} : pc'[d] = pc[d] /\ seen'[d] = seen[d] /\ own'[d] = own[d]
        /\ pc'[c] = "read" /\ own' = own
    BY <1>6, <2>1 DEF Feedback, Retry, Attempt, Goto, TypeOK
  <2>3. CallOK(c)'
    BY <2>1, <2>2, AttemptsAreCalls DEF Sessions, CallOK
  <2> QED BY <1>0, <2>1, <2>2, <2>3, OthersStand
<1>7. ASSUME NEW f \in Feedbacks, Acknowledge(f) \/ GiveUp(f)
      PROVE  Sessions'
  BY <1>7 DEF Acknowledge, GiveUp, Sessions, CallOK, View
<1>8. CASE UNCHANGED vars
  BY <1>8 DEF vars, Sessions, CallOK, View
<1> QED BY <1>1, <1>2, <1>3, <1>4, <1>5, <1>6, <1>7, <1>8, StepCases

LEMMA StepThreads ==
  ASSUME Basics, [Next]_vars
  PROVE  Threads'
<1> USE DEF Basics
<1>1. ASSUME NEW c \in Calls, UNCHANGED <<thread, tries>>,
             \A d \in Calls \ {c} : pc'[d] = pc[d],
             c \in Attempts => pc[c] # "idle" /\ pc[c] # "ok"
      PROVE  Threads'
  <2> SUFFICES ASSUME NEW f \in Feedbacks PROVE ThreadOK(f)'
    BY DEF Threads
  <2>1. ThreadOK(f) /\ tries[f] \in 0 .. MaxAttempts /\ MaxAttempts \in Nat
    BY SignalAssumption DEF Threads, TypeOK
  <2>2. ASSUME NEW i \in 1 .. MaxAttempts, i > tries[f]
        PROVE  pc'[<<f, i>>] = "idle"
    <3>1. pc[<<f, i>>] = "idle" /\ <<f, i>> \in Attempts /\ <<f, i>> \in Calls
      BY <2>1, <2>2, AttemptsAreCalls DEF ThreadOK, Calls
    <3> QED BY <1>1, <3>1
  <2>3. ASSUME thread[f] = "acked"
        PROVE  pc'[<<f, tries[f]>>] = "ok"
    <3>1. tries[f] \in 1 .. MaxAttempts /\ pc[<<f, tries[f]>>] = "ok"
      BY <2>1, <2>3 DEF ThreadOK
    <3>2. <<f, tries[f]>> \in Attempts /\ <<f, tries[f]>> \in Calls
      BY <3>1, AttemptsAreCalls DEF Calls
    <3> QED BY <1>1, <3>1, <3>2
  <2> QED BY <1>1, <2>1, <2>2, <2>3 DEF ThreadOK
<1>2. ASSUME NEW c \in Calls, \/ c \in Deliveries /\ Post(c)
                              \/ c \in Edits /\ Edit(c)
                              \/ InsertRow(c) \/ ReadRow(c) \/ WriteSignals(c) \/ Commit(c)
                              \/ Store(c) \/ Fail(c)
      PROVE  Threads'
  <2>1. /\ UNCHANGED <<thread, tries>>
        /\ \A d \in Calls \ {c} : pc'[d] = pc[d]
        /\ c \in Attempts => pc[c] # "idle" /\ pc[c] # "ok"
    BY <1>2, AttemptsAreCalls DEF Post, Edit, InsertRow, ReadRow, WriteSignals, Commit, Store,
       Fail, Goto, TypeOK
  <2> QED BY <1>1, <2>1
<1>3. ASSUME NEW f \in Feedbacks, Feedback(f) \/ Retry(f)
      PROVE  Threads'
  <2> DEFINE n == tries[f] + 1
  <2>1. n \in 1 .. MaxAttempts /\ tries[f] \in Nat /\ MaxAttempts \in Nat
        /\ <<f, n>> \in Attempts /\ <<f, n>> \in Calls /\ pc[<<f, n>>] = "idle"
    BY <1>3, NextAttempt, AttemptsAreCalls DEF Calls
  <2>2. /\ pc' = [pc EXCEPT ![<<f, n>>] = "read"] /\ tries' = [tries EXCEPT ![f] = n]
        /\ thread'[f] = "waiting" /\ \A g \in Feedbacks \ {f} : thread'[g] = thread[g]
    BY <1>3 DEF Feedback, Retry, Attempt, Goto, TypeOK
  <2>3. ASSUME NEW g \in Feedbacks, g # f
        PROVE  ThreadOK(g)'
    <3>1. ThreadOK(g) /\ thread'[g] = thread[g] /\ tries'[g] = tries[g]
      BY <2>2, <2>3 DEF Threads, TypeOK
    <3>2. \A i : pc'[<<g, i>>] = pc[<<g, i>>]
      BY <2>2, <2>3 DEF TypeOK
    <3> QED BY <3>1, <3>2 DEF ThreadOK
  <2>4. ThreadOK(f)'
    <3>1. tries'[f] = n /\ n > 0
      BY <2>1, <2>2 DEF TypeOK
    <3>2. ASSUME NEW i \in 1 .. MaxAttempts, i > n
          PROVE  pc'[<<f, i>>] = "idle"
      <4>1. <<f, i>> \in Calls /\ i > tries[f] /\ i # n
        BY <2>1, <3>2, AttemptsAreCalls DEF Calls
      <4>2. pc[<<f, i>>] = "idle"
        BY <4>1 DEF Threads, ThreadOK
      <4> QED BY <2>2, <4>1, <4>2 DEF TypeOK
    <3> QED BY <2>1, <2>2, <3>1, <3>2 DEF ThreadOK
  <2> QED BY <2>3, <2>4 DEF Threads
<1>4. ASSUME NEW f \in Feedbacks, Acknowledge(f) \/ GiveUp(f)
      PROVE  Threads'
  BY <1>4 DEF Acknowledge, GiveUp, Threads, ThreadOK, TypeOK
<1>5. CASE UNCHANGED vars
  BY <1>5 DEF vars, Threads, ThreadOK
<1> QED BY <1>2, <1>3, <1>4, <1>5, StepCases

LEMMA StepBasics == Basics /\ [Next]_vars => Basics'
BY StepType, StepOwner, StepSessions, StepThreads DEF Basics

-----------------------------------------------------------------------------
(* Columns and thumbs. *)

LEMMA ThumbColumns ==
  ASSUME TypeOK, NEW c \in Calls, CallOK(c), pc[c] = "write", NEW k \in {"up", "down"}
  PROVE  /\ seen[c][k] \in Nat
         /\ Wanted(c)[k] = IF c \in Attempts /\ Thumb[c[1]].thumb = k
                           THEN seen[c][k] + 1 ELSE seen[c][k]
<1>1. seen[c] \in Row /\ k \in Columns
  BY DEF TypeOK, CallOK, Columns
<1>2. seen[c][k] \in Nat
  BY <1>1, RowColumns
<1>3. CASE c \in Deliveries
  <2>1. k \notin Sets(c) /\ c \notin Attempts
    BY <1>3, AttemptsAreCalls DEF Sets
  <2> QED BY <1>1, <1>2, <2>1, WantedColumns
<1>4. CASE c \in Edits
  <2>1. k \notin Sets(c) /\ c \notin Attempts
    BY <1>4, AttemptsAreCalls DEF Sets
  <2> QED BY <1>1, <1>2, <2>1, WantedColumns
<1>5. CASE c \in Attempts
  <2>1. Wanted(c) = Rated(seen[c], Thumb[c[1]])
    BY <1>5, AttemptsAreCalls DEF Wanted
  <2>2. c[1] \in Feedbacks /\ Thumb[c[1]].thumb \in {"up", "down"}
    BY <1>5, AttemptsAreCalls, SignalAssumption
  <2> QED BY <1>1, <1>2, <1>5, <2>1, <2>2, RatedColumns
<1> QED BY <1>3, <1>4, <1>5, AttemptsAreCalls

LEMMA StepOwnKeeps ==
  ASSUME Basics, OwnKeeps, [Next]_vars
  PROVE  OwnKeeps'
<1> SUFFICES ASSUME NEW c \in Calls, own'[c] # NoRow, row' # NoRow, NEW k \in Columns \ Sets(c)
             PROVE  own'[c][k] = row'[k]
  BY DEF OwnKeeps, Sets
<1>1. ASSUME NEW d \in Calls, InsertRow(d)
      PROVE  own'[c][k] = row'[k]
  BY <1>1 DEF InsertRow, OwnKeeps, Basics, TypeOK
<1>2. ASSUME NEW d \in Calls, WriteSignals(d)
      PROVE  own'[c][k] = row'[k]
  <2>1. row' = row
    BY <1>2 DEF WriteSignals
  <2>2. CASE own'[c] = own[c]
    BY <2>1, <2>2 DEF OwnKeeps
  <2>3. CASE own'[c] # own[c]
    <3>1. d = c /\ own'[c] = Updated(View(c), seen[c], Wanted(c))
      BY <1>2, <2>3, WrittenRow DEF Basics, TypeOK
    <3>2. View(c) \in Row /\ seen[c] \in Row /\ Wanted(c) \in Row /\ pc[c] = "write"
      BY <1>2, <3>1, WrittenRow
    <3>3. Wanted(c)[k] = seen[c][k]
      BY <3>2, WantedColumns DEF Basics, Sessions
    <3>4. own'[c][k] = View(c)[k]
      BY <3>1, <3>2, <3>3, UpdatedColumns
    <3> QED BY <2>1, <3>4 DEF View, OwnKeeps
  <2> QED BY <2>2, <2>3
<1>3. CASE \A d \in Calls : own'[d] = own[d] \/ own'[d] = NoRow
  <2>1. own'[c] = own[c]
    BY <1>3
  <2>2. ASSUME NEW d \in Calls, Commit(d)
        PROVE  row' = row
    <3>1. own'[d] = NoRow
      BY <2>2 DEF Commit, Basics, TypeOK
    <3>2. own[d] = NoRow
      BY <2>1, <3>1 DEF Basics, OneOwner
    <3> QED BY <2>2, <3>2, CommittedRow
  <2>3. ASSUME NEW d \in Calls, Store(d)
        PROVE  row' = row
    BY <2>1, <2>3, StoredRow DEF Locked
  <2>4. row' = row
    BY <2>2, <2>3, RowMoves
  <2> QED BY <2>1, <2>4 DEF OwnKeeps
<1> QED BY <1>1, <1>2, <1>3, OwnMoves

(* What a successful call does to a column. *)
LEMMA StoreColumns ==
  ASSUME Basics, NEW c \in Calls, Store(c), NEW k \in Columns
  PROVE  row'[k] = IF Wanted(c)[k] # seen[c][k] THEN Wanted(c)[k] ELSE row[k]
BY StoredRow, UpdatedColumns

LEMMA CommitColumns ==
  ASSUME Basics, OwnKeeps, NEW c \in Calls, Commit(c), row # NoRow, NEW k \in Columns \ Sets(c)
  PROVE  row'[k] = row[k]
BY CommittedRow DEF OwnKeeps

LEMMA StepShown ==
  ASSUME Basics, OwnKeeps, Shown, [Next]_vars
  PROVE  Shown'
<1> SUFFICES ASSUME NEW a \in Attempts, pc'[a] = "ok"
             PROVE  row' # NoRow /\ row'[Thumb[a[1]].thumb] > 0
  BY DEF Shown
<1> DEFINE k == Thumb[a[1]].thumb
<1>0. a \in Calls /\ k \in {"up", "down"} /\ k \in Columns
  BY AttemptsAreCalls, SignalAssumption DEF Calls, Columns
<1> HIDE DEF k
<1>1. CASE row' = row /\ \A c \in Calls : pc'[c] = "ok" <=> pc[c] = "ok"
  BY <1>0, <1>1 DEF Shown, k
<1>2. ASSUME NEW c \in Calls, Commit(c), pc' = [pc EXCEPT ![c] = "ok"]
      PROVE  row' # NoRow /\ row'[k] > 0
  <2>1. c \in Deliveries /\ c # a
    BY <1>2, CommittedRow, AttemptsAreCalls
  <2>2. row # NoRow /\ row[k] > 0
    BY <1>0, <1>2, <2>1 DEF Shown, Basics, TypeOK, k
  <2>3. k \notin Sets(c)
    BY <1>0, <2>1 DEF Sets
  <2> QED BY <1>0, <1>2, <2>2, <2>3, CommitColumns, RowStays
<1>3. ASSUME NEW c \in Calls, Store(c), pc' = [pc EXCEPT ![c] = "ok"]
      PROVE  row' # NoRow /\ row'[k] > 0
  <2>1. pc[c] = "write" /\ CallOK(c) /\ TypeOK /\ row # NoRow
    BY <1>3, StoredRow DEF Basics, Sessions
  <2>2. /\ seen[c][k] \in Nat
        /\ Wanted(c)[k] = IF c \in Attempts /\ Thumb[c[1]].thumb = k
                          THEN seen[c][k] + 1 ELSE seen[c][k]
    BY <1>0, <2>1, ThumbColumns
  <2>3. row'[k] = IF Wanted(c)[k] # seen[c][k] THEN Wanted(c)[k] ELSE row[k]
    BY <1>0, <1>3, StoreColumns
  <2>4. CASE a = c
    BY <2>1, <2>2, <2>3, <2>4, RowStays DEF k
  <2>5. CASE a # c
    <3>1. row[k] > 0
      BY <1>0, <1>3, <2>5 DEF Shown, Basics, TypeOK, k
    <3> QED BY <2>1, <2>2, <2>3, <3>1, RowStays
  <2> QED BY <2>4, <2>5
<1> QED BY <1>1, <1>2, <1>3, RowMoves DEF k

-----------------------------------------------------------------------------
(* Where what a row says comes from. *)

LEMMA BackedGrows ==
  ASSUME NEW r, NEW S, NEW T, S \subseteq T, Backed(r, S)
  PROVE  Backed(r, T)
BY DEF Backed

LEMMA BackedUpdate ==
  ASSUME NEW r \in Row, NEW old \in Row, NEW new \in Row, NEW S, Backed(r, S), Backed(new, S)
  PROVE  Backed(Updated(r, old, new), S)
<1> DEFINE u == Updated(r, old, new)
<1>1. /\ u.tag = new.tag \/ u.tag = r.tag
      /\ u.notes = new.notes \/ u.notes = r.notes
      /\ u.completed = new.completed \/ u.completed = r.completed
  BY UpdatedColumns DEF Columns
<1>2. r # NoRow /\ new # NoRow
  BY NoRowAssumption
<1> HIDE DEF u
<1> QED BY <1>1, <1>2 DEF Backed, u

(* A call adds to what it read only what it says itself. *)
LEMMA WantedBacked ==
  ASSUME TypeOK, NEW c \in Calls, CallOK(c), pc[c] = "write", NEW S, c \in S, Backed(seen[c], S)
  PROVE  Backed(Wanted(c), S)
<1> DEFINE w == Wanted(c)  old == seen[c]
<1>1. old \in Row /\ old # NoRow /\ w \in Row /\ old.notes \in Seq(Notes)
  BY WantedColumns, RowColumns, NoRowAssumption
<1>2. SUFFICES /\ w.tag # None => w.tag = old.tag \/ TagOf(c) = w.tag
               /\ \A i \in DOMAIN w.notes :
                    \/ i \in DOMAIN old.notes /\ w.notes[i] = old.notes[i]
                    \/ NoteOf(c) = w.notes[i]
               /\ w.completed # None =>
                    w.completed = old.completed \/ (c \in Deliveries /\ Mark[c].completed = w.completed)
  BY <1>1 DEF Backed
<1>3. CASE c \in Deliveries
  <2> DEFINE m == Marked(seen[c], Mark[c])
  <2>1. /\ m.tag = IF Mark[c].tag \in AllowedTags THEN Mark[c].tag ELSE seen[c].tag
        /\ m.notes = IF Mark[c].note # None THEN <<Mark[c].note>> ELSE seen[c].notes
    BY <1>1, <1>3, MarkedColumns
  <2>2. m.completed = IF Mark[c].completed # None THEN Mark[c].completed ELSE seen[c].completed
    BY <1>1, <1>3, MarkedColumns
  <2>3. w = m /\ TagOf(c) = Mark[c].tag /\ NoteOf(c) = Mark[c].note
    BY <1>3 DEF Wanted, TagOf, NoteOf
  <2> HIDE DEF w, m
  <2>4. w.notes = old.notes \/ w.notes = <<Mark[c].note>>
    BY <2>1, <2>3
  <2>5. w.tag = old.tag \/ w.tag = Mark[c].tag
    BY <2>1, <2>3
  <2>6. w.completed = old.completed \/ w.completed = Mark[c].completed
    BY <2>2, <2>3
  <2> HIDE DEF old
  <2> QED BY <1>3, <2>3, <2>4, <2>5, <2>6
<1>4. CASE c \in Edits
  <2> DEFINE e == Edited(seen[c], Patch[c])
  <2>1. /\ w = e /\ Patch[c].tag \notin Tags \ AllowedTags
        /\ TagOf(c) = Patch[c].tag /\ NoteOf(c) = Patch[c].note
    BY <1>4, AttemptsAreCalls DEF Wanted, TagOf, NoteOf, CallOK
  <2>2. /\ e.tag = IF Patch[c].tag = Clear THEN None
                   ELSE IF Patch[c].tag # None THEN Patch[c].tag ELSE seen[c].tag
        /\ e.notes = IF Patch[c].note = Clear THEN <<>>
                     ELSE IF Patch[c].note # None THEN <<Patch[c].note>> ELSE seen[c].notes
        /\ e.completed = seen[c].completed
    BY <1>1, <1>4, <2>1, EditedColumns
  <2> HIDE DEF w, e
  <2>3. /\ w.tag = None \/ w.tag = old.tag \/ w.tag = Patch[c].tag
        /\ w.notes = <<>> \/ w.notes = old.notes \/ w.notes = <<Patch[c].note>>
        /\ w.completed = old.completed
    BY <2>1, <2>2
  <2> HIDE DEF old
  <2> QED BY <2>1, <2>3
<1>5. CASE c \in Attempts
  <2> DEFINE f == c[1]
  <2>1. /\ f \in Feedbacks /\ w = Rated(old, Thumb[f]) /\ NoteOf(c) = Thumb[f].note
        /\ Thumb[f].note \in Notes \cup {None}
    BY <1>5, AttemptsAreCalls, SignalAssumption DEF Wanted, NoteOf
  <2>2. w.tag = old.tag /\ w.completed = old.completed
    BY <1>1, <2>1, RatedColumns
  <2>3. \/ w.notes = old.notes
        \/ Thumb[f].note \in Notes /\ w.notes = Append(old.notes, Thumb[f].note)
    <3> DEFINE r == Rated(seen[c], Thumb[f])
    <3>1. r.notes = IF Thumb[f].note # None THEN Append(seen[c].notes, Thumb[f].note)
                    ELSE seen[c].notes
      BY <1>1, <2>1, RatedColumns
    <3> HIDE DEF r
    <3>2. w = r
      BY <2>1 DEF r
    <3> QED BY <2>1, <3>1, <3>2
  <2>4. \A i \in DOMAIN w.notes : \/ i \in DOMAIN old.notes /\ w.notes[i] = old.notes[i]
                                  \/ NoteOf(c) = w.notes[i]
    <3> HIDE DEF w, old, f
    <3> QED BY <1>1, <2>1, <2>3
  <2> QED BY <2>2, <2>4
<1> QED BY <1>3, <1>4, <1>5, AttemptsAreCalls

LEMMA StepSourced ==
  ASSUME Basics, Sourced, [Next]_vars
  PROVE  Sourced'
<1> USE DEF Basics
<1>1. Stored \subseteq Stored'
  BY RowMoves DEF Stored, TypeOK
<1>2. ASSUME NEW c \in Calls, Commit(c) \/ Store(c)
      PROVE  Stored \cup {c} \subseteq Stored'
  BY <1>1, <1>2 DEF Commit, Store, Goto, Stored, TypeOK
<1>3. Backed(row', Stored')
  <2>1. CASE row' = row
    BY <1>1, <2>1, BackedGrows DEF Sourced
  <2>2. ASSUME NEW c \in Calls, Commit(c)
        PROVE  Backed(row', Stored')
    <3>1. row' = row \/ row' = own[c]
      BY <2>2, CommittedRow
    <3>2. CASE row' = own[c]
      <4>1. Backed(own[c], Stored \cup {c})
        BY DEF Sourced
      <4> QED BY <1>2, <2>2, <3>2, <4>1, BackedGrows
    <3> QED BY <2>1, <3>1, <3>2
  <2>3. ASSUME NEW c \in Calls, Store(c)
        PROVE  Backed(row', Stored')
    <3>1. /\ pc[c] = "write" /\ row \in Row /\ seen[c] \in Row /\ Wanted(c) \in Row
          /\ row' = row \/ row' = Updated(row, seen[c], Wanted(c))
      BY <2>3, StoredRow
    <3>2. Backed(row, Stored \cup {c}) /\ Backed(seen[c], Stored \cup {c})
      BY BackedGrows DEF Sourced
    <3>3. Backed(Wanted(c), Stored \cup {c})
      BY <3>1, <3>2, WantedBacked DEF Sessions
    <3>4. Backed(row', Stored \cup {c})
      BY <3>1, <3>2, <3>3, BackedUpdate
    <3> QED BY <1>2, <2>3, <3>4, BackedGrows
  <2> QED BY <2>1, <2>2, <2>3, RowMoves
<1>4. ASSUME NEW c \in Calls, seen'[c] = seen[c] \/ seen'[c] = NoRow
      PROVE  Backed(seen'[c], Stored' \cup {c})
  <2>1. Backed(seen[c], Stored \cup {c})
    BY DEF Sourced
  <2>2. Backed(seen[c], Stored' \cup {c}) /\ Backed(NoRow, Stored' \cup {c})
    BY <1>1, <2>1, BackedGrows DEF Backed
  <2> QED BY <1>4, <2>2
<1>5. ASSUME NEW c \in Calls, own'[c] = own[c] \/ own'[c] = NoRow
      PROVE  Backed(own'[c], Stored' \cup {c})
  <2>1. Backed(own[c], Stored \cup {c})
    BY DEF Sourced
  <2>2. Backed(own[c], Stored' \cup {c}) /\ Backed(NoRow, Stored' \cup {c})
    BY <1>1, <2>1, BackedGrows DEF Backed
  <2> QED BY <1>5, <2>2
<1>6. ASSUME NEW c \in Calls
      PROVE  Backed(View(c), Stored \cup {c})
  BY BackedGrows DEF Sourced, View
<1>7. ASSUME NEW c \in Calls
      PROVE  Backed(seen'[c], Stored' \cup {c})
  <2>1. ASSUME NEW d \in Calls, seen' = [seen EXCEPT ![d] = View(d)]
        PROVE  Backed(seen'[c], Stored' \cup {c})
    <3>1. CASE d = c
      <4>1. seen'[c] = View(c)
        BY <2>1, <3>1 DEF TypeOK
      <4>2. Backed(View(c), Stored' \cup {c})
        <5>1. Backed(View(c), Stored \cup {c}) /\ Stored \cup {c} \subseteq Stored' \cup {c}
          BY <1>1, <1>6
        <5> QED BY <5>1, BackedGrows
      <4> QED BY <4>1, <4>2
    <3>2. CASE d # c
      BY <1>4, <2>1, <3>2 DEF TypeOK
    <3> QED BY <3>1, <3>2
  <2> QED BY <1>4, <2>1, SeenMoves
<1>8. ASSUME NEW c \in Calls
      PROVE  Backed(own'[c], Stored' \cup {c})
  <2>1. ASSUME NEW d \in Calls, InsertRow(d)
        PROVE  Backed(own'[c], Stored' \cup {c})
    <3>1. own'[c] = own[c] \/ own'[c] = FreshRow
      BY <2>1 DEF InsertRow, TypeOK
    <3>2. Backed(FreshRow, Stored' \cup {c})
      BY DEF FreshRow, Backed
    <3> QED BY <1>5, <3>1, <3>2
  <2>2. ASSUME NEW d \in Calls, WriteSignals(d)
        PROVE  Backed(own'[c], Stored' \cup {c})
    <3>1. CASE own'[c] = own[c]
      BY <1>5, <3>1
    <3>2. CASE own'[c] # own[c]
      <4>1. d = c /\ own'[c] = Updated(View(c), seen[c], Wanted(c))
        BY <2>2, <3>2, WrittenRow DEF TypeOK
      <4>2. View(c) \in Row /\ seen[c] \in Row /\ Wanted(c) \in Row /\ pc[c] = "write"
        BY <2>2, <4>1, WrittenRow
      <4>3. Backed(seen[c], Stored \cup {c})
        BY DEF Sourced
      <4>4. Backed(Wanted(c), Stored \cup {c})
        BY <4>2, <4>3, WantedBacked DEF Sessions
      <4>5. Backed(own'[c], Stored \cup {c})
        BY <1>6, <4>1, <4>2, <4>4, BackedUpdate
      <4> QED BY <1>1, <4>5, BackedGrows
    <3> QED BY <3>1, <3>2
  <2> QED BY <1>5, <2>1, <2>2, OwnMoves
<1> QED BY <1>3, <1>7, <1>8 DEF Sourced

-----------------------------------------------------------------------------
(* How many thumbs a row counts. *)

LEMMA AttemptsFinite == IsFiniteSet(Attempts)
<1>1. MaxAttempts \in Nat /\ IsFiniteSet(Feedbacks)
  BY SignalAssumption
<1>2. IsFiniteSet(1 .. MaxAttempts)
  BY <1>1, FS_Interval
<1> QED BY <1>1, <1>2, FS_Product DEF Attempts

LEMMA VotesGrow ==
  ASSUME NEW S, NEW T, S \subseteq T, NEW k
  PROVE  /\ IsFiniteSet(Votes(S, k)) /\ Cardinality(Votes(S, k)) \in Nat
         /\ Cardinality(Votes(T, k)) \in Nat
         /\ Cardinality(Votes(S, k)) <= Cardinality(Votes(T, k))
<1>1. Votes(S, k) \subseteq Votes(T, k) /\ Votes(T, k) \subseteq Attempts
  BY DEF Votes
<1>2. IsFiniteSet(Votes(T, k))
  BY <1>1, AttemptsFinite, FS_Subset
<1>3. IsFiniteSet(Votes(S, k)) /\ Cardinality(Votes(S, k)) <= Cardinality(Votes(T, k))
  BY <1>1, <1>2, FS_Subset
<1> QED BY <1>2, <1>3, FS_CardinalityType

(* A new attempt adds one to the thumb it gives. *)
LEMMA VotesAdd ==
  ASSUME NEW S, NEW a \in Attempts, a \notin S
  PROVE  Cardinality(Votes(S \cup {a}, Thumb[a[1]].thumb))
           = Cardinality(Votes(S, Thumb[a[1]].thumb)) + 1
<1> DEFINE k == Thumb[a[1]].thumb
<1>1. Votes(S \cup {a}, k) = Votes(S, k) \cup {a} /\ a \notin Votes(S, k)
  BY DEF Votes
<1>2. IsFiniteSet(Votes(S, k))
  BY VotesGrow
<1> QED BY <1>1, <1>2, FS_AddElement

LEMMA WithinGrows ==
  ASSUME NEW r \in Row \cup {NoRow}, NEW S, NEW T, S \subseteq T, Within(r, S)
  PROVE  Within(r, T)
<1> SUFFICES ASSUME r # NoRow, NEW k \in {"up", "down"}
             PROVE  r[k] <= Cardinality(Votes(T, k))
  BY DEF Within
<1>1. r[k] \in Nat
  BY RowColumns
<1>2. r[k] <= Cardinality(Votes(S, k))
  BY DEF Within
<1> QED BY <1>1, <1>2, VotesGrow

LEMMA StepCounts ==
  ASSUME Basics, Counts, [Next]_vars
  PROVE  Counts'
<1> USE DEF Basics
<1>1. Stored \subseteq Stored'
  BY RowMoves DEF Stored, TypeOK
<1>2. /\ Within(row, Stored') /\ Within(NoRow, Stored')
      /\ \A c \in Calls : Within(seen[c], Stored') /\ Within(own[c], Stored')
  BY <1>1, WithinGrows DEF Counts, TypeOK, Within
<1>3. \A c \in Calls : Within(View(c), Stored')
  BY <1>2 DEF View
<1>4. Within(row', Stored')
  <2>1. ASSUME NEW c \in Calls, Commit(c)
        PROVE  Within(row', Stored')
    BY <1>2, <2>1, CommittedRow
  <2>2. ASSUME NEW c \in Calls, Store(c)
        PROVE  Within(row', Stored')
    <3>1. pc[c] = "write" /\ CallOK(c) /\ TypeOK /\ row \in Row /\ row # NoRow
      BY <2>2, StoredRow DEF Sessions
    <3>2. SUFFICES ASSUME NEW k \in {"up", "down"}
                   PROVE  row'[k] <= Cardinality(Votes(Stored', k))
      BY DEF Within
    <3>3. row'[k] = IF Wanted(c)[k] # seen[c][k] THEN Wanted(c)[k] ELSE row[k]
      BY <2>2, StoreColumns DEF Columns
    <3>4. /\ seen[c][k] \in Nat
          /\ Wanted(c)[k] = IF c \in Attempts /\ Thumb[c[1]].thumb = k
                            THEN seen[c][k] + 1 ELSE seen[c][k]
      BY <3>1, ThumbColumns
    <3>5. row[k] <= Cardinality(Votes(Stored', k))
      BY <1>2, <3>1 DEF Within
    <3>6. CASE c \in Attempts /\ Thumb[c[1]].thumb = k
      <4>1. Stored \cup {c} \subseteq Stored' /\ c \notin Stored
        BY <1>1, <2>2, <3>1 DEF Store, Goto, Stored, TypeOK
      <4>2. Cardinality(Votes(Stored \cup {c}, k)) = Cardinality(Votes(Stored, k)) + 1
        BY <3>6, <4>1, VotesAdd
      <4>3. /\ Cardinality(Votes(Stored \cup {c}, k)) <= Cardinality(Votes(Stored', k))
            /\ Cardinality(Votes(Stored, k)) \in Nat /\ Cardinality(Votes(Stored', k)) \in Nat
        BY <1>1, <4>1, VotesGrow
      <4>4. seen[c][k] <= Cardinality(Votes(Stored, k))
        BY <3>1 DEF Counts, Within, CallOK
      <4> QED BY <3>3, <3>4, <3>5, <4>2, <4>3, <4>4
    <3> QED BY <3>3, <3>4, <3>5, <3>6
  <2> QED BY <1>2, <2>1, <2>2, RowMoves
<1>5. ASSUME NEW c \in Calls
      PROVE  Within(seen'[c], Stored')
  <2>1. ASSUME NEW d \in Calls, seen' = [seen EXCEPT ![d] = View(d)]
        PROVE  Within(seen'[c], Stored')
    BY <1>2, <1>3, <2>1 DEF TypeOK
  <2> QED BY <1>2, <2>1, SeenMoves
<1>6. ASSUME NEW c \in Calls
      PROVE  Within(own'[c], Stored')
  <2>1. ASSUME NEW d \in Calls, InsertRow(d)
        PROVE  Within(own'[c], Stored')
    <3>1. own'[c] = own[c] \/ own'[c] = FreshRow
      BY <2>1 DEF InsertRow, TypeOK
    <3>2. Within(FreshRow, Stored')
      <4>1. \A k \in {"up", "down"} : FreshRow[k] = 0
        BY DEF FreshRow
      <4>2. \A k \in {"up", "down"} : Cardinality(Votes(Stored', k)) \in Nat
        BY <1>1, VotesGrow
      <4>3. \A k \in {"up", "down"} : FreshRow[k] <= Cardinality(Votes(Stored', k))
        BY <4>1, <4>2
      <4> QED BY <4>3 DEF Within
    <3> QED BY <1>2, <3>1, <3>2
  <2>2. ASSUME NEW d \in Calls, WriteSignals(d)
        PROVE  Within(own'[c], Stored')
    <3>1. CASE own'[c] = own[c]
      BY <1>2, <3>1
    <3>2. CASE own'[c] # own[c]
      <4>1. d = c /\ own'[c] = Updated(View(c), seen[c], Wanted(c))
        BY <2>2, <3>2, WrittenRow DEF TypeOK
      <4>2. /\ View(c) \in Row /\ seen[c] \in Row /\ Wanted(c) \in Row
            /\ pc[c] = "write" /\ c \in Deliveries /\ CallOK(c) /\ TypeOK
        BY <2>2, <4>1, WrittenRow DEF Sessions
      <4>3. ASSUME NEW k \in {"up", "down"}
            PROVE  own'[c][k] = View(c)[k]
        <5>1. Wanted(c)[k] = seen[c][k]
          BY <4>2, ThumbColumns, AttemptsAreCalls
        <5> QED BY <4>1, <4>2, <5>1, UpdatedColumns DEF Columns
      <4>4. View(c) # NoRow
        BY <4>2, NoRowAssumption
      <4> QED BY <1>3, <4>3, <4>4 DEF Within
    <3> QED BY <3>1, <3>2
  <2> QED BY <1>2, <2>1, <2>2, OwnMoves
<1> QED BY <1>4, <1>5, <1>6 DEF Counts

-----------------------------------------------------------------------------
LEMMA InitInv == Init => IInv
<1> SUFFICES ASSUME Init PROVE IInv
  OBVIOUS
<1>1. \A S : Backed(NoRow, S) /\ Within(NoRow, S)
  BY DEF Backed, Within
<1>2. Sourced /\ Counts
  BY <1>1 DEF Init, Sourced, Counts
<1>3. OwnKeeps
  BY DEF Init, OwnKeeps
<1>4. Shown
  BY DEF Init, Shown, Calls
<1> QED BY <1>2, <1>3, <1>4, InitBasics DEF IInv

LEMMA StepInv == IInv /\ [Next]_vars => IInv'
BY StepBasics, StepOwnKeeps, StepSourced, StepCounts, StepShown DEF IInv

(* The inductive invariant: types; at most one uncommitted row, its call   *)
(* where the code can hold it; threads ahead of no attempt; and what the   *)
(* committed row, the uncommitted one and the rows read may contain.       *)
THEOREM SignalsInvariant == Spec => []IInv
<1> QED BY InitInv, StepInv, PTL DEF Spec

(* Every state of every execution is well typed: tag, notes, completion    *)
(* and thumbs are of the kinds the columns of api/app/models.py have.      *)
THEOREM SignalsTyped == Spec => []TypeOK
<1>1. IInv => TypeOK
  BY DEF IInv, Basics
<1> QED BY <1>1, SignalsInvariant, PTL

(* Whatever tag, note or completion the row shows came from a call that    *)
(* succeeded: an ingest that rolls back (api/app/otlp/ingest.py), a        *)
(* refused edit and a refused feedback leave nothing behind.               *)
THEOREM NothingUnsaid == Spec => []SignalsHaveSources
<1>1. IInv => SignalsHaveSources
  <2> SUFFICES ASSUME Backed(row, Stored) PROVE SignalsHaveSources
    BY DEF IInv, Sourced
  <2> QED BY DEF Backed, SignalsHaveSources
<1> QED BY <1>1, SignalsInvariant, PTL

(* feedback_up and feedback_down never exceed the POSTs that succeeded,    *)
(* however the read-modify-write of api/app/api/feedback.py interleaves    *)
(* with the other writers and with its own retries.                        *)
THEOREM ThumbsBounded == Spec => []NeverOvercounts
<1>1. IInv => NeverOvercounts
  <2>1. \A k : Counted(k) = Votes(Stored, k)
    BY DEF Counted, Votes
  <2> QED BY <2>1 DEF IInv, Counts, Within, NeverOvercounts
<1> QED BY <1>1, SignalsInvariant, PTL

(* Once the SDK's thread has its 204, the thumb it posted stays above zero *)
(* in every later state, whichever calls overlap it.                       *)
THEOREM ThumbsLast == Spec => []AckedThumbShows
<1>1. IInv => AckedThumbShows
  <2> SUFFICES ASSUME IInv, NEW f \in Feedbacks, thread[f] = "acked"
               PROVE  row # NoRow /\ row[Thumb[f].thumb] > 0
    BY DEF AckedThumbShows
  <2> DEFINE a == <<f, tries[f]>>
  <2>1. tries[f] \in 0 .. MaxAttempts /\ tries[f] # 0 /\ pc[a] = "ok" /\ MaxAttempts \in Nat
    BY SignalAssumption DEF IInv, Basics, TypeOK, Threads, ThreadOK
  <2>2. a \in Attempts
    BY <2>1, AttemptsAreCalls
  <2> QED BY <2>1, <2>2 DEF IInv, Shown
<1> QED BY <1>1, SignalsInvariant, PTL

(* No call that succeeds changes a column it has nothing to say about:     *)
(* each UPDATE carries only the attributes SQLAlchemy found changed.       *)
THEOREM OthersColumnsKept == Spec => UntouchedColumnsKept
<1>1. ASSUME IInv, [Next]_vars, NEW c \in Calls, Succeeds(c), row # NoRow,
             NEW k \in DOMAIN row \ Sets(c)
      PROVE  row'[k] = row[k]
  <2>1. Basics /\ OwnKeeps /\ TypeOK /\ row \in Row
    BY <1>1 DEF IInv, Basics, TypeOK
  <2>2. k \in Columns \ Sets(c)
    BY <2>1, RowColumns
  <2>3. CASE row' = row
    BY <2>3
  <2>4. ASSUME NEW d \in Calls, Commit(d) \/ Store(d), pc' = [pc EXCEPT ![d] = "ok"]
        PROVE  row'[k] = row[k]
    <3>1. d = c
      BY <1>1, <2>1, <2>4 DEF Succeeds, TypeOK
    <3>2. CASE Commit(c)
      BY <1>1, <2>1, <2>2, <3>2, CommitColumns
    <3>3. CASE Store(c)
      <4>1. pc[c] = "write" /\ CallOK(c)
        BY <2>1, <3>3, StoredRow DEF Basics, Sessions
      <4>2. Wanted(c)[k] = seen[c][k]
        BY <2>1, <2>2, <4>1, WantedColumns
      <4> QED BY <2>1, <2>2, <3>3, <4>2, StoreColumns
    <3> QED BY <2>4, <3>1, <3>2, <3>3
  <2> QED BY <1>1, <2>1, <2>3, <2>4, RowMoves
<1>2. IInv /\ [Next]_vars =>
        [\A c \in Calls : Succeeds(c) /\ row # NoRow =>
           \A k \in DOMAIN row \ Sets(c) : row'[k] = row[k]]_vars
  BY <1>1
<1> QED BY <1>2, SignalsInvariant, PTL DEF Spec, UntouchedColumnsKept
=============================================================================
