---------------------------- MODULE CollabProofs -----------------------------
(***************************************************************************)
(* Comments, notifications, links, tags, assignments and rewrites, for any *)
(* requests of any number of reviewers, served in any order between their  *)
(* SELECTs and their writes.                                               *)
(***************************************************************************)
EXTENDS WorkspaceProofs

Row == CommentRow \cup LinkRow \cup RewriteRow

(* Each row is one of its table. *)
RowOK(i, row) ==
  /\ row \in Row /\ i \in Comments \cup Links \cup Rewrites
  /\ i \in Comments => row \in CommentRow
  /\ i \in Links => row \in LinkRow
  /\ i \in Rewrites => row \in RewriteRow

ItemsTyped ==
  /\ items \in [Ids -> Row \cup {NoRow}]
  /\ \A i \in Rows(items) : RowOK(i, items[i])

Inserts == {"comment", "share", "rewrite"}

(* The request this row is named by is past its insert. *)
Inserted(i) ==
  i \in Seeds \/ (i \in DOMAIN pc /\ Ask[i].op \in Inserts /\ pc[i] \in {"committed"} \cup Answers)

(* What requests of this behaviour ask a row to become. *)
Edits(i) == {Ask[q].body : q \in {p \in DOMAIN pc : Ask[p].op = "edit" /\ Ask[p].item = i}}

Revisions(i, k) ==
  {Ask[q].given[k] : q \in {p \in DOMAIN pc : /\ Ask[p].op = "revise" /\ Ask[p].item = i
                                              /\ k \in DOMAIN Ask[p].given}}

(* What a request that changes a row has found: a row that was there. *)
SeenItem(r) ==
  Ask[r].op \in {"edit", "resolve", "revoke", "revise"} =>
    /\ pc[r] = "writing" => RowOK(Ask[r].item, seen[r])
    /\ pc[r] \in {"writing", "committed", "ok"} => Inserted(Ask[r].item)

(* What it found is what the row still has, unless a rival wrote it; and   *)
(* once it has written, the column is its own or a rival's.                *)
Holds(r) ==
  LET i == Ask[r].item IN
  i \in Rows(items) =>
    /\ Ask[r].op = "edit" =>
         /\ pc[r] = "writing" => items[i].body \in {seen[r].body} \cup Edits(i)
         /\ pc[r] \in {"committed", "ok"} => items[i].body \in Edits(i)
    /\ Ask[r].op = "resolve" =>
         (pc[r] \in {"committed", "ok"} \/ (pc[r] = "writing" /\ seen[r].resolved) => items[i].resolved)
    /\ Ask[r].op = "revoke" =>
         (pc[r] \in {"committed", "ok"} \/ (pc[r] = "writing" /\ seen[r].revoked) => items[i].revoked)
    /\ Ask[r].op = "revise" => \A k \in DOMAIN Ask[r].given :
         /\ pc[r] = "writing" => items[i][k] \in {seen[r][k]} \cup Revisions(i, k)
         /\ pc[r] \in {"committed", "ok"} => items[i][k] \in Revisions(i, k)

(* What the other handlers have checked by the time they write. *)
SeenOther(r) ==
  pc[r] = "writing" =>
    /\ Ask[r].op \in {"read", "readall"} =>
         seen[r] \in [notices : SUBSET (Ids \X Ids)] /\ \A n \in seen[r].notices : n[2] = by[r]
    /\ Ask[r].op = "assign" => Ask[r].traj \in Trajectories /\ Ask[r].to \in Ids \cup {None}
    /\ Ask[r].op = "tag" => Tag(r) \in Trajectories \X Modes

SeenWell == \A r \in DOMAIN pc : SeenItem(r) /\ Holds(r) /\ SeenOther(r)

ItemBirths == \A i \in Rows(items) : Inserted(i)

NoticesTyped == mentions \subseteq Ids \X Ids /\ inbox \subseteq Ids \X Ids /\ unread \subseteq inbox

DeskTyped == assigned \in [Trajectories -> Ids \cup {None}] /\ tags \subseteq Trajectories \X Modes

CInv ==
  /\ ItemsTyped /\ ItemBirths /\ SeenWell /\ NoticesTyped /\ DeskTyped
  /\ ThreadsWhole /\ ReadWasListed /\ TaggedUntilDetached

-----------------------------------------------------------------------------
(* What a step may do. *)

(* A row that stays changes only as some request asks. *)
RowKept(i) ==
  /\ i \in Comments =>
       /\ items'[i].parent = items[i].parent
       /\ items[i].resolved => items'[i].resolved
       /\ items'[i].body \in {items[i].body} \cup Edits(i)
  /\ i \in Links => (items[i].revoked => items'[i].revoked)
  /\ i \in Rewrites => \A k \in {"rationale", "steps", "status"} :
       items'[i][k] \in {items[i][k]} \cup Revisions(i, k)

RowsKept(r) ==
  \A i \in Rows(items') : \/ i \in Rows(items) /\ RowKept(i)
                          \/ i = r /\ pc[r] = "writing" /\ Inserted(r)'

(* The row stays one of its table, and a row of comments alone is a reply. *)
LEMMA Tables ==
  ASSUME CInv
  PROVE  /\ \A i \in Rows(items) : RowOK(i, items[i]) /\ i \in Ids
         /\ \A i \in Rows(items) : IsReply(i) <=> i \in Comments /\ items[i].parent # None
         /\ DOMAIN items = Ids
<1>1. ItemsTyped
  BY DEF CInv
<1>2. \A i \in Rows(items) : RowOK(i, items[i]) /\ i \in Ids
  BY <1>1 DEF ItemsTyped, Rows
<1>3. ASSUME NEW i \in Rows(items)
      PROVE  IsReply(i) <=> i \in Comments /\ items[i].parent # None
  <2>1. i \in Comments => "parent" \in DOMAIN items[i]
    BY <1>2 DEF RowOK, CommentRow
  <2>2. i \notin Comments => "parent" \notin DOMAIN items[i]
    BY <1>2 DEF RowOK, LinkRow, RewriteRow
  <2> QED BY <2>1, <2>2 DEF IsReply
<1> QED BY <1>1, <1>2, <1>3 DEF ItemsTyped

LEMMA HoldsKept ==
  ASSUME CInv, NEW q \in DOMAIN pc, q \in Requests, DOMAIN pc' = DOMAIN pc,
         pc'[q] = pc[q], seen'[q] = seen[q],
         Ask[q].item \in Rows(items') => Ask[q].item \in Rows(items) /\ RowKept(Ask[q].item)
  PROVE  Holds(q)'
<1> PICK i : i = Ask[q].item
  OBVIOUS
<1>1. \A j : Edits(j)' = Edits(j) /\ \A k : Revisions(j, k)' = Revisions(j, k)
  BY DEF Edits, Revisions
<1>2. i \in Rows(items') => RowOK(i, items[i]) /\ Holds(q) /\ RowKept(i) /\ i \in Rows(items)
  BY Tables DEF CInv, SeenWell
<1>3. CASE Ask[q].op = "edit"
  <2>1. i \in Rows(items') => i \in Comments
    BY <1>2, <1>3, ItemsAssumption DEF RowOK
  <2> QED BY <1>1, <1>2, <1>3, <2>1 DEF Holds, RowKept
<1>4. CASE Ask[q].op = "resolve"
  <2>1. i \in Rows(items') => i \in Comments
    BY <1>2, <1>4, ItemsAssumption DEF RowOK
  <2> QED BY <1>1, <1>2, <1>4, <2>1 DEF Holds, RowKept
<1>5. CASE Ask[q].op = "revoke"
  <2>1. i \in Rows(items') => i \in Links
    BY <1>2, <1>5, ItemsAssumption DEF RowOK
  <2> QED BY <1>1, <1>2, <1>5, <2>1 DEF Holds, RowKept
<1>6. CASE Ask[q].op = "revise"
  <2>1. /\ i \in Rows(items') => i \in Rewrites
        /\ DOMAIN Ask[q].given \subseteq {"rationale", "steps", "status"}
    BY <1>2, <1>6, ItemsAssumption DEF RowOK
  <2>2. ASSUME NEW k \in DOMAIN Ask[q].given, i \in Rows(items')
        PROVE  /\ pc[q] = "writing" => items'[i][k] \in {seen[q][k]} \cup Revisions(i, k)
               /\ pc[q] \in {"committed", "ok"} => items'[i][k] \in Revisions(i, k)
    <3>1. items'[i][k] \in {items[i][k]} \cup Revisions(i, k)
      BY <1>2, <2>1, <2>2 DEF RowKept
    <3>2. /\ pc[q] = "writing" => items[i][k] \in {seen[q][k]} \cup Revisions(i, k)
          /\ pc[q] \in {"committed", "ok"} => items[i][k] \in Revisions(i, k)
      BY <1>2, <1>6, <2>2 DEF Holds
    <3> QED BY <3>1, <3>2
  <2> QED BY <1>1, <1>6, <2>2 DEF Holds
<1> QED BY <1>3, <1>4, <1>5, <1>6 DEF Holds

(* What a step of request r leaves to the others. *)
LEMMA OthersHold ==
  ASSUME BInv, CInv, NEW r, Served(r), RowsKept(r),
         Ask[r].op \in Inserts /\ pc[r] = "committed" => pc'[r] \in Answers,
         SeenItem(r)', Holds(r)', SeenOther(r)'
  PROVE  SeenWell' /\ ItemBirths'
<1>1. /\ r \in DOMAIN pc /\ pc[r] \in Active /\ DOMAIN pc' = DOMAIN pc /\ Ids' = Ids
      /\ \A q \in DOMAIN pc : q # r => pc'[q] = pc[q] /\ seen'[q] = seen[q] /\ by'[q] = by[q]
      /\ DOMAIN pc \subseteq Requests
  BY IdsKept DEF Served, BInv, RequestsOK
<1>2. \A i : Inserted(i) => Inserted(i)'
  BY <1>1 DEF Inserted, Active, Answers
<1>3. \A i \in Rows(items') : Inserted(i)'
  BY <1>2 DEF RowsKept, CInv, ItemBirths
<1>4. ASSUME NEW q \in DOMAIN pc, q # r
      PROVE  SeenItem(q)' /\ Holds(q)' /\ SeenOther(q)'
  <2>1. q \in Requests /\ pc'[q] = pc[q] /\ seen'[q] = seen[q] /\ by'[q] = by[q]
    BY <1>1, <1>4
  <2>2. SeenItem(q) /\ Holds(q) /\ SeenOther(q)
    BY DEF CInv, SeenWell
  <2>3. SeenOther(q)'
    BY <1>1, <2>1, <2>2 DEF SeenOther, Tag
  <2>4. SeenItem(q)'
    BY <1>1, <1>2, <2>1, <2>2 DEF SeenItem, RowOK, Row, CommentRow, RewriteRow
  <2>5. Holds(q)'
    <3>1. CASE Ask[q].op \in {"edit", "resolve", "revoke", "revise"} /\ pc[q] \in {"writing", "committed", "ok"}
      <4>1. Inserted(Ask[q].item)
        BY <2>2, <3>1 DEF SeenItem
      <4>2. pc[r] = "writing" => Ask[q].item # r
        <5>1. r \notin Seeds
          BY <1>1, AccountsAssumption
        <5> QED BY <4>1, <5>1 DEF Inserted, Answers
      <4>3. Ask[q].item \in Rows(items') => Ask[q].item \in Rows(items) /\ RowKept(Ask[q].item)
        BY <4>2 DEF RowsKept
      <4> QED BY <1>1, <2>1, <4>3, HoldsKept
    <3>2. CASE ~ (Ask[q].op \in {"edit", "resolve", "revoke", "revise"} /\ pc[q] \in {"writing", "committed", "ok"})
      BY <2>1, <3>2 DEF Holds
    <3> QED BY <3>1, <3>2
  <2> QED BY <2>3, <2>4, <2>5
<1>5. SeenWell'
  BY <1>1, <1>4 DEF SeenWell
<1>6. ItemBirths'
  BY <1>3 DEF ItemBirths
<1> QED BY <1>5, <1>6

(* Notices become read by a request that lists them only. *)
LEMMA ListedKept ==
  ASSUME CInv, NEW r, Served(r),
         \A n \in inbox' \ unread' :
           \/ n \in inbox \ unread
           \/ /\ Ask[r].op \in {"read", "readall"} /\ pc'[r] = "ok"
              /\ by'[r] = n[2] /\ seen'[r] # NoRow /\ n \in seen'[r].notices
  PROVE  ReadWasListed'
<1>1. /\ r \in DOMAIN pc /\ pc[r] \in Active /\ DOMAIN pc' = DOMAIN pc
      /\ \A q \in DOMAIN pc : q # r => pc'[q] = pc[q] /\ seen'[q] = seen[q] /\ by'[q] = by[q]
  BY DEF Served
<1>2. ASSUME NEW n \in inbox \ unread
      PROVE  \E q \in DOMAIN pc : /\ Ask[q].op \in {"read", "readall"} /\ pc'[q] = "ok"
                                  /\ by'[q] = n[2] /\ seen'[q] # NoRow /\ n \in seen'[q].notices
  <2>1. PICK q \in DOMAIN pc : /\ Ask[q].op \in {"read", "readall"} /\ pc[q] = "ok"
                               /\ by[q] = n[2] /\ seen[q] # NoRow /\ n \in seen[q].notices
    BY <1>2 DEF CInv, ReadWasListed
  <2> QED BY <1>1, <2>1 DEF Active
<1> QED BY <1>1, <1>2 DEF ReadWasListed

LEMMA TagsKept ==
  ASSUME CInv, NEW r, Served(r),
         \A t \in tags \ tags' : Ask[r].op = "untag" /\ Tag(r) = t /\ pc'[r] = "ok",
         Ask[r].op = "tag" /\ pc'[r] = "ok" => Tag(r) \in tags'
  PROVE  TaggedUntilDetached'
<1>1. /\ r \in DOMAIN pc /\ pc[r] \in Active /\ DOMAIN pc' = DOMAIN pc
      /\ \A q \in DOMAIN pc : q # r => pc'[q] = pc[q]
  BY DEF Served
<1>2. \A q : Tag(q)' = Tag(q)
  BY DEF Tag
<1>3. ASSUME NEW p \in DOMAIN pc, p # r, Ask[p].op = "tag", pc'[p] = "ok"
      PROVE  Tag(p) \in tags' \/ \E q \in DOMAIN pc : Ask[q].op = "untag" /\ Tag(q) = Tag(p) /\ pc'[q] = "ok"
  <2>1. Tag(p) \in tags \/ \E q \in DOMAIN pc : Ask[q].op = "untag" /\ Tag(q) = Tag(p) /\ pc[q] = "ok"
    BY <1>1, <1>3 DEF CInv, TaggedUntilDetached
  <2> QED BY <1>1, <2>1 DEF Active
<1> QED BY <1>1, <1>2, <1>3 DEF TaggedUntilDetached

LEMMA ThreadsKept ==
  ASSUME CInv, ItemsTyped', DOMAIN pc' = DOMAIN pc,
         \A i \in Rows(items) : i \in Rows(items') /\ RowKept(i),
         \A i \in Rows(items') \ Rows(items) :
           i \in Comments /\ items'[i].parent # None => items'[i].parent \in Rows(items'),
         \A m \in mentions' \ mentions : m[1] \in Rows(items')
  PROVE  ThreadsWhole'
<1>1. \A i \in Rows(items') : IsReply(i)' => i \in Comments /\ items'[i].parent # None
  <2>1. ASSUME NEW i \in Rows(items'), i \notin Comments
        PROVE  "parent" \notin DOMAIN items'[i]
    <3>1. items'[i] \in LinkRow \cup RewriteRow'
      BY <2>1 DEF ItemsTyped, RowOK
    <3> QED BY <3>1 DEF LinkRow, RewriteRow
  <2> QED BY <2>1 DEF IsReply
<1>2. ASSUME NEW i \in Rows(items'), i \in Rows(items), i \in Comments, items'[i].parent # None
      PROVE  items'[i].parent \in Rows(items')
  <2>1. items'[i].parent = items[i].parent /\ IsReply(i)
    BY <1>2, Tables DEF RowKept
  <2> QED BY <1>2, <2>1 DEF CInv, ThreadsWhole
<1>3. \A i \in Rows(items') : IsReply(i)' => items'[i].parent \in Rows(items')
  BY <1>1, <1>2
<1>4. \A m \in mentions' : m[1] \in Rows(items')
  BY DEF CInv, ThreadsWhole
<1> QED BY <1>3, <1>4 DEF ThreadsWhole

(* A request that writes nothing here. *)
LEMMA QuietCollab ==
  ASSUME BInv, CInv, NEW r, Served(r), UNCHANGED collabVars,
         Ask[r].op \in Inserts /\ pc[r] = "committed" => pc'[r] \in Answers,
         SeenItem(r)', Holds(r)', SeenOther(r)',
         Ask[r].op = "tag" /\ pc'[r] = "ok" => Tag(r) \in tags
  PROVE  CInv'
<1>1. UNCHANGED <<items, mentions, inbox, unread, assigned, tags, note>>
  BY DEF collabVars
<1>2. Ids' = Ids /\ DOMAIN pc' = DOMAIN pc
  BY IdsKept DEF Served
<1>3. ItemsTyped' /\ NoticesTyped' /\ DeskTyped'
  BY <1>1, <1>2 DEF CInv, ItemsTyped, NoticesTyped, DeskTyped, Row, RowOK, CommentRow, RewriteRow, Rows
<1>4. RowsKept(r)
  BY <1>1 DEF RowsKept, RowKept
<1>5. ThreadsWhole'
  BY <1>1 DEF CInv, ThreadsWhole, IsReply, Rows
<1>6. SeenWell' /\ ItemBirths'
  BY <1>3, <1>4, OthersHold
<1>7. ReadWasListed'
  BY <1>1, ListedKept
<1>8. TaggedUntilDetached'
  BY <1>1, TagsKept
<1> QED BY <1>3, <1>5, <1>6, <1>7, <1>8 DEF CInv

LEMMA IdleCollab ==
  ASSUME BInv, CInv, NEW r, Served(r), UNCHANGED collabVars,
         \/ Ask[r].op \notin CollabOps
         \/ pc[r] = "sent" /\ pc'[r] \in {"unauthorized", "routed"}
         \/ pc'[r] = "error"
  PROVE  CInv'
<1>1. SeenItem(r)' /\ Holds(r)' /\ SeenOther(r)'
  BY DEF SeenItem, Holds, SeenOther, CollabOps
<1>2. /\ Ask[r].op = "tag" /\ pc'[r] = "ok" => Tag(r) \in tags
      /\ Ask[r].op \in Inserts /\ pc[r] = "committed" => pc'[r] \in Answers
  BY DEF CollabOps, Inserts, Answers
<1> QED BY <1>1, <1>2, QuietCollab

LEMMA RestCollab ==
  ASSUME CInv, UNCHANGED requestVars, UNCHANGED collabVars
  PROVE  CInv'
BY DEF requestVars, collabVars, CInv, ItemsTyped, RowOK, Row, CommentRow, RewriteRow, ItemBirths, Inserted,
   SeenWell, SeenItem, Holds, Edits, Revisions, SeenOther, Tag, NoticesTyped, DeskTyped,
   ThreadsWhole, IsReply, ReadWasListed, TaggedUntilDetached, Rows, Ids

-----------------------------------------------------------------------------
(* Handlers before they write. *)

(* A request of this part is answered, or goes on with what it has found. *)
LEMMA ReadingStep ==
  ASSUME BInv, CInv, NEW r \in DOMAIN pc, pc[r] = "routed", UNCHANGED collabVars,
         \/ \E code \in {"missing", "forbidden", "invalid"} : Answer(r, code)
         \/ /\ Answer(r, "ok") /\ Ask[r].op \notin {"edit", "resolve", "revoke", "revise"}
            /\ Ask[r].op = "tag" => Tag(r) \in tags
         \/ \E found : /\ Proceed(r, found)
                       /\ Ask[r].op \in {"edit", "resolve", "revoke", "revise"} =>
                            Ask[r].item \in Rows(items) /\ found = items[Ask[r].item]
                       /\ Ask[r].op \in {"read", "readall"} =>
                            /\ found \in [notices : SUBSET (Ids \X Ids)]
                            /\ \A n \in found.notices : n[2] = by[r]
                       /\ Ask[r].op = "assign" => Ask[r].traj \in Trajectories /\ Ask[r].to \in Ids \cup {None}
                       /\ Ask[r].op = "tag" => Tag(r) \in Trajectories \X Modes
  PROVE  CInv'
<1>1. RequestsOK /\ pc[r] \in Active /\ items' = items
  BY DEF BInv, Active, collabVars
<1>2. ASSUME NEW code \in {"missing", "forbidden", "invalid"}, Answer(r, code)
      PROVE  CInv'
  <2>1. Served(r) /\ pc'[r] = code
    BY <1>1, <1>2, Handles DEF Handled, Answers
  <2>2. SeenItem(r)' /\ Holds(r)' /\ SeenOther(r)'
    BY <2>1 DEF SeenItem, Holds, SeenOther
  <2> QED BY <2>1, <2>2, QuietCollab
<1>3. ASSUME Answer(r, "ok"), Ask[r].op \notin {"edit", "resolve", "revoke", "revise"},
             Ask[r].op = "tag" => Tag(r) \in tags
      PROVE  CInv'
  <2>1. Served(r) /\ pc'[r] = "ok"
    BY <1>1, <1>3, Handles DEF Handled, Answers
  <2>2. SeenItem(r)' /\ Holds(r)' /\ SeenOther(r)'
    BY <1>3, <2>1 DEF SeenItem, Holds, SeenOther
  <2> QED BY <1>3, <2>1, <2>2, QuietCollab
<1>4. ASSUME NEW found, Proceed(r, found),
             Ask[r].op \in {"edit", "resolve", "revoke", "revise"} =>
               Ask[r].item \in Rows(items) /\ found = items[Ask[r].item],
             Ask[r].op \in {"read", "readall"} =>
               /\ found \in [notices : SUBSET (Ids \X Ids)]
               /\ \A n \in found.notices : n[2] = by[r],
             Ask[r].op = "assign" => Ask[r].traj \in Trajectories /\ Ask[r].to \in Ids \cup {None},
             Ask[r].op = "tag" => Tag(r) \in Trajectories \X Modes
      PROVE  CInv'
  <2>1. Handled(r) /\ Served(r) /\ pc'[r] = "writing" /\ seen'[r] = found
    BY <1>1, <1>4, Handles DEF Handled
  <2>2. Ids' = Ids /\ by' = by /\ DOMAIN pc' = DOMAIN pc
    BY <2>1, IdsKept DEF Handled, Served
  <2>3. SeenOther(r)'
    BY <1>4, <2>1, <2>2 DEF SeenOther, Tag
  <2>4. SeenItem(r)'
    <3>1. CASE Ask[r].op \in {"edit", "resolve", "revoke", "revise"}
      <4>1. RowOK(Ask[r].item, found) /\ Inserted(Ask[r].item)
        BY <1>4, <3>1, Tables DEF CInv, ItemBirths
      <4>2. RowOK(Ask[r].item, found)'
        BY <2>2, <4>1 DEF RowOK, Row, CommentRow, RewriteRow
      <4>3. Inserted(Ask[r].item)'
        BY <1>1, <2>1, <2>2, <4>1 DEF Inserted, Served, Answers
      <4> QED BY <2>1, <4>2, <4>3 DEF SeenItem
    <3> QED BY <3>1 DEF SeenItem
  <2>5. Holds(r)'
    BY <1>1, <1>4, <2>1 DEF Holds
  <2> QED BY <1>4, <2>1, <2>3, <2>4, <2>5, QuietCollab
<1> QED BY <1>2, <1>3, <1>4

LEMMA FetchStep ==
  ASSUME BInv, CInv, NEW r \in DOMAIN pc, pc[r] = "routed", UNCHANGED collabVars,
         Ask[r].op \in {"edit", "resolve", "uncomment", "revoke", "revise", "unwrite"},
         \/ \E code \in {"missing", "forbidden"} : Answer(r, code)
         \/ Ask[r].item \in Rows(items) /\ Proceed(r, items[Ask[r].item])
  PROVE  CInv'
<1>1. PICK found : found = items[Ask[r].item]
  OBVIOUS
<1>2. (\E code \in {"missing", "forbidden"} : Answer(r, code)) \/
      (Ask[r].item \in Rows(items) /\ Proceed(r, found))
  BY <1>1
<1> QED BY <1>1, <1>2, ReadingStep

LEMMA FindStep ==
  ASSUME BInv, CInv, NEW r \in DOMAIN pc, NEW op \in {"comment", "share", "rewrite"}, FindTrajectory(r, op)
  PROVE  CInv'
<1>1. /\ pc[r] = "routed" /\ UNCHANGED collabVars /\ Ask[r].op = op
      /\ Answer(r, "missing") \/ Proceed(r, None)
  BY DEF FindTrajectory, At
<1> QED BY <1>1, ReadingStep

LEMMA ReadStep ==
  ASSUME BInv, CInv, NEW r \in DOMAIN pc, MarkRead(r) \/ MarkAllRead(r)
  PROVE  CInv'
<1>0. NoticesTyped
  BY DEF CInv
<1>1. PICK list : list \in SUBSET (Ids \X Ids) /\ (\A n \in list : n[2] = by[r]) /\
        \/ \E code \in {"missing", "ok"} : Answer(r, code)
        \/ Proceed(r, [notices |-> list])
  <2>1. CASE MarkRead(r)
    <3>1. CASE Ask[r].notice \in unread /\ Ask[r].notice[2] = by[r]
      <4>1. {Ask[r].notice} \in SUBSET (Ids \X Ids)
        BY <1>0, <3>1 DEF NoticesTyped
      <4> QED BY <2>1, <3>1, <4>1 DEF MarkRead
    <3>2. CASE ~ (Ask[r].notice \in unread /\ Ask[r].notice[2] = by[r])
      <4>1. \E code \in {"missing", "ok"} : Answer(r, code)
        BY <2>1, <3>2 DEF MarkRead
      <4>2. {} \in SUBSET (Ids \X Ids) /\ \A n \in {} : n[2] = by[r]
        OBVIOUS
      <4>3. PICK list : list = {}
        OBVIOUS
      <4>4. list \in SUBSET (Ids \X Ids) /\ \A n \in list : n[2] = by[r]
        BY <4>2, <4>3
      <4> QED BY <4>1, <4>4
    <3> QED BY <3>1, <3>2
  <2>2. CASE MarkAllRead(r)
    <3>1. Unread(by[r]) \in SUBSET (Ids \X Ids) /\ \A n \in Unread(by[r]) : n[2] = by[r]
      BY <1>0 DEF NoticesTyped, Unread
    <3> QED BY <2>2, <3>1 DEF MarkAllRead
  <2> QED BY <2>1, <2>2
<1>2. PICK found : found = [notices |-> list]
  OBVIOUS
<1>3. found \in [notices : SUBSET (Ids \X Ids)] /\ found.notices = list
  BY <1>1, <1>2
<1>4. pc[r] = "routed" /\ UNCHANGED collabVars /\ Ask[r].op \in {"read", "readall"}
  BY DEF MarkRead, MarkAllRead, At
<1>5. (\E code \in {"missing", "ok"} : Answer(r, code)) \/ Proceed(r, found)
  BY <1>1, <1>2
<1> QED BY <1>1, <1>3, <1>4, <1>5, ReadingStep

LEMMA LookStep ==
  ASSUME BInv, CInv, NEW r \in DOMAIN pc, ResolveLink(r) \/ Assign(r) \/ TagTrajectory(r) \/ PatchNode(r)
  PROVE  CInv'
<1>1. Rows(users) \subseteq Ids
  BY DEF BInv, TablesOK, Rows
<1>2. CASE ResolveLink(r)
  BY <1>2, ReadingStep DEF ResolveLink, At
<1>3. CASE Assign(r)
  <2>1. /\ pc[r] = "routed" /\ UNCHANGED collabVars /\ Ask[r].op = "assign"
        /\ \/ \E code \in {"missing", "invalid"} : Answer(r, code)
           \/ /\ Ask[r].traj \in Trajectories /\ Ask[r].to \in Ids \cup {None}
              /\ Proceed(r, assigned[Ask[r].traj])
    BY <1>1, <1>3 DEF Assign, At
  <2> QED BY <2>1, ReadingStep
<1>4. CASE TagTrajectory(r)
  <2>1. /\ pc[r] = "routed" /\ UNCHANGED collabVars /\ Ask[r].op = "tag"
        /\ \/ Answer(r, "missing")
           \/ Tag(r) \in tags /\ Answer(r, "ok")
           \/ Tag(r) \in Trajectories \X Modes /\ Proceed(r, None)
    BY <1>4 DEF TagTrajectory, At
  <2> QED BY <2>1, ReadingStep
<1>5. CASE PatchNode(r)
  <2>1. /\ pc[r] = "routed" /\ UNCHANGED collabVars /\ Ask[r].op = "annotate"
        /\ Answer(r, "missing") \/ Proceed(r, note)
    BY <1>5 DEF PatchNode, At
  <2> QED BY <2>1, ReadingStep
<1> QED BY <1>2, <1>3, <1>4, <1>5

LEMMA ReloadStep ==
  ASSUME BInv, CInv, NEW r \in DOMAIN pc, ReloadItem(r)
  PROVE  CInv'
<1>1. pc[r] = "committed" /\ Ask[r].op # "tag" /\ Answer(r, "ok") /\ UNCHANGED collabVars /\ items' = items
  BY DEF ReloadItem, collabVars
<1>2. Handled(r) /\ Served(r) /\ pc'[r] = "ok" /\ seen' = seen /\ DOMAIN pc' = DOMAIN pc /\ Ids' = Ids
  BY <1>1, Handles, IdsKept DEF BInv, Handled, Served, Active, Answers
<1>3. SeenItem(r) /\ Holds(r)
  BY DEF CInv, SeenWell
<1>4. SeenItem(r)' /\ SeenOther(r)'
  <2>1. \A i : Inserted(i) => Inserted(i)'
    BY <1>2 DEF Inserted, Served, Answers
  <2> QED BY <1>1, <1>2, <1>3, <2>1 DEF SeenItem, SeenOther
<1>5. Holds(r)'
  BY <1>1, <1>2, <1>3 DEF Holds, Edits, Revisions, Rows
<1> QED BY <1>1, <1>2, <1>4, <1>5, QuietCollab DEF Answers

-----------------------------------------------------------------------------
(* Handlers that write, but no rows. *)

LEMMA DeskStep ==
  ASSUME BInv, CInv, NEW r, Handled(r), UNCHANGED <<items, mentions>>,
         NoticesTyped', DeskTyped', pc'[r] \in {"committed", "ok", "error"},
         Ask[r].op \notin {"edit", "resolve", "revoke", "revise"} \cup Inserts,
         \A n \in inbox' \ unread' :
           \/ n \in inbox \ unread
           \/ /\ Ask[r].op \in {"read", "readall"} /\ pc'[r] = "ok"
              /\ by'[r] = n[2] /\ seen'[r] # NoRow /\ n \in seen'[r].notices,
         \A t \in tags \ tags' : Ask[r].op = "untag" /\ Tag(r) = t /\ pc'[r] = "ok",
         Ask[r].op = "tag" /\ pc'[r] = "ok" => Tag(r) \in tags'
  PROVE  CInv'
<1>1. Served(r) /\ Ids' = Ids /\ DOMAIN pc' = DOMAIN pc
  BY IdsKept DEF Handled, Served
<1>2. ItemsTyped'
  BY <1>1 DEF CInv, ItemsTyped, Row, RowOK, CommentRow, RewriteRow, Rows
<1>3. RowsKept(r)
  BY DEF RowsKept, RowKept
<1>4. ThreadsWhole'
  BY DEF CInv, ThreadsWhole, IsReply, Rows
<1>5. SeenItem(r)' /\ Holds(r)' /\ SeenOther(r)'
  BY DEF SeenItem, Holds, SeenOther
<1>6. SeenWell' /\ ItemBirths'
  BY <1>1, <1>2, <1>3, <1>5, OthersHold
<1>7. ReadWasListed' /\ TaggedUntilDetached'
  BY <1>1, ListedKept, TagsKept
<1> QED BY <1>2, <1>4, <1>6, <1>7 DEF CInv

LEMMA WriteReadStep ==
  ASSUME BInv, CInv, NEW r \in DOMAIN pc, WriteRead(r)
  PROVE  CInv'
<1>1. /\ pc[r] = "writing" /\ pc[r] \in Active /\ Ask[r].op \in {"read", "readall"}
      /\ unread' = unread \ seen[r].notices /\ Answer(r, "ok")
      /\ UNCHANGED <<items, mentions, inbox, assigned, tags>>
  BY DEF WriteRead, At, Active
<1>2. Handled(r) /\ pc'[r] = "ok" /\ seen' = seen /\ by' = by /\ Ids' = Ids
  BY <1>1, Handles, IdsKept DEF BInv, Handled, Served, Answers
<1>3. seen[r] \in [notices : SUBSET (Ids \X Ids)] /\ \A n \in seen[r].notices : n[2] = by[r]
  BY <1>1 DEF CInv, SeenWell, SeenOther
<1>4. seen[r] # NoRow
  <2>1. Ids \subseteq Requests \cup Seeds
    BY DEF Ids, BInv, RequestsOK
  <2>2. [notices : SUBSET (Ids \X Ids)] \subseteq [notices : SUBSET ((Requests \cup Seeds) \X (Requests \cup Seeds))]
    BY <2>1
  <2> QED BY <1>3, <2>2, CollabAssumption
<1>5. NoticesTyped' /\ DeskTyped'
  BY <1>1, <1>2 DEF CInv, NoticesTyped, DeskTyped
<1>6. \A n \in inbox' \ unread' : n \in inbox \ unread \/ n \in seen[r].notices
  BY <1>1
<1> QED BY <1>1, <1>2, <1>3, <1>4, <1>5, <1>6, DeskStep DEF Inserts

LEMMA AssigneeStep ==
  ASSUME BInv, CInv, NEW r \in DOMAIN pc, WriteAssignee(r)
  PROVE  CInv'
<1> PICK to, t : to = Ask[r].to /\ t = Ask[r].traj
  OBVIOUS
<1>1. /\ pc[r] = "writing" /\ pc[r] \in Active /\ Ask[r].op = "assign"
      /\ assigned' = [assigned EXCEPT ![t] = IF seen[r] = to THEN assigned[t] ELSE to]
      /\ Notify(r, {to} \ {None}) /\ Answer(r, "committed")
      /\ UNCHANGED <<items, mentions, tags>>
  BY DEF WriteAssignee, At, Active
<1>2. Handled(r) /\ pc'[r] = "committed" /\ r \in Ids /\ Ids' = Ids
  BY <1>1, Handles, IdsKept DEF BInv, Handled, Served, Ids, Active
<1>3. t \in Trajectories /\ to \in Ids \cup {None}
  BY <1>1 DEF CInv, SeenWell, SeenOther
<1>4. NoticesTyped'
  BY <1>1, <1>2, <1>3 DEF CInv, NoticesTyped, Notify
<1>5. DeskTyped'
  BY <1>1, <1>2, <1>3 DEF CInv, DeskTyped
<1>6. \A n \in inbox' \ unread' : n \in inbox \ unread
  BY <1>1 DEF Notify
<1> QED BY <1>1, <1>2, <1>4, <1>5, <1>6, DeskStep DEF Inserts

LEMMA TagStep ==
  ASSUME BInv, CInv, NEW r \in DOMAIN pc, InsertTag(r) \/ DetachTag(r) \/ WriteNote(r)
  PROVE  CInv'
<1>0. DeskTyped /\ NoticesTyped
  BY DEF CInv
<1>1. CASE InsertTag(r)
  <2>1. /\ pc[r] = "writing" /\ pc[r] \in Active /\ Ask[r].op = "tag"
        /\ tags' = tags \cup {Tag(r)} /\ \E code \in {"ok", "error"} : Answer(r, code)
        /\ UNCHANGED <<items, mentions, inbox, unread, assigned>>
    BY <1>1 DEF InsertTag, At, Active
  <2>2. Handled(r) /\ pc'[r] \in {"ok", "error"} /\ Ids' = Ids
    BY <2>1, Handles, IdsKept DEF BInv, Handled, Served, Answers
  <2>3. Tag(r) \in Trajectories \X Modes
    BY <2>1 DEF CInv, SeenWell, SeenOther
  <2>4. NoticesTyped' /\ DeskTyped'
    BY <1>0, <2>1, <2>2, <2>3 DEF NoticesTyped, DeskTyped
  <2> QED BY <2>1, <2>2, <2>4, DeskStep DEF Inserts
<1>2. CASE DetachTag(r)
  <2>1. /\ pc[r] = "routed" /\ pc[r] \in Active /\ Ask[r].op = "untag"
        /\ \/ Answer(r, "missing") /\ tags' = tags
           \/ Answer(r, "ok") /\ tags' = tags \ {Tag(r)}
        /\ UNCHANGED <<items, mentions, inbox, unread, assigned, note>>
    BY <1>2 DEF DetachTag, At, Active
  <2>2. CASE Answer(r, "missing") /\ tags' = tags
    <3>1. UNCHANGED collabVars
      BY <2>1, <2>2 DEF collabVars
    <3> QED BY <2>1, <2>2, <3>1, ReadingStep
  <2>3. CASE Answer(r, "ok") /\ tags' = tags \ {Tag(r)}
    <3>1. Handled(r) /\ pc'[r] = "ok" /\ Ids' = Ids
      BY <2>1, <2>3, Handles, IdsKept DEF BInv, Handled, Served, Answers
    <3>2. NoticesTyped' /\ DeskTyped'
      BY <1>0, <2>1, <2>3, <3>1 DEF NoticesTyped, DeskTyped
    <3> QED BY <2>1, <2>3, <3>1, <3>2, DeskStep DEF Inserts
  <2> QED BY <2>1, <2>2, <2>3
<1>3. CASE WriteNote(r)
  <2>1. /\ pc[r] = "writing" /\ pc[r] \in Active /\ Ask[r].op = "annotate" /\ Answer(r, "committed")
        /\ UNCHANGED <<items, mentions, inbox, unread, assigned, tags>>
    BY <1>3 DEF WriteNote, At, Active
  <2>2. Handled(r) /\ pc'[r] = "committed" /\ Ids' = Ids
    BY <2>1, Handles, IdsKept DEF BInv, Handled, Served, Active
  <2>3. NoticesTyped' /\ DeskTyped'
    BY <1>0, <2>1, <2>2 DEF NoticesTyped, DeskTyped
  <2> QED BY <2>1, <2>2, <2>3, DeskStep DEF Inserts
<1> QED BY <1>1, <1>2, <1>3

-----------------------------------------------------------------------------
(* Handlers that insert or delete rows. *)

LEMMA NoRowIsNone ==
  ASSUME DOMAIN pc \subseteq Requests
  PROVE  NoRow \notin Row
<1>1. Ids \subseteq Requests \cup Seeds
  BY DEF Ids
<1>2. NoRow \notin CommentRow
  BY <1>1, CollabAssumption DEF CommentRow
<1>3. NoRow \notin RewriteRow
  BY <1>1, CollabAssumption DEF RewriteRow
<1> QED BY <1>2, <1>3, CollabAssumption DEF Row

LEMMA InsertRow ==
  ASSUME BInv, CInv, NEW r \in DOMAIN pc, pc[r] = "writing", Ask[r].op \in Inserts,
         NEW code \in {"committed", "ok"}, Answer(r, code),
         NEW row, RowOK(r, row), items' = [items EXCEPT ![r] = row],
         r \in Comments /\ row.parent # None => row.parent \in Rows(items),
         mentions' = mentions \/ \E readers \in SUBSET Ids : mentions' = mentions \cup ({r} \X readers),
         (inbox' = inbox /\ unread' = unread) \/ \E readers \in SUBSET Ids : Notify(r, readers),
         UNCHANGED <<assigned, tags>>
  PROVE  CInv'
<1>1. /\ Handled(r) /\ Served(r) /\ pc'[r] = code /\ seen' = seen /\ Ids' = Ids /\ DOMAIN pc' = DOMAIN pc
      /\ r \in Ids /\ r \in Requests /\ DOMAIN pc \subseteq Requests
  BY Handles, IdsKept DEF BInv, RequestsOK, Handled, Served, Active, Answers, Ids
<1>2. r \notin Rows(items) /\ items[r] = NoRow
  <2>1. ~ Inserted(r)
    BY <1>1, AccountsAssumption DEF Inserted, Answers
  <2> QED BY <1>1, <2>1 DEF CInv, ItemBirths, ItemsTyped, Rows
<1>3. row \in Row /\ row # NoRow
  BY <1>1, NoRowIsNone DEF RowOK
<1>4. /\ items' \in [Ids -> Row \cup {NoRow}] /\ items'[r] = row
      /\ \A i \in Ids \ {r} : items'[i] = items[i]
      /\ Rows(items') = Rows(items) \cup {r} /\ Rows(items) \subseteq Ids
  BY <1>1, <1>3 DEF CInv, ItemsTyped, Rows
<1>5. ItemsTyped'
  <2>1. \A i \in Rows(items') : RowOK(i, items'[i])
    BY <1>4, Tables
  <2>2. Row' = Row /\ CommentRow' = CommentRow /\ RewriteRow' = RewriteRow
    BY <1>1 DEF Row, CommentRow, RewriteRow
  <2> QED BY <1>1, <1>4, <2>1, <2>2 DEF ItemsTyped, RowOK
<1>6. \A i \in Rows(items) : i \in Rows(items') /\ RowKept(i) /\ i # r
  BY <1>2, <1>4 DEF RowKept
<1>7. RowsKept(r)
  BY <1>1, <1>4, <1>6 DEF RowsKept, Inserted, Answers
<1>8. ThreadsWhole'
  <2>1. ASSUME NEW m \in mentions' \ mentions
        PROVE  m[1] \in Rows(items')
    <3>1. PICK readers \in SUBSET Ids : mentions' = mentions \cup ({r} \X readers)
      BY <2>1
    <3>2. m \in {r} \X readers
      BY <2>1, <3>1
    <3> QED BY <1>4, <3>2
  <2>2. \A i \in Rows(items') \ Rows(items) :
           i \in Comments /\ items'[i].parent # None => items'[i].parent \in Rows(items')
    BY <1>4
  <2> QED BY <1>1, <1>5, <1>6, <2>1, <2>2, ThreadsKept
<1>9. SeenWell' /\ ItemBirths'
  <2>1. SeenItem(r)' /\ Holds(r)' /\ SeenOther(r)'
    BY <1>1 DEF SeenItem, Holds, SeenOther, Inserts
  <2> QED BY <1>1, <1>5, <1>7, <2>1, OthersHold
<1>10. NoticesTyped' /\ DeskTyped'
  <2>1. NoticesTyped'
    BY <1>1 DEF CInv, NoticesTyped, Notify
  <2> QED BY <1>1, <2>1 DEF CInv, DeskTyped
<1>11. ReadWasListed'
  <2>1. \A n \in inbox' \ unread' : n \in inbox \ unread
    BY DEF Notify
  <2> QED BY <1>1, <2>1, ListedKept
<1>12. TaggedUntilDetached'
  BY <1>1, TagsKept DEF Inserts
<1> QED BY <1>5, <1>8, <1>9, <1>10, <1>11, <1>12 DEF CInv

LEMMA CommentStep ==
  ASSUME BInv, CInv, NEW r \in DOMAIN pc, InsertComment(r)
  PROVE  CInv'
<1>1. pc[r] = "writing" /\ pc[r] \in Active /\ Ask[r].op = "comment" /\ r \in Requests
  BY DEF InsertComment, At, Active, BInv, RequestsOK
<1>2. CASE Answer(r, "error") /\ UNCHANGED <<items, mentions, inbox, unread>>
  <2>1. Handled(r) /\ pc'[r] = "error" /\ UNCHANGED collabVars
    BY <1>1, <1>2, Handles DEF BInv, Answers, InsertComment, collabVars
  <2> QED BY <2>1, IdleCollab DEF Handled
<1>3. CASE ~ (Answer(r, "error") /\ UNCHANGED <<items, mentions, inbox, unread>>)
  <2>1. PICK readers : readers = Mentioned(Ask[r].body) \ {by[r]}
    OBVIOUS
  <2>2. PICK row : row = [parent |-> Ask[r].parent, author |-> by[r], body |-> Ask[r].body, resolved |-> FALSE]
    OBVIOUS
  <2>3. /\ Ask[r].parent # None => Ask[r].parent \in Rows(items)
        /\ Answer(r, "committed") /\ items' = [items EXCEPT ![r] = row]
        /\ mentions' = mentions \cup ({r} \X readers) /\ Notify(r, readers)
        /\ UNCHANGED <<assigned, tags>>
    BY <1>3, <2>1, <2>2 DEF InsertComment
  <2>4. readers \in SUBSET Ids
    BY <2>1 DEF Mentioned, BInv, TablesOK, Rows
  <2>5. by[r] \in Ids
    BY <1>1 DEF BInv, Authorised, TablesOK, Rows, Open
  <2>6. Ask[r].parent \in Requests \cup Seeds \cup {None}
    BY <2>3, Tables DEF Ids, BInv, RequestsOK
  <2>7. row \in CommentRow /\ row.parent = Ask[r].parent
    BY <1>1, <2>2, <2>5, <2>6 DEF CommentRow, Bodies, Made
  <2>8. RowOK(r, row)
    <3>1. r \in Comments /\ r \notin Links \cup Rewrites
      BY <1>1, AccountsAssumption, CollabAssumption DEF Comments, Links, Rewrites, Made, Seeded
    <3> QED BY <2>7, <3>1 DEF RowOK, Row
  <2> QED BY <1>1, <2>3, <2>4, <2>7, <2>8, InsertRow DEF Inserts
<1> QED BY <1>2, <1>3

LEMMA LinkStep ==
  ASSUME BInv, CInv, NEW r \in DOMAIN pc, InsertLink(r)
  PROVE  CInv'
<1>1. pc[r] = "writing" /\ Ask[r].op = "share" /\ r \in Requests
  BY DEF InsertLink, At, BInv, RequestsOK
<1>2. PICK row : row = [expired |-> FALSE, revoked |-> FALSE]
  OBVIOUS
<1>3. /\ Answer(r, "ok") /\ items' = [items EXCEPT ![r] = row]
      /\ UNCHANGED <<mentions, inbox, unread, assigned, tags>>
  BY <1>2 DEF InsertLink, rest
<1>4. r \in Links /\ r \notin Comments \cup Rewrites
  BY <1>1, AccountsAssumption, CollabAssumption DEF Comments, Links, Rewrites, Made, Seeded
<1>5. row \in LinkRow
  BY <1>2 DEF LinkRow
<1>6. RowOK(r, row)
  BY <1>4, <1>5 DEF RowOK, Row
<1> QED BY <1>1, <1>3, <1>4, <1>6, InsertRow DEF Inserts

LEMMA RewriteStep ==
  ASSUME BInv, CInv, NEW r \in DOMAIN pc, InsertRewrite(r)
  PROVE  CInv'
<1>1. pc[r] = "writing" /\ Ask[r].op = "rewrite" /\ r \in Requests
  BY DEF InsertRewrite, At, BInv, RequestsOK
<1>2. PICK row : row = [author |-> by[r], rationale |-> Ask[r].rationale,
                        steps |-> Ask[r].steps, status |-> Ask[r].status]
  OBVIOUS
<1>3. /\ Answer(r, "committed") /\ items' = [items EXCEPT ![r] = row]
      /\ UNCHANGED <<mentions, inbox, unread, assigned, tags>>
  BY <1>2 DEF InsertRewrite, rest
<1>4. r \in Rewrites /\ r \notin Comments \cup Links
  BY <1>1, AccountsAssumption, CollabAssumption DEF Comments, Links, Rewrites, Made, Seeded
<1>5. by[r] \in Ids
  BY <1>1 DEF BInv, Authorised, TablesOK, Rows, Open
<1>6. row \in RewriteRow
  BY <1>1, <1>2, <1>5, ItemsAssumption DEF RewriteRow
<1>7. RowOK(r, row)
  BY <1>4, <1>6 DEF RowOK, Row
<1> QED BY <1>1, <1>3, <1>4, <1>7, InsertRow DEF Inserts

(* What a DELETE takes with it is closed: no reply of it stays.            *)
LEMMA ThreadClosed ==
  ASSUME NEW i
  PROVE  /\ i \in Thread(i)
         /\ \A c \in Rows(items) : IsReply(c) /\ items[c].parent \in Thread(i) => c \in Thread(i)
<1>1. i \in Thread(i)
  BY DEF Thread
<1>2. ASSUME NEW c \in Rows(items), IsReply(c), items[c].parent \in Thread(i)
      PROVE  c \in Thread(i)
  <2>1. ASSUME NEW S \in SUBSET (Rows(items) \cup {i}), i \in S,
               \A d \in Rows(items) : IsReply(d) /\ items[d].parent \in S => d \in S
        PROVE  c \in S
    <3>1. items[c].parent \in S
      BY <1>2, <2>1 DEF Thread
    <3> QED BY <1>2, <2>1, <3>1
  <2> QED BY <2>1 DEF Thread
<1> QED BY <1>1, <1>2

LEMMA RemoveStep ==
  ASSUME BInv, CInv, NEW r \in DOMAIN pc, NEW op \in {"uncomment", "unwrite"}, Remove(r, op)
  PROVE  CInv'
<1> PICK gone : gone = Thread(Ask[r].item)
  OBVIOUS
<1>1. /\ pc[r] = "writing" /\ pc[r] \in Active /\ Ask[r].op = op /\ Answer(r, "ok")
      /\ items' = [i \in Ids |-> IF i \in gone THEN NoRow ELSE items[i]]
      /\ mentions' = {m \in mentions : m[1] \notin gone}
      /\ UNCHANGED <<inbox, unread, assigned, tags>>
  BY DEF Remove, At, Active
<1>2. Handled(r) /\ Served(r) /\ pc'[r] = "ok" /\ Ids' = Ids /\ DOMAIN pc' = DOMAIN pc
  BY <1>1, Handles, IdsKept DEF BInv, Handled, Served, Answers
<1>3. /\ DOMAIN items = Ids /\ items' \in [Ids -> Row \cup {NoRow}]
      /\ Rows(items') = Rows(items) \ gone
      /\ \A i \in Rows(items') : items'[i] = items[i] /\ RowOK(i, items[i])
  BY <1>1, Tables DEF CInv, ItemsTyped, Rows
<1>4. ItemsTyped'
  <2>1. Row' = Row /\ CommentRow' = CommentRow /\ RewriteRow' = RewriteRow
    BY <1>2 DEF Row, CommentRow, RewriteRow
  <2>2. \A i \in Rows(items') : RowOK(i, items'[i])
    BY <1>3
  <2> QED BY <1>2, <1>3, <2>1, <2>2 DEF ItemsTyped, RowOK
<1>5. RowsKept(r)
  BY <1>3 DEF RowsKept, RowKept
<1>6. ThreadsWhole'
  <2>1. ASSUME NEW i \in Rows(items'), IsReply(i)'
        PROVE  items'[i].parent \in Rows(items')
    <3>1. i \in Rows(items) /\ i \notin gone /\ items'[i] = items[i] /\ IsReply(i)
      BY <1>3, <2>1 DEF IsReply
    <3>2. items[i].parent \in Rows(items) /\ items[i].parent \notin gone
      BY <3>1, ThreadClosed DEF CInv, ThreadsWhole
    <3> QED BY <1>3, <3>1, <3>2
  <2>2. \A m \in mentions' : m[1] \in Rows(items')
    BY <1>1, <1>3 DEF CInv, ThreadsWhole
  <2> QED BY <2>1, <2>2 DEF ThreadsWhole
<1>7. SeenWell' /\ ItemBirths'
  <2>1. SeenItem(r)' /\ Holds(r)' /\ SeenOther(r)'
    BY <1>1, <1>2 DEF SeenItem, Holds, SeenOther
  <2> QED BY <1>1, <1>2, <1>4, <1>5, <2>1, OthersHold
<1>8. NoticesTyped' /\ DeskTyped'
  BY <1>1, <1>2 DEF CInv, NoticesTyped, DeskTyped
<1>9. ReadWasListed' /\ TaggedUntilDetached'
  BY <1>1, <1>2, ListedKept, TagsKept
<1> QED BY <1>4, <1>6, <1>7, <1>8, <1>9 DEF CInv

-----------------------------------------------------------------------------
(* Handlers that change rows. *)

(* A row, after an UPDATE by a transaction that has made new of old. *)
Merged(old, new, cur) == [k \in DOMAIN new |-> IF new[k] # old[k] THEN new[k] ELSE cur[k]]

LEMMA CommentMerged ==
  ASSUME NEW old \in CommentRow, NEW new \in CommentRow, NEW cur \in CommentRow
  PROVE  /\ Merged(old, new, cur) \in CommentRow
         /\ \A k \in {"parent", "author", "body", "resolved"} :
              Merged(old, new, cur)[k] = IF new[k] # old[k] THEN new[k] ELSE cur[k]
BY DEF CommentRow, Merged

LEMMA LinkMerged ==
  ASSUME NEW old \in LinkRow, NEW new \in LinkRow, NEW cur \in LinkRow
  PROVE  /\ Merged(old, new, cur) \in LinkRow
         /\ \A k \in {"expired", "revoked"} :
              Merged(old, new, cur)[k] = IF new[k] # old[k] THEN new[k] ELSE cur[k]
BY DEF LinkRow, Merged

LEMMA RewriteMerged ==
  ASSUME NEW old \in RewriteRow, NEW new \in RewriteRow, NEW cur \in RewriteRow
  PROVE  /\ Merged(old, new, cur) \in RewriteRow
         /\ \A k \in {"author", "rationale", "steps", "status"} :
              Merged(old, new, cur)[k] = IF new[k] # old[k] THEN new[k] ELSE cur[k]
BY DEF RewriteRow, Merged

LEMMA WriteRow ==
  ASSUME BInv, CInv, NEW r \in DOMAIN pc, pc[r] = "writing", Answer(r, "committed"),
         Ask[r].op \in {"edit", "resolve", "revoke", "revise"},
         NEW i \in Rows(items), NEW row, RowOK(i, row), items' = [items EXCEPT ![i] = row],
         RowKept(i), Holds(r)', UNCHANGED <<mentions, inbox, unread, assigned, tags>>
  PROVE  CInv'
<1>1. /\ Handled(r) /\ Served(r) /\ pc'[r] = "committed" /\ seen' = seen /\ Ids' = Ids /\ DOMAIN pc' = DOMAIN pc
      /\ DOMAIN pc \subseteq Requests
  BY Handles, IdsKept DEF BInv, RequestsOK, Handled, Served, Active
<1>2. /\ items' \in [Ids -> Row \cup {NoRow}] /\ items'[i] = row
      /\ \A j \in Ids \ {i} : items'[j] = items[j]
      /\ Rows(items') = Rows(items) /\ Rows(items) \subseteq Ids
  BY <1>1, NoRowIsNone DEF CInv, ItemsTyped, Rows, RowOK
<1>3. ItemsTyped'
  <2>1. Row' = Row /\ CommentRow' = CommentRow /\ RewriteRow' = RewriteRow
    BY <1>1 DEF Row, CommentRow, RewriteRow
  <2>2. \A j \in Rows(items') : RowOK(j, items'[j])
    BY <1>2, Tables
  <2> QED BY <1>1, <1>2, <2>1, <2>2 DEF ItemsTyped, RowOK
<1>4. \A j \in Rows(items) : j \in Rows(items') /\ RowKept(j)
  BY <1>2 DEF RowKept
<1>5. RowsKept(r)
  BY <1>2, <1>4 DEF RowsKept
<1>6. ThreadsWhole'
  BY <1>1, <1>2, <1>3, <1>4, ThreadsKept
<1>7. SeenWell' /\ ItemBirths'
  <2>1. SeenItem(r)' /\ SeenOther(r)'
    <3>1. Inserted(Ask[r].item)
      BY DEF CInv, SeenWell, SeenItem
    <3>2. Inserted(Ask[r].item)'
      BY <1>1, <3>1 DEF Inserted, Served
    <3> QED BY <1>1, <3>2 DEF SeenItem, SeenOther
  <2> QED BY <1>1, <1>3, <1>5, <2>1, OthersHold
<1>8. NoticesTyped' /\ DeskTyped'
  BY <1>1 DEF CInv, NoticesTyped, DeskTyped
<1>9. ReadWasListed' /\ TaggedUntilDetached'
  BY <1>1, ListedKept, TagsKept
<1> QED BY <1>3, <1>6, <1>7, <1>8, <1>9 DEF CInv

(* A handler that finds nothing to change, or the row gone. *)
LEMMA NothingSaved ==
  ASSUME BInv, CInv, NEW r \in DOMAIN pc, pc[r] = "writing", UNCHANGED collabVars,
         Ask[r].op \in {"edit", "resolve", "revoke", "revise"},
         Answer(r, "error") \/ (Answer(r, "committed") /\ Holds(r)')
  PROVE  CInv'
<1>1. CASE Answer(r, "error")
  <2>1. Served(r) /\ pc'[r] = "error"
    BY <1>1, Handles DEF BInv, Active, Answers, Handled
  <2> QED BY <2>1, IdleCollab
<1>2. CASE Answer(r, "committed") /\ Holds(r)'
  <2>1. /\ Handled(r) /\ Served(r) /\ pc'[r] = "committed" /\ seen' = seen /\ Ids' = Ids /\ DOMAIN pc' = DOMAIN pc
    BY <1>2, Handles, IdsKept DEF BInv, Handled, Served, Active
  <2>2. SeenItem(r)' /\ SeenOther(r)'
    <3>1. Inserted(Ask[r].item)
      BY DEF CInv, SeenWell, SeenItem
    <3>2. Inserted(Ask[r].item)'
      BY <2>1, <3>1 DEF Inserted, Served
    <3> QED BY <2>1, <3>2 DEF SeenItem, SeenOther
  <2> QED BY <1>2, <2>1, <2>2, QuietCollab DEF Inserts
<1> QED BY <1>1, <1>2

(* What an action Save has come to, given what it wants. *)
LEMMA Saves ==
  ASSUME BInv, NEW r \in DOMAIN pc, NEW op \in {"edit", "resolve", "revoke", "revise"}, NEW new,
         Save(r, op, new)
  PROVE  /\ pc[r] = "writing" /\ Ask[r].op = op /\ UNCHANGED <<mentions, inbox, unread, assigned, tags>>
         /\ \/ new = seen[r] /\ Answer(r, "committed") /\ UNCHANGED collabVars
            \/ Answer(r, "error") /\ UNCHANGED collabVars
            \/ /\ items[Ask[r].item] # NoRow /\ Answer(r, "committed")
               /\ items' = [items EXCEPT ![Ask[r].item] = Merged(seen[r], new, items[Ask[r].item])]
         /\ \A code \in {"committed", "error"} :
              Answer(r, code) => pc'[r] = code /\ seen' = seen /\ DOMAIN pc' = DOMAIN pc
BY Handles DEF Save, Changed, Merged, At, rest, collabVars, BInv, Handled, Served, Active, Answers

(* What a transaction that changes a row starts from. *)
LEMMA Saving ==
  ASSUME BInv, CInv, NEW r \in DOMAIN pc, pc[r] = "writing",
         Ask[r].op \in {"edit", "resolve", "revoke", "revise"}
  PROVE  /\ r \in Requests /\ RowOK(Ask[r].item, seen[r]) /\ Holds(r)
         /\ items[Ask[r].item] # NoRow =>
              Ask[r].item \in Rows(items) /\ RowOK(Ask[r].item, items[Ask[r].item])
<1>1. r \in Requests /\ SeenItem(r) /\ Holds(r)
  BY DEF BInv, RequestsOK, CInv, SeenWell
<1>2. Ask[r].item \in Ids
  BY <1>1 DEF SeenItem, Inserted, Ids
<1> QED BY <1>1, <1>2, Tables DEF SeenItem, Rows

LEMMA EditStep ==
  ASSUME BInv, CInv, NEW r \in DOMAIN pc, Save(r, "edit", [seen[r] EXCEPT !.body = Ask[r].body])
  PROVE  CInv'
<1>a. PICK i, old, new, words : /\ i = Ask[r].item /\ old = seen[r] /\ words = Ask[r].body
                                /\ new = [old EXCEPT !.body = words]
  OBVIOUS
<1>1. /\ pc[r] = "writing" /\ Ask[r].op = "edit" /\ UNCHANGED <<mentions, inbox, unread, assigned, tags>>
      /\ \/ new = old /\ Answer(r, "committed") /\ UNCHANGED collabVars
         \/ Answer(r, "error") /\ UNCHANGED collabVars
         \/ /\ items[i] # NoRow /\ Answer(r, "committed")
            /\ items' = [items EXCEPT ![i] = Merged(old, new, items[i])]
      /\ \A code \in {"committed", "error"} :
           Answer(r, code) => pc'[r] = code /\ seen' = seen /\ DOMAIN pc' = DOMAIN pc
  BY <1>a, Saves
<1>2. /\ r \in Requests /\ RowOK(i, old) /\ Holds(r)
      /\ items[i] # NoRow => i \in Rows(items) /\ RowOK(i, items[i])
  BY <1>a, <1>1, Saving
<1>3. i \in Comments /\ i \notin Links \cup Rewrites /\ old \in CommentRow
  BY <1>a, <1>1, <1>2, ItemsAssumption DEF RowOK
<1>4. words \in Bodies /\ words \in Edits(i) /\ (DOMAIN pc' = DOMAIN pc => Edits(i)' = Edits(i))
  BY <1>a, <1>1, <1>2 DEF Bodies, Made, Edits
<1>5. /\ new \in CommentRow /\ new.body = words /\ new.parent = old.parent /\ new.resolved = old.resolved
  BY <1>a, <1>3, <1>4 DEF CommentRow
<1>6. i \in Rows(items) => items[i].body \in {old.body} \cup Edits(i)
  BY <1>a, <1>1, <1>2 DEF Holds
<1>7. CASE new = old /\ Answer(r, "committed") /\ UNCHANGED collabVars
  <2>1. items' = items /\ pc'[r] = "committed" /\ Edits(i)' = Edits(i)
    BY <1>1, <1>4, <1>7 DEF collabVars
  <2>2. i \in Rows(items) => items[i].body \in Edits(i)
    BY <1>4, <1>5, <1>6, <1>7
  <2>3. Holds(r)'
    BY <1>a, <1>1, <2>1, <2>2 DEF Holds, Rows
  <2> QED BY <1>1, <1>7, <2>3, NothingSaved
<1>8. CASE /\ items[i] # NoRow /\ Answer(r, "committed")
           /\ items' = [items EXCEPT ![i] = Merged(old, new, items[i])]
  <2>1. i \in Rows(items) /\ items[i] \in CommentRow
    BY <1>2, <1>3, <1>8 DEF RowOK
  <2>2. PICK row : row = Merged(old, new, items[i])
    OBVIOUS
  <2>3. /\ row \in CommentRow /\ row.parent = items[i].parent /\ row.resolved = items[i].resolved
        /\ row.body = IF words # old.body THEN words ELSE items[i].body
    BY <1>3, <1>5, <2>1, <2>2, CommentMerged
  <2>4. items' = [items EXCEPT ![i] = row] /\ items'[i] = row
    BY <1>8, <2>1, <2>2 DEF Rows
  <2>5. RowOK(i, row)
    BY <1>3, <2>3 DEF RowOK, Row
  <2>6. row.body \in Edits(i)
    BY <1>4, <1>6, <2>1, <2>3
  <2>7. RowKept(i)
    BY <1>3, <2>3, <2>4, <2>6 DEF RowKept
  <2>8. pc'[r] = "committed" /\ Edits(i)' = Edits(i)
    BY <1>1, <1>4, <1>8
  <2>9. Holds(r)'
    BY <1>a, <1>1, <2>4, <2>6, <2>8 DEF Holds
  <2> QED BY <1>1, <1>8, <2>1, <2>4, <2>5, <2>7, <2>9, WriteRow
<1> QED BY <1>1, <1>7, <1>8, NothingSaved

LEMMA ResolveCommentStep ==
  ASSUME BInv, CInv, NEW r \in DOMAIN pc, Save(r, "resolve", [seen[r] EXCEPT !.resolved = TRUE])
  PROVE  CInv'
<1>a. PICK i, old, new : i = Ask[r].item /\ old = seen[r] /\ new = [old EXCEPT !.resolved = TRUE]
  OBVIOUS
<1>1. /\ pc[r] = "writing" /\ Ask[r].op = "resolve" /\ UNCHANGED <<mentions, inbox, unread, assigned, tags>>
      /\ \/ new = old /\ Answer(r, "committed") /\ UNCHANGED collabVars
         \/ Answer(r, "error") /\ UNCHANGED collabVars
         \/ /\ items[i] # NoRow /\ Answer(r, "committed")
            /\ items' = [items EXCEPT ![i] = Merged(old, new, items[i])]
      /\ \A code \in {"committed", "error"} :
           Answer(r, code) => pc'[r] = code /\ seen' = seen /\ DOMAIN pc' = DOMAIN pc
  BY <1>a, Saves
<1>2. /\ r \in Requests /\ RowOK(i, old) /\ Holds(r)
      /\ items[i] # NoRow => i \in Rows(items) /\ RowOK(i, items[i])
  BY <1>a, <1>1, Saving
<1>3. i \in Comments /\ i \notin Links \cup Rewrites /\ old \in CommentRow
  BY <1>a, <1>1, <1>2, ItemsAssumption DEF RowOK
<1>4. /\ new \in CommentRow /\ new.resolved = TRUE /\ new.parent = old.parent /\ new.body = old.body
      /\ old.resolved \in BOOLEAN
  BY <1>a, <1>3 DEF CommentRow
<1>5. i \in Rows(items) /\ old.resolved => items[i].resolved
  BY <1>a, <1>1, <1>2 DEF Holds
<1>7. CASE new = old /\ Answer(r, "committed") /\ UNCHANGED collabVars
  <2>1. items' = items /\ pc'[r] = "committed"
    BY <1>1, <1>7 DEF collabVars
  <2>2. i \in Rows(items) => items[i].resolved
    BY <1>4, <1>5, <1>7
  <2>3. Holds(r)'
    BY <1>a, <1>1, <2>1, <2>2 DEF Holds, Rows
  <2> QED BY <1>1, <1>7, <2>3, NothingSaved
<1>8. CASE /\ items[i] # NoRow /\ Answer(r, "committed")
           /\ items' = [items EXCEPT ![i] = Merged(old, new, items[i])]
  <2>1. i \in Rows(items) /\ items[i] \in CommentRow
    BY <1>2, <1>3, <1>8 DEF RowOK
  <2>2. PICK row : row = Merged(old, new, items[i])
    OBVIOUS
  <2>3. /\ row \in CommentRow /\ row.parent = items[i].parent /\ row.body = items[i].body
        /\ row.resolved = IF new.resolved # old.resolved THEN new.resolved ELSE items[i].resolved
    BY <1>3, <1>4, <2>1, <2>2, CommentMerged
  <2>4. items' = [items EXCEPT ![i] = row] /\ items'[i] = row
    BY <1>8, <2>1, <2>2 DEF Rows
  <2>5. RowOK(i, row)
    BY <1>3, <2>3 DEF RowOK, Row
  <2>6. row.resolved
    BY <1>4, <1>5, <2>1, <2>3
  <2>7. RowKept(i)
    BY <1>3, <2>3, <2>4, <2>6 DEF RowKept
  <2>8. Holds(r)'
    BY <1>a, <1>1, <2>4, <2>6 DEF Holds
  <2> QED BY <1>1, <1>8, <2>1, <2>4, <2>5, <2>7, <2>8, WriteRow
<1> QED BY <1>1, <1>7, <1>8, NothingSaved

LEMMA RevokeStep ==
  ASSUME BInv, CInv, NEW r \in DOMAIN pc, Save(r, "revoke", [seen[r] EXCEPT !.revoked = TRUE])
  PROVE  CInv'
<1>a. PICK i, old, new : i = Ask[r].item /\ old = seen[r] /\ new = [old EXCEPT !.revoked = TRUE]
  OBVIOUS
<1>1. /\ pc[r] = "writing" /\ Ask[r].op = "revoke" /\ UNCHANGED <<mentions, inbox, unread, assigned, tags>>
      /\ \/ new = old /\ Answer(r, "committed") /\ UNCHANGED collabVars
         \/ Answer(r, "error") /\ UNCHANGED collabVars
         \/ /\ items[i] # NoRow /\ Answer(r, "committed")
            /\ items' = [items EXCEPT ![i] = Merged(old, new, items[i])]
      /\ \A code \in {"committed", "error"} :
           Answer(r, code) => pc'[r] = code /\ seen' = seen /\ DOMAIN pc' = DOMAIN pc
  BY <1>a, Saves
<1>2. /\ r \in Requests /\ RowOK(i, old) /\ Holds(r)
      /\ items[i] # NoRow => i \in Rows(items) /\ RowOK(i, items[i])
  BY <1>a, <1>1, Saving
<1>3. i \in Links /\ i \notin Comments \cup Rewrites /\ old \in LinkRow
  BY <1>a, <1>1, <1>2, ItemsAssumption DEF RowOK
<1>4. /\ new \in LinkRow /\ new.revoked = TRUE /\ old.revoked \in BOOLEAN
  BY <1>a, <1>3 DEF LinkRow
<1>5. i \in Rows(items) /\ old.revoked => items[i].revoked
  BY <1>a, <1>1, <1>2 DEF Holds
<1>7. CASE new = old /\ Answer(r, "committed") /\ UNCHANGED collabVars
  <2>1. items' = items /\ pc'[r] = "committed"
    BY <1>1, <1>7 DEF collabVars
  <2>2. i \in Rows(items) => items[i].revoked
    BY <1>4, <1>5, <1>7
  <2>3. Holds(r)'
    BY <1>a, <1>1, <2>1, <2>2 DEF Holds, Rows
  <2> QED BY <1>1, <1>7, <2>3, NothingSaved
<1>8. CASE /\ items[i] # NoRow /\ Answer(r, "committed")
           /\ items' = [items EXCEPT ![i] = Merged(old, new, items[i])]
  <2>1. i \in Rows(items) /\ items[i] \in LinkRow
    BY <1>2, <1>3, <1>8 DEF RowOK
  <2>2. PICK row : row = Merged(old, new, items[i])
    OBVIOUS
  <2>3. /\ row \in LinkRow
        /\ row.revoked = IF new.revoked # old.revoked THEN new.revoked ELSE items[i].revoked
    BY <1>3, <1>4, <2>1, <2>2, LinkMerged
  <2>4. items' = [items EXCEPT ![i] = row] /\ items'[i] = row
    BY <1>8, <2>1, <2>2 DEF Rows
  <2>5. RowOK(i, row)
    BY <1>3, <2>3 DEF RowOK, Row
  <2>6. row.revoked
    BY <1>4, <1>5, <2>1, <2>3
  <2>7. RowKept(i)
    BY <1>3, <2>3, <2>4, <2>6 DEF RowKept
  <2>8. Holds(r)'
    BY <1>a, <1>1, <2>4, <2>6 DEF Holds
  <2> QED BY <1>1, <1>8, <2>1, <2>4, <2>5, <2>7, <2>8, WriteRow
<1> QED BY <1>1, <1>7, <1>8, NothingSaved

LEMMA ReviseStep ==
  ASSUME BInv, CInv, NEW r \in DOMAIN pc, Save(r, "revise", Revised(seen[r], Ask[r].given))
  PROVE  CInv'
<1>a. PICK i, old, new, given : /\ i = Ask[r].item /\ old = seen[r] /\ given = Ask[r].given
                                /\ new = Revised(old, given)
  OBVIOUS
<1>1. /\ pc[r] = "writing" /\ Ask[r].op = "revise" /\ UNCHANGED <<mentions, inbox, unread, assigned, tags>>
      /\ \/ new = old /\ Answer(r, "committed") /\ UNCHANGED collabVars
         \/ Answer(r, "error") /\ UNCHANGED collabVars
         \/ /\ items[i] # NoRow /\ Answer(r, "committed")
            /\ items' = [items EXCEPT ![i] = Merged(old, new, items[i])]
      /\ \A code \in {"committed", "error"} :
           Answer(r, code) => pc'[r] = code /\ seen' = seen /\ DOMAIN pc' = DOMAIN pc
  BY <1>a, Saves
<1>2. /\ r \in Requests /\ RowOK(i, old) /\ Holds(r)
      /\ items[i] # NoRow => i \in Rows(items) /\ RowOK(i, items[i])
  BY <1>a, <1>1, Saving
<1>3. /\ i \in Rewrites /\ i \notin Comments \cup Links /\ old \in RewriteRow
      /\ \A k \in DOMAIN given : /\ k \in {"rationale", "steps", "status"} /\ given[k] \in STRING
                                 /\ k = "status" => given[k] \in {"draft", "submitted"}
  BY <1>a, <1>1, <1>2, ItemsAssumption DEF RowOK
<1>4. /\ \A k \in DOMAIN given : given[k] \in Revisions(i, k)
      /\ DOMAIN pc' = DOMAIN pc => \A k : Revisions(i, k)' = Revisions(i, k)
  BY <1>a, <1>1 DEF Revisions
<1>5. /\ new \in RewriteRow
      /\ \A k \in {"author", "rationale", "steps", "status"} :
           new[k] = IF k \in DOMAIN given THEN given[k] ELSE old[k]
  <2>1. DOMAIN old = {"author", "rationale", "steps", "status"}
    BY <1>3 DEF RewriteRow
  <2>2. new = [k \in {"author", "rationale", "steps", "status"} |-> IF k \in DOMAIN given THEN given[k] ELSE old[k]]
    BY <1>a, <2>1 DEF Revised
  <2>3. new \in RewriteRow
    BY <1>3, <2>2 DEF RewriteRow
  <2> QED BY <2>2, <2>3
<1>6. i \in Rows(items) => \A k \in DOMAIN given : items[i][k] \in {old[k]} \cup Revisions(i, k)
  BY <1>a, <1>1, <1>2 DEF Holds
<1>7. CASE new = old /\ Answer(r, "committed") /\ UNCHANGED collabVars
  <2>1. items' = items /\ pc'[r] = "committed" /\ DOMAIN pc' = DOMAIN pc
    BY <1>1, <1>7 DEF collabVars
  <2>2. i \in Rows(items) => \A k \in DOMAIN given : items[i][k] \in Revisions(i, k)
    BY <1>3, <1>4, <1>5, <1>6, <1>7
  <2>3. Holds(r)'
    BY <1>a, <1>1, <1>4, <2>1, <2>2 DEF Holds, Rows
  <2> QED BY <1>1, <1>7, <2>3, NothingSaved
<1>8. CASE /\ items[i] # NoRow /\ Answer(r, "committed")
           /\ items' = [items EXCEPT ![i] = Merged(old, new, items[i])]
  <2>1. i \in Rows(items) /\ items[i] \in RewriteRow
    BY <1>2, <1>3, <1>8 DEF RowOK
  <2>2. PICK row : row = Merged(old, new, items[i])
    OBVIOUS
  <2>3. /\ row \in RewriteRow
        /\ \A k \in {"author", "rationale", "steps", "status"} :
             row[k] = IF new[k] # old[k] THEN new[k] ELSE items[i][k]
    BY <1>3, <1>5, <2>1, <2>2, RewriteMerged
  <2>4. items' = [items EXCEPT ![i] = row] /\ items'[i] = row
    BY <1>8, <2>1, <2>2 DEF Rows
  <2>5. RowOK(i, row)
    BY <1>3, <2>3 DEF RowOK, Row
  <2>6. \A k \in DOMAIN given : row[k] \in Revisions(i, k)
    BY <1>3, <1>4, <1>5, <1>6, <2>1, <2>3
  <2>7. RowKept(i)
    <3>1. \A k \in {"rationale", "steps", "status"} : row[k] \in {items[i][k]} \cup Revisions(i, k)
      BY <1>5, <2>3, <2>6
    <3> QED BY <1>3, <2>4, <3>1 DEF RowKept
  <2>8. pc'[r] = "committed" /\ DOMAIN pc' = DOMAIN pc
    BY <1>1, <1>8
  <2>9. Holds(r)'
    BY <1>a, <1>1, <1>4, <2>4, <2>6, <2>8 DEF Holds
  <2> QED BY <1>1, <1>8, <2>1, <2>4, <2>5, <2>7, <2>9, WriteRow
<1> QED BY <1>1, <1>7, <1>8, NothingSaved

LEMMA ExpireStep ==
  ASSUME BInv, CInv, NEW i \in Ids, ExpireLink(i)
  PROVE  CInv'
<1>1. /\ i \in Rows(items) /\ items[i] \in LinkRow /\ UNCHANGED <<pc, by, seen>>
      /\ items' = [items EXCEPT ![i].expired = TRUE]
      /\ UNCHANGED <<mentions, inbox, unread, assigned, tags>>
  BY DEF ExpireLink, rest, requestVars
<1>2. PICK row : row = [items[i] EXCEPT !.expired = TRUE]
  OBVIOUS
<1>3. /\ row \in LinkRow /\ row.revoked = items[i].revoked /\ items' = [items EXCEPT ![i] = row]
  BY <1>1, <1>2 DEF LinkRow
<1>4. i \in Links /\ i \notin Comments \cup Rewrites /\ RowOK(i, row)
  <2>1. RowOK(i, items[i]) /\ "expired" \in DOMAIN items[i]
    BY <1>1, Tables DEF LinkRow
  <2>2. i \notin Comments \cup Rewrites
    BY <2>1 DEF RowOK, CommentRow, RewriteRow
  <2> QED BY <1>3, <2>1, <2>2 DEF RowOK, Row
<1>5. Ids' = Ids /\ DOMAIN pc \subseteq Requests
  BY <1>1 DEF Ids, BInv, RequestsOK
<1>6. /\ items' \in [Ids -> Row \cup {NoRow}] /\ items'[i] = row
      /\ \A j \in Ids \ {i} : items'[j] = items[j]
      /\ Rows(items') = Rows(items) /\ Rows(items) \subseteq Ids
  BY <1>1, <1>3, <1>4, <1>5, NoRowIsNone DEF CInv, ItemsTyped, Rows, RowOK
<1>7. ItemsTyped'
  <2>1. Row' = Row /\ CommentRow' = CommentRow /\ RewriteRow' = RewriteRow
    BY <1>5 DEF Row, CommentRow, RewriteRow
  <2>2. \A j \in Rows(items') : RowOK(j, items'[j])
    BY <1>4, <1>6, Tables
  <2> QED BY <1>5, <1>6, <2>1, <2>2 DEF ItemsTyped, RowOK
<1>8. \A j \in Rows(items) : j \in Rows(items') /\ RowKept(j)
  BY <1>3, <1>4, <1>6 DEF RowKept
<1>9. ThreadsWhole'
  BY <1>1, <1>6, <1>7, <1>8, ThreadsKept
<1>10. SeenWell'
  <2>1. ASSUME NEW q \in DOMAIN pc
        PROVE  SeenItem(q)' /\ Holds(q)' /\ SeenOther(q)'
    <3>1. SeenItem(q) /\ SeenOther(q) /\ q \in Requests
      BY <1>5 DEF CInv, SeenWell
    <3>2. SeenItem(q)' /\ SeenOther(q)'
      BY <1>1, <1>5, <3>1 DEF SeenItem, SeenOther, Inserted, RowOK, Row, CommentRow, RewriteRow, Tag
    <3>3. Holds(q)'
      BY <1>1, <1>6, <1>8, <3>1, HoldsKept
    <3> QED BY <3>2, <3>3
  <2> QED BY <1>1, <2>1 DEF SeenWell
<1>11. ItemBirths' /\ NoticesTyped' /\ DeskTyped'
  BY <1>1, <1>5, <1>6 DEF CInv, ItemBirths, Inserted, NoticesTyped, DeskTyped
<1>12. ReadWasListed' /\ TaggedUntilDetached'
  BY <1>1 DEF CInv, ReadWasListed, TaggedUntilDetached, Tag
<1> QED BY <1>7, <1>9, <1>10, <1>11, <1>12 DEF CInv

-----------------------------------------------------------------------------
(* Every step. *)

LEMMA FetchesStep ==
  ASSUME BInv, CInv, NEW r \in DOMAIN pc,
         UpdateComment(r) \/ ResolveComment(r) \/ DeleteComment(r)
           \/ RevokeLink(r) \/ UpdateRewrite(r) \/ DeleteRewrite(r)
  PROVE  CInv'
<1>1. CASE UpdateComment(r)
  <2>1. CASE Save(r, "edit", [seen[r] EXCEPT !.body = Ask[r].body])
    BY <2>1, EditStep
  <2>2. CASE ~ Save(r, "edit", [seen[r] EXCEPT !.body = Ask[r].body])
    <3>1. /\ pc[r] = "routed" /\ UNCHANGED collabVars /\ Ask[r].op = "edit"
          /\ \/ \E code \in {"missing", "forbidden"} : Answer(r, code)
             \/ Ask[r].item \in Rows(items) /\ Proceed(r, items[Ask[r].item])
      BY <1>1, <2>2 DEF UpdateComment, Fetch, At
    <3> QED BY <3>1, FetchStep
  <2> QED BY <2>1, <2>2
<1>2. CASE ResolveComment(r)
  <2>1. CASE Save(r, "resolve", [seen[r] EXCEPT !.resolved = TRUE])
    BY <2>1, ResolveCommentStep
  <2>2. CASE ~ Save(r, "resolve", [seen[r] EXCEPT !.resolved = TRUE])
    <3>1. /\ pc[r] = "routed" /\ UNCHANGED collabVars /\ Ask[r].op = "resolve"
          /\ \/ \E code \in {"missing", "forbidden"} : Answer(r, code)
             \/ Ask[r].item \in Rows(items) /\ Proceed(r, items[Ask[r].item])
      BY <1>2, <2>2 DEF ResolveComment, Fetch, At
    <3> QED BY <3>1, FetchStep
  <2> QED BY <2>1, <2>2
<1>3. CASE RevokeLink(r)
  <2>1. CASE Save(r, "revoke", [seen[r] EXCEPT !.revoked = TRUE])
    BY <2>1, RevokeStep
  <2>2. CASE ~ Save(r, "revoke", [seen[r] EXCEPT !.revoked = TRUE])
    <3>1. /\ pc[r] = "routed" /\ UNCHANGED collabVars /\ Ask[r].op = "revoke"
          /\ \/ \E code \in {"missing", "forbidden"} : Answer(r, code)
             \/ Ask[r].item \in Rows(items) /\ Proceed(r, items[Ask[r].item])
      BY <1>3, <2>2 DEF RevokeLink, Fetch, At
    <3> QED BY <3>1, FetchStep
  <2> QED BY <2>1, <2>2
<1>4. CASE UpdateRewrite(r)
  <2>1. CASE Save(r, "revise", Revised(seen[r], Ask[r].given))
    BY <2>1, ReviseStep
  <2>2. CASE ~ Save(r, "revise", Revised(seen[r], Ask[r].given))
    <3>1. /\ pc[r] = "routed" /\ UNCHANGED collabVars /\ Ask[r].op = "revise"
          /\ \/ \E code \in {"missing", "forbidden"} : Answer(r, code)
             \/ Ask[r].item \in Rows(items) /\ Proceed(r, items[Ask[r].item])
      BY <1>4, <2>2 DEF UpdateRewrite, Fetch, At
    <3> QED BY <3>1, FetchStep
  <2> QED BY <2>1, <2>2
<1>5. CASE DeleteComment(r)
  <2>1. CASE Remove(r, "uncomment")
    BY <2>1, RemoveStep
  <2>2. CASE ~ Remove(r, "uncomment")
    <3>1. /\ pc[r] = "routed" /\ UNCHANGED collabVars /\ Ask[r].op = "uncomment"
          /\ \/ \E code \in {"missing", "forbidden"} : Answer(r, code)
             \/ Ask[r].item \in Rows(items) /\ Proceed(r, items[Ask[r].item])
      BY <1>5, <2>2 DEF DeleteComment, Fetch, At
    <3> QED BY <3>1, FetchStep
  <2> QED BY <2>1, <2>2
<1>6. CASE DeleteRewrite(r)
  <2>1. CASE Remove(r, "unwrite")
    BY <2>1, RemoveStep
  <2>2. CASE ~ Remove(r, "unwrite")
    <3>1. /\ pc[r] = "routed" /\ UNCHANGED collabVars /\ Ask[r].op = "unwrite"
          /\ \/ \E code \in {"missing", "forbidden"} : Answer(r, code)
             \/ Ask[r].item \in Rows(items) /\ Proceed(r, items[Ask[r].item])
      BY <1>6, <2>2 DEF DeleteRewrite, Fetch, At
    <3> QED BY <3>1, FetchStep
  <2> QED BY <2>1, <2>2
<1> QED BY <1>1, <1>2, <1>3, <1>4, <1>5, <1>6

LEMMA CollabNextStep ==
  ASSUME BInv, CInv, CollabNext
  PROVE  CInv'
<1>1. ASSUME NEW r \in DOMAIN pc,
             \/ FindTrajectory(r, "comment") \/ InsertComment(r)
             \/ UpdateComment(r) \/ ResolveComment(r) \/ DeleteComment(r)
             \/ MarkRead(r) \/ MarkAllRead(r) \/ WriteRead(r)
             \/ FindTrajectory(r, "share") \/ InsertLink(r) \/ RevokeLink(r) \/ ResolveLink(r)
             \/ Assign(r) \/ WriteAssignee(r)
             \/ TagTrajectory(r) \/ InsertTag(r) \/ DetachTag(r)
             \/ PatchNode(r) \/ WriteNote(r)
             \/ FindTrajectory(r, "rewrite") \/ InsertRewrite(r) \/ UpdateRewrite(r) \/ DeleteRewrite(r)
             \/ ReloadItem(r)
      PROVE  CInv'
  BY <1>1, FindStep, CommentStep, FetchesStep, ReadStep, WriteReadStep, LinkStep, LookStep,
     AssigneeStep, TagStep, RewriteStep, ReloadStep
<1> QED BY <1>1, ExpireStep DEF CollabNext

LEMMA CollabStep ==
  ASSUME BInv, CInv, [Next]_vars
  PROVE  CInv'
<1>1. CASE UNCHANGED vars
  BY <1>1, RestCollab DEF vars
<1>2. CASE CollabNext
  BY <1>2, CollabNextStep
<1>3. CASE AgentsNext /\ UNCHANGED collabVars
  <2>1. PICK r \in DOMAIN pc : Handled(r) /\ Ask[r].op \in AgentOps
    BY <1>3, AgentsServe DEF BInv
  <2> QED BY <1>3, <2>1, IdleCollab DEF Handled, AgentOps, CollabOps
<1>4. CASE AccountsNext /\ UNCHANGED collabVars
  <2>1. ASSUME NEW r \in DOMAIN pc, Fail(r)
        PROVE  CInv'
    <3>1. Served(r) /\ pc'[r] = "error"
      BY <2>1, Handles DEF Fail, BInv, Handled, Active, Answers
    <3> QED BY <1>4, <3>1, IdleCollab
  <2>2. ASSUME NEW r \in DOMAIN pc, Dispatch(r)
        PROVE  CInv'
    <3>1. PICK user : user = UserOf(Ask[r].cookie)
      OBVIOUS
    <3>2. user \in Ids \cup {None}
      BY <3>1 DEF UserOf, BInv, SessionsOwned, TablesOK, Rows
    <3>3. /\ pc' = [pc EXCEPT ![r] = IF user = None THEN "unauthorized" ELSE "routed"]
          /\ by' = [by EXCEPT ![r] = user] /\ seen' = seen /\ pc[r] = "sent"
      BY <2>2, <3>1 DEF Dispatch
    <3>4. Served(r) /\ pc'[r] \in {"unauthorized", "routed"}
      BY <3>2, <3>3 DEF BInv, RequestsOK, Served, Active, Answers, Ids
    <3> QED BY <1>4, <3>3, <3>4, IdleCollab
  <2>3. ASSUME NEW r \in DOMAIN pc, Signup(r) \/ Login(r) \/ CreateSession(r) \/ Logout(r) \/ CreateUser(r)
        PROVE  CInv'
    <3>1. /\ pc[r] \in Active /\ Ask[r].op \notin CollabOps
          /\ \/ \E code \in Answers : Answer(r, code)
             \/ pc[r] = "sent" /\ \E found : Proceed(r, found)
      BY <2>3 DEF Signup, Login, CreateSession, Logout, CreateUser, At, Active, Answers, CollabOps
    <3>2. Served(r)
      BY <3>1, Handles DEF BInv, Handled
    <3> QED BY <1>4, <3>1, <3>2, IdleCollab
  <2>4. ASSUME NEW s \in Ids, Expire(s)
        PROVE  CInv'
    BY <1>4, <2>4, RestCollab DEF Expire
  <2> QED BY <1>4, <2>1, <2>2, <2>3, <2>4 DEF AccountsNext
<1> QED BY <1>1, <1>2, <1>3, <1>4 DEF Next

LEMMA CollabStart ==
  ASSUME Init
  PROVE  CInv
<1>1. PICK W \in Workloads : pc = [r \in W |-> "sent"]
  BY DEF Init, AccountsInit
<1>2. DOMAIN pc = W /\ W \subseteq Requests /\ \A r \in DOMAIN pc : pc[r] = "sent"
  BY <1>1, AccountsAssumption
<1>3. /\ items = [i \in Ids |-> IF Rows(users) # {} /\ i \in DOMAIN StartItems THEN StartItems[i] ELSE NoRow]
      /\ mentions = {} /\ inbox = {} /\ unread = {}
      /\ assigned = [t \in Trajectories |-> None] /\ tags = {}
  BY DEF Init, CollabInit
<1>4. ASSUME NEW i \in DOMAIN StartItems
      PROVE  /\ RowOK(i, StartItems[i]) /\ i \in Seeds /\ i \in Ids
             /\ i \in Comments /\ StartItems[i].parent # None => StartItems[i].parent \in DOMAIN StartItems
  <2>1. /\ i \in Seeds /\ i \in Ids /\ Members \subseteq Ids /\ i \notin Requests
        /\ DOMAIN StartItems \subseteq Requests \cup Seeds
    BY CollabAssumption, AccountsAssumption DEF Ids
  <2>2. /\ i \in Comments <=> "parent" \in DOMAIN StartItems[i]
        /\ i \in Links <=> "expired" \in DOMAIN StartItems[i]
        /\ i \in Rewrites <=> "rationale" \in DOMAIN StartItems[i]
    BY <2>1 DEF Comments, Links, Rewrites, Made, Seeded
  <2>3. CASE StartItems[i] \in [parent : DOMAIN StartItems \cup {None}, author : Members,
                                body : Bodies, resolved : BOOLEAN]
    <3>1. StartItems[i] \in CommentRow
      BY <2>1, <2>3 DEF CommentRow
    <3>2. DOMAIN StartItems[i] = {"parent", "author", "body", "resolved"}
      BY <2>3
    <3> QED BY <2>1, <2>2, <2>3, <3>1, <3>2 DEF RowOK, Row
  <2>4. CASE StartItems[i] \in LinkRow
    <3>1. DOMAIN StartItems[i] = {"expired", "revoked"}
      BY <2>4 DEF LinkRow
    <3> QED BY <2>1, <2>2, <2>4, <3>1 DEF RowOK, Row
  <2>5. CASE StartItems[i] \in [author : Members, rationale : STRING, steps : STRING, status : {"draft", "submitted"}]
    <3>1. StartItems[i] \in RewriteRow
      BY <2>1, <2>5 DEF RewriteRow
    <3>2. DOMAIN StartItems[i] = {"author", "rationale", "steps", "status"}
      BY <2>5
    <3> QED BY <2>1, <2>2, <3>1, <3>2 DEF RowOK, Row
  <2> QED BY <2>3, <2>4, <2>5, CollabAssumption
<1>5. \A i \in Rows(items) : i \in DOMAIN StartItems /\ items[i] = StartItems[i] /\ Rows(users) # {}
  BY <1>3 DEF Rows
<1>6. ItemsTyped /\ ItemBirths
  BY <1>3, <1>4, <1>5 DEF ItemsTyped, RowOK, ItemBirths, Inserted
<1>7. SeenWell
  BY <1>2 DEF SeenWell, SeenItem, Holds, SeenOther
<1>8. NoticesTyped /\ DeskTyped /\ ReadWasListed /\ TaggedUntilDetached
  BY <1>2, <1>3 DEF NoticesTyped, DeskTyped, ReadWasListed, TaggedUntilDetached
<1>9. ThreadsWhole
  <2>1. ASSUME NEW i \in Rows(items), IsReply(i)
        PROVE  items[i].parent \in Rows(items)
    <3>1. i \in Comments
      <4>1. RowOK(i, items[i])
        BY <1>4, <1>5
      <4> QED BY <2>1, <4>1 DEF IsReply, RowOK, LinkRow, RewriteRow
    <3>2. items[i].parent \in DOMAIN StartItems /\ Rows(users) # {}
      BY <1>4, <1>5, <2>1, <3>1 DEF IsReply
    <3>3. \A j \in DOMAIN StartItems : StartItems[j] # NoRow /\ j \in Ids
      <4>1. NoRow \notin Row
        BY <1>2, NoRowIsNone
      <4> QED BY <1>4, <4>1 DEF RowOK
    <3> QED BY <1>3, <3>2, <3>3 DEF Rows
  <2> QED BY <1>3, <2>1 DEF ThreadsWhole
<1> QED BY <1>6, <1>7, <1>8, <1>9 DEF CInv

(* The invariant the theorems below follow from: a row stays in its table, *)
(* what a handler has found of a row is there or was replaced as a rival   *)
(* asked, and no row that was deleted comes back.                          *)
THEOREM CollabInvariant == Spec => [](BInv /\ CInv)
<1>1. Init => BInv /\ CInv
  BY BaseInit, CollabStart
<1>2. BInv /\ CInv /\ [Next]_vars => (BInv /\ CInv)'
  BY BaseStep, CollabStep
<1> QED BY <1>1, <1>2, PTL DEF Spec

(* Every table of the API keeps its columns' types and its foreign keys to *)
(* users, whatever is served together.                                     *)
THEOREM WorkspaceTyped == Spec => []TypeOK
<1>1. BInv /\ AInv /\ CInv => TypeOK
  <2>1. BInv => AccountsTypeOK
    BY DEF BInv, RequestsOK, TablesOK, AccountsTypeOK, Active
  <2>2. BInv /\ AInv => AgentsTypeOK
    BY DEF BInv, TablesOK, AInv, AgentsTyped, AgentsTypeOK
  <2>3. CInv => CollabTypeOK
    BY DEF CInv, ItemsTyped, NoticesTyped, DeskTyped, CollabTypeOK, Row
  <2> QED BY <2>1, <2>2, <2>3 DEF TypeOK
<1> QED BY <1>1, AgentsInvariant, CollabInvariant, PTL

(* A reply that is written while its thread is deleted, at any depth,      *)
(* leaves no reply and no mention without its comment                      *)
(* (services/comments.py:181).                                             *)
THEOREM ThreadsStayWhole == Spec => []ThreadsWhole
<1>1. BInv /\ CInv => ThreadsWhole
  BY DEF CInv
<1> QED BY <1>1, CollabInvariant, PTL

(* What a request has saved in a column is there until another request for *)
(* the same column has come (services/rewrites.py:140).                    *)
THEOREM WhatIsSavedStays == Spec => []SavedStays
<1>1. ASSUME BInv, CInv
      PROVE  SavedStays
  <2>1. ASSUME NEW r \in DOMAIN pc, pc[r] \in {"committed", "ok"}, Ask[r].item \in Rows(items)
        PROVE  LET i == Ask[r].item
                   rivals == {q \in DOMAIN pc : Ask[q].op = Ask[r].op /\ Ask[q].item = i} IN
               /\ Ask[r].op = "edit" => items[i].body \in {Ask[q].body : q \in rivals}
               /\ Ask[r].op = "resolve" => items[i].resolved
               /\ Ask[r].op = "revoke" => items[i].revoked
               /\ Ask[r].op = "revise" => \A k \in DOMAIN Ask[r].given :
                    items[i][k] \in {Ask[q].given[k] : q \in {p \in rivals : k \in DOMAIN Ask[p].given}}
    <3>1. Holds(r)
      BY <1>1 DEF CInv, SeenWell
    <3>2. Ask[r].op = "edit" => items[Ask[r].item].body \in Edits(Ask[r].item)
      BY <2>1, <3>1 DEF Holds
    <3>3. Ask[r].op = "revise" => \A k \in DOMAIN Ask[r].given :
            items[Ask[r].item][k] \in Revisions(Ask[r].item, k)
      BY <2>1, <3>1 DEF Holds
    <3>4. /\ Ask[r].op = "resolve" => items[Ask[r].item].resolved
          /\ Ask[r].op = "revoke" => items[Ask[r].item].revoked
      BY <2>1, <3>1 DEF Holds
    <3> QED BY <3>2, <3>3, <3>4 DEF Edits, Revisions
  <2> QED BY <2>1 DEF SavedStays
<1> QED BY <1>1, CollabInvariant, PTL

(* A notification that arrives while all are being marked read stays       *)
(* unread (api/notifications.py:64).                                       *)
THEOREM OnlyListedAreRead == Spec => []ReadWasListed
<1>1. BInv /\ CInv => ReadWasListed
  BY DEF CInv
<1> QED BY <1>1, CollabInvariant, PTL

(* Of any number of taggings that race for one row, those that are         *)
(* answered leave the tag until it is detached                             *)
(* (services/failure_modes.py:57).                                         *)
THEOREM TagsStay == Spec => []TaggedUntilDetached
<1>1. BInv /\ CInv => TaggedUntilDetached
  BY DEF CInv
<1> QED BY <1>1, CollabInvariant, PTL

=============================================================================
