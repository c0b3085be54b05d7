------------------------------- MODULE Collab --------------------------------
(***************************************************************************)
(* What reviewers do to trajectories: comments with replies and mentions,  *)
(* notifications, shared links, assignments, failure modes, rewrites and   *)
(* notes on spans (api/app/api/ and api/app/services/ of these names).     *)
(*                                                                         *)
(* Comments, links and rewrites are rows of one function `items`; the      *)
(* request that inserts a row tells its table.  A notification is named by *)
(* the request it comes from and its reader.  No handler deletes           *)
(* trajectories, spans or failure modes.                                   *)
(***************************************************************************)
EXTENDS Accounts

CONSTANTS
  Trajectories, Modes,   \* existing trajectories and failure modes
  StartItems             \* the seeded comments, links and rewrites

VARIABLES
  items,      \* tables comments, shared_links and rewrites
  mentions,   \* table comment_mentions
  inbox,      \* table notifications
  unread,     \* those with read_at NULL
  assigned,   \* trajectories.assigned_user_id
  tags,       \* table trajectory_failure_modes
  note        \* spans.notes of the one span that is annotated

collabVars == <<items, mentions, inbox, unread, assigned, tags, note>>

(* The identifiers of each table. *)
Made(op) == {r \in Requests : Ask[r].op = op}

Seeded(column) == {i \in DOMAIN StartItems : column \in DOMAIN StartItems[i]}

Comments == Made("comment") \cup Seeded("parent")
Links    == Made("share") \cup Seeded("expired")
Rewrites == Made("rewrite") \cup Seeded("rationale")

(* A body is the set of its words, which may name users. *)
Bodies == {Ask[r].body : r \in Made("comment") \cup Made("edit")}
          \cup {StartItems[i].body : i \in Seeded("parent")}

CommentRow == [parent : Requests \cup Seeds \cup {None}, author : Ids, body : Bodies, resolved : BOOLEAN]
LinkRow    == [expired : BOOLEAN, revoked : BOOLEAN]
RewriteRow == [author : Ids, rationale : STRING, steps : STRING, status : {"draft", "submitted"}]

(* The seeds are rows the database could hold: their authors and parents   *)
(* are there.                                                              *)
ASSUME CollabAssumption ==
  /\ DOMAIN StartItems \subseteq Seeds
  /\ \A i \in DOMAIN StartItems :
       StartItems[i] \in [parent : DOMAIN StartItems \cup {None}, author : Members, body : Bodies, resolved : BOOLEAN]
                          \cup LinkRow
                          \cup [author : Members, rationale : STRING, steps : STRING, status : {"draft", "submitted"}]
  /\ NoRow \notin [parent : Requests \cup Seeds \cup {None}, author : Requests \cup Seeds,
                   body : Bodies, resolved : BOOLEAN]
  /\ NoRow \notin LinkRow
  /\ NoRow \notin [author : Requests \cup Seeds, rationale : STRING, steps : STRING,
                   status : {"draft", "submitted"}]
  /\ NoRow \notin [notices : SUBSET ((Requests \cup Seeds) \X (Requests \cup Seeds))]

(* No row has the identifier of a row of another table, and the columns of *)
(* rewrites are given as their schema has them.                            *)
ASSUME ItemsAssumption ==
  \A r \in Requests :
    /\ Ask[r].op \in {"edit", "resolve"} => Ask[r].item \notin Links \cup Rewrites
    /\ Ask[r].op = "revoke" => Ask[r].item \notin Comments \cup Rewrites
    /\ Ask[r].op = "revise" =>
         /\ Ask[r].item \notin Comments \cup Links
         /\ \A k \in DOMAIN Ask[r].given :
              /\ k \in {"rationale", "steps", "status"} /\ Ask[r].given[k] \in STRING
              /\ k = "status" => Ask[r].given[k] \in {"draft", "submitted"}
    /\ Ask[r].op = "rewrite" =>
         Ask[r].rationale \in STRING /\ Ask[r].steps \in STRING /\ Ask[r].status \in {"draft", "submitted"}

CollabTypeOK ==
  /\ items \in [Ids -> CommentRow \cup LinkRow \cup RewriteRow \cup {NoRow}]
  /\ mentions \subseteq Ids \X Ids
  /\ inbox \subseteq Ids \X Ids /\ unread \subseteq inbox
  /\ assigned \in [Trajectories -> Ids \cup {None}]
  /\ tags \subseteq Trajectories \X Modes

CollabInit ==
  /\ items = [i \in Ids |-> IF Rows(users) # {} /\ i \in DOMAIN StartItems THEN StartItems[i] ELSE NoRow]
  /\ mentions = {}
  /\ inbox = {} /\ unread = {}
  /\ assigned = [t \in Trajectories |-> None]
  /\ tags = {}
  /\ note = None

rest == <<mentions, inbox, unread, assigned, tags, note>>

Others == UNCHANGED projects /\ UNCHANGED accountVars

-----------------------------------------------------------------------------
(* The handlers of one row begin with a SELECT and a check of the user. *)
Fetch(r, op, Allowed(_)) ==
  LET i == Ask[r].item IN
  /\ At(r, op, "routed")
  /\ \/ i \notin Rows(items) /\ Answer(r, "missing")
     \/ i \in Rows(items) /\ ~Allowed(items[i]) /\ Answer(r, "forbidden")
     \/ i \in Rows(items) /\ Allowed(items[i]) /\ Proceed(r, items[i])
  /\ Others /\ UNCHANGED collabVars

(* Mutant: an UPDATE writes every column as its transaction has it. *)
Changed_WholeRow(i, old, new) == items' = [items EXCEPT ![i] = new]

(* UPDATE of the columns that differ from what the transaction read. *)
Changed(i, old, new) ==
  items' = [items EXCEPT ![i] =
              [k \in DOMAIN new |-> IF new[k] # old[k] THEN new[k] ELSE items[i][k]]]

(* Nothing is written when no column differs; else the row must be there.  *)
Save(r, op, new) ==
  LET i == Ask[r].item IN
  /\ At(r, op, "writing")
  /\ \/ new = seen[r] /\ Answer(r, "committed") /\ UNCHANGED items
     \/ new # seen[r] /\ items[i] # NoRow /\ Answer(r, "committed") /\ Changed(i, seen[r], new)
     \/ new # seen[r] /\ items[i] = NoRow /\ Answer(r, "error") /\ UNCHANGED items
  /\ Others /\ UNCHANGED rest

Author(r, row) == row.author = by[r]

AuthorOrAdmin(r, row) == Author(r, row) \/ users[by[r]].admin

(* Handlers that only insert begin by looking for the trajectory. *)
FindTrajectory(r, op) ==
  /\ At(r, op, "routed")
  /\ IF Ask[r].traj \in Trajectories THEN Proceed(r, None) ELSE Answer(r, "missing")
  /\ Others /\ UNCHANGED collabVars

(* The row is read again for the answer, if it is still there. *)
ReloadItem(r) ==
  /\ r \in DOMAIN pc /\ pc[r] = "committed"
  /\ \/ Ask[r].op \in {"comment", "rewrite"} /\ items[r] # NoRow
     \/ Ask[r].op \in {"edit", "resolve", "revise"} /\ items[Ask[r].item] # NoRow
     \/ Ask[r].op \in {"revoke", "assign", "annotate"}
  /\ Answer(r, "ok")
  /\ Others /\ UNCHANGED collabVars

-----------------------------------------------------------------------------
(* Comments. *)

(* Mutant: the words themselves, not the users they name. *)
Mentioned_Words(words) == words

Mentioned(words) == {u \in Rows(users) : users[u].name \in words \/ users[u].email \in words}

Notify(r, readers) ==
  inbox' = inbox \cup ({r} \X readers) /\ unread' = unread \cup ({r} \X readers)

(* Mutant: no foreign key on the parent. *)
InsertComment_NoKey(r) ==
  LET readers == Mentioned(Ask[r].body) \ {by[r]} IN
  /\ At(r, "comment", "writing")
  /\ Answer(r, "committed")
  /\ items' = [items EXCEPT ![r] = [parent |-> Ask[r].parent, author |-> by[r],
                                    body |-> Ask[r].body, resolved |-> FALSE]]
  /\ mentions' = mentions \cup ({r} \X readers) /\ Notify(r, readers)
  /\ Others /\ UNCHANGED <<assigned, tags, note>>

InsertComment(r) ==
  LET readers == Mentioned(Ask[r].body) \ {by[r]} IN
  /\ At(r, "comment", "writing")
  /\ IF Ask[r].parent # None /\ Ask[r].parent \notin Rows(items)
     THEN Answer(r, "error") /\ UNCHANGED <<items, mentions, inbox, unread>>
     ELSE /\ Answer(r, "committed")
          /\ items' = [items EXCEPT ![r] = [parent |-> Ask[r].parent, author |-> by[r],
                                            body |-> Ask[r].body, resolved |-> FALSE]]
          /\ mentions' = mentions \cup ({r} \X readers) /\ Notify(r, readers)
  /\ Others /\ UNCHANGED <<assigned, tags, note>>

UpdateComment(r) ==
  \/ Fetch(r, "edit", LAMBDA row : Author(r, row))
  \/ Save(r, "edit", [seen[r] EXCEPT !.body = Ask[r].body])

ResolveComment(r) ==
  \/ Fetch(r, "resolve", LAMBDA row : TRUE)
  \/ Save(r, "resolve", [seen[r] EXCEPT !.resolved = TRUE])

IsReply(i) == "parent" \in DOMAIN items[i] /\ items[i].parent # None

(* A comment and everything below it in its thread. *)
Thread(i) ==
  {c \in Rows(items) \cup {i} :
     \A S \in SUBSET (Rows(items) \cup {i}) :
       i \in S /\ (\A d \in Rows(items) : IsReply(d) /\ items[d].parent \in S => d \in S) => c \in S}

(* The DELETE cascades to replies and mentions; notifications stay. *)
Remove(r, op) ==
  LET gone == Thread(Ask[r].item) IN
  /\ At(r, op, "writing")
  /\ items' = [i \in Ids |-> IF i \in gone THEN NoRow ELSE items[i]]
  /\ mentions' = {m \in mentions : m[1] \notin gone}
  /\ Answer(r, "ok")
  /\ Others /\ UNCHANGED <<inbox, unread, assigned, tags, note>>

DeleteComment(r) ==
  \/ Fetch(r, "uncomment", LAMBDA row : AuthorOrAdmin(r, row))
  \/ Remove(r, "uncomment")

-----------------------------------------------------------------------------
(* Notifications. *)

MarkRead(r) ==
  LET n == Ask[r].notice IN
  /\ At(r, "read", "routed")
  /\ \/ (n \notin inbox \/ n[2] # by[r]) /\ Answer(r, "missing")
     \/ n \in inbox \ unread /\ n[2] = by[r] /\ Answer(r, "ok")
     \/ n \in unread /\ n[2] = by[r] /\ Proceed(r, [notices |-> {n}])
  /\ Others /\ UNCHANGED collabVars

Unread(user) == {n \in unread : n[2] = user}

MarkAllRead(r) ==
  /\ At(r, "readall", "routed")
  /\ Proceed(r, [notices |-> Unread(by[r])])
  /\ Others /\ UNCHANGED collabVars

(* Mutant: whatever is unread by now. *)
WriteRead_Late(r) ==
  /\ At(r, "read", "writing") \/ At(r, "readall", "writing")
  /\ unread' = unread \ Unread(by[r])
  /\ Answer(r, "ok")
  /\ Others /\ UNCHANGED <<items, mentions, inbox, assigned, tags, note>>

(* The UPDATEs of the rows the SELECT found. *)
WriteRead(r) ==
  /\ At(r, "read", "writing") \/ At(r, "readall", "writing")
  /\ unread' = unread \ seen[r].notices
  /\ Answer(r, "ok")
  /\ Others /\ UNCHANGED <<items, mentions, inbox, assigned, tags, note>>

-----------------------------------------------------------------------------
(* Shared links. *)

InsertLink(r) ==
  /\ At(r, "share", "writing")
  /\ items' = [items EXCEPT ![r] = [expired |-> FALSE, revoked |-> FALSE]]
  /\ Answer(r, "ok")
  /\ Others /\ UNCHANGED rest

RevokeLink(r) ==
  \/ Fetch(r, "revoke", LAMBDA row : TRUE)
  \/ Save(r, "revoke", [seen[r] EXCEPT !.revoked = TRUE])

ResolveLink(r) ==
  LET i == Ask[r].item IN
  /\ At(r, "open", "routed")
  /\ IF i \notin Rows(items) \/ items[i].revoked \/ items[i].expired
     THEN Answer(r, "missing") ELSE Answer(r, "ok")
  /\ Others /\ UNCHANGED collabVars

(* The link's days pass; only who opens it can tell. *)
ExpireLink(i) ==
  /\ i \in Rows(items) /\ items[i] \in LinkRow /\ ~items[i].expired
  /\ \E r \in DOMAIN pc : At(r, "open", "routed") /\ Ask[r].item = i
  /\ items' = [items EXCEPT ![i].expired = TRUE]
  /\ Others /\ UNCHANGED rest /\ UNCHANGED requestVars

-----------------------------------------------------------------------------
(* Reviewers, failure modes, notes. *)

Assign(r) ==
  /\ At(r, "assign", "routed")
  /\ \/ Ask[r].traj \notin Trajectories /\ Answer(r, "missing")
     \/ Ask[r].traj \in Trajectories /\ Ask[r].to \notin Rows(users) \cup {None} /\ Answer(r, "invalid")
     \/ /\ Ask[r].traj \in Trajectories /\ Ask[r].to \in Rows(users) \cup {None}
        /\ Proceed(r, assigned[Ask[r].traj])
  /\ Others /\ UNCHANGED collabVars

(* The column is written only if it was someone else's when it was read.   *)
WriteAssignee(r) ==
  LET to == Ask[r].to IN
  /\ At(r, "assign", "writing")
  /\ assigned' = [assigned EXCEPT ![Ask[r].traj] = IF seen[r] = to THEN @ ELSE to]
  /\ Notify(r, {to} \ {None})
  /\ Answer(r, "committed")
  /\ Others /\ UNCHANGED <<items, mentions, tags, note>>

Tag(r) == <<Ask[r].traj, Ask[r].mode>>

TagTrajectory(r) ==
  /\ At(r, "tag", "routed")
  /\ \/ Tag(r) \notin Trajectories \X Modes /\ Answer(r, "missing")
     \/ Tag(r) \in tags /\ Answer(r, "ok")
     \/ Tag(r) \in (Trajectories \X Modes) \ tags /\ Proceed(r, None)
  /\ Others /\ UNCHANGED collabVars

(* The primary key refuses a second row. *)
InsertTag(r) ==
  /\ At(r, "tag", "writing")
  /\ IF Tag(r) \in tags THEN Answer(r, "error") ELSE Answer(r, "ok")
  /\ tags' = tags \cup {Tag(r)}
  /\ Others /\ UNCHANGED <<items, mentions, inbox, unread, assigned, note>>

(* Mutant: every failure mode of the trajectory is detached. *)
DetachTag_All(r) ==
  /\ At(r, "untag", "routed")
  /\ tags' = {t \in tags : t[1] # Ask[r].traj} /\ Answer(r, "ok")
  /\ Others /\ UNCHANGED <<items, mentions, inbox, unread, assigned, note>>

DetachTag(r) ==
  /\ At(r, "untag", "routed")
  /\ \/ Ask[r].traj \notin Trajectories /\ Answer(r, "missing") /\ UNCHANGED tags
     \/ Ask[r].traj \in Trajectories /\ Answer(r, "ok") /\ tags' = tags \ {Tag(r)}
  /\ Others /\ UNCHANGED <<items, mentions, inbox, unread, assigned, note>>

PatchNode(r) ==
  /\ At(r, "annotate", "routed")
  /\ IF Ask[r].traj \in Trajectories THEN Proceed(r, note) ELSE Answer(r, "missing")
  /\ Others /\ UNCHANGED collabVars

(* The column is written only if it differs from what was read. *)
WriteNote(r) ==
  LET to == IF Ask[r].clear THEN None ELSE IF Ask[r].note = None THEN seen[r] ELSE Ask[r].note IN
  /\ At(r, "annotate", "writing")
  /\ note' = IF to = seen[r] THEN note ELSE to
  /\ Answer(r, "committed")
  /\ Others /\ UNCHANGED <<items, mentions, inbox, unread, assigned, tags>>

-----------------------------------------------------------------------------
(* Rewrites. *)

InsertRewrite(r) ==
  /\ At(r, "rewrite", "writing")
  /\ items' = [items EXCEPT ![r] = [author |-> by[r], rationale |-> Ask[r].rationale,
                                    steps |-> Ask[r].steps, status |-> Ask[r].status]]
  /\ Answer(r, "committed")
  /\ Others /\ UNCHANGED rest

(* A revision gives some of the columns; a submitted one may go back to    *)
(* draft.                                                                  *)
Revised(old, given) == [k \in DOMAIN old |-> IF k \in DOMAIN given THEN given[k] ELSE old[k]]

UpdateRewrite(r) ==
  \/ Fetch(r, "revise", LAMBDA row : AuthorOrAdmin(r, row))
  \/ Save(r, "revise", Revised(seen[r], Ask[r].given))

DeleteRewrite(r) ==
  \/ Fetch(r, "unwrite", LAMBDA row : AuthorOrAdmin(r, row))
  \/ Remove(r, "unwrite")

CollabNext ==
  \/ \E r \in DOMAIN pc :
       \/ FindTrajectory(r, "comment") \/ InsertComment(r)
       \/ UpdateComment(r) \/ ResolveComment(r) \/ DeleteComment(r)
       \/ MarkRead(r) \/ MarkAllRead(r) \/ WriteRead(r)
       \/ FindTrajectory(r, "share") \/ InsertLink(r) \/ RevokeLink(r) \/ ResolveLink(r)
       \/ Assign(r) \/ WriteAssignee(r)
       \/ TagTrajectory(r) \/ InsertTag(r) \/ DetachTag(r)
       \/ PatchNode(r) \/ WriteNote(r)
       \/ FindTrajectory(r, "rewrite") \/ InsertRewrite(r) \/ UpdateRewrite(r) \/ DeleteRewrite(r)
       \/ ReloadItem(r)
  \/ \E i \in Ids : ExpireLink(i)

-----------------------------------------------------------------------------
(* A reply may be written while its thread is deleted: no reply and no     *)
(* mention is left without its comment (services/comments.py:181).         *)
ThreadsWhole ==
  /\ \A i \in Rows(items) : IsReply(i) => items[i].parent \in Rows(items)
  /\ \A m \in mentions : m[1] \in Rows(items)

(* An answered change of a comment, link or rewrite is undone only by      *)
(* another request for the same column: edits, resolutions, revocations    *)
(* and partial revisions that overlap keep each other's columns            *)
(* (services/rewrites.py:140).                                             *)
SavedStays ==
  \A r \in DOMAIN pc : pc[r] \in {"committed", "ok"} /\ "item" \in DOMAIN Ask[r] =>
    LET i == Ask[r].item
        rivals == {q \in DOMAIN pc : Ask[q].op = Ask[r].op /\ Ask[q].item = i}
    IN i \in Rows(items) =>
       /\ Ask[r].op = "edit" => items[i].body \in {Ask[q].body : q \in rivals}
       /\ Ask[r].op = "resolve" => items[i].resolved
       /\ Ask[r].op = "revoke" => items[i].revoked
       /\ Ask[r].op = "revise" => \A k \in DOMAIN Ask[r].given :
            items[i][k] \in {Ask[q].given[k] : q \in {p \in rivals : k \in DOMAIN Ask[p].given}}

(* A notification is marked read only by a request of its reader that had  *)
(* found it: one that arrives while all are marked stays unread            *)
(* (api/notifications.py:64).                                              *)
ReadWasListed ==
  \A n \in inbox \ unread :
    \E r \in DOMAIN pc : /\ Ask[r].op \in {"read", "readall"} /\ pc[r] = "ok"
                         /\ by[r] = n[2] /\ seen[r] # NoRow /\ n \in seen[r].notices

(* An answered tag is there until someone detaches it: the taggings that   *)
(* race for the row lose at most their answer, one of them being answered  *)
(* 500 where services/failure_modes.py:57 says "idempotent".               *)
TaggedUntilDetached ==
  \A r \in DOMAIN pc : Ask[r].op = "tag" /\ pc[r] = "ok" =>
    \/ Tag(r) \in tags
    \/ \E q \in DOMAIN pc : Ask[q].op = "untag" /\ Tag(q) = Tag(r) /\ pc[q] = "ok"
=============================================================================
