----------------------------- MODULE MCWorkspace -----------------------------
(* Instances of Workspace for TLC. *)
EXTENDS Workspace, TLC

Visit(op) == [op |-> op, cookie |-> "ann"]
VisitOf(user, op) == [op |-> op, cookie |-> user]

Account ==
     "signup1" :> [op |-> "signup", email |-> "new@x", name |-> "new"]
  @@ "signup2" :> [op |-> "signup", email |-> "new@x", name |-> "neu"]
  @@ "login"   :> [op |-> "login", email |-> "ann@x", password |-> TRUE]
  @@ "guess"   :> [op |-> "login", email |-> "ann@x", password |-> FALSE]
  @@ "logout"  :> [op |-> "logout", cookie |-> "ann"]

Admin ==
     "createB"   :> (Visit("create") @@ [name |-> "b", slug |-> None])
  @@ "createAny" :> (Visit("create") @@ [name |-> "B", slug |-> "other"])
  @@ "rotateA"   :> (Visit("rotate") @@ [name |-> "a"])
  @@ "rotateA2"  :> (VisitOf("bob", "rotate") @@ [name |-> "a"])
  @@ "issueL"    :> (Visit("issue") @@ [name |-> "l"])
  @@ "issueL2"   :> (Visit("issue") @@ [name |-> "l"])
  @@ "deleteA"   :> (Visit("delete") @@ [name |-> "a"])
  @@ "renameA"   :> (Visit("patch") @@ [name |-> "a", rename |-> "B", slug |-> None, url |-> None])
  @@ "moveA"     :> (Visit("patch") @@ [name |-> "a", rename |-> None, slug |-> "other", url |-> "typed"])
  @@ "misname"   :> (Visit("patch") @@ [name |-> "l", rename |-> "?", slug |-> None, url |-> None])
  @@ "newOther"  :> (Visit("newproject") @@ [slug |-> "other"])
  @@ "shift"     :> (Visit("reslug") @@ [slug |-> "default", to |-> "base"])
  @@ "unshift"   :> (Visit("reslug") @@ [slug |-> "other", to |-> "default"])
  @@ "dropOther" :> (Visit("dropproject") @@ [slug |-> "other"])
  @@ "dropBase"  :> (Visit("dropproject") @@ [slug |-> "base"])
  @@ "dropDef"   :> (Visit("dropproject") @@ [slug |-> "default"])

Batch(token, sha, package) ==
  [op |-> "post", token |-> token, traj |-> "t", sha |-> sha, short |-> sha, package |-> package,
   url |-> "found"]

Batches ==
     "batch1" :> Batch("tokenA", "s", "p")
  @@ "batch2" :> Batch("tokenA", "s", "p")
  @@ "bare"   :> Batch("tokenA", None, None)
  @@ "part1"  :> Batch("tokenA", "s", None)
  @@ "part2"  :> Batch("tokenA", "s", None)
  @@ "part3"  :> Batch("tokenA", "s", None)
  @@ "cut"    :> [Batch("tokenA", None, None) EXCEPT !.short = "s"]
  @@ "batchR" :> Batch("rotateA", "s", "p")
  @@ "batchC" :> Batch("createB", "s", "p")

Review ==
     "reply"   :> (VisitOf("bob", "comment") @@ [traj |-> "t", parent |-> "c0", body |-> {"ann", "bob", "ann@x"}])
  @@ "nested"  :> (Visit("comment") @@ [traj |-> "t", parent |-> "reply", body |-> {"bob"}])
  @@ "lost"    :> (Visit("comment") @@ [traj |-> "none", parent |-> None, body |-> {}])
  @@ "edit"    :> (Visit("edit") @@ [item |-> "c0", body |-> {"edited"}])
  @@ "editB"   :> (VisitOf("bob", "edit") @@ [item |-> "c0", body |-> {"mine"}])
  @@ "resolve" :> (VisitOf("bob", "resolve") @@ [item |-> "c0"])
  @@ "drop"    :> (Visit("uncomment") @@ [item |-> "c0"])
  @@ "dropB"   :> (VisitOf("bob", "uncomment") @@ [item |-> "c0"])
  @@ "seen"    :> (Visit("read") @@ [notice |-> <<"reply", "ann">>])
  @@ "seenB"   :> (VisitOf("bob", "read") @@ [notice |-> <<"reply", "ann">>])
  @@ "seenAll" :> Visit("readall")
  @@ "seenBob" :> VisitOf("bob", "readall")

Desk ==
     "share"   :> (Visit("share") @@ [traj |-> "t"])
  @@ "revoke"  :> (Visit("revoke") @@ [item |-> "l0"])
  @@ "open"    :> (VisitOf("bob", "open") @@ [item |-> "l0"])
  @@ "assignA" :> (Visit("assign") @@ [traj |-> "t", to |-> "ann"])
  @@ "assignB" :> (Visit("assign") @@ [traj |-> "t", to |-> "bob"])
  @@ "assignB2":> (Visit("assign") @@ [traj |-> "t", to |-> "bob"])
  @@ "unassign":> (Visit("assign") @@ [traj |-> "t", to |-> None])
  @@ "assignX" :> (Visit("assign") @@ [traj |-> "t", to |-> "nobody"])
  @@ "assignN" :> (Visit("assign") @@ [traj |-> "none", to |-> "bob"])
  @@ "tag"     :> (Visit("tag") @@ [traj |-> "t", mode |-> "m"])
  @@ "tag2"    :> (Visit("tag") @@ [traj |-> "t", mode |-> "m"])
  @@ "tagX"    :> (Visit("tag") @@ [traj |-> "t", mode |-> "none"])
  @@ "untag"   :> (Visit("untag") @@ [traj |-> "t", mode |-> "m"])
  @@ "untag2"  :> (Visit("untag") @@ [traj |-> "t", mode |-> "n"])
  @@ "untagN"  :> (Visit("untag") @@ [traj |-> "none", mode |-> "n"])
  @@ "rewrite" :> (VisitOf("bob", "rewrite") @@ [traj |-> "t", rationale |-> "why", steps |-> "s", status |-> "draft"])
  @@ "revise1" :> (Visit("revise") @@ [item |-> "w0", given |-> [rationale |-> "because"]])
  @@ "revise2" :> (VisitOf("bob", "revise") @@ [item |-> "w0", given |-> [status |-> "submitted"]])
  @@ "revise3" :> (Visit("revise") @@ [item |-> "rewrite", given |-> [steps |-> "s2", status |-> "draft"]])
  @@ "unwrite" :> (VisitOf("bob", "unwrite") @@ [item |-> "w0"])
  @@ "noteA"   :> (Visit("annotate") @@ [traj |-> "t", clear |-> FALSE, note |-> "seen"])
  @@ "noteB"   :> (Visit("annotate") @@ [traj |-> "t", clear |-> TRUE, note |-> "seen"])
  @@ "noteX"   :> (Visit("annotate") @@ [traj |-> "none", clear |-> TRUE, note |-> None])

MCAsk == Account @@ Admin @@ Batches @@ Review @@ Desk

MCRequests == DOMAIN MCAsk

MCSeeds == {"ann", "bob", "p0", "p1", "a0", "l1", "tokenA", "c0", "l0", "w0", "nobody"}

MCProfile ==
     "ann" :> [email |-> "ann@x", name |-> "ann", admin |-> TRUE]
  @@ "bob" :> [email |-> "bob@x", name |-> "bob", admin |-> FALSE]

MCStartProjects == "p0" :> "default" @@ "p1" :> "other"

(* A registered agent, and a legacy one that never had a token. *)
MCStartAgents ==
     "a0" :> [name |-> "a", project |-> "p0", token |-> "tokenA", used |-> None, url |-> None]
  @@ "l1" :> [name |-> "l", project |-> "p0", token |-> None, used |-> None, url |-> None]

MCStartItems ==
     "c0" :> [parent |-> None, author |-> "ann", body |-> {"hi"}, resolved |-> FALSE]
  @@ "l0" :> [expired |-> FALSE, revoked |-> FALSE]
  @@ "w0" :> [author |-> "bob", rationale |-> "", steps |-> "s", status |-> "draft"]

MCLower == "a" :> "a" @@ "b" :> "b" @@ "B" :> "b" @@ "l" :> "l" @@ "?" :> "?"

UpTo2(S) == {{a, b} : a, b \in S}
UpTo3(S) == {{a, b, c} : a, b, c \in S}

(* Any two requests of one part at once, and any three of those that meet  *)
(* in the same rows; a few longer sequences.                               *)
MCWorkloads ==
       UpTo2(DOMAIN Admin \cup {"batch1", "bare", "logout"})
  \cup UpTo3({"createB", "moveA", "newOther", "shift", "unshift", "dropOther", "dropBase"})
  \cup UpTo3({"rotateA", "issueL", "issueL2", "moveA", "renameA", "deleteA", "batch1", "batchR"})
  \cup UpTo3({"batch1", "batch2", "bare", "deleteA"})
  \cup UpTo3(DOMAIN Account)
  \cup UpTo2(DOMAIN Review \cup {"logout"})
  \cup UpTo3({"reply", "edit", "resolve", "drop", "seenAll"})
  \cup UpTo2(DOMAIN Desk)
  \cup {{"signup1", "login", "createB"}, {"createB", "batchC"}, {"part1", "part2", "part3"}, {"bare", "cut"},
        {"tag", "tag2", "untag"}, {"assignA", "assignB", "unassign"}, {"assignA", "assignB", "assignB2"},
        {"revise1", "revise2", "unwrite"}, {"rewrite", "revise3"}, {"reply", "seen", "seenAll"},
        {"reply", "nested", "drop", "seenAll"}}
=============================================================================
