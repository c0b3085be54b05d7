--------------------------- MODULE WorkspaceProofs ---------------------------
(***************************************************************************)
(* What every request of an organization can rely on: the life of a        *)
(* request, the users it runs as and their sessions; and on top of it      *)
(* agents, tokens, projects, versions and what batches write; for any      *)
(* requests, served in any order between their SELECTs and their writes.   *)
(***************************************************************************)
EXTENDS Workspace, TLAPS

Active == {"sent", "routed", "writing", "committed"}

AgentOps == {"create", "rotate", "issue", "delete", "patch", "newproject", "reslug",
             "dropproject", "post"}

CollabOps == {"comment", "edit", "resolve", "uncomment", "read", "readall", "share", "revoke",
              "open", "assign", "tag", "untag", "annotate", "rewrite", "revise", "unwrite"}

RequestsOK ==
  /\ DOMAIN pc \subseteq Requests
  /\ pc \in [DOMAIN pc -> Active \cup Answers]
  /\ by \in [DOMAIN pc -> Ids \cup {None}]
  /\ seen = [r \in DOMAIN pc |-> seen[r]]

TablesOK ==
  /\ org \in BOOLEAN
  /\ users \in [Ids -> UserRow \cup {NoRow}]
  /\ sessions \in [Ids -> SessionRow \cup {NoRow}]
  /\ projects \in [Ids -> Slugs \cup {NoRow}]

SessionsOwned == \A s \in Rows(sessions) : sessions[s].user \in Rows(users)

(* Past the dispatcher a request runs as a user that is there. *)
Authorised ==
  \A r \in DOMAIN pc :
    /\ by[r] \in Rows(users) \cup {None}
    /\ pc[r] \in {"routed", "writing", "committed"} /\ Ask[r].op \notin Open => by[r] # None

LoginsFound ==
  \A r \in DOMAIN pc : Ask[r].op = "login" /\ pc[r] = "writing" => seen[r] \in Rows(users)

SignupsSaw ==
  \A r \in DOMAIN pc : Ask[r].op = "signup" /\ pc[r] = "writing" =>
    seen[r] \in BOOLEAN /\ (seen[r] => org)

EmailsUnique == \A u, v \in Rows(users) : users[u].email = users[v].email => u = v

(* Before the organization is made nothing is there, and only a signup is  *)
(* under way.                                                              *)
Untouched ==
  ~ org => /\ Rows(users) = {} /\ Rows(projects) = {} /\ Rows(agents) = {}
           /\ \A r \in DOMAIN pc : pc[r] \in {"routed", "writing", "committed"} => Ask[r].op = "signup"

BInv == /\ RequestsOK /\ TablesOK /\ SessionsOwned /\ Authorised
        /\ LoginsFound /\ SignupsSaw /\ EmailsUnique /\ Untouched

-----------------------------------------------------------------------------
(* The life of a request. *)

(* One request moves on, and the others stay where they are. *)
Served(r) ==
  /\ r \in DOMAIN pc /\ pc[r] \in Active
  /\ DOMAIN pc' = DOMAIN pc
  /\ \A q \in DOMAIN pc : q # r => pc'[q] = pc[q] /\ seen'[q] = seen[q] /\ by'[q] = by[q]
  /\ pc[r] = "committed" => pc'[r] \in {"committed"} \cup Answers
  /\ RequestsOK'

LEMMA Answered ==
  ASSUME RequestsOK, NEW r \in DOMAIN pc, pc[r] \in Active,
         NEW code \in {"committed"} \cup Answers, Answer(r, code)
  PROVE  Served(r) /\ pc'[r] = code /\ by' = by /\ seen' = seen
BY DEF Answer, RequestsOK, Served, Ids, Active

LEMMA Proceeded ==
  ASSUME RequestsOK, NEW r \in DOMAIN pc, pc[r] \in Active, pc[r] # "committed",
         NEW found, Proceed(r, found)
  PROVE  Served(r) /\ pc'[r] = "writing" /\ by' = by /\ seen'[r] = found
BY DEF Proceed, RequestsOK, Served, Ids, Active

(* What a step of a handler does to requests. *)
Handled(r) == Served(r) /\ by' = by

LEMMA Handles ==
  ASSUME RequestsOK, NEW r \in DOMAIN pc, pc[r] \in Active
  PROVE  /\ \A code \in {"committed"} \cup Answers :
              Answer(r, code) => Handled(r) /\ pc'[r] = code /\ seen' = seen
         /\ \A found : pc[r] # "committed" /\ Proceed(r, found) => Handled(r) /\ pc'[r] = "writing" /\ seen'[r] = found
BY Answered, Proceeded DEF Handled

LEMMA AgentsServe ==
  ASSUME RequestsOK, AgentsNext
  PROVE  \E r \in DOMAIN pc :
           /\ Handled(r) /\ Ask[r].op \in AgentOps /\ UNCHANGED accountVars
           /\ pc[r] = "sent" =>
                /\ Ask[r].op = "post" /\ UNCHANGED <<projects, agents>>
                /\ pc'[r] = "unauthorized" \/ Rows(agents) # {}
<1> PICK r \in DOMAIN pc :
    \/ CreateAgent(r) \/ InsertAgent(r)
    \/ Select(r, "rotate") \/ Select(r, "issue") \/ Mint(r) \/ HasToken(r)
    \/ Select(r, "delete") \/ DeleteAgent(r)
    \/ PatchAgent(r) \/ WritePatch(r)
    \/ CreateProject(r) \/ UpdateProject(r) \/ WriteSlug(r)
    \/ DeleteProject(r) \/ DropProject(r) \/ Reload(r)
    \/ Authorise(r) \/ ResolveVersion(r) \/ WriteBatch(r)
  BY DEF AgentsNext
<1>0. "routed" \in Active /\ "writing" \in Active /\ "committed" \in Active /\ "sent" \in Active
  BY DEF Active
<1>h. pc[r] \in Active =>
        /\ \A code \in {"committed"} \cup Answers : Answer(r, code) => Handled(r) /\ pc'[r] = code
        /\ \A found : pc[r] # "committed" /\ Proceed(r, found) => Handled(r)
  BY Handles
<1>1. CASE CreateAgent(r)
  BY <1>0, <1>h, <1>1 DEF CreateAgent, At, AgentOps, Answers
<1>2. CASE InsertAgent(r)
  BY <1>0, <1>h, <1>2 DEF InsertAgent, Refuse, At, AgentOps, Answers
<1>3. CASE Select(r, "rotate") \/ Select(r, "issue") \/ Select(r, "delete")
  BY <1>0, <1>h, <1>3 DEF Select, At, AgentOps, Answers
<1>4. CASE Mint(r) \/ HasToken(r)
  BY <1>0, <1>h, <1>4 DEF Mint, HasToken, Refuse, At, AgentOps, Answers
<1>5. CASE DeleteAgent(r)
  BY <1>0, <1>h, <1>5 DEF DeleteAgent, At, AgentOps, Answers
<1>6. CASE PatchAgent(r)
  BY <1>0, <1>h, <1>6 DEF PatchAgent, At, AgentOps, Answers
<1>7. CASE WritePatch(r)
  BY <1>0, <1>h, <1>7 DEF WritePatch, Refuse, At, AgentOps, Answers
<1>8. CASE CreateProject(r) \/ UpdateProject(r)
  BY <1>0, <1>h, <1>8 DEF CreateProject, UpdateProject, At, AgentOps, Answers
<1>9. CASE WriteSlug(r)
  BY <1>0, <1>h, <1>9 DEF WriteSlug, Refuse, At, AgentOps, Answers
<1>10. CASE DeleteProject(r)
  BY <1>0, <1>h, <1>10 DEF DeleteProject, At, AgentOps, Answers
<1>11. CASE DropProject(r) \/ Reload(r)
  BY <1>0, <1>h, <1>11 DEF DropProject, Reload, Refuse, At, AgentOps, Answers
<1>12. CASE Authorise(r)
  <2>1. r \in DOMAIN pc /\ Ask[r].op = "post" /\ pc[r] = "sent"
    BY <1>12 DEF Authorise, At
  <2>2. CASE Bearers(Ask[r].token) = {}
    BY <1>0, <1>h, <1>12, <2>1, <2>2 DEF Authorise, AgentOps, Answers, agentVars
  <2>3. CASE Bearers(Ask[r].token) # {}
    <3>1. Handled(r) /\ UNCHANGED accountVars /\ UNCHANGED <<projects, agents>>
      BY <1>0, <1>12, <2>1, <2>3 DEF Authorise, Handled, Served, RequestsOK, Ids, agentVars
    <3> QED BY <2>1, <2>3, <3>1 DEF AgentOps, Bearers
  <2> QED BY <2>2, <2>3
<1>13. CASE ResolveVersion(r)
  BY <1>0, <1>h, <1>13 DEF ResolveVersion, At, AgentOps, Answers
<1>14. CASE WriteBatch(r)
  BY <1>0, <1>h, <1>14 DEF WriteBatch, Refuse, At, AgentOps, Answers
<1> QED BY <1>1, <1>2, <1>3, <1>4, <1>5, <1>6, <1>7, <1>8, <1>9, <1>10, <1>11, <1>12, <1>13, <1>14

LEMMA CollabServe ==
  ASSUME RequestsOK, CollabNext
  PROVE  /\ UNCHANGED <<org, users, sessions, projects>>
         /\ \/ UNCHANGED requestVars
            \/ \E r \in DOMAIN pc : Handled(r) /\ Ask[r].op \in CollabOps /\ pc[r] # "sent"
<1> DEFINE Fine(r) == /\ Handled(r) /\ Ask[r].op \in CollabOps /\ pc[r] # "sent"
                      /\ UNCHANGED projects /\ UNCHANGED accountVars
<1>0. "routed" \in Active /\ "writing" \in Active /\ "committed" \in Active
  BY DEF Active
<1>1. ASSUME NEW i \in Ids, ExpireLink(i)
      PROVE  UNCHANGED projects /\ UNCHANGED accountVars /\ UNCHANGED requestVars
  BY <1>1 DEF ExpireLink, Others
<1>2. ASSUME NEW r \in DOMAIN pc
      PROVE  /\ FindTrajectory(r, "comment") \/ InsertComment(r) => Fine(r)
             /\ UpdateComment(r) \/ ResolveComment(r) \/ DeleteComment(r) => Fine(r)
             /\ MarkRead(r) \/ MarkAllRead(r) \/ WriteRead(r) => Fine(r)
             /\ FindTrajectory(r, "share") \/ InsertLink(r) \/ RevokeLink(r) \/ ResolveLink(r) => Fine(r)
             /\ Assign(r) \/ WriteAssignee(r) \/ TagTrajectory(r) \/ InsertTag(r) => Fine(r)
             /\ DetachTag(r) \/ PatchNode(r) \/ WriteNote(r) => Fine(r)
             /\ FindTrajectory(r, "rewrite") \/ InsertRewrite(r) => Fine(r)
             /\ UpdateRewrite(r) \/ DeleteRewrite(r) \/ ReloadItem(r) => Fine(r)
  <2>h. pc[r] \in Active =>
          /\ \A code \in {"committed"} \cup Answers : Answer(r, code) => Handled(r)
          /\ \A found : pc[r] # "committed" /\ Proceed(r, found) => Handled(r)
    BY Handles
  <2>1. FindTrajectory(r, "comment") \/ InsertComment(r) => Fine(r)
    BY <1>0, <2>h DEF FindTrajectory, InsertComment, Others, At, CollabOps, Answers
  <2>2. UpdateComment(r) => Fine(r)
    BY <1>0, <2>h DEF UpdateComment, Fetch, Save, Others, At, CollabOps, Answers
  <2>3. ResolveComment(r) => Fine(r)
    BY <1>0, <2>h DEF ResolveComment, Fetch, Save, Others, At, CollabOps, Answers
  <2>4. DeleteComment(r) => Fine(r)
    BY <1>0, <2>h DEF DeleteComment, Fetch, Remove, Others, At, CollabOps, Answers
  <2>5. MarkRead(r) \/ MarkAllRead(r) \/ WriteRead(r) => Fine(r)
    BY <1>0, <2>h DEF MarkRead, MarkAllRead, WriteRead, Others, At, CollabOps, Answers
  <2>6. FindTrajectory(r, "share") \/ InsertLink(r) => Fine(r)
    BY <1>0, <2>h DEF FindTrajectory, InsertLink, Others, At, CollabOps, Answers
  <2>7. RevokeLink(r) => Fine(r)
    BY <1>0, <2>h DEF RevokeLink, Fetch, Save, Others, At, CollabOps, Answers
  <2>8. ResolveLink(r) => Fine(r)
    BY <1>0, <2>h DEF ResolveLink, Others, At, CollabOps, Answers
  <2>9. Assign(r) \/ WriteAssignee(r) => Fine(r)
    BY <1>0, <2>h DEF Assign, WriteAssignee, Others, At, CollabOps, Answers
  <2>10. TagTrajectory(r) \/ InsertTag(r) => Fine(r)
    BY <1>0, <2>h DEF TagTrajectory, InsertTag, Others, At, CollabOps, Answers
  <2>11. DetachTag(r) \/ PatchNode(r) \/ WriteNote(r) => Fine(r)
    BY <1>0, <2>h DEF DetachTag, PatchNode, WriteNote, Others, At, CollabOps, Answers
  <2>12. FindTrajectory(r, "rewrite") \/ InsertRewrite(r) => Fine(r)
    BY <1>0, <2>h DEF FindTrajectory, InsertRewrite, Others, At, CollabOps, Answers
  <2>13. UpdateRewrite(r) => Fine(r)
    BY <1>0, <2>h DEF UpdateRewrite, Fetch, Save, Others, At, CollabOps, Answers
  <2>14. DeleteRewrite(r) => Fine(r)
    BY <1>0, <2>h DEF DeleteRewrite, Fetch, Remove, Others, At, CollabOps, Answers
  <2>15. ReloadItem(r) => Fine(r)
    BY <1>0, <2>h DEF ReloadItem, Others, CollabOps, Answers
  <2> HIDE DEF Fine
  <2> QED BY <2>1, <2>2, <2>3, <2>4, <2>5, <2>6, <2>7, <2>8, <2>9, <2>10, <2>11, <2>12, <2>13,
             <2>14, <2>15
<1>3. (\E i \in Ids : ExpireLink(i)) \/ \E r \in DOMAIN pc : Fine(r)
  <2> HIDE DEF Fine
  <2> QED BY <1>2 DEF CollabNext
<1> QED BY <1>1, <1>3 DEF accountVars

LEMMA IdsKept ==
  ASSUME DOMAIN pc' = DOMAIN pc
  PROVE  Ids' = Ids
BY DEF Ids

LEMMA ProjectsTyped ==
  ASSUME RequestsOK, TablesOK, AgentsNext
  PROVE  projects' \in [Ids -> Slugs \cup {NoRow}]
<1> PICK r \in DOMAIN pc :
    \/ CreateAgent(r) \/ InsertAgent(r)
    \/ Select(r, "rotate") \/ Select(r, "issue") \/ Mint(r) \/ HasToken(r)
    \/ Select(r, "delete") \/ DeleteAgent(r)
    \/ PatchAgent(r) \/ WritePatch(r)
    \/ CreateProject(r) \/ UpdateProject(r) \/ WriteSlug(r)
    \/ DeleteProject(r) \/ DropProject(r) \/ Reload(r)
    \/ Authorise(r) \/ ResolveVersion(r) \/ WriteBatch(r)
  BY DEF AgentsNext
<1>1. CASE InsertAgent(r)
  BY <1>1 DEF InsertAgent, Refuse, TablesOK, Slugs
<1>2. CASE WriteSlug(r)
  <2>1. r \in Requests
    BY DEF RequestsOK
  <2> QED BY <1>2, <2>1 DEF WriteSlug, Refuse, TablesOK, Slugs, Asked, At
<1>3. CASE DropProject(r)
  BY <1>3 DEF DropProject, Refuse, TablesOK
<1>4. UNCHANGED projects => projects' \in [Ids -> Slugs \cup {NoRow}]
  BY DEF TablesOK
<1> QED BY <1>1, <1>2, <1>3, <1>4 DEF CreateAgent, Select, Mint, Refuse, HasToken, DeleteAgent,
          PatchAgent, WritePatch, CreateProject, UpdateProject, DeleteProject, Reload,
          Authorise, ResolveVersion, WriteBatch

-----------------------------------------------------------------------------
(* The steps keep BInv. *)

(* A step of a handler that changes neither users nor sessions. *)
LEMMA HandledKeeps ==
  ASSUME BInv, NEW r, Handled(r), UNCHANGED <<users, sessions>>, org => org',
         org' \in BOOLEAN,
         projects' \in [Ids -> Slugs \cup {NoRow}],
         pc[r] = "sent" => Ask[r].op \in Open,
         Ask[r].op \notin {"login", "signup"}, Untouched'
  PROVE  BInv'
<1>1. /\ r \in DOMAIN pc /\ DOMAIN pc' = DOMAIN pc /\ Ids' = Ids /\ pc[r] \in Active
      /\ by' = by /\ RequestsOK' /\ Rows(users)' = Rows(users)
      /\ \A q \in DOMAIN pc : q # r => pc'[q] = pc[q] /\ seen'[q] = seen[q]
  BY IdsKept DEF Handled, Served, Rows
<1>2. TablesOK' /\ SessionsOwned' /\ EmailsUnique'
  BY <1>1 DEF BInv, TablesOK, SessionsOwned, EmailsUnique, SessionRow, Rows
<1>3. Authorised'
  <2> SUFFICES ASSUME NEW q \in DOMAIN pc
               PROVE  /\ by[q] \in Rows(users) \cup {None}
                      /\ pc'[q] \in {"routed", "writing", "committed"} /\ Ask[q].op \notin Open => by[q] # None
    BY <1>1 DEF Authorised
  <2> QED BY <1>1 DEF BInv, Authorised, Active
<1>4. LoginsFound'
  BY <1>1 DEF BInv, LoginsFound
<1>5. SignupsSaw'
  BY <1>1 DEF BInv, SignupsSaw
<1> QED BY <1>1, <1>2, <1>3, <1>4, <1>5 DEF BInv

LEMMA AgentsKeep ==
  ASSUME BInv, AgentsNext
  PROVE  BInv'
<1> PICK r \in DOMAIN pc :
      /\ Handled(r) /\ Ask[r].op \in AgentOps /\ UNCHANGED accountVars
      /\ pc[r] = "sent" =>
           /\ Ask[r].op = "post" /\ UNCHANGED <<projects, agents>>
           /\ pc'[r] = "unauthorized" \/ Rows(agents) # {}
  BY AgentsServe DEF BInv
<1>1. projects' \in [Ids -> Slugs \cup {NoRow}]
  BY ProjectsTyped DEF BInv
<1>2. Untouched'
  <2>1. CASE org
    BY <2>1 DEF Untouched, accountVars
  <2>2. CASE ~ org
    <3>1. /\ Rows(agents) = {}
          /\ \A q \in DOMAIN pc : pc[q] \in {"routed", "writing", "committed"} => Ask[q].op = "signup"
      BY <2>2 DEF BInv, Untouched
    <3>2. /\ pc[r] \in Active /\ Ask[r].op # "signup" /\ DOMAIN pc' = DOMAIN pc
          /\ \A q \in DOMAIN pc : q # r => pc'[q] = pc[q]
      BY DEF Handled, Served, AgentOps
    <3>3. pc[r] = "sent"
      BY <3>1, <3>2 DEF Active
    <3>4. pc'[r] = "unauthorized" /\ UNCHANGED <<projects, agents, users>>
      BY <3>1, <3>3 DEF accountVars
    <3> QED BY <2>2, <3>1, <3>2, <3>4 DEF BInv, Untouched, Rows
  <2> QED BY <2>1, <2>2
<1>3. Ask[r].op \notin {"login", "signup"} /\ (pc[r] = "sent" => Ask[r].op \in Open)
  BY DEF AgentOps, Open
<1>4. UNCHANGED <<users, sessions>> /\ org' = org /\ org \in BOOLEAN
  BY DEF accountVars, BInv, TablesOK
<1> QED BY <1>1, <1>2, <1>3, <1>4, HandledKeeps

LEMMA CollabKeeps ==
  ASSUME BInv, CollabNext, UNCHANGED agentVars
  PROVE  BInv'
<1>1. /\ UNCHANGED <<org, users, sessions, projects, agents>>
      /\ \/ UNCHANGED requestVars
         \/ \E r \in DOMAIN pc : Handled(r) /\ Ask[r].op \in CollabOps /\ pc[r] # "sent"
  BY CollabServe DEF BInv, agentVars
<1>2. CASE UNCHANGED requestVars
  BY <1>1, <1>2 DEF BInv, RequestsOK, TablesOK, SessionsOwned, Authorised, LoginsFound, SignupsSaw,
     EmailsUnique, Untouched, requestVars, Ids, Rows, SessionRow
<1>3. ASSUME NEW r \in DOMAIN pc, Handled(r), Ask[r].op \in CollabOps, pc[r] # "sent"
      PROVE  BInv'
  <2>1. org
    <3>1. pc[r] \in {"routed", "writing", "committed"} /\ Ask[r].op # "signup"
      BY <1>3 DEF Handled, Served, Active, CollabOps
    <3> QED BY <3>1 DEF BInv, Untouched
  <2>2. Untouched' /\ org' \in BOOLEAN /\ org' = org
    BY <1>1, <2>1 DEF Untouched
  <2>3. projects' \in [Ids -> Slugs \cup {NoRow}]
    BY <1>1 DEF BInv, TablesOK
  <2>4. Ask[r].op \notin {"login", "signup"}
    BY <1>3 DEF CollabOps
  <2> QED BY <1>1, <1>3, <2>2, <2>3, <2>4, HandledKeeps
<1> QED BY <1>1, <1>2, <1>3

LEMMA DispatchKeeps ==
  ASSUME BInv, NEW r \in DOMAIN pc, Dispatch(r), UNCHANGED agents
  PROVE  BInv'
<1> PICK user : user = UserOf(Ask[r].cookie)
  OBVIOUS
<1>1. user \in Rows(users) \cup {None} /\ (user # None => org)
  BY DEF UserOf, BInv, SessionsOwned, Untouched
<1>2. user \in Ids \cup {None}
  BY <1>1 DEF BInv, TablesOK, Rows
<1>3. /\ pc' = [pc EXCEPT ![r] = IF user = None THEN "unauthorized" ELSE "routed"]
      /\ by' = [by EXCEPT ![r] = user] /\ seen' = seen /\ Ask[r].op \notin Open
      /\ UNCHANGED <<org, users, sessions, projects>>
  BY DEF Dispatch, accountVars
<1>4. RequestsOK' /\ Ids' = Ids /\ DOMAIN pc' = DOMAIN pc /\ Rows(users)' = Rows(users)
  BY <1>2, <1>3 DEF BInv, RequestsOK, Active, Answers, Ids, Rows
<1>5. TablesOK' /\ SessionsOwned' /\ EmailsUnique'
  BY <1>3, <1>4 DEF BInv, TablesOK, SessionsOwned, EmailsUnique, SessionRow, Rows
<1>6. Authorised'
  BY <1>1, <1>3, <1>4 DEF BInv, Authorised, RequestsOK
<1>7. LoginsFound' /\ SignupsSaw'
  <2>1. Ask[r].op # "login" /\ Ask[r].op # "signup"
    BY <1>3 DEF Open
  <2>2. \A q \in DOMAIN pc : q # r => pc'[q] = pc[q]
    BY <1>3
  <2>3. LoginsFound'
    BY <1>3, <1>4, <2>1, <2>2 DEF BInv, LoginsFound
  <2>4. SignupsSaw'
    BY <1>3, <1>4, <2>1, <2>2 DEF BInv, SignupsSaw
  <2> QED BY <2>3, <2>4
<1>8. Untouched'
  BY <1>1, <1>3, <1>4 DEF BInv, Untouched, Rows, RequestsOK
<1> QED BY <1>4, <1>5, <1>6, <1>7, <1>8 DEF BInv

(* A step that leaves users alone, of a request that is done with it or    *)
(* goes on as a login or a signup does.                                    *)
LEMMA AccountStep ==
  ASSUME BInv, NEW r, Handled(r), UNCHANGED <<org, users, projects, agents>>,
         sessions' \in [Ids -> SessionRow \cup {NoRow}], SessionsOwned',
         \/ pc'[r] \in Answers
         \/ pc'[r] = "writing" /\ Ask[r].op = "login" /\ seen'[r] \in Rows(users)
         \/ pc'[r] = "writing" /\ Ask[r].op = "signup" /\ seen'[r] = org
  PROVE  BInv'
<1>1. /\ r \in DOMAIN pc /\ DOMAIN pc' = DOMAIN pc /\ Ids' = Ids
      /\ by' = by /\ RequestsOK' /\ Rows(users)' = Rows(users)
      /\ \A q \in DOMAIN pc : q # r => pc'[q] = pc[q] /\ seen'[q] = seen[q]
  BY IdsKept DEF Handled, Served, Rows
<1>2. TablesOK' /\ EmailsUnique'
  BY <1>1 DEF BInv, TablesOK, EmailsUnique, SessionRow, Rows
<1>3. pc'[r] \in {"routed", "writing", "committed"} => Ask[r].op \in {"login", "signup"}
  BY DEF Answers
<1>4. Authorised'
  BY <1>1, <1>3 DEF BInv, Authorised, Open
<1>5. LoginsFound'
  BY <1>1 DEF BInv, LoginsFound, Answers
<1>6. SignupsSaw'
  BY <1>1 DEF BInv, SignupsSaw, Answers, TablesOK
<1>7. Untouched'
  <2>1. Rows(users) # {} => org
    BY DEF BInv, Untouched
  <2> QED BY <1>1, <1>3, <2>1 DEF BInv, Untouched, Rows, Answers
<1> QED BY <1>1, <1>2, <1>4, <1>5, <1>6, <1>7 DEF BInv

LEMMA SessionsKeep ==
  ASSUME BInv, NEW r \in DOMAIN pc, UNCHANGED agents,
         Fail(r) \/ Signup(r) \/ Login(r) \/ CreateSession(r) \/ Logout(r)
  PROVE  BInv'
<1>0. RequestsOK /\ SessionsOwned /\ sessions \in [Ids -> SessionRow \cup {NoRow}]
  BY DEF BInv, TablesOK
<1>h. pc[r] \in Active =>
        /\ \A code \in Answers : Answer(r, code) => Handled(r) /\ pc'[r] \in Answers
        /\ \A found : pc[r] # "committed" /\ Proceed(r, found) =>
              Handled(r) /\ pc'[r] = "writing" /\ seen'[r] = found
  BY <1>0, Handles
<1>a. {"sent", "routed", "writing", "committed"} = Active
  BY DEF Active
<1>s. ASSUME Handled(r), UNCHANGED sessions, UNCHANGED users
      PROVE  sessions' \in [Ids -> SessionRow \cup {NoRow}] /\ SessionsOwned'
  BY <1>0, <1>s DEF SessionsOwned, Rows
<1>1. CASE Fail(r)
  <2>1. Handled(r) /\ pc'[r] \in Answers /\ UNCHANGED <<org, users, sessions, projects>>
    BY <1>h, <1>a, <1>1 DEF Fail, accountVars, Answers
  <2> QED BY <1>s, <2>1, AccountStep
<1>2. CASE Signup(r)
  <2>1. /\ Handled(r) /\ UNCHANGED <<org, users, sessions, projects>>
        /\ Ask[r].op = "signup"
        /\ pc'[r] \in Answers \/ (pc'[r] = "writing" /\ seen'[r] = org)
    BY <1>h, <1>a, <1>2 DEF Signup, At, accountVars, Answers
  <2> QED BY <1>s, <2>1, AccountStep
<1>3. CASE Login(r)
  <2>1. /\ Handled(r) /\ UNCHANGED <<org, users, sessions, projects>>
        /\ Ask[r].op = "login"
        /\ pc'[r] \in Answers \/ (pc'[r] = "writing" /\ seen'[r] \in Rows(users))
    BY <1>h, <1>a, <1>3 DEF Login, At, accountVars, Answers
  <2> QED BY <1>s, <2>1, AccountStep
<1>4. CASE CreateSession(r)
  <2>1. /\ Handled(r) /\ UNCHANGED <<org, users, projects>> /\ pc'[r] \in Answers
        /\ seen[r] \in Rows(users) /\ InsertSession(r, seen[r])
    BY <1>h, <1>a, <1>4 DEF CreateSession, At, Answers, BInv, LoginsFound
  <2>2. seen[r] \in Ids
    BY <2>1 DEF BInv, TablesOK, Rows
  <2>3. PICK row : row = [user |-> seen[r], live |-> TRUE]
    OBVIOUS
  <2>4. row \in SessionRow /\ row.user = seen[r] /\ sessions' = [sessions EXCEPT ![r] = row]
    BY <2>1, <2>2, <2>3 DEF SessionRow, InsertSession
  <2>5. /\ sessions' \in [Ids -> SessionRow \cup {NoRow}]
        /\ \A s \in Rows(sessions') : sessions'[s] = row \/ (s \in Rows(sessions) /\ sessions'[s] = sessions[s])
    BY <1>0, <2>4 DEF Rows
  <2>6. SessionsOwned'
    BY <1>0, <2>1, <2>4, <2>5 DEF SessionsOwned, Rows
  <2> QED BY <2>1, <2>5, <2>6, AccountStep
<1>5. CASE Logout(r)
  <2>1. /\ Handled(r) /\ UNCHANGED <<org, users, projects>> /\ pc'[r] \in Answers
    BY <1>h, <1>a, <1>5 DEF Logout, At, Answers
  <2>2. sessions' = [s \in Ids |-> IF s = Ask[r].cookie THEN NoRow ELSE sessions[s]]
    BY <1>5 DEF Logout
  <2>3. sessions' \in [Ids -> SessionRow \cup {NoRow}] /\ SessionsOwned'
    BY <1>0, <2>1, <2>2 DEF SessionsOwned, Rows
  <2> QED BY <2>1, <2>3, AccountStep
<1> QED BY <1>1, <1>2, <1>3, <1>4, <1>5

LEMMA CreateUserKeeps ==
  ASSUME BInv, NEW r \in DOMAIN pc, UNCHANGED agents, CreateUser(r)
  PROVE  BInv'
<1>0. /\ RequestsOK /\ r \in Ids /\ r \in Requests /\ pc[r] \in Active /\ pc[r] = "writing"
      /\ Ask[r].op = "signup"
      /\ seen[r] \in BOOLEAN /\ (seen[r] => org)
  BY DEF BInv, RequestsOK, Ids, CreateUser, At, Active, SignupsSaw
<1>1. CASE (org /\ ~seen[r]) \/ Taken(Ask[r].email)
  <2>1. Answer(r, "error") /\ UNCHANGED <<org, users, sessions, projects>>
    BY <1>1 DEF CreateUser, accountVars
  <2>2. Handled(r) /\ pc'[r] \in Answers
    BY <1>0, <2>1, Handles DEF Answers
  <2>3. sessions' \in [Ids -> SessionRow \cup {NoRow}] /\ SessionsOwned'
    BY <2>1 DEF BInv, TablesOK, SessionsOwned, Rows
  <2> QED BY <2>1, <2>2, <2>3, AccountStep
<1>2. CASE ~ ((org /\ ~seen[r]) \/ Taken(Ask[r].email))
  <2>0. /\ ~ (org /\ ~ seen[r]) /\ ~ Taken(Ask[r].email)
        /\ Bootstrap(r) /\ InsertUser(r) /\ InsertSession(r, r) /\ Answer(r, "ok")
    BY <1>2 DEF CreateUser
  <2>1. /\ Handled(r) /\ pc'[r] = "ok" /\ DOMAIN pc' = DOMAIN pc /\ Ids' = Ids
        /\ by' = by /\ RequestsOK'
        /\ \A q \in DOMAIN pc : q # r => pc'[q] = pc[q] /\ seen'[q] = seen[q]
    BY <1>0, <2>0, Handles, IdsKept DEF Handled, Served, Answers
  <2>2. org' = TRUE /\ projects' \in [Ids -> Slugs \cup {NoRow}]
    BY <1>0, <2>0 DEF Bootstrap, BInv, TablesOK, Slugs
  <2>3. PICK row : row = [email |-> Ask[r].email, name |-> Ask[r].name, admin |-> TRUE]
    OBVIOUS
  <2>4. /\ row \in UserRow /\ row # NoRow /\ row.email = Ask[r].email
        /\ users' = [users EXCEPT ![r] = row]
    <3>1. Ask[r].email \in Emails /\ Ask[r].name \in STRING
      BY <1>0, UsersAssumption DEF Emails
    <3>2. row \in UserRow /\ row.email = Ask[r].email
      BY <2>3, <3>1 DEF UserRow
    <3>3. users' = [users EXCEPT ![r] = row]
      BY <2>0, <2>3 DEF InsertUser
    <3> QED BY <3>2, <3>3, UsersAssumption
  <2>5. /\ users' \in [Ids -> UserRow \cup {NoRow}]
        /\ users'[r] = row /\ \A u \in Ids \ {r} : users'[u] = users[u]
        /\ Rows(users') = Rows(users) \cup {r} /\ Rows(users) \subseteq Ids
    BY <1>0, <2>4 DEF BInv, TablesOK, Rows
  <2>6. PICK srow : srow = [user |-> r, live |-> TRUE]
    OBVIOUS
  <2>7. srow \in SessionRow /\ srow.user = r /\ sessions' = [sessions EXCEPT ![r] = srow]
    BY <1>0, <2>0, <2>6 DEF SessionRow, InsertSession
  <2>8. /\ sessions' \in [Ids -> SessionRow \cup {NoRow}]
        /\ \A s \in Rows(sessions') : sessions'[s] = srow \/ (s \in Rows(sessions) /\ sessions'[s] = sessions[s])
    BY <2>7 DEF BInv, TablesOK, Rows
  <2>9. SessionsOwned'
    BY <2>5, <2>7, <2>8 DEF BInv, SessionsOwned
  <2>10. TablesOK'
    BY <2>1, <2>2, <2>5, <2>8 DEF TablesOK, SessionRow
  <2>11. EmailsUnique'
    <3>1. \A u \in Rows(users) : users[u].email # row.email
      BY <2>0, <2>4 DEF Taken
    <3> QED BY <2>5, <3>1 DEF BInv, EmailsUnique
  <2>12. Authorised' /\ LoginsFound'
    <3>1. Authorised'
      BY <1>0, <2>1, <2>5 DEF BInv, Authorised
    <3>2. LoginsFound'
      BY <1>0, <2>1, <2>5 DEF BInv, LoginsFound
    <3> QED BY <3>1, <3>2
  <2>13. SignupsSaw' /\ Untouched'
    <3>1. SignupsSaw'
      BY <2>1, <2>2 DEF BInv, SignupsSaw
    <3> QED BY <2>2, <3>1 DEF Untouched
  <2> QED BY <2>1, <2>9, <2>10, <2>11, <2>12, <2>13 DEF BInv
<1> QED BY <1>1, <1>2

LEMMA ExpireKeeps ==
  ASSUME BInv, NEW s \in Ids, Expire(s), UNCHANGED agents
  PROVE  BInv'
<1>1. /\ s \in Rows(sessions) /\ sessions' = [sessions EXCEPT ![s].live = FALSE]
      /\ UNCHANGED <<org, users, projects, pc, by, seen>>
  BY DEF Expire, requestVars
<1>2. PICK row : row = [sessions[s] EXCEPT !.live = FALSE]
  OBVIOUS
<1>3. /\ row \in SessionRow /\ row.user = sessions[s].user
      /\ sessions' = [sessions EXCEPT ![s] = row]
  BY <1>1, <1>2 DEF BInv, TablesOK, SessionRow, Rows
<1>4. /\ sessions' \in [Ids -> SessionRow \cup {NoRow}]
      /\ \A q \in Rows(sessions') : q \in Rows(sessions) /\ sessions'[q].user = sessions[q].user
  BY <1>1, <1>3 DEF BInv, TablesOK, Rows
<1>5. SessionsOwned' /\ TablesOK'
  BY <1>1, <1>4 DEF BInv, SessionsOwned, TablesOK, Ids, SessionRow, Rows
<1> QED BY <1>1, <1>5 DEF BInv, RequestsOK, Ids, Authorised, LoginsFound, SignupsSaw, EmailsUnique,
           Untouched, Rows

LEMMA AccountsKeep ==
  ASSUME BInv, AccountsNext, UNCHANGED agentVars
  PROVE  BInv'
<1>1. UNCHANGED agents
  BY DEF agentVars
<1> QED BY <1>1, DispatchKeeps, SessionsKeep, CreateUserKeeps, ExpireKeeps DEF AccountsNext

LEMMA BaseInit ==
  ASSUME Init
  PROVE  BInv
<1>1. PICK W \in Workloads : /\ pc = [r \in W |-> "sent"] /\ by = [r \in W |-> None]
                             /\ seen = [r \in W |-> NoRow]
  BY DEF Init, AccountsInit
<1>2. DOMAIN pc = W /\ W \subseteq Requests /\ \A r \in DOMAIN pc : pc[r] = "sent" /\ by[r] = None
  BY <1>1, AccountsAssumption
<1>3. RequestsOK
  BY <1>1, <1>2 DEF RequestsOK, Active
<1>4. /\ Members \subseteq Ids /\ org \in BOOLEAN
      /\ \/ users = [id \in Ids |-> IF id \in Members THEN Profile[id] ELSE NoRow]
         \/ users = [id \in Ids |-> NoRow]
      /\ (~ org => Rows(users) = {})
      /\ sessions = [id \in Ids |-> IF id \in Rows(users) THEN [user |-> id, live |-> TRUE] ELSE NoRow]
  BY AccountsAssumption DEF Init, AccountsInit, Ids
<1>5. users \in [Ids -> UserRow \cup {NoRow}]
  BY <1>4, UsersAssumption
<1>6. \A id \in Rows(users) : id \in Members /\ users[id] = Profile[id] /\ id \in Ids
  BY <1>4 DEF Rows
<1>7. EmailsUnique
  BY <1>6, UsersAssumption DEF EmailsUnique
<1>8. sessions \in [Ids -> SessionRow \cup {NoRow}] /\ SessionsOwned
  <2>1. \A id \in Ids : [user |-> id, live |-> TRUE] \in SessionRow
    BY DEF SessionRow
  <2>2. sessions \in [Ids -> SessionRow \cup {NoRow}]
    BY <1>4, <2>1
  <2>3. \A s \in Rows(sessions) : s \in Rows(users) /\ sessions[s].user = s
    BY <1>4 DEF Rows
  <2> QED BY <2>2, <2>3 DEF SessionsOwned
<1>9. projects \in [Ids -> Slugs \cup {NoRow}]
  BY DEF Init, AgentsInit, Slugs
<1>10. Untouched
  <2>1. ~ org => Rows(projects) = {} /\ Rows(agents) = {}
    BY DEF Init, AgentsInit, Rows
  <2> QED BY <1>2, <1>4, <2>1 DEF Untouched
<1> QED BY <1>2, <1>3, <1>4, <1>5, <1>7, <1>8, <1>9, <1>10 DEF BInv, TablesOK, Authorised,
           LoginsFound, SignupsSaw

LEMMA BaseStep ==
  ASSUME BInv, [Next]_vars
  PROVE  BInv'
<1>1. CASE UNCHANGED vars
  BY <1>1 DEF vars, requestVars, accountVars, agentVars, BInv, RequestsOK, TablesOK, SessionsOwned,
     Authorised, LoginsFound, SignupsSaw, EmailsUnique, Untouched, Ids, Rows, SessionRow
<1> QED BY <1>1, AccountsKeep, AgentsKeep, CollabKeeps DEF Next

(* Every session is of a user that is there, and every request past the    *)
(* dispatcher runs as one; two signups that both found no user never make  *)
(* two users of one e-mail, nor an organization twice; and before there is *)
(* an organization nothing else is written.                                *)
THEOREM BaseInvariant == Spec => []BInv
<1>1. Init => BInv
  BY BaseInit
<1>2. BInv /\ [Next]_vars => BInv'
  BY BaseStep
<1> QED BY <1>1, <1>2, PTL DEF Spec

-----------------------------------------------------------------------------
(* Agents, tokens, projects, versions, and what batches leave. *)
AgentsTyped ==
  /\ agents \in [Ids -> AgentRow \cup {NoRow}]
  /\ versions \in [Ids -> VersionRow \cup {NoRow}]
  /\ trajs \in [Trajs -> TrajRow \cup {NoRow}]

(* What a handler has found by the time it writes. *)
SeenOK(r) ==
  /\ Ask[r].op \in {"create", "newproject", "reslug", "dropproject"}
       /\ pc[r] \in {"writing", "committed"} => seen[r].project \in Ids
  /\ Ask[r].op \in {"rotate", "issue", "delete", "patch"} /\ pc[r] \in {"writing", "committed"} =>
       seen[r].agent \in Ids /\ seen[r].row \in AgentRow
  /\ Ask[r].op = "patch" /\ pc[r] \in {"writing", "committed"} =>
       /\ seen[r].new \in AgentRow
       /\ seen[r].new.token = seen[r].row.token /\ seen[r].new.used = seen[r].row.used
  /\ Ask[r].op = "post" /\ pc[r] \in {"routed", "writing", "ok"} =>
       seen[r].agent \in Ids /\ seen[r].row \in AgentRow /\ Ask[r].token = seen[r].row.token
  /\ Ask[r].op = "post" /\ pc[r] \in {"writing", "ok"} => seen[r].version \in Ids \cup {None}

(* The row this id stands for has been inserted, whatever became of it.    *)
Born(id) == id \in Seeds \/ (id \in DOMAIN pc /\ pc[id] \in {"committed"} \cup Answers)

Births ==
  /\ \A a \in Rows(agents) : Born(a)
  /\ \A v \in Rows(versions) : Born(v)

NamesUnique == \A a, b \in Rows(agents) : agents[a].name = agents[b].name => a = b

SlugsUnique == \A p, q \in Rows(projects) : projects[p] = projects[q] => p = q

VersionsUnique ==
  \A v, w \in Rows(versions) :
    versions[v] = versions[w] /\ versions[v].sha # None /\ versions[v].package # None => v = w

(* The version a batch found, or has inserted, is its agent's: there as    *)
(* long as the agent is, and never another's.                              *)
SeenVersion(r) ==
  Ask[r].op = "post" /\ pc[r] \in {"writing", "ok"} =>
    LET v == seen[r].version
        a == seen[r].agent IN
    v # None /\ (v # r \/ pc[r] = "ok") =>
      /\ Born(v)
      /\ v \in Rows(versions) => versions[v].agent = a
      /\ agents[a] # NoRow => v \in Rows(versions)

SeenAgent(r) == Ask[r].op = "post" /\ pc[r] \in {"routed", "writing", "ok"} => Born(seen[r].agent)

VersionsHoused == \A v \in Rows(versions) : versions[v].agent \in Rows(agents)

Writers(t) == {r \in DOMAIN pc : Ask[r].op = "post" /\ Ask[r].traj = t /\ pc[r] = "ok"}

(* A trajectory has lost its agent only when one that wrote it is gone.    *)
Attribution(t) ==
  LET T == trajs[t] IN
  /\ \E r \in Writers(t) : T.service = seen[r].row.name
  /\ T.agent # None => T.agent \in Rows(agents) /\ \E r \in Writers(t) : T.agent = seen[r].agent
  /\ T.agent = None => \E r \in Writers(t) : agents[seen[r].agent] = NoRow
  /\ T.version # None =>
       T.version \in Rows(versions) /\ \E r \in Writers(t) : T.version = seen[r].version

UsedBy(a) ==
  agents[a].used # None =>
    \E r \in DOMAIN pc : /\ Ask[r].op = "post" /\ pc[r] = "ok"
                         /\ Ask[r].token = agents[a].used /\ seen[r].agent = a

Written ==
  /\ Births /\ VersionsHoused
  /\ \A r \in DOMAIN pc : SeenVersion(r) /\ SeenAgent(r)
  /\ \A t \in Rows(trajs) : Attribution(t)
  /\ \A a \in Rows(agents) : UsedBy(a)

Keys == NamesUnique /\ SlugsUnique /\ VersionsUnique /\ ProjectsOutliveAgents

AInv == AgentsTyped /\ (\A r \in DOMAIN pc : SeenOK(r)) /\ Keys /\ Written

-----------------------------------------------------------------------------
(* What a step may write. *)

(* The row of agent a, which is there or which request r inserts. *)
WritesAgent(r, a) ==
  /\ a \in Ids /\ \A b \in Ids \ {a} : agents'[b] = agents[b]
  /\ agents' \in [Ids -> AgentRow \cup {NoRow}] /\ agents'[a] # NoRow
  /\ Named(agents'[a].name) \subseteq {a}
  /\ projects'[agents'[a].project] # NoRow
  /\ \/ a \in Rows(agents) /\ agents'[a].token = agents[a].token
     \/ agents'[a].token = r
  /\ a \in Rows(agents) \/ (a = r /\ pc[r] = "writing" /\ pc'[r] = "committed" /\ agents'[a].used = None)

(* The slug of one project. *)
WritesProject(p) ==
  /\ p \in Ids /\ \A q \in Ids \ {p} : projects'[q] = projects[q]
  /\ \/ projects'[p] = projects[p]
     \/ projects'[p] # NoRow /\ Slugged(projects'[p]) \subseteq {p}
     \/ projects'[p] = NoRow /\ Housed(p) = {}

LEMMA RowsAreRows ==
  /\ NoRow \notin AgentRow \/ ~(DOMAIN pc \subseteq Requests)
  /\ NoRow \notin VersionRow \/ ~(DOMAIN pc \subseteq Requests)
  /\ NoRow \notin TrajRow \/ ~(DOMAIN pc \subseteq Requests)
  /\ NoRow \notin Slugs
<1>1. DOMAIN pc \subseteq Requests => Ids \subseteq Requests \cup Seeds
  BY DEF Ids
<1> QED BY <1>1, AgentRowsAssumption DEF AgentRow, VersionRow, TrajRow

LEMMA Updated ==
  ASSUME agents \in [Ids -> AgentRow \cup {NoRow}], DOMAIN pc \subseteq Requests,
         NEW a \in Ids, agents[a] # NoRow,
         NEW old, NEW new \in AgentRow, Update(a, old, new)
  PROVE  /\ agents' \in [Ids -> AgentRow \cup {NoRow}]
         /\ \A b \in Ids \ {a} : agents'[b] = agents[b]
         /\ agents'[a] \in AgentRow /\ agents'[a] # NoRow
         /\ agents'[a].name = IF new.name # old.name THEN new.name ELSE agents[a].name
         /\ agents'[a].project = IF new.project # old.project THEN new.project ELSE agents[a].project
         /\ agents'[a].token = IF new.token # old.token THEN new.token ELSE agents[a].token
         /\ agents'[a].used = IF new.used # old.used THEN new.used ELSE agents[a].used
<1> DEFINE row == [k \in DOMAIN new |-> IF new[k] # old[k] THEN new[k] ELSE agents[a][k]]
<1>1. DOMAIN new = {"name", "project", "token", "used", "url"} /\ agents[a] \in AgentRow
  BY DEF AgentRow
<1>2. /\ row \in AgentRow
      /\ row.name = IF new.name # old.name THEN new.name ELSE agents[a].name
      /\ row.project = IF new.project # old.project THEN new.project ELSE agents[a].project
      /\ row.token = IF new.token # old.token THEN new.token ELSE agents[a].token
      /\ row.used = IF new.used # old.used THEN new.used ELSE agents[a].used
  BY <1>1 DEF AgentRow
<1>3. agents' = [agents EXCEPT ![a] = row]
  BY DEF Update
<1> HIDE DEF row
<1> QED BY <1>2, <1>3, RowsAreRows

(* A request that writes agents or projects is done or about to answer.    *)
Writes(r) ==
  /\ Handled(r) /\ seen' = seen /\ pc'[r] \in {"ok", "committed", "error"}
  /\ agents' = agents \/ \E a \in Ids :
       WritesAgent(r, a) /\ (a \in Rows(agents) => agents'[a].used \in {None, agents[a].used})
  /\ \E p \in Ids : WritesProject(p)
  /\ UNCHANGED <<versions, trajs>> /\ UNCHANGED accountVars

LEMMA Unwritten ==
  ASSUME UNCHANGED projects, NEW p \in Ids
  PROVE  WritesProject(p)
BY DEF WritesProject

(* What every handler starts from. *)
LEMMA Handling ==
  ASSUME BInv, AInv, NEW r \in DOMAIN pc, pc[r] \in Active
  PROVE  /\ r \in Requests /\ r \in Ids /\ DOMAIN pc \subseteq Requests
         /\ r # None /\ None \notin Ids /\ NoRow \notin Ids \cup {None}
         /\ pc[r] # "committed" => ~ Born(r) /\ agents[r] = NoRow /\ versions[r] = NoRow
         /\ projects \in [Ids -> Slugs \cup {NoRow}] /\ AgentsTyped
         /\ \A code \in {"ok", "committed", "error"} :
              Answer(r, code) => Handled(r) /\ pc'[r] = code /\ seen' = seen
<1>1. /\ r \in Requests /\ r \in Ids /\ DOMAIN pc \subseteq Requests /\ RequestsOK
      /\ projects \in [Ids -> Slugs \cup {NoRow}]
  BY DEF BInv, RequestsOK, Ids, TablesOK
<1>2. r \notin Seeds /\ r # None /\ None \notin Ids /\ NoRow \notin Ids \cup {None}
  BY <1>1, AccountsAssumption DEF Ids
<1>3. pc[r] # "committed" => ~ Born(r)
  BY <1>2 DEF Born, Active, Answers
<1>4. pc[r] # "committed" => agents[r] = NoRow /\ versions[r] = NoRow
  BY <1>1, <1>3 DEF AInv, Written, Births, Rows, AgentsTyped
<1> QED BY <1>1, <1>2, <1>3, <1>4, Handles DEF AInv, Answers, Active

LEMMA InsertAgentWrites ==
  ASSUME BInv, AInv, NEW r \in DOMAIN pc, InsertAgent(r)
  PROVE  Writes(r)
<1>0. pc[r] = "writing" /\ pc[r] \in Active /\ Ask[r].op = "create"
  BY DEF InsertAgent, At, Active
<1>1. /\ r \in Requests /\ r \in Ids /\ DOMAIN pc \subseteq Requests
      /\ agents[r] = NoRow /\ AgentsTyped /\ projects \in [Ids -> Slugs \cup {NoRow}]
      /\ \A code \in {"ok", "committed", "error"} :
              Answer(r, code) => Handled(r) /\ pc'[r] = code /\ seen' = seen
  BY <1>0, Handling
<1>2. UNCHANGED <<versions, trajs>> /\ UNCHANGED accountVars
  BY DEF InsertAgent
<1>p. PICK p : p = seen[r].project
  OBVIOUS
<1>3. p \in Ids /\ Ask[r].name \in Names
  BY <1>0, <1>1, <1>p, AgentsAssumption DEF AInv, SeenOK, Asked
<1>4. CASE Refuse(r)
  BY <1>1, <1>2, <1>4, Unwritten DEF Refuse, Writes
<1>5. CASE ~ Refuse(r)
  <2>1. PICK row : row = [name |-> Ask[r].name, project |-> p, token |-> r, used |-> None, url |-> None]
    OBVIOUS
  <2>2. /\ Named(Ask[r].name) = {} /\ (p = r => Slugged("default") = {})
        /\ (p # r => projects[p] # NoRow) /\ Answer(r, "committed")
        /\ projects' = [projects EXCEPT ![p] = IF p = r THEN "default" ELSE @]
        /\ agents' = [agents EXCEPT ![r] = row]
    BY <1>5, <1>p, <2>1 DEF InsertAgent
  <2>3. Handled(r) /\ pc'[r] = "committed" /\ seen' = seen
    BY <1>1, <2>2
  <2>4. /\ row \in AgentRow /\ row # NoRow /\ row.name = Ask[r].name /\ row.project = p
        /\ row.token = r /\ row.used = None
    <3>1. row \in AgentRow
      BY <1>1, <1>3, <2>1 DEF AgentRow
    <3> QED BY <1>1, <2>1, <3>1, RowsAreRows
  <2>5. "default" \in Slugs /\ "default" # NoRow
    BY AgentRowsAssumption DEF Slugs
  <2>6. /\ projects'[p] = IF p = r THEN "default" ELSE projects[p]
        /\ \A q \in Ids \ {p} : projects'[q] = projects[q]
    BY <1>1, <1>3, <2>2
  <2>7. projects'[p] # NoRow
    BY <2>2, <2>5, <2>6
  <2>8. WritesProject(p)
    BY <1>3, <2>2, <2>5, <2>6 DEF WritesProject
  <2>9. /\ agents' \in [Ids -> AgentRow \cup {NoRow}] /\ agents'[r] = row
        /\ \A b \in Ids \ {r} : agents'[b] = agents[b]
    BY <1>1, <2>2, <2>4 DEF AgentsTyped
  <2>10. WritesAgent(r, r)
    BY <1>0, <1>1, <2>2, <2>3, <2>4, <2>7, <2>9 DEF WritesAgent
  <2>11. r \notin Rows(agents)
    BY <1>1 DEF Rows
  <2> QED BY <1>1, <1>2, <1>3, <2>3, <2>8, <2>10, <2>11 DEF Writes
<1> QED BY <1>4, <1>5

(* An UPDATE by a request that has read row. *)
LEMMA UpdateWrites ==
  ASSUME BInv, AInv, NEW r \in DOMAIN pc, NEW a \in Ids, agents[a] # NoRow,
         NEW old, NEW new \in AgentRow, Update(a, old, new), UNCHANGED projects,
         new.name = old.name \/ Named(new.name) \subseteq {a},
         new.project = old.project \/ projects[new.project] # NoRow,
         new.token = old.token \/ new.token = r
  PROVE  /\ WritesAgent(r, a)
         /\ agents'[a].used = IF new.used # old.used THEN new.used ELSE agents[a].used
         /\ new.token = old.token => agents'[a].token = agents[a].token
<1>1. /\ agents \in [Ids -> AgentRow \cup {NoRow}] /\ DOMAIN pc \subseteq Requests /\ a \in Rows(agents)
      /\ NamesUnique /\ ProjectsOutliveAgents
  BY DEF AInv, AgentsTyped, BInv, RequestsOK, Rows, Keys
<1>2. /\ agents' \in [Ids -> AgentRow \cup {NoRow}]
      /\ \A b \in Ids \ {a} : agents'[b] = agents[b]
      /\ agents'[a] \in AgentRow /\ agents'[a] # NoRow
      /\ agents'[a].name = IF new.name # old.name THEN new.name ELSE agents[a].name
      /\ agents'[a].project = IF new.project # old.project THEN new.project ELSE agents[a].project
      /\ agents'[a].token = IF new.token # old.token THEN new.token ELSE agents[a].token
      /\ agents'[a].used = IF new.used # old.used THEN new.used ELSE agents[a].used
  BY <1>1, Updated
<1>3. Named(agents[a].name) \subseteq {a} /\ projects[agents[a].project] # NoRow
  BY <1>1 DEF NamesUnique, Named, ProjectsOutliveAgents
<1>4. Named(agents'[a].name) \subseteq {a} /\ projects'[agents'[a].project] # NoRow
  BY <1>2, <1>3
<1> QED BY <1>1, <1>2, <1>4 DEF WritesAgent

LEMMA MintWrites ==
  ASSUME BInv, AInv, NEW r \in DOMAIN pc, Mint(r)
  PROVE  Writes(r)
<1>0. pc[r] = "writing" /\ pc[r] \in Active /\ Ask[r].op \in {"rotate", "issue"}
  BY DEF Mint, At, Active
<1>1. /\ r \in Requests /\ r \in Ids
      /\ \A code \in {"ok", "committed", "error"} :
              Answer(r, code) => Handled(r) /\ pc'[r] = code /\ seen' = seen
  BY <1>0, Handling
<1>2. UNCHANGED <<versions, trajs>> /\ UNCHANGED accountVars
  BY DEF Mint
<1>a. PICK a, row : a = seen[r].agent /\ row = seen[r].row
  OBVIOUS
<1>3. a \in Ids /\ row \in AgentRow
  BY <1>0, <1>a DEF AInv, SeenOK
<1>4. CASE Gone(r)
  <2>1. Refuse(r)
    BY <1>4 DEF Mint
  <2> QED BY <1>1, <1>2, <2>1, Unwritten DEF Refuse, Writes
<1>5. CASE ~ Gone(r)
  <2>1. PICK new : new = [row EXCEPT !.token = r, !.used = IF Ask[r].op = "rotate" THEN None ELSE row.used]
    OBVIOUS
  <2>2. Answer(r, "ok") /\ Update(a, row, new) /\ UNCHANGED projects /\ agents[a] # NoRow
    BY <1>5, <1>a, <2>1 DEF Mint, Gone
  <2>3. /\ new \in AgentRow /\ new.name = row.name /\ new.project = row.project
        /\ new.token = r /\ new.used \in {None, row.used}
    BY <1>1, <1>3, <2>1 DEF AgentRow
  <2>4. /\ WritesAgent(r, a)
        /\ agents'[a].used = IF new.used # row.used THEN new.used ELSE agents[a].used
    BY <1>3, <2>2, <2>3, UpdateWrites
  <2>5. agents'[a].used \in {None, agents[a].used}
    BY <2>3, <2>4
  <2> QED BY <1>1, <1>2, <1>3, <2>2, <2>4, <2>5, Unwritten DEF Writes
<1> QED BY <1>4, <1>5

LEMMA PatchWrites ==
  ASSUME BInv, AInv, NEW r \in DOMAIN pc, WritePatch(r)
  PROVE  Writes(r)
<1>0. pc[r] = "writing" /\ pc[r] \in Active /\ Ask[r].op = "patch"
  BY DEF WritePatch, At, Active
<1>1. /\ r \in Requests /\ r \in Ids
      /\ \A code \in {"ok", "committed", "error"} :
              Answer(r, code) => Handled(r) /\ pc'[r] = code /\ seen' = seen
  BY <1>0, Handling
<1>2. UNCHANGED <<versions, trajs>> /\ UNCHANGED accountVars
  BY DEF WritePatch
<1>a. PICK a, row, new : a = seen[r].agent /\ row = seen[r].row /\ new = seen[r].new
  OBVIOUS
<1>3. a \in Ids /\ row \in AgentRow /\ new \in AgentRow /\ new.token = row.token /\ new.used = row.used
  BY <1>0, <1>a DEF AInv, SeenOK
<1>4. CASE Refuse(r)
  BY <1>1, <1>2, <1>4, Unwritten DEF Refuse, Writes
<1>5. CASE ~ Refuse(r)
  <2>1. /\ Answer(r, "committed") /\ Update(a, row, new) /\ UNCHANGED projects /\ agents[a] # NoRow
        /\ new.name # row.name => Named(new.name) \ {a} = {}
        /\ new.project # row.project => projects[new.project] # NoRow
    BY <1>5, <1>a DEF WritePatch, Gone
  <2>2. /\ WritesAgent(r, a) /\ agents'[a].used = agents[a].used
    BY <1>3, <2>1, UpdateWrites
  <2> QED BY <1>1, <1>2, <1>3, <2>1, <2>2, Unwritten DEF Writes
<1> QED BY <1>4, <1>5

LEMMA ProjectsWrite ==
  ASSUME BInv, AInv, NEW r \in DOMAIN pc, WriteSlug(r) \/ DropProject(r)
  PROVE  Writes(r)
<1>0. /\ pc[r] = "writing" /\ pc[r] \in Active
      /\ WriteSlug(r) => Ask[r].op \in {"newproject", "reslug"}
      /\ DropProject(r) => Ask[r].op = "dropproject"
  BY DEF WriteSlug, DropProject, At, Active
<1>1. /\ r \in Requests /\ r \in Ids /\ projects \in [Ids -> Slugs \cup {NoRow}]
      /\ \A code \in {"ok", "committed", "error"} :
              Answer(r, code) => Handled(r) /\ pc'[r] = code /\ seen' = seen
  BY <1>0, Handling
<1>2. UNCHANGED <<versions, trajs>> /\ UNCHANGED accountVars
  BY DEF WriteSlug, DropProject
<1>p. PICK p : p = seen[r].project
  OBVIOUS
<1>3. p \in Ids
  BY <1>0, <1>p DEF AInv, SeenOK
<1>4. CASE Refuse(r)
  BY <1>1, <1>2, <1>4, Unwritten DEF Refuse, Writes
<1>5. CASE WriteSlug(r) /\ ~ Refuse(r)
  <2>1. PICK to : to = IF Ask[r].op = "reslug" THEN Ask[r].to ELSE Ask[r].slug
    OBVIOUS
  <2>2. /\ Slugged(to) \ {p} = {} /\ Answer(r, "committed") /\ UNCHANGED agents
        /\ projects' = [projects EXCEPT ![p] = to]
    BY <1>5, <1>p, <2>1 DEF WriteSlug
  <2>3. to \in Slugs /\ to # NoRow
    <3>1. to \in Slugs
      BY <1>0, <1>1, <1>5, <2>1 DEF Slugs, Asked
    <3> QED BY <3>1, AgentRowsAssumption
  <2>4. WritesProject(p)
    BY <1>1, <1>3, <2>2, <2>3 DEF WritesProject
  <2> QED BY <1>1, <1>2, <1>3, <2>2, <2>4 DEF Writes
<1>6. CASE DropProject(r) /\ ~ Refuse(r)
  <2>1. /\ Housed(p) = {} /\ Answer(r, "ok") /\ UNCHANGED agents
        /\ projects' = [projects EXCEPT ![p] = NoRow]
    BY <1>6, <1>p DEF DropProject
  <2>2. WritesProject(p)
    BY <1>1, <1>3, <2>1 DEF WritesProject
  <2> QED BY <1>1, <1>2, <1>3, <2>1, <2>2 DEF Writes
<1> QED BY <1>4, <1>5, <1>6

-----------------------------------------------------------------------------
(* The keys. *)

LEMMA KeysKept ==
  ASSUME BInv, AInv, NEW r, projects' \in [Ids -> Slugs \cup {NoRow}],
         agents' = agents \/ \E a \in Ids : WritesAgent(r, a),
         \E p \in Ids : WritesProject(p)
  PROVE  NamesUnique' /\ SlugsUnique' /\ ProjectsOutliveAgents'
<1>1. /\ agents \in [Ids -> AgentRow \cup {NoRow}] /\ projects \in [Ids -> Slugs \cup {NoRow}]
      /\ NamesUnique /\ SlugsUnique /\ ProjectsOutliveAgents
  BY DEF AInv, AgentsTyped, BInv, TablesOK, Keys
<1>2. NamesUnique'
  <2>1. CASE agents' = agents
    BY <1>1, <2>1 DEF NamesUnique, Rows
  <2>2. ASSUME NEW a \in Ids, WritesAgent(r, a)
        PROVE  NamesUnique'
    <3>1. \A b \in Rows(agents') : b # a => b \in Rows(agents) /\ agents'[b] = agents[b]
      BY <1>1, <2>2 DEF WritesAgent, Rows
    <3>2. \A b \in Rows(agents') : b # a => agents'[b].name # agents'[a].name
      BY <2>2, <3>1 DEF WritesAgent, Named
    <3> QED BY <1>1, <3>1, <3>2 DEF NamesUnique
  <2> QED BY <2>1, <2>2
<1> PICK p \in Ids : WritesProject(p)
  OBVIOUS
<1>3. SlugsUnique'
  <2>1. \A q \in Rows(projects') : q # p => q \in Rows(projects) /\ projects'[q] = projects[q]
    BY <1>1 DEF WritesProject, Rows
  <2>2. p \in Rows(projects') =>
          \/ p \in Rows(projects) /\ projects'[p] = projects[p]
          \/ \A q \in Rows(projects) : projects[q] = projects'[p] => q = p
    BY <1>1 DEF WritesProject, Rows, Slugged
  <2> QED BY <1>1, <2>1, <2>2 DEF SlugsUnique
<1>4. ASSUME NEW b \in Rows(agents), agents'[b] = agents[b]
      PROVE  projects'[agents'[b].project] # NoRow
  <2>1. agents[b].project \in Ids /\ projects[agents[b].project] # NoRow
    BY <1>1 DEF Rows, AgentRow, ProjectsOutliveAgents
  <2>2. agents[b].project = p => b \in Housed(p)
    BY DEF Housed
  <2> QED BY <1>4, <2>1, <2>2 DEF WritesProject
<1>5. ProjectsOutliveAgents'
  <2>1. CASE agents' = agents
    BY <1>4, <2>1 DEF ProjectsOutliveAgents, Rows
  <2>2. ASSUME NEW a \in Ids, WritesAgent(r, a)
        PROVE  ProjectsOutliveAgents'
    <3>1. \A b \in Rows(agents') : b # a => b \in Rows(agents) /\ agents'[b] = agents[b]
      BY <1>1, <2>2 DEF WritesAgent, Rows
    <3> QED BY <1>4, <2>2, <3>1 DEF WritesAgent, ProjectsOutliveAgents
  <2> QED BY <2>1, <2>2
<1> QED BY <1>2, <1>3, <1>5

-----------------------------------------------------------------------------
(* What batches have written, while other requests are served. *)

(* A row once inserted and deleted does not come back. *)
LEMMA GoneStaysGone ==
  ASSUME BInv, AInv, NEW r, Served(r),
         agents' = agents \/ \E a \in Ids : WritesAgent(r, a)
  PROVE  /\ \A x : Born(x) => Born(x)'
         /\ \A a \in Rows(agents) : a \in Rows(agents') /\ agents'[a] # NoRow
         /\ \A a \in Ids : Born(a) /\ agents[a] = NoRow => agents'[a] = NoRow
         /\ \A a \in Rows(agents') : Born(a)'
         /\ DOMAIN agents' = DOMAIN agents /\ DOMAIN agents = Ids
<1>1. /\ r \in DOMAIN pc /\ pc[r] \in Active /\ DOMAIN pc' = DOMAIN pc
      /\ \A q \in DOMAIN pc : q # r => pc'[q] = pc[q]
      /\ agents \in [Ids -> AgentRow \cup {NoRow}] /\ \A a \in Rows(agents) : Born(a)
  BY DEF Handled, Served, AInv, AgentsTyped, Written, Births
<1>2. \A x : Born(x) => Born(x)'
  BY <1>1 DEF Born, Active, Answers, Served
<1>3. pc[r] # "committed" => ~ Born(r)
  BY <1>1, Handling
<1>4. CASE agents' = agents
  BY <1>1, <1>2, <1>4 DEF Rows
<1>5. ASSUME NEW a \in Ids, WritesAgent(r, a)
      PROVE  /\ \A b \in Rows(agents) : b \in Rows(agents') /\ agents'[b] # NoRow
             /\ \A b \in Ids : Born(b) /\ agents[b] = NoRow => agents'[b] = NoRow
             /\ \A b \in Rows(agents') : Born(b)'
             /\ DOMAIN agents' = DOMAIN agents /\ DOMAIN agents = Ids
  <2>1. pc'[r] = "committed" => Born(r)'
    BY <1>1 DEF Born
  <2> QED BY <1>1, <1>2, <1>3, <1>5, <2>1 DEF WritesAgent, Rows
<1> QED BY <1>2, <1>4, <1>5

LEMMA WrittenKept ==
  ASSUME BInv, AInv, NEW r, Served(r), ~ (Ask[r].op = "post" /\ pc'[r] = "ok"),
         agents' = agents \/ \E a \in Ids :
           WritesAgent(r, a) /\ (a \in Rows(agents) => agents'[a].used \in {None, agents[a].used}),
         UNCHANGED <<versions, trajs>>, SeenVersion(r)', SeenAgent(r)'
  PROVE  Written'
<1>1. /\ r \in DOMAIN pc /\ pc[r] \in Active /\ DOMAIN pc' = DOMAIN pc
      /\ \A q \in DOMAIN pc : q # r => pc'[q] = pc[q] /\ seen'[q] = seen[q]
      /\ Written
  BY DEF Handled, Served, AInv
<1>2. /\ \A x : Born(x) => Born(x)'
      /\ \A a \in Rows(agents) : a \in Rows(agents') /\ agents'[a] # NoRow
      /\ \A a \in Ids : Born(a) /\ agents[a] = NoRow => agents'[a] = NoRow
      /\ \A a \in Rows(agents') : Born(a)'
      /\ DOMAIN agents' = DOMAIN agents /\ DOMAIN agents = Ids
  BY GoneStaysGone
<1>3. Births' /\ VersionsHoused'
  BY <1>1, <1>2 DEF Written, Births, VersionsHoused, Rows
<1>4. \A q \in DOMAIN pc : Ask[q].op = "post" /\ pc[q] \in {"routed", "writing", "ok"} =>
        seen[q].agent \in Ids /\ Born(seen[q].agent)
  BY <1>1 DEF AInv, SeenOK, Written, SeenAgent
<1>5. ASSUME NEW q \in DOMAIN pc, q # r
      PROVE  SeenVersion(q)' /\ SeenAgent(q)'
  <2>1. pc'[q] = pc[q] /\ seen'[q] = seen[q] /\ SeenVersion(q) /\ SeenAgent(q)
    BY <1>1, <1>5 DEF Written
  <2>2. SeenAgent(q)'
    BY <1>2, <2>1 DEF SeenAgent
  <2>3. SeenVersion(q)'
    BY <1>2, <1>4, <2>1 DEF SeenVersion, Rows
  <2> QED BY <2>2, <2>3
<1>6. \A t : Writers(t)' = Writers(t)
  BY <1>1 DEF Writers, Active
<1>7. \A t : \A q \in Writers(t) : /\ seen'[q] = seen[q] /\ seen[q].agent \in Ids
                                   /\ Born(seen[q].agent)
  BY <1>1, <1>4 DEF Writers, Active
<1>8. \A t \in Rows(trajs) : Attribution(t)'
  <2> SUFFICES ASSUME NEW t \in Rows(trajs)
               PROVE  Attribution(t)'
    OBVIOUS
  <2>1. Attribution(t)
    BY <1>1 DEF Written
  <2> QED BY <1>2, <1>6, <1>7, <2>1 DEF Attribution, Rows
<1>9. ASSUME NEW a \in Rows(agents')
      PROVE  UsedBy(a)'
  <2>1. agents'[a].used = None \/ (a \in Rows(agents) /\ agents'[a].used = agents[a].used)
    BY <1>2, <1>9 DEF WritesAgent, Rows
  <2>2. \A q \in DOMAIN pc : pc[q] = "ok" => pc'[q] = "ok" /\ seen'[q] = seen[q]
    BY <1>1 DEF Active
  <2> QED BY <1>1, <2>1, <2>2 DEF UsedBy, Written
<1> QED BY <1>1, <1>3, <1>5, <1>8, <1>9 DEF Written, Rows

-----------------------------------------------------------------------------
(* The steps keep AInv. *)

LEMMA OthersSaw ==
  ASSUME BInv, AInv, NEW r, Served(r), SeenOK(r)'
  PROVE  /\ Ids' = Ids /\ AgentRow' = AgentRow /\ DOMAIN pc' = DOMAIN pc /\ r \in DOMAIN pc
         /\ VersionRow' = VersionRow /\ TrajRow' = TrajRow
         /\ \A q \in DOMAIN pc : SeenOK(q)'
<1>1. /\ Ids' = Ids /\ DOMAIN pc' = DOMAIN pc /\ r \in DOMAIN pc
      /\ \A q \in DOMAIN pc : q # r => pc'[q] = pc[q] /\ seen'[q] = seen[q]
  BY IdsKept DEF Handled, Served
<1>2. AgentRow' = AgentRow /\ VersionRow' = VersionRow /\ TrajRow' = TrajRow
  BY <1>1 DEF AgentRow, VersionRow, TrajRow
<1>3. ASSUME NEW q \in DOMAIN pc, q # r
      PROVE  SeenOK(q)'
  BY <1>1, <1>2, <1>3 DEF AInv, SeenOK
<1> QED BY <1>1, <1>2, <1>3

LEMMA QuietStep ==
  ASSUME BInv, AInv, NEW r, Served(r), ~ (Ask[r].op = "post" /\ pc'[r] = "ok"),
         UNCHANGED agentVars, UNCHANGED projects, SeenOK(r)', SeenVersion(r)', SeenAgent(r)'
  PROVE  AInv'
<1>1. UNCHANGED <<agents, versions, trajs, projects>>
  BY DEF agentVars
<1>2. /\ Ids' = Ids /\ AgentRow' = AgentRow /\ DOMAIN pc' = DOMAIN pc /\ r \in DOMAIN pc
      /\ VersionRow' = VersionRow /\ TrajRow' = TrajRow
      /\ \A q \in DOMAIN pc : SeenOK(q)'
  BY OthersSaw
<1>3. AgentsTyped'
  BY <1>1, <1>2 DEF AInv, AgentsTyped
<1>4. Keys'
  BY <1>1 DEF AInv, Keys, NamesUnique, SlugsUnique, VersionsUnique, ProjectsOutliveAgents, Rows
<1>5. Written'
  BY <1>1, WrittenKept
<1> QED BY <1>2, <1>3, <1>4, <1>5 DEF AInv

LEMMA WritesStep ==
  ASSUME BInv, BInv', AInv, NEW r \in DOMAIN pc, Writes(r), pc[r] = "writing", Ask[r].op # "post"
  PROVE  AInv'
<1>1. /\ Handled(r) /\ seen' = seen /\ pc'[r] \in {"ok", "committed", "error"}
      /\ UNCHANGED <<versions, trajs>>
      /\ agents' = agents \/ \E a \in Ids :
           WritesAgent(r, a) /\ (a \in Rows(agents) => agents'[a].used \in {None, agents[a].used})
      /\ \E p \in Ids : WritesProject(p)
  BY DEF Writes
<1>2. Ids' = Ids /\ AgentRow' = AgentRow
  BY <1>1, IdsKept DEF Handled, Served, AgentRow
<1>3. SeenOK(r)' /\ SeenVersion(r)' /\ SeenAgent(r)'
  <2>1. SeenOK(r)'
    BY <1>1, <1>2 DEF SeenOK, AInv
  <2> QED BY <2>1 DEF SeenVersion, SeenAgent
<1>4. /\ AgentRow' = AgentRow /\ DOMAIN pc' = DOMAIN pc
      /\ VersionRow' = VersionRow /\ TrajRow' = TrajRow
      /\ \A q \in DOMAIN pc : SeenOK(q)'
  BY <1>1, <1>3, OthersSaw DEF Handled
<1>5. projects' \in [Ids -> Slugs \cup {NoRow}]
  BY <1>2 DEF BInv, TablesOK
<1>6. AgentsTyped'
  BY <1>1, <1>2, <1>4 DEF AInv, AgentsTyped, WritesAgent
<1>7. Keys'
  <2>1. NamesUnique' /\ SlugsUnique' /\ ProjectsOutliveAgents'
    BY <1>1, <1>5, KeysKept
  <2>2. VersionsUnique'
    BY <1>1 DEF AInv, Keys, VersionsUnique, Rows
  <2> QED BY <2>1, <2>2 DEF Keys
<1>8. Written'
  BY <1>1, <1>3, WrittenKept DEF Handled
<1> QED BY <1>4, <1>6, <1>7, <1>8 DEF AInv

LEMMA DeleteStep ==
  ASSUME BInv, AInv, NEW r \in DOMAIN pc, DeleteAgent(r)
  PROVE  AInv'
<1>0. pc[r] = "writing" /\ pc[r] \in Active /\ Ask[r].op = "delete"
  BY DEF DeleteAgent, At, Active
<1> PICK a : a = seen[r].agent
  OBVIOUS
<1> PICK old : old = {v \in Rows(versions) : versions[v].agent = a}
  OBVIOUS
<1>1. /\ Answer(r, "ok") /\ UNCHANGED projects
      /\ agents' = [agents EXCEPT ![a] = NoRow]
      /\ versions' = [v \in Ids |-> IF v \in old THEN NoRow ELSE versions[v]]
      /\ trajs' = [t \in Trajs |->
           IF trajs[t] = NoRow THEN NoRow
           ELSE [trajs[t] EXCEPT !.agent = IF @ = a THEN None ELSE @,
                                 !.version = IF @ \in old THEN None ELSE @]]
  BY DEF DeleteAgent
<1>2. /\ a \in Ids /\ Handled(r) /\ pc'[r] = "ok" /\ seen' = seen /\ Ids' = Ids
      /\ DOMAIN pc' = DOMAIN pc /\ AgentsTyped /\ DOMAIN pc \subseteq Requests
      /\ \A q \in DOMAIN pc : q # r => pc'[q] = pc[q]
  BY <1>0, <1>1, Handling, IdsKept DEF AInv, SeenOK, Handled, Served
<1>3. SeenOK(r)' /\ SeenVersion(r)' /\ SeenAgent(r)'
  BY <1>0, <1>2 DEF SeenOK, SeenVersion, SeenAgent
<1>4. /\ AgentRow' = AgentRow /\ VersionRow' = VersionRow /\ TrajRow' = TrajRow
      /\ \A q \in DOMAIN pc : SeenOK(q)'
  BY <1>2, <1>3, OthersSaw DEF Handled
<1>5. /\ agents' \in [Ids -> AgentRow \cup {NoRow}] /\ agents'[a] = NoRow
      /\ \A b \in Ids \ {a} : agents'[b] = agents[b]
      /\ DOMAIN agents = Ids /\ DOMAIN agents' = Ids
      /\ Rows(agents') = Rows(agents) \ {a}
  BY <1>1, <1>2 DEF AgentsTyped, Rows
<1>6. /\ versions' \in [Ids -> VersionRow \cup {NoRow}]
      /\ DOMAIN versions = Ids /\ DOMAIN versions' = Ids
      /\ Rows(versions') = Rows(versions) \ old
      /\ \A v \in Rows(versions') : versions'[v] = versions[v] /\ versions[v].agent # a
  BY <1>1, <1>2 DEF AgentsTyped, Rows
<1>7. ASSUME NEW t \in Trajs
      PROVE  /\ trajs'[t] \in TrajRow \cup {NoRow}
             /\ trajs'[t] # NoRow => trajs[t] # NoRow
             /\ trajs[t] # NoRow => /\ trajs'[t].agent = IF trajs[t].agent = a THEN None ELSE trajs[t].agent
                                    /\ trajs'[t].service = trajs[t].service
                                    /\ trajs'[t].version = IF trajs[t].version \in old THEN None ELSE trajs[t].version
  <2>1. trajs'[t] = IF trajs[t] = NoRow THEN NoRow
                    ELSE [trajs[t] EXCEPT !.agent = IF @ = a THEN None ELSE @,
                                          !.version = IF @ \in old THEN None ELSE @]
    BY <1>1
  <2>2. trajs[t] \in TrajRow \cup {NoRow}
    BY <1>2 DEF AgentsTyped
  <2> QED BY <2>1, <2>2 DEF TrajRow
<1>8. AgentsTyped'
  BY <1>1, <1>2, <1>4, <1>5, <1>6, <1>7 DEF AgentsTyped
<1>9. Keys'
  <2>1. Keys /\ \A b \in Rows(agents') : b \in Rows(agents) /\ agents'[b] = agents[b]
    BY <1>5 DEF AInv, Rows
  <2>2. NamesUnique'
    BY <2>1 DEF Keys, NamesUnique
  <2>5. ProjectsOutliveAgents'
    BY <1>1, <2>1 DEF Keys, ProjectsOutliveAgents
  <2>3. SlugsUnique'
    BY <1>1, <2>1 DEF Keys, SlugsUnique, Rows
  <2>4. VersionsUnique'
    BY <1>6, <2>1 DEF Keys, VersionsUnique
  <2> QED BY <2>2, <2>3, <2>4, <2>5 DEF Keys
<1>10. \A x : Born(x) => Born(x)'
  BY <1>0, <1>2 DEF Born, Answers
<1>11. Births' /\ VersionsHoused'
  BY <1>5, <1>6, <1>10 DEF AInv, Written, Births, VersionsHoused
<1>12. ASSUME NEW q \in DOMAIN pc
       PROVE  SeenVersion(q)' /\ SeenAgent(q)'
  <2>1. CASE q = r
    BY <1>3, <2>1
  <2>2. CASE q # r
    <3>1. pc'[q] = pc[q] /\ seen'[q] = seen[q] /\ SeenVersion(q) /\ SeenAgent(q) /\ SeenOK(q)
      BY <1>2, <2>2 DEF AInv, Written
    <3>2. SeenAgent(q)'
      BY <1>10, <3>1 DEF SeenAgent
    <3>3. SeenVersion(q)'
      BY <1>5, <1>6, <1>10, <3>1 DEF SeenVersion, SeenOK, Rows
    <3> QED BY <3>2, <3>3
  <2> QED BY <2>1, <2>2
<1>13. \A t : Writers(t)' = Writers(t)
  BY <1>0, <1>2 DEF Writers
<1>14. ASSUME NEW t \in Rows(trajs')
       PROVE  Attribution(t)'
  <2>1. t \in Trajs /\ trajs[t] # NoRow /\ Attribution(t)
    BY <1>1, <1>7, <1>14 DEF AInv, Written, Rows, AgentsTyped
  <2>2. \A q \in Writers(t) : agents[seen[q].agent] = NoRow /\ seen[q].agent \in Ids
                                => agents'[seen[q].agent] = NoRow
    BY <1>5
  <2>3. \A q \in Writers(t) : seen[q].agent \in Ids
    BY DEF Writers, AInv, SeenOK
  <2>4. a # None /\ None \notin old
    BY <1>0, <1>2, Handling DEF AgentsTyped, Rows
  <2>5. \E q \in Writers(t) : trajs'[t].service = seen[q].row.name
    BY <1>7, <2>1 DEF Attribution
  <2>6. trajs'[t].agent # None =>
          trajs'[t].agent \in Rows(agents') /\ \E q \in Writers(t) : trajs'[t].agent = seen[q].agent
    BY <1>5, <1>7, <2>1 DEF Attribution
  <2>7. trajs'[t].agent = None => \E q \in Writers(t) : agents'[seen[q].agent] = NoRow
    BY <1>5, <1>7, <2>1, <2>2, <2>3, <2>4 DEF Attribution
  <2>8. trajs'[t].version # None =>
          trajs'[t].version \in Rows(versions') /\ \E q \in Writers(t) : trajs'[t].version = seen[q].version
    BY <1>6, <1>7, <2>1 DEF Attribution
  <2> QED BY <1>2, <1>13, <2>5, <2>6, <2>7, <2>8 DEF Attribution
<1>15. ASSUME NEW b \in Rows(agents')
       PROVE  UsedBy(b)'
  <2>1. b \in Rows(agents) /\ agents'[b] = agents[b] /\ UsedBy(b)
    BY <1>5, <1>15 DEF AInv, Written, Rows
  <2>2. \A q \in DOMAIN pc : pc[q] = "ok" => pc'[q] = "ok"
    BY <1>0, <1>2
  <2> QED BY <1>2, <2>1, <2>2 DEF UsedBy
<1>16. Written'
  BY <1>2, <1>11, <1>12, <1>14, <1>15 DEF Written
<1> QED BY <1>2, <1>4, <1>8, <1>9, <1>16 DEF AInv

(* A batch is committed. *)
(* The only columns a batch has changed, whatever the row is now.          *)
LEMMA BatchWrites ==
  ASSUME BInv, AInv, NEW r \in DOMAIN pc, WriteBatch(r)
  PROVE  \/ Refuse(r) /\ UNCHANGED <<versions, trajs>>
         \/ /\ agents[seen[r].agent] # NoRow /\ Answer(r, "ok") /\ UNCHANGED projects
            /\ WritesAgent(r, seen[r].agent) /\ agents'[seen[r].agent].used = Ask[r].token
<1>0. pc[r] = "writing" /\ pc[r] \in Active /\ Ask[r].op = "post"
  BY DEF WriteBatch, At, Active
<1>p. PICK a, row, old, new : /\ a = seen[r].agent /\ row = seen[r].row
                              /\ old = [row EXCEPT !.used = NoRow] /\ new = Refreshed(r)
  OBVIOUS
<1>1. r \in Requests /\ r \in Ids /\ NoRow \notin Ids \cup {None}
  BY <1>0, Handling
<1>2. a \in Ids /\ row \in AgentRow /\ Ask[r].token = row.token
  BY <1>0, <1>p DEF AInv, SeenOK
<1>3. CASE ~ (Refuse(r) /\ UNCHANGED <<versions, trajs>>)
  <2>1. agents[a] # NoRow /\ Answer(r, "ok") /\ UNCHANGED projects /\ Update(a, old, new)
    BY <1>3, <1>p DEF WriteBatch, Gone
  <2>2. /\ new \in AgentRow /\ new.name = row.name /\ new.project = row.project
        /\ new.token = row.token /\ new.used = Ask[r].token
    <3>1. Ask[r].url \in {x.url : x \in Asked("post") \cup Asked("patch")}
      BY <1>0, <1>1 DEF Asked
    <3>2. new = [row EXCEPT !.used = Ask[r].token, !.url = IF row.url = None THEN Ask[r].url ELSE row.url]
      BY <1>p DEF Refreshed
    <3> QED BY <1>2, <3>1, <3>2 DEF AgentRow
  <2>3. /\ old.name = row.name /\ old.project = row.project
        /\ old.token = row.token /\ old.used = NoRow
    BY <1>2, <1>p DEF AgentRow
  <2>4. Ask[r].token # NoRow
    BY <1>1, <1>2 DEF AgentRow
  <2>5. /\ WritesAgent(r, a)
        /\ agents'[a].used = IF new.used # old.used THEN new.used ELSE agents[a].used
    BY <1>2, <2>1, <2>2, <2>3, UpdateWrites
  <2> QED BY <1>p, <2>1, <2>2, <2>3, <2>4, <2>5
<1> QED BY <1>3

LEMMA BatchStep ==
  ASSUME BInv, BInv', AInv, NEW r \in DOMAIN pc, WriteBatch(r)
  PROVE  AInv'
<1>0. pc[r] = "writing" /\ pc[r] \in Active /\ Ask[r].op = "post"
  BY DEF WriteBatch, At, Active
<1> PICK a, v, row : a = seen[r].agent /\ v = seen[r].version /\ row = seen[r].row
  OBVIOUS
<1>1. /\ r \in Requests /\ r \in Ids /\ ~ Born(r) /\ DOMAIN pc \subseteq Requests
      /\ r # None /\ None \notin Ids /\ NoRow \notin Ids \cup {None}
      /\ agents[r] = NoRow /\ versions[r] = NoRow /\ AgentsTyped
      /\ \A code \in {"ok", "committed", "error"} :
              Answer(r, code) => Handled(r) /\ pc'[r] = code /\ seen' = seen
  BY <1>0, Handling
<1>2. /\ a \in Ids /\ row \in AgentRow /\ Ask[r].token = row.token /\ v \in Ids \cup {None}
      /\ SeenVersion(r) /\ Born(a)
  BY <1>0 DEF AInv, SeenOK, Written, SeenAgent
<1>3. CASE Refuse(r) /\ UNCHANGED <<versions, trajs>>
  <2>1. Answer(r, "error") /\ UNCHANGED agentVars /\ UNCHANGED projects
    BY <1>3 DEF Refuse, agentVars
  <2>2. Handled(r) /\ pc'[r] = "error"
    BY <1>1, <2>1
  <2>3. SeenOK(r)' /\ SeenVersion(r)' /\ SeenAgent(r)'
    BY <1>0, <2>2 DEF SeenOK, SeenVersion, SeenAgent
  <2> QED BY <2>1, <2>2, <2>3, QuietStep DEF Handled
<1>4. CASE ~ (Refuse(r) /\ UNCHANGED <<versions, trajs>>)
  <2>1. PICK vrow : vrow = [agent |-> a, sha |-> Ask[r].sha, package |-> Ask[r].package]
    OBVIOUS
  <2>4. PICK tt : tt = Ask[r].traj
    OBVIOUS
  <2>5. /\ agents[a] # NoRow /\ ~ Duplicate(r) /\ Answer(r, "ok") /\ UNCHANGED projects
        /\ versions' = [versions EXCEPT ![r] = IF v = r THEN vrow ELSE @]
        /\ trajs' = [trajs EXCEPT ![tt] = Attributed(@, r)]
    BY <1>4, <2>1, <2>4 DEF WriteBatch, Gone
  <2>6. /\ Handled(r) /\ pc'[r] = "ok" /\ seen' = seen /\ DOMAIN pc' = DOMAIN pc /\ Ids' = Ids
        /\ \A q \in DOMAIN pc : q # r => pc'[q] = pc[q]
    BY <1>1, <2>5, IdsKept DEF Handled, Served
  <2>7. SeenOK(r)'
    BY <1>0, <1>2, <2>6 DEF SeenOK, AgentRow
  <2>8. /\ AgentRow' = AgentRow /\ VersionRow' = VersionRow /\ TrajRow' = TrajRow
        /\ \A q \in DOMAIN pc : SeenOK(q)'
    BY <2>6, <2>7, OthersSaw DEF Handled
  <2>11. /\ WritesAgent(r, a) /\ agents'[a].used = Ask[r].token
    BY <1>4, BatchWrites
  <2>12. /\ \A x : Born(x) => Born(x)'
         /\ \A b \in Rows(agents) : b \in Rows(agents') /\ agents'[b] # NoRow
         /\ \A b \in Ids : Born(b) /\ agents[b] = NoRow => agents'[b] = NoRow
         /\ \A b \in Rows(agents') : Born(b)'
         /\ DOMAIN agents' = DOMAIN agents /\ DOMAIN agents = Ids
    BY <1>2, <2>6, <2>11, GoneStaysGone DEF Handled
  <2>13. /\ a \in Rows(agents) /\ Rows(agents') = Rows(agents) /\ Born(r)'
         /\ \A b \in Rows(agents) : b # a => agents'[b] = agents[b]
    <3>1. a \in Rows(agents)
      BY <1>2, <2>5, <2>12 DEF Rows
    <3> QED BY <2>6, <2>11, <2>12, <3>1 DEF WritesAgent, Rows, Born, Answers
  <2>14. vrow \in VersionRow /\ vrow # NoRow /\ vrow.agent = a
    <3>1. vrow \in VersionRow
      BY <1>0, <1>1, <1>2, <2>1 DEF VersionRow, Asked
    <3> QED BY <1>1, <2>1, <3>1, RowsAreRows
  <2>15. /\ versions' \in [Ids -> VersionRow \cup {NoRow}]
         /\ DOMAIN versions = Ids /\ DOMAIN versions' = Ids
         /\ \A w \in Rows(versions) : w # r /\ versions'[w] = versions[w]
         /\ Rows(versions') = Rows(versions) \cup (IF v = r THEN {r} ELSE {})
         /\ v = r => versions'[r] = vrow
    BY <1>1, <2>5, <2>14 DEF AgentsTyped, Rows
  <2>16. VersionsUnique'
    <3>1. v = r /\ vrow.sha # None /\ vrow.package # None => \A w \in Rows(versions) : versions[w] # vrow
      BY <2>1, <2>5 DEF Duplicate, Matching
    <3>2. VersionsUnique
      BY DEF AInv, Keys
    <3> QED BY <2>15, <3>1, <3>2 DEF VersionsUnique
  <2>17. Keys'
    <3>1. projects' \in [Ids -> Slugs \cup {NoRow}]
      BY <2>6 DEF BInv, TablesOK
    <3>2. WritesProject(r)
      BY <1>1, <2>5, Unwritten
    <3>3. NamesUnique' /\ SlugsUnique' /\ ProjectsOutliveAgents'
      BY <1>1, <1>2, <2>11, <3>1, <3>2, KeysKept
    <3> QED BY <2>16, <3>3 DEF Keys
  <2>18. tt \in Trajs /\ DOMAIN trajs = Trajs
    BY <1>0, <1>1, <2>4 DEF Trajs, Asked, AgentsTyped
  <2>19. PICK fresh : fresh = [agent |-> a, service |-> row.name, version |-> v]
    OBVIOUS
  <2>20. fresh \in TrajRow /\ fresh.agent = a /\ fresh.service = row.name /\ fresh.version = v
    BY <1>2, <2>19 DEF TrajRow, AgentRow
  <2>21. /\ trajs' \in [Trajs -> TrajRow \cup {NoRow}] /\ trajs'[tt] \in TrajRow
         /\ \A t \in Trajs : t # tt => trajs'[t] = trajs[t]
         /\ trajs'[tt].service = row.name
         /\ trajs'[tt].agent = IF trajs[tt] = NoRow \/ trajs[tt].agent = None THEN a ELSE trajs[tt].agent
         /\ trajs'[tt].version = IF trajs[tt] = NoRow \/ trajs[tt].version = None THEN v ELSE trajs[tt].version
    <3>1. /\ Attributed(trajs[tt], r) \in TrajRow
          /\ Attributed(trajs[tt], r).service = row.name
          /\ Attributed(trajs[tt], r).agent = IF trajs[tt] = NoRow \/ trajs[tt].agent = None THEN a ELSE trajs[tt].agent
          /\ Attributed(trajs[tt], r).version = IF trajs[tt] = NoRow \/ trajs[tt].version = None THEN v ELSE trajs[tt].version
      <4>1. CASE trajs[tt] = NoRow
        BY <2>19, <2>20, <4>1 DEF Attributed
      <4>2. CASE trajs[tt] # NoRow
        <5>1. trajs[tt] \in TrajRow
          BY <1>1, <2>18, <4>2 DEF AgentsTyped
        <5> QED BY <2>19, <2>20, <4>2, <5>1 DEF Attributed, TrajRow
      <4> QED BY <4>1, <4>2
    <3> QED BY <1>1, <2>5, <2>18, <3>1 DEF AgentsTyped
  <2>22. AgentsTyped'
    BY <2>6, <2>8, <2>11, <2>15, <2>21 DEF AgentsTyped, WritesAgent
  <2>23. Births' /\ VersionsHoused'
    <3>1. Births /\ VersionsHoused
      BY DEF AInv, Written
    <3> QED BY <2>12, <2>13, <2>14, <2>15, <3>1 DEF Births, VersionsHoused
  <2>24. ASSUME NEW q \in DOMAIN pc
         PROVE  SeenVersion(q)' /\ SeenAgent(q)'
    <3>1. SeenVersion(q) /\ SeenAgent(q) /\ SeenOK(q)
      BY DEF AInv, Written
    <3>2. CASE q # r
      <4>1. pc'[q] = pc[q] /\ seen'[q] = seen[q]
        BY <2>6, <3>2
      <4>2. SeenAgent(q)'
        BY <2>12, <3>1, <4>1 DEF SeenAgent
      <4>3. SeenVersion(q)'
        <5> SUFFICES ASSUME Ask[q].op = "post", pc[q] \in {"writing", "ok"},
                            NEW w, w = seen[q].version, w # None, w # q \/ pc[q] = "ok"
                     PROVE  /\ Born(w)' /\ (w \in Rows(versions') => versions'[w].agent = seen[q].agent)
                            /\ (agents'[seen[q].agent] # NoRow => w \in Rows(versions'))
          BY <4>1 DEF SeenVersion
        <5>1. /\ Born(w) /\ (w \in Rows(versions) => versions[w].agent = seen[q].agent)
              /\ (agents[seen[q].agent] # NoRow => w \in Rows(versions))
          BY <3>1 DEF SeenVersion
        <5>2. w # r
          BY <1>1, <5>1
        <5>3. agents'[seen[q].agent] # NoRow => agents[seen[q].agent] # NoRow
          <6>1. seen[q].agent \in Ids /\ Born(seen[q].agent)
            BY <3>1 DEF SeenOK, SeenAgent
          <6> QED BY <2>12, <6>1
        <5> QED BY <2>12, <2>15, <5>1, <5>2, <5>3
      <4> QED BY <4>2, <4>3
    <3>3. CASE q = r
      <4>1. SeenAgent(r)'
        BY <1>2, <2>6, <2>12 DEF SeenAgent
      <4>2. ASSUME v # None
            PROVE  Born(v)' /\ v \in Rows(versions') /\ versions'[v].agent = a
        <5>1. CASE v = r
          BY <2>13, <2>14, <2>15, <5>1
        <5>2. CASE v # r
          <6>1. Born(v) /\ (v \in Rows(versions) => versions[v].agent = a) /\ v \in Rows(versions)
            BY <1>0, <1>2, <2>5, <4>2, <5>2 DEF SeenVersion
          <6> QED BY <2>12, <2>15, <6>1
        <5> QED BY <5>1, <5>2
      <4>3. SeenVersion(r)'
        <5>1. seen'[r].version = v /\ seen'[r].agent = a
          BY <2>6
        <5> QED BY <4>2, <5>1 DEF SeenVersion
      <4> QED BY <3>3, <4>1, <4>3
    <3> QED BY <3>2, <3>3
  <2>25. /\ \A t : t # tt => Writers(t)' = Writers(t)
         /\ Writers(tt)' = Writers(tt) \cup {r}
    BY <1>0, <2>4, <2>6 DEF Writers
  <2>26. \A t : \A q \in Writers(t) : seen[q].agent \in Ids /\ Born(seen[q].agent)
    BY DEF Writers, AInv, SeenOK, Written, SeenAgent
  <2>27. ASSUME NEW t \in Rows(trajs'), t # tt
         PROVE  Attribution(t)'
    <3>1. t \in Rows(trajs) /\ trajs'[t] = trajs[t] /\ Attribution(t) /\ Writers(t)' = Writers(t)
      BY <2>18, <2>21, <2>25, <2>27 DEF AInv, Written, Rows
    <3>2. \A q \in Writers(t) : agents[seen[q].agent] = NoRow => agents'[seen[q].agent] = NoRow
      BY <2>12, <2>26
    <3>3. /\ trajs[t].version # None => trajs[t].version \in Rows(versions')
          /\ trajs[t].agent # None => trajs[t].agent \in Rows(agents')
      BY <2>13, <2>15, <3>1 DEF Attribution
    <3> QED BY <2>6, <3>1, <3>2, <3>3 DEF Attribution
  <2>28. Attribution(tt)'
    <3>1. trajs[tt] # NoRow => Attribution(tt)
      BY <2>18 DEF AInv, Written, Rows
    <3>2. r \in Writers(tt)' /\ \A q \in Writers(tt) : q \in Writers(tt)'
      BY <2>25
    <3>3. \E q \in Writers(tt)' : trajs'[tt].service = seen'[q].row.name
      BY <2>6, <2>21, <3>2
    <3>4. trajs'[tt].agent # None /\ a # None
      BY <1>1, <1>2, <2>21
    <3>5. trajs'[tt].agent \in Rows(agents') /\ \E q \in Writers(tt)' : trajs'[tt].agent = seen'[q].agent
      BY <2>6, <2>13, <2>21, <3>1, <3>2 DEF Attribution
    <3>6. v # None => v \in Rows(versions')
      BY <1>0, <1>2, <2>5, <2>15 DEF SeenVersion
    <3>7. trajs'[tt].version # None =>
            trajs'[tt].version \in Rows(versions') /\ \E q \in Writers(tt)' : trajs'[tt].version = seen'[q].version
      BY <2>6, <2>15, <2>21, <3>1, <3>2, <3>6 DEF Attribution
    <3> QED BY <3>3, <3>4, <3>5, <3>7 DEF Attribution
  <2>29. ASSUME NEW b \in Rows(agents')
         PROVE  UsedBy(b)'
    <3>1. CASE b = a
      BY <1>0, <2>6, <2>11, <3>1 DEF UsedBy
    <3>2. CASE b # a
      <4>1. b \in Rows(agents) /\ agents'[b] = agents[b] /\ UsedBy(b)
        BY <2>13, <2>29, <3>2 DEF AInv, Written
      <4>2. \A q \in DOMAIN pc : pc[q] = "ok" => pc'[q] = "ok"
        BY <1>0, <2>6
      <4> QED BY <2>6, <4>1, <4>2 DEF UsedBy
    <3> QED BY <3>1, <3>2
  <2>30. Written'
    BY <2>6, <2>23, <2>24, <2>27, <2>28, <2>29 DEF Written
  <2> QED BY <2>6, <2>8, <2>17, <2>22, <2>30 DEF AInv
<1> QED BY <1>3, <1>4

-----------------------------------------------------------------------------
(* The handlers before they write. *)

(* A request that goes on to write, with what it has found, is no batch. *)
LEMMA QuietProceed ==
  ASSUME BInv, AInv, NEW r \in DOMAIN pc, pc[r] = "routed", Ask[r].op # "post",
         UNCHANGED agentVars, UNCHANGED projects, NEW found, Proceed(r, found),
         Ask[r].op \in {"create", "newproject", "reslug", "dropproject"} => found.project \in Ids,
         Ask[r].op \in {"rotate", "issue", "delete", "patch"} =>
           found.agent \in Ids /\ found.row \in AgentRow,
         Ask[r].op = "patch" =>
           /\ found.new \in AgentRow
           /\ found.new.token = found.row.token /\ found.new.used = found.row.used
  PROVE  AInv'
<1>1. SeenVersion(r)' /\ SeenAgent(r)'
  BY DEF SeenVersion, SeenAgent
<1>2. Served(r) /\ pc'[r] = "writing" /\ seen'[r] = found
  BY Handles DEF BInv, Handled, Active
<1>3. Ids' = Ids /\ AgentRow' = AgentRow
  BY <1>2, IdsKept DEF Served, AgentRow
<1>4. SeenOK(r)'
  BY <1>2, <1>3 DEF SeenOK
<1> QED BY <1>1, <1>2, <1>4, QuietStep

(* Every request but a batch that is answered, or goes on to write.        *)
LEMMA QuietHandler ==
  ASSUME BInv, AInv, NEW r \in DOMAIN pc, pc[r] \in Active, Ask[r].op # "post",
         UNCHANGED agentVars, UNCHANGED projects,
         (\E code \in {"ok", "missing", "conflict", "invalid", "error", "forbidden"} : Answer(r, code))
           \/ \E found : /\ pc[r] = "routed" /\ Proceed(r, found)
                         /\ Ask[r].op \in {"create", "newproject", "reslug", "dropproject"} => found.project \in Ids
                         /\ Ask[r].op \in {"rotate", "issue", "delete"} =>
                              found.agent \in Ids /\ found.row \in AgentRow
                         /\ Ask[r].op # "patch"
  PROVE  AInv'
<1>1. SeenVersion(r)' /\ SeenAgent(r)'
  BY DEF SeenVersion, SeenAgent
<1>2. ASSUME NEW code \in {"ok", "missing", "conflict", "invalid", "error", "forbidden"}, Answer(r, code)
      PROVE  AInv'
  <2>1. Served(r) /\ pc'[r] = code
    BY <1>2, Handles DEF BInv, Handled, Answers
  <2>2. SeenOK(r)'
    BY <2>1 DEF SeenOK
  <2> QED BY <1>1, <2>1, <2>2, QuietStep
<1> QED BY <1>2, QuietProceed

LEMMA RowTypes ==
  ASSUME BInv, AInv
  PROVE  /\ \A a \in Rows(agents) : a \in Ids /\ agents[a] \in AgentRow
         /\ \A p \in Rows(projects) : p \in Ids
         /\ \A name : \A a \in Named(name) : a \in Rows(agents)
         /\ \A slug : \A p \in Slugged(slug) : p \in Rows(projects)
         /\ DOMAIN pc \subseteq Ids
BY DEF BInv, TablesOK, AInv, AgentsTyped, Rows, Named, Slugged, Ids

LEMMA SelectStep ==
  ASSUME BInv, AInv, NEW r \in DOMAIN pc, NEW op \in {"rotate", "issue", "delete"}, Select(r, op)
  PROVE  AInv'
<1>1. /\ Ask[r].op = op /\ pc[r] = "routed" /\ pc[r] \in Active
      /\ UNCHANGED agentVars /\ UNCHANGED projects
      /\ Answer(r, "missing") \/ \E a \in Named(Ask[r].name) : Proceed(r, [agent |-> a, row |-> agents[a]])
  BY DEF Select, At, Active
<1>2. CASE Answer(r, "missing")
  BY <1>1, <1>2, QuietHandler
<1>3. ASSUME NEW a \in Named(Ask[r].name), Proceed(r, [agent |-> a, row |-> agents[a]])
      PROVE  AInv'
  <2>1. PICK found : found = [agent |-> a, row |-> agents[a]]
    OBVIOUS
  <2>2. found.agent \in Ids /\ found.row \in AgentRow
    BY <2>1, RowTypes
  <2>3. Proceed(r, found)
    BY <1>3, <2>1
  <2> QED BY <1>1, <2>2, <2>3, QuietHandler
<1> QED BY <1>1, <1>2, <1>3

LEMMA CreateStep ==
  ASSUME BInv, AInv, NEW r \in DOMAIN pc,
         CreateAgent(r) \/ CreateProject(r) \/ UpdateProject(r) \/ DeleteProject(r)
  PROVE  AInv'
<1>1. /\ pc[r] = "routed" /\ pc[r] \in Active /\ UNCHANGED agentVars /\ UNCHANGED projects
      /\ Ask[r].op \in {"create", "newproject", "reslug", "dropproject"}
      /\ \/ \E code \in {"missing", "conflict"} : Answer(r, code)
         \/ \E p \in Ids : Proceed(r, [project |-> p])
  BY RowTypes DEF CreateAgent, CreateProject, UpdateProject, DeleteProject, At, Active
<1>2. ASSUME NEW p \in Ids, Proceed(r, [project |-> p])
      PROVE  AInv'
  <2>1. PICK found : found = [project |-> p]
    OBVIOUS
  <2>2. found.project \in Ids /\ Proceed(r, found)
    BY <1>2, <2>1
  <2> QED BY <1>1, <2>2, QuietHandler
<1>3. ASSUME NEW code \in {"missing", "conflict"}, Answer(r, code)
      PROVE  AInv'
  BY <1>1, <1>3, QuietHandler
<1> QED BY <1>1, <1>2, <1>3

LEMMA AnswerStep ==
  ASSUME BInv, AInv, NEW r \in DOMAIN pc, HasToken(r) \/ Reload(r)
  PROVE  AInv'
<1>1. /\ pc[r] \in Active /\ UNCHANGED agentVars /\ UNCHANGED projects /\ Ask[r].op # "post"
      /\ \E code \in {"ok", "conflict"} : Answer(r, code)
  BY DEF HasToken, Reload, At, Active
<1> QED BY <1>1, QuietHandler

LEMMA PatchStep ==
  ASSUME BInv, AInv, NEW r \in DOMAIN pc, PatchAgent(r)
  PROVE  AInv'
<1> PICK name : name = IF Ask[r].rename = None THEN Ask[r].name ELSE Lower[Ask[r].rename]
  OBVIOUS
<1>1. /\ pc[r] = "routed" /\ pc[r] \in Active /\ UNCHANGED agentVars /\ UNCHANGED projects
      /\ Ask[r].op = "patch" /\ r \in Requests
  BY DEF PatchAgent, At, Active, BInv, RequestsOK
<1>2. ASSUME NEW a \in Named(Ask[r].name), NEW p \in Ids, NEW new, NEW found,
             Ask[r].rename = None \/ name \in ValidNames,
             new = [agents[a] EXCEPT !.name = name, !.project = p,
                                     !.url = IF Ask[r].url = None THEN agents[a].url ELSE Ask[r].url],
             found = [agent |-> a, row |-> agents[a], new |-> new], Proceed(r, found)
      PROVE  AInv'
  <2>1. a \in Ids /\ agents[a] \in AgentRow /\ agents[a].name = Ask[r].name
    BY RowTypes DEF Named
  <2>2. name \in Names
    BY <1>2, <2>1, AgentsAssumption DEF AgentRow
  <2>3. Ask[r].url \in {x.url : x \in Asked("post") \cup Asked("patch")}
    BY <1>1 DEF Asked
  <2>4. new \in AgentRow /\ new.token = agents[a].token /\ new.used = agents[a].used
    BY <1>2, <2>1, <2>2, <2>3 DEF AgentRow
  <2>5. found.agent = a /\ found.row = agents[a] /\ found.new = new
    BY <1>2
  <2>6. Proceed(r, found)
    BY <1>2
  <2>7. found.new.token = found.row.token /\ found.new.used = found.row.used
    BY <2>4, <2>5
  <2> QED BY <1>1, <2>1, <2>4, <2>5, <2>6, <2>7, QuietProceed
<1>3. \/ \E code \in {"missing", "conflict", "invalid"} : Answer(r, code)
      \/ \E a \in Named(Ask[r].name), p \in Ids :
           /\ Ask[r].rename = None \/ name \in ValidNames
           /\ Proceed(r, [agent |-> a, row |-> agents[a],
                          new |-> [agents[a] EXCEPT !.name = name, !.project = p,
                                     !.url = IF Ask[r].url = None THEN agents[a].url ELSE Ask[r].url]])
  <2>1. \A a \in Named(Ask[r].name) : agents[a].project \in Ids
    BY RowTypes DEF AgentRow
  <2> QED BY <2>1, RowTypes DEF PatchAgent
<1> QED BY <1>1, <1>2, <1>3, QuietHandler

LEMMA AuthoriseStep ==
  ASSUME BInv, AInv, NEW r \in DOMAIN pc, Authorise(r)
  PROVE  AInv'
<1>1. /\ pc[r] = "sent" /\ pc[r] \in Active /\ UNCHANGED agentVars /\ UNCHANGED projects /\ Ask[r].op = "post"
      /\ RequestsOK
  BY DEF Authorise, At, Active, BInv
<1>2. CASE Bearers(Ask[r].token) = {}
  <2>1. Answer(r, "unauthorized")
    BY <1>2 DEF Authorise
  <2>2. Served(r) /\ pc'[r] = "unauthorized"
    BY <1>1, <2>1, Handles DEF Handled, Answers
  <2>3. SeenOK(r)' /\ SeenVersion(r)' /\ SeenAgent(r)'
    BY <1>1, <2>2 DEF SeenOK, SeenVersion, SeenAgent
  <2> QED BY <1>1, <2>2, <2>3, QuietStep
<1>3. CASE Bearers(Ask[r].token) # {}
  <2>1. PICK a \in Bearers(Ask[r].token) : seen' = [seen EXCEPT ![r] = [agent |-> a, row |-> agents[a]]]
    BY <1>3 DEF Authorise
  <2>2. pc' = [pc EXCEPT ![r] = "routed"] /\ by' = by
    BY <1>3 DEF Authorise
  <2>3. a \in Rows(agents) /\ agents[a].token = Ask[r].token /\ a \in Ids /\ agents[a] \in AgentRow /\ Born(a)
    BY RowTypes DEF Bearers, AInv, Written, Births
  <2>4. Served(r) /\ pc'[r] = "routed" /\ seen'[r].agent = a /\ seen'[r].row = agents[a]
    BY <1>1, <2>1, <2>2 DEF Served, RequestsOK, Active, Ids
  <2>5. Ids' = Ids /\ AgentRow' = AgentRow /\ Born(a)'
    BY <1>1, <2>2, <2>3, <2>4, IdsKept DEF Served, AgentRow, Born, RequestsOK, Answers
  <2>6. SeenOK(r)' /\ SeenVersion(r)' /\ SeenAgent(r)'
    BY <1>1, <2>3, <2>4, <2>5 DEF SeenOK, SeenVersion, SeenAgent
  <2> QED BY <1>1, <2>4, <2>6, QuietStep
<1> QED BY <1>2, <1>3

LEMMA ResolveStep ==
  ASSUME BInv, AInv, NEW r \in DOMAIN pc, ResolveVersion(r)
  PROVE  AInv'
<1>1. /\ pc[r] = "routed" /\ pc[r] \in Active /\ UNCHANGED agentVars /\ UNCHANGED projects /\ Ask[r].op = "post"
      /\ RequestsOK /\ SeenOK(r) /\ SeenAgent(r) /\ r \in Ids
  BY RowTypes DEF ResolveVersion, At, Active, BInv, AInv, Written
<1> PICK a, row : a = seen[r].agent /\ row = seen[r].row
  OBVIOUS
<1>2. a \in Ids /\ row \in AgentRow /\ Ask[r].token = row.token /\ Born(a)
  BY <1>1 DEF SeenOK, SeenAgent
<1>3. CASE Answer(r, "error")
  <2>1. Served(r) /\ pc'[r] = "error"
    BY <1>1, <1>3, Handles DEF Handled, Answers
  <2>2. SeenOK(r)' /\ SeenVersion(r)' /\ SeenAgent(r)'
    BY <1>1, <2>1 DEF SeenOK, SeenVersion, SeenAgent
  <2> QED BY <1>1, <2>1, <2>2, QuietStep
<1>4. ASSUME NEW v \in {None, r} \cup Matching(r), NEW found,
             found = [agent |-> a, row |-> row, version |-> v], Proceed(r, found)
      PROVE  AInv'
  <2>1. /\ found.agent = a /\ found.row = row /\ found.version = v
    BY <1>4
  <2>2. Served(r) /\ pc'[r] = "writing" /\ seen'[r] = found /\ \A x : Born(x) => Born(x)'
    <3>1. Served(r) /\ pc'[r] = "writing" /\ seen'[r] = found
      BY <1>1, <1>4, Handles DEF Handled
    <3> QED BY <1>1, <3>1 DEF Served, Born, Answers
  <2>3. Ids' = Ids /\ AgentRow' = AgentRow
    BY <2>2, IdsKept DEF Served, AgentRow
  <2>4. v # None /\ v # r => v \in Rows(versions) /\ versions[v].agent = a /\ v \in Ids /\ Born(v)
    <3>1. v \in Matching(r) => v \in Rows(versions) /\ versions[v].agent = a
      BY DEF Matching
    <3> QED BY <1>4, <3>1 DEF AInv, AgentsTyped, Written, Births, Rows
  <2>5. SeenOK(r)'
    BY <1>1, <1>2, <1>4, <2>1, <2>2, <2>3, <2>4 DEF SeenOK
  <2>6. SeenAgent(r)'
    BY <1>2, <2>1, <2>2 DEF SeenAgent
  <2>7. SeenVersion(r)'
    <3>1. v # None /\ v # r => Born(v)' /\ v \in Rows(versions') /\ versions'[v].agent = a
      BY <1>1, <2>2, <2>4 DEF agentVars
    <3>2. seen'[r].version = v /\ seen'[r].agent = a /\ pc'[r] = "writing"
      BY <2>1, <2>2
    <3> QED BY <3>1, <3>2 DEF SeenVersion
  <2> QED BY <1>1, <2>2, <2>5, <2>6, <2>7, QuietStep
<1>5. Answer(r, "error") \/ \E v \in {None, r} \cup Matching(r) :
        Proceed(r, [agent |-> a, row |-> row, version |-> v])
  BY DEF ResolveVersion
<1> QED BY <1>3, <1>4, <1>5

-----------------------------------------------------------------------------
(* Every step. *)

LEMMA AgentsNextKeeps ==
  ASSUME BInv, BInv', AInv, AgentsNext
  PROVE  AInv'
<1> PICK r \in DOMAIN pc :
    \/ CreateAgent(r) \/ InsertAgent(r)
    \/ Select(r, "rotate") \/ Select(r, "issue") \/ Mint(r) \/ HasToken(r)
    \/ Select(r, "delete") \/ DeleteAgent(r)
    \/ PatchAgent(r) \/ WritePatch(r)
    \/ CreateProject(r) \/ UpdateProject(r) \/ WriteSlug(r)
    \/ DeleteProject(r) \/ DropProject(r) \/ Reload(r)
    \/ Authorise(r) \/ ResolveVersion(r) \/ WriteBatch(r)
  BY DEF AgentsNext
<1>1. CASE InsertAgent(r) \/ Mint(r) \/ WritePatch(r) \/ WriteSlug(r) \/ DropProject(r)
  <2>1. Writes(r)
    BY <1>1, InsertAgentWrites, MintWrites, PatchWrites, ProjectsWrite
  <2>2. pc[r] = "writing" /\ Ask[r].op # "post"
    BY <1>1 DEF InsertAgent, Mint, WritePatch, WriteSlug, DropProject, At
  <2> QED BY <2>1, <2>2, WritesStep
<1>2. CASE Select(r, "rotate") \/ Select(r, "issue") \/ Select(r, "delete")
  BY <1>2, SelectStep
<1>3. CASE CreateAgent(r) \/ CreateProject(r) \/ UpdateProject(r) \/ DeleteProject(r)
  BY <1>3, CreateStep
<1>4. CASE HasToken(r) \/ Reload(r)
  BY <1>4, AnswerStep
<1>5. CASE PatchAgent(r) \/ Authorise(r) \/ ResolveVersion(r)
  BY <1>5, PatchStep, AuthoriseStep, ResolveStep
<1>6. CASE DeleteAgent(r) \/ WriteBatch(r)
  BY <1>6, DeleteStep, BatchStep
<1> QED BY <1>1, <1>2, <1>3, <1>4, <1>5, <1>6

(* What a request did to agents stands while another kind is served. *)
LEMMA ForeignStep ==
  ASSUME BInv, AInv, NEW r, Served(r), UNCHANGED agentVars, UNCHANGED projects,
         Ask[r].op \notin AgentOps
  PROVE  AInv'
<1>1. SeenOK(r)' /\ SeenVersion(r)' /\ SeenAgent(r)' /\ Ask[r].op # "post"
  BY DEF SeenOK, SeenVersion, SeenAgent, AgentOps
<1> QED BY <1>1, QuietStep

LEMMA RestStep ==
  ASSUME AInv, UNCHANGED requestVars, UNCHANGED agentVars, UNCHANGED projects
  PROVE  AInv'
BY DEF requestVars, agentVars, AInv, AgentsTyped, SeenOK, Keys, NamesUnique, SlugsUnique,
   VersionsUnique, ProjectsOutliveAgents, Written, Births, Born, VersionsHoused, SeenVersion,
   SeenAgent, Attribution, Writers, UsedBy, Rows, Ids, AgentRow, VersionRow, TrajRow

LEMMA DispatchStep ==
  ASSUME BInv, AInv, NEW r \in DOMAIN pc, UNCHANGED agentVars, Dispatch(r)
  PROVE  AInv'
<1> PICK user : user = UserOf(Ask[r].cookie)
  OBVIOUS
<1>1. user \in Ids \cup {None}
  BY DEF UserOf, BInv, SessionsOwned, TablesOK, Rows
<1>2. /\ pc' = [pc EXCEPT ![r] = IF user = None THEN "unauthorized" ELSE "routed"]
      /\ by' = [by EXCEPT ![r] = user] /\ seen' = seen /\ Ask[r].op # "post" /\ pc[r] = "sent"
      /\ UNCHANGED projects
  BY DEF Dispatch, Open
<1>3. Served(r) /\ pc'[r] \in {"unauthorized", "routed"}
  BY <1>1, <1>2 DEF BInv, RequestsOK, Served, Active, Answers, Ids
<1>4. SeenOK(r)' /\ SeenVersion(r)' /\ SeenAgent(r)'
  BY <1>2, <1>3 DEF SeenOK, SeenVersion, SeenAgent
<1> QED BY <1>2, <1>3, <1>4, QuietStep

LEMMA FailStep ==
  ASSUME BInv, AInv, NEW r \in DOMAIN pc, UNCHANGED agentVars, Fail(r)
  PROVE  AInv'
<1>1. Served(r) /\ pc'[r] = "error" /\ UNCHANGED projects
  BY Handles DEF Fail, BInv, Handled, Active, Answers
<1>2. SeenOK(r)' /\ SeenVersion(r)' /\ SeenAgent(r)'
  BY <1>1 DEF SeenOK, SeenVersion, SeenAgent
<1> QED BY <1>1, <1>2, QuietStep

(* The signup that makes the organization makes the first project. *)
LEMMA CreateUserStep ==
  ASSUME BInv, BInv', AInv, NEW r \in DOMAIN pc, UNCHANGED agentVars, CreateUser(r)
  PROVE  AInv'
<1>0. /\ RequestsOK /\ r \in Ids /\ pc[r] \in Active /\ pc[r] = "writing" /\ Ask[r].op = "signup"
      /\ seen[r] \in BOOLEAN /\ (seen[r] => org) /\ org \in BOOLEAN
  BY DEF BInv, RequestsOK, Ids, CreateUser, At, Active, SignupsSaw, TablesOK
<1>1. \E code \in {"ok", "error"} : Answer(r, code)
  BY DEF CreateUser
<1>2. Handled(r) /\ seen' = seen /\ pc'[r] \in {"ok", "error"}
  BY <1>0, <1>1, Handles DEF Answers
<1>3. CASE UNCHANGED projects
  BY <1>0, <1>2, <1>3, ForeignStep DEF AgentOps, Handled
<1>4. CASE ~ UNCHANGED projects
  <2>1. projects' = [projects EXCEPT ![r] = "default"] /\ ~ org
    BY <1>0, <1>4 DEF CreateUser, Bootstrap
  <2>2. Rows(projects) = {} /\ projects \in [Ids -> Slugs \cup {NoRow}]
    BY <2>1 DEF BInv, Untouched, TablesOK
  <2>3. \A p \in Ids \ {r} : projects'[p] = projects[p]
    BY <2>1, <2>2
  <2>4. projects'[r] = "default" /\ "default" # NoRow
    BY <1>0, <2>1, <2>2, AgentRowsAssumption DEF Slugs
  <2>5. WritesProject(r)
    BY <1>0, <2>2, <2>3, <2>4 DEF WritesProject, Slugged
  <2>6. projects' \in [Ids -> Slugs \cup {NoRow}]
    BY <1>0, <2>1, <2>2 DEF Slugs
  <2>7. UNCHANGED <<agents, versions, trajs>>
    BY DEF agentVars
  <2>8. SeenOK(r)' /\ SeenVersion(r)' /\ SeenAgent(r)'
    BY <1>0 DEF SeenOK, SeenVersion, SeenAgent
  <2>9. /\ Ids' = Ids /\ AgentRow' = AgentRow /\ VersionRow' = VersionRow /\ TrajRow' = TrajRow
        /\ DOMAIN pc' = DOMAIN pc /\ \A q \in DOMAIN pc : SeenOK(q)'
    BY <1>2, <2>8, OthersSaw DEF Handled
  <2>10. NamesUnique' /\ SlugsUnique' /\ ProjectsOutliveAgents'
    BY <1>0, <2>5, <2>6, <2>7, KeysKept
  <2>11. VersionsUnique'
    BY <2>7 DEF AInv, Keys, VersionsUnique, Rows
  <2>12. Written'
    BY <1>0, <1>2, <2>7, <2>8, WrittenKept DEF Handled
  <2>13. AgentsTyped'
    BY <2>7, <2>9 DEF AInv, AgentsTyped
  <2> QED BY <2>9, <2>10, <2>11, <2>12, <2>13 DEF AInv, Keys
<1> QED BY <1>3, <1>4

LEMMA AccountsNextKeeps ==
  ASSUME BInv, BInv', AInv, AccountsNext, UNCHANGED agentVars
  PROVE  AInv'
<1>1. ASSUME NEW r \in DOMAIN pc, Signup(r) \/ Login(r) \/ CreateSession(r) \/ Logout(r)
      PROVE  AInv'
  <2>1. /\ pc[r] \in Active /\ Ask[r].op \notin AgentOps /\ UNCHANGED projects
        /\ \/ \E code \in Answers : Answer(r, code)
           \/ pc[r] = "sent" /\ \E found : Proceed(r, found)
    BY <1>1 DEF Signup, Login, CreateSession, Logout, At, Active, Answers, AgentOps
  <2>2. Served(r)
    BY <2>1, Handles DEF BInv, Handled
  <2> QED BY <2>1, <2>2, ForeignStep
<1>2. ASSUME NEW s \in Ids, Expire(s)
      PROVE  AInv'
  BY <1>2, RestStep DEF Expire
<1> QED BY <1>1, <1>2, DispatchStep, FailStep, CreateUserStep DEF AccountsNext

LEMMA CollabNextKeeps ==
  ASSUME BInv, AInv, CollabNext, UNCHANGED agentVars
  PROVE  AInv'
<1>1. /\ UNCHANGED projects
      /\ \/ UNCHANGED requestVars
         \/ \E r \in DOMAIN pc : Handled(r) /\ Ask[r].op \in CollabOps
  BY CollabServe DEF BInv
<1>2. ASSUME NEW r \in DOMAIN pc, Handled(r), Ask[r].op \in CollabOps
      PROVE  AInv'
  BY <1>1, <1>2, ForeignStep DEF Handled, CollabOps, AgentOps
<1> QED BY <1>1, <1>2, RestStep

LEMMA StartAgentsOK ==
  ASSUME Init
  PROVE  AInv
<1>1. PICK W \in Workloads : pc = [r \in W |-> "sent"]
  BY DEF Init, AccountsInit
<1>2. DOMAIN pc = W /\ W \subseteq Requests /\ \A r \in DOMAIN pc : pc[r] = "sent"
  BY <1>1, AccountsAssumption
<1>3. /\ projects = [id \in Ids |-> IF org /\ id \in DOMAIN StartProjects THEN StartProjects[id] ELSE NoRow]
      /\ agents = [id \in Ids |-> IF org /\ id \in DOMAIN StartAgents THEN StartAgents[id] ELSE NoRow]
      /\ versions = [id \in Ids |-> NoRow] /\ trajs = [t \in Trajs |-> NoRow]
  BY DEF Init, AgentsInit
<1>4. /\ \A a \in DOMAIN StartAgents :
           /\ StartAgents[a] \in AgentRow /\ a \in Seeds /\ StartAgents[a].used = None
           /\ StartAgents[a].project \in DOMAIN StartProjects
      /\ Seeds \subseteq Ids
  BY AgentsAssumption DEF AgentRow, Ids
<1>5. \A a \in Rows(agents) : a \in DOMAIN StartAgents /\ agents[a] = StartAgents[a] /\ org
  BY <1>3 DEF Rows
<1>6. \A p \in Rows(projects) : p \in DOMAIN StartProjects /\ projects[p] = StartProjects[p]
  BY <1>3 DEF Rows
<1>7. Rows(versions) = {} /\ Rows(trajs) = {}
  BY <1>3 DEF Rows
<1>8. AgentsTyped
  BY <1>3, <1>4 DEF AgentsTyped
<1>9. NamesUnique /\ SlugsUnique
  BY <1>5, <1>6, AgentsAssumption DEF NamesUnique, SlugsUnique
<1>10. VersionsUnique /\ VersionsHoused
  BY <1>7 DEF VersionsUnique, VersionsHoused
<1>11. ProjectsOutliveAgents
  <2>1. \A p \in DOMAIN StartProjects : StartProjects[p] \in Slugs /\ p \in Ids
    BY <1>4, AgentsAssumption DEF Slugs
  <2> QED BY <1>3, <1>4, <1>5, <2>1, RowsAreRows DEF ProjectsOutliveAgents
<1>12. \A r \in DOMAIN pc : SeenOK(r) /\ SeenVersion(r) /\ SeenAgent(r)
  BY <1>2 DEF SeenOK, SeenVersion, SeenAgent
<1>13. Written
  BY <1>4, <1>5, <1>7, <1>10, <1>12 DEF Written, Births, Born, UsedBy
<1> QED BY <1>8, <1>9, <1>10, <1>11, <1>12, <1>13 DEF AInv, Keys

LEMMA AgentsStep ==
  ASSUME BInv, BInv', AInv, [Next]_vars
  PROVE  AInv'
<1>1. CASE UNCHANGED vars
  BY <1>1, RestStep DEF vars
<1> QED BY <1>1, AgentsNextKeeps, AccountsNextKeeps, CollabNextKeeps DEF Next

(* The invariant the theorems below follow from: what is inserted is never *)
(* inserted again, what a batch has found of its agent and version is true *)
(* as long as these are there, and what batches wrote is accounted for by  *)
(* batches that were answered.                                             *)
THEOREM AgentsInvariant == Spec => [](BInv /\ AInv)
<1>1. Init => BInv /\ AInv
  BY BaseInit, StartAgentsOK
<1>2. BInv /\ AInv /\ [Next]_vars => (BInv /\ AInv)'
  BY BaseStep, AgentsStep
<1> QED BY <1>1, <1>2, PTL DEF Spec

(* Checks made before an insert never let two rows share a key: names of   *)
(* agents, slugs of projects, default ones made on demand included,        *)
(* e-mails of concurrent first signups, versions (services/agents.py:61,   *)
(* projects/helpers.py:29, api/auth.py:68, otlp/agent_resolver.py:136).    *)
THEOREM KeysStayUnique == Spec => []KeysUnique
<1>1. BInv /\ AInv => KeysUnique
  BY DEF BInv, AInv, Keys, KeysUnique, NamesUnique, SlugsUnique, VersionsUnique, EmailsUnique
<1> QED BY <1>1, AgentsInvariant, PTL

(* No agent is left in a project that is gone, whatever the count before   *)
(* the DELETE said (services/projects.py:139).                             *)
THEOREM AgentsAreHoused == Spec => []ProjectsOutliveAgents
<1>1. BInv /\ AInv => ProjectsOutliveAgents
  BY DEF AInv, Keys
<1> QED BY <1>1, AgentsInvariant, PTL

-----------------------------------------------------------------------------
(* What batches leave behind. *)

(* While one agent alone writes a trajectory, its version is that agent's: *)
(* were the agent gone, its versions would be gone too.                    *)
LEMMA OneWriter ==
  ASSUME BInv, AInv, NEW t \in Rows(trajs), trajs[t].version # None,
         \A q, r \in Writers(t) : seen[q].agent = seen[r].agent
  PROVE  versions[trajs[t].version].agent = trajs[t].agent
<1>1. Attribution(t) /\ VersionsHoused
  BY DEF AInv, Written
<1>2. PICK r \in Writers(t) : trajs[t].version = seen[r].version /\ trajs[t].version \in Rows(versions)
  BY <1>1 DEF Attribution
<1>3. versions[trajs[t].version].agent = seen[r].agent /\ seen[r].agent \in Rows(agents)
  <2>1. SeenVersion(r) /\ Ask[r].op = "post" /\ pc[r] = "ok"
    BY DEF AInv, Written, Writers
  <2> QED BY <1>1, <1>2, <2>1 DEF SeenVersion, VersionsHoused
<1>4. trajs[t].agent # None
  <2>1. trajs[t].agent = None => \E q \in Writers(t) : agents[seen[q].agent] = NoRow
    BY <1>1 DEF Attribution
  <2> QED BY <1>3, <2>1 DEF Rows
<1> QED BY <1>1, <1>3, <1>4 DEF Attribution

(* A trajectory names agents, versions and services of batches that wrote  *)
(* it and were answered 200, and no row that is gone (otlp/ingest.py:220); *)
(* last_token_used_at is a batch's of this agent (services/agents.py:115). *)
THEOREM BatchesAreAttributed == Spec => []BatchesAttributed
<1>1. ASSUME BInv, AInv
      PROVE  BatchesAttributed
  <2>1. ASSUME NEW t \in Rows(trajs)
        PROVE  /\ trajs[t].service \in {seen[r].row.name : r \in Writers(t)}
               /\ trajs[t].agent # None =>
                    trajs[t].agent \in Rows(agents) \cap {seen[r].agent : r \in Writers(t)}
               /\ trajs[t].version # None =>
                    trajs[t].version \in Rows(versions) \cap {seen[r].version : r \in Writers(t)}
    BY <1>1 DEF AInv, Written, Attribution
  <2>2. ASSUME NEW a \in Rows(agents), agents[a].used # None
        PROVE  \E r \in UNION {Writers(t) : t \in Trajs} :
                 Ask[r].token = agents[a].used /\ seen[r].agent = a
    <3>1. PICK r \in DOMAIN pc : /\ Ask[r].op = "post" /\ pc[r] = "ok"
                                 /\ Ask[r].token = agents[a].used /\ seen[r].agent = a
      BY <1>1, <2>2 DEF AInv, Written, UsedBy
    <3>2. Ask[r].traj \in Trajs /\ r \in Writers(Ask[r].traj)
      BY <1>1, <3>1 DEF BInv, RequestsOK, Trajs, Asked, Writers
    <3> QED BY <3>1, <3>2
  <2> QED BY <1>1, <2>1, <2>2, OneWriter DEF BatchesAttributed, Writers
<1> QED BY <1>1, AgentsInvariant, PTL

-----------------------------------------------------------------------------
(* Tokens. *)

(* A token an agent has after a step, one had before, or it is minted now. *)
LEMMA TokensMinted ==
  ASSUME BInv, AInv, AgentsNext, NEW b \in Rows(agents')
  PROVE  \/ b \in Rows(agents) /\ agents'[b].token = agents[b].token
         \/ \E r \in DOMAIN pc : pc[r] = "writing" /\ agents'[b].token = r
<1> PICK r \in DOMAIN pc :
    \/ CreateAgent(r) \/ InsertAgent(r)
    \/ Select(r, "rotate") \/ Select(r, "issue") \/ Mint(r) \/ HasToken(r)
    \/ Select(r, "delete") \/ DeleteAgent(r)
    \/ PatchAgent(r) \/ WritePatch(r)
    \/ CreateProject(r) \/ UpdateProject(r) \/ WriteSlug(r)
    \/ DeleteProject(r) \/ DropProject(r) \/ Reload(r)
    \/ Authorise(r) \/ ResolveVersion(r) \/ WriteBatch(r)
  BY DEF AgentsNext
<1>1. agents \in [Ids -> AgentRow \cup {NoRow}] /\ DOMAIN agents = Ids
  BY DEF AInv, AgentsTyped
<1>2. CASE agents' = agents
  BY <1>2
<1>3. CASE pc[r] = "writing" /\ \E a \in Ids : WritesAgent(r, a)
  <2>1. PICK a \in Ids : WritesAgent(r, a)
    BY <1>3
  <2>2. CASE b = a
    BY <1>3, <2>1, <2>2 DEF WritesAgent
  <2>3. CASE b # a
    <3>1. b \in Ids
      BY <2>1 DEF WritesAgent, Rows
    <3> QED BY <1>1, <2>1, <2>3, <3>1 DEF WritesAgent, Rows
  <2> QED BY <2>2, <2>3
<1>4. CASE InsertAgent(r) \/ Mint(r) \/ WritePatch(r) \/ WriteSlug(r) \/ DropProject(r)
  <2>1. Writes(r) /\ pc[r] = "writing"
    BY <1>4, InsertAgentWrites, MintWrites, PatchWrites, ProjectsWrite
       DEF InsertAgent, Mint, WritePatch, WriteSlug, DropProject, At
  <2> QED BY <1>2, <1>3, <2>1 DEF Writes
<1>5. CASE WriteBatch(r)
  <2>1. pc[r] = "writing"
    BY <1>5 DEF WriteBatch, At
  <2> QED BY <1>2, <1>3, <1>5, <2>1, BatchWrites DEF Refuse, WritesAgent
<1>6. CASE DeleteAgent(r)
  <2>1. agents' = [agents EXCEPT ![seen[r].agent] = NoRow]
    BY <1>6 DEF DeleteAgent
  <2> QED BY <1>1, <2>1 DEF Rows
<1>7. CASE \/ CreateAgent(r) \/ Select(r, "rotate") \/ Select(r, "issue") \/ HasToken(r)
           \/ Select(r, "delete") \/ PatchAgent(r) \/ CreateProject(r) \/ UpdateProject(r)
           \/ DeleteProject(r) \/ Reload(r) \/ Authorise(r) \/ ResolveVersion(r)
  BY <1>2, <1>7 DEF CreateAgent, Select, HasToken, PatchAgent, CreateProject, UpdateProject,
     DeleteProject, Reload, Authorise, ResolveVersion, agentVars
<1> QED BY <1>4, <1>5, <1>6, <1>7

(* A token that was rotated away, replaced by a second issue or deleted    *)
(* with its agent never authenticates again, whatever edits and batches    *)
(* still hold the row that had it (services/agents.py:129).                *)
THEOREM TokensStayRevoked == Spec => RevokedStaysRevoked
<1>1. ASSUME BInv, AInv, [Next]_vars, NEW t \in Ids, Known(t), ~ Works(t)
      PROVE  ~ Works(t)'
  <2>1. \A r \in DOMAIN pc : pc[r] = "writing" => r # t
    <3>1. ASSUME NEW r \in DOMAIN pc, pc[r] = "writing", r = t
          PROVE  FALSE
      <4>1. r \in Requests /\ r \notin Seeds \cup {None}
        BY <1>1, AccountsAssumption DEF BInv, RequestsOK
      <4>2. \A a \in DOMAIN StartAgents : StartAgents[a].token \in Seeds \cup {None}
        BY AgentsAssumption
      <4> QED BY <1>1, <3>1, <4>1, <4>2 DEF Known
    <3> QED BY <3>1
  <2>2. CASE agents' = agents
    BY <1>1, <2>2 DEF Works, Bearers, Rows
  <2>3. CASE AgentsNext
    <3>1. ASSUME NEW b \in Rows(agents'), agents'[b].token = t
          PROVE  FALSE
      <4>1. \A a \in Rows(agents) : agents[a].token # t
        BY <1>1 DEF Works, Bearers
      <4> QED BY <1>1, <2>1, <2>3, <3>1, <4>1, TokensMinted
    <3> QED BY <3>1 DEF Works, Bearers, Rows
  <2> QED BY <1>1, <2>2, <2>3 DEF Next, vars, agentVars
<1>2. (BInv /\ AInv) /\ [Next]_vars =>
        [\A t \in Ids : Known(t) /\ ~ Works(t) => ~ Works(t)']_<<requestVars, accountVars, agentVars, projects>>
  BY <1>1
<1> QED BY <1>2, AgentsInvariant, PTL DEF RevokedStaysRevoked, Spec

=============================================================================
