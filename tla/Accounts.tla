------------------------------ MODULE Accounts -------------------------------
(***************************************************************************)
(* Users, sessions and the bootstrap of a deployment                       *)
(* (api/app/api/auth.py, auth/, ingest/org.py), and the life of an HTTP    *)
(* request, which the modules Agents and Collab share.                     *)
(*                                                                         *)
(* A request is sent, its user is looked up (require_user), its handler    *)
(* SELECTs and decides, and one transaction writes.  The SELECTs of a      *)
(* handler are one step; the transaction is another, which the constraints *)
(* of the database may refuse whatever the SELECTs found: other requests   *)
(* run in between.  A row is named by the request that inserts it, or is   *)
(* a seed.                                                                 *)
(***************************************************************************)
EXTENDS Integers, FiniteSets

CONSTANTS
  Requests,    \* requests clients may send
  Ask,         \* the operation and the parameters of each
  Workloads,   \* sets of requests: a behaviour serves the requests of one
  Seeds,       \* rows that are there at the start
  Members,     \* the seeds that are users
  Profile,     \* their rows; a member's session has the member's name
  None, NoRow

ASSUME AccountsAssumption ==
  /\ Workloads \subseteq SUBSET Requests
  /\ Members \subseteq Seeds /\ Requests \cap Seeds = {}
  /\ None \notin Requests \cup Seeds /\ NoRow \notin Requests \cup Seeds \cup {None}

VARIABLES
  org,        \* the default organization exists
  users,      \* table users
  sessions,   \* table sessions
  projects,   \* table projects: the slug of each
  pc,         \* where each request is, or its answer
  by,         \* the user it was authorised as
  seen        \* what its handler's SELECTs found

accountVars == <<org, users, sessions>>
requestVars == <<pc, by, seen>>

Open == {"signup", "login", "logout", "post"}   \* operations without require_user

Answers == {"ok", "unauthorized", "forbidden", "missing", "conflict", "invalid", "error"}

(* The rows there may be in this behaviour. *)
Ids == DOMAIN pc \cup Seeds

Rows(table) == {id \in DOMAIN table : table[id] # NoRow}

Emails == {Ask[r].email : r \in {q \in Requests : Ask[q].op = "signup"}}
          \cup {Profile[m].email : m \in Members}

UserRow == [email : Emails, name : STRING, admin : BOOLEAN]

SessionRow == [user : Ids, live : BOOLEAN]

(* E-mails are unique from the start, as the database keeps them, and what *)
(* stands for no row is none.                                              *)
ASSUME UsersAssumption ==
  /\ \A m \in Members : Profile[m] \in UserRow
  /\ \A m, n \in Members : Profile[m].email = Profile[n].email => m = n
  /\ \A r \in Requests : Ask[r].op = "signup" => Ask[r].name \in STRING
  /\ NoRow \notin UserRow /\ NoRow \notin [user : Requests \cup Seeds, live : BOOLEAN]

AccountsTypeOK ==
  /\ org \in BOOLEAN
  /\ users \in [Ids -> UserRow \cup {NoRow}]
  /\ sessions \in [Ids -> SessionRow \cup {NoRow}]
  /\ pc \in [DOMAIN pc -> {"sent", "routed", "writing", "committed"} \cup Answers]
  /\ DOMAIN pc \subseteq Requests
  /\ by \in [DOMAIN pc -> Ids \cup {None}]

(* A new deployment has no users, and without migrations no organization.  *)
AccountsInit ==
  /\ \E W \in Workloads :
       /\ pc = [r \in W |-> "sent"]
       /\ by = [r \in W |-> None]
       /\ seen = [r \in W |-> NoRow]
  /\ \/ org = TRUE
     \/ org = FALSE
  /\ \/ users = [id \in Ids |-> IF id \in Members THEN Profile[id] ELSE NoRow]
     \/ users = [id \in Ids |-> NoRow]
  /\ ~org => Rows(users) = {}
  /\ sessions = [id \in Ids |-> IF id \in Rows(users) THEN [user |-> id, live |-> TRUE] ELSE NoRow]

-----------------------------------------------------------------------------
At(r, op, step) == r \in DOMAIN pc /\ Ask[r].op = op /\ pc[r] = step

(* The handler answers. *)
Answer(r, code) == pc' = [pc EXCEPT ![r] = code] /\ UNCHANGED <<by, seen>>

(* The handler goes on to write, remembering what it found. *)
Proceed(r, found) ==
  /\ pc' = [pc EXCEPT ![r] = "writing"]
  /\ seen' = [seen EXCEPT ![r] = found]
  /\ UNCHANGED by

(* The user of a session, unless it is gone or has expired. *)
UserOf(token) ==
  IF token \in Rows(sessions) /\ sessions[token].live THEN sessions[token].user ELSE None

(* The routes of the API: require_user, then the handler. *)
Dispatch(r) ==
  /\ r \in DOMAIN pc /\ pc[r] = "sent" /\ Ask[r].op \notin Open
  /\ LET user == UserOf(Ask[r].cookie) IN
     /\ pc' = [pc EXCEPT ![r] = IF user = None THEN "unauthorized" ELSE "routed"]
     /\ by' = [by EXCEPT ![r] = user]
  /\ UNCHANGED <<seen, projects>> /\ UNCHANGED accountVars

(* An exception rolls the session back; after the commit it only spoils    *)
(* the answer.                                                             *)
Fail(r) ==
  /\ r \in DOMAIN pc /\ pc[r] \in {"routed", "writing", "committed"}
  /\ Answer(r, "error")
  /\ UNCHANGED projects /\ UNCHANGED accountVars

-----------------------------------------------------------------------------
SingleUserMode == Rows(users) = {}

Signup(r) ==
  /\ At(r, "signup", "sent")
  /\ \/ ~SingleUserMode /\ Answer(r, "forbidden")
     \/ SingleUserMode /\ Proceed(r, org)
  /\ UNCHANGED projects /\ UNCHANGED accountVars

(* get_default_org_id makes the organization and its default project. *)
Bootstrap(r) ==
  IF seen[r] THEN UNCHANGED <<org, projects>>
  ELSE org' = TRUE /\ projects' = [projects EXCEPT ![r] = "default"]

Taken(email) == \E u \in Rows(users) : users[u].email = email

InsertUser(r) ==
  users' = [users EXCEPT ![r] = [email |-> Ask[r].email, name |-> Ask[r].name, admin |-> TRUE]]

InsertSession(r, user) ==
  sessions' = [sessions EXCEPT ![r] = [user |-> user, live |-> TRUE]]

CreateUser(r) ==
  /\ At(r, "signup", "writing")
  /\ IF (org /\ ~seen[r]) \/ Taken(Ask[r].email)
     THEN Answer(r, "error") /\ UNCHANGED projects /\ UNCHANGED accountVars
     ELSE Bootstrap(r) /\ InsertUser(r) /\ InsertSession(r, r) /\ Answer(r, "ok")

Login(r) ==
  /\ At(r, "login", "sent")
  /\ LET found == {u \in Rows(users) : users[u].email = Ask[r].email} IN
     IF found = {} \/ ~Ask[r].password THEN Answer(r, "unauthorized")
     ELSE \E u \in found : Proceed(r, u)
  /\ UNCHANGED projects /\ UNCHANGED accountVars

CreateSession(r) ==
  /\ At(r, "login", "writing")
  /\ InsertSession(r, seen[r]) /\ Answer(r, "ok")
  /\ UNCHANGED <<org, users, projects>>

(* A session that is not there any more is no error. *)
Logout(r) ==
  /\ At(r, "logout", "sent")
  /\ sessions' = [s \in Ids |-> IF s = Ask[r].cookie THEN NoRow ELSE sessions[s]]
  /\ Answer(r, "ok")
  /\ UNCHANGED <<org, users, projects>>

(* Thirty days pass for a session a request still carries; the row stays. *)
Expire(s) ==
  /\ s \in Rows(sessions) /\ sessions[s].live
  /\ \E r \in DOMAIN pc : pc[r] = "sent" /\ Ask[r].op \notin Open /\ Ask[r].cookie = s
  /\ sessions' = [sessions EXCEPT ![s].live = FALSE]
  /\ UNCHANGED <<org, users, projects>> /\ UNCHANGED requestVars

AccountsNext ==
  \/ \E r \in DOMAIN pc :
       \/ Dispatch(r) \/ Fail(r)
       \/ Signup(r) \/ CreateUser(r)
       \/ Login(r) \/ CreateSession(r) \/ Logout(r)
  \/ \E s \in Ids : Expire(s)
=============================================================================
