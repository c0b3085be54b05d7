------------------------------- MODULE Agents --------------------------------
(***************************************************************************)
(* Agents, their tokens, versions and projects                             *)
(* (api/app/services/agents.py, services/projects.py, otlp/receiver.py,    *)
(* otlp/agent_resolver.py).                                                *)
(*                                                                         *)
(* A batch of spans is authorised once, by its token, and works on with    *)
(* the agent row it read then, while the agent is renamed, rotated, moved  *)
(* or deleted.  What a batch does to spans and totals is in module Ingest; *)
(* here a batch writes one trajectory's attribution.                       *)
(***************************************************************************)
EXTENDS Accounts

CONSTANTS
  StartAgents, StartProjects,   \* the seeded rows of these tables
  Lower,                        \* name -> its lower case
  ValidNames                    \* names NAME_RE matches

VARIABLES
  agents, versions,
  trajs      \* table trajectories: agent, service name and version of each

agentVars == <<agents, versions, trajs>>

Asked(op) == {Ask[r] : r \in {q \in Requests : Ask[q].op = op}}

Names == DOMAIN Lower

Trajs == {a.traj : a \in Asked("post")}

Slugs == {"default"} \cup {StartProjects[p] : p \in DOMAIN StartProjects}
         \cup {a.slug : a \in Asked("newproject")} \cup {a.to : a \in Asked("reslug")}

(* A token is named by the request that mints it; `used` is                *)
(* last_token_used_at, named by the token whose batch wrote it.            *)
AgentRow == [name : Names, project : Ids, token : Ids \cup {None},
             used : Ids \cup {None},
             url : {a.url : a \in Asked("post") \cup Asked("patch")} \cup {None}]

VersionRow == [agent : Ids, sha : {a.sha : a \in Asked("post")},
               package : {a.package : a \in Asked("post")}]

TrajRow == [agent : Ids \cup {None}, service : Names, version : Ids \cup {None}]

(* The seeds are registered as the database allows: names and slugs are    *)
(* unique, an agent's project is there, and no token is a request's.       *)
ASSUME AgentsAssumption ==
  /\ DOMAIN StartAgents \subseteq Seeds /\ DOMAIN StartProjects \subseteq Seeds
  /\ \A a \in DOMAIN StartAgents :
       StartAgents[a] \in [name : Names, project : DOMAIN StartProjects, token : Seeds \cup {None},
                           used : {None}, url : {None}]
  /\ \A a, b \in DOMAIN StartAgents : StartAgents[a].name = StartAgents[b].name => a = b
  /\ \A p, q \in DOMAIN StartProjects : StartProjects[p] = StartProjects[q] => p = q
  /\ ValidNames \subseteq Names /\ \A a \in Asked("create") : a.name \in Names

ASSUME AgentRowsAssumption ==
  LET All == Requests \cup Seeds IN
  /\ NoRow \notin Slugs
  /\ NoRow \notin [name : Names, project : All, token : All \cup {None}, used : All \cup {None},
                   url : {a.url : a \in Asked("post") \cup Asked("patch")} \cup {None}]
  /\ NoRow \notin [agent : All, sha : {a.sha : a \in Asked("post")},
                   package : {a.package : a \in Asked("post")}]
  /\ NoRow \notin [agent : All \cup {None}, service : Names, version : All \cup {None}]

AgentsTypeOK ==
  /\ projects \in [Ids -> Slugs \cup {NoRow}]
  /\ agents \in [Ids -> AgentRow \cup {NoRow}]
  /\ versions \in [Ids -> VersionRow \cup {NoRow}]
  /\ trajs \in [Trajs -> TrajRow \cup {NoRow}]

AgentsInit ==
  /\ projects = [id \in Ids |-> IF org /\ id \in DOMAIN StartProjects THEN StartProjects[id] ELSE NoRow]
  /\ agents = [id \in Ids |-> IF org /\ id \in DOMAIN StartAgents THEN StartAgents[id] ELSE NoRow]
  /\ versions = [id \in Ids |-> NoRow]
  /\ trajs = [t \in Trajs |-> NoRow]

-----------------------------------------------------------------------------
Named(name) == {a \in Rows(agents) : agents[a].name = name}

Slugged(slug) == {p \in Rows(projects) : projects[p] = slug}

(* Mutant: an UPDATE writes every column as its transaction has it. *)
Update_WholeRow(id, old, new) == agents' = [agents EXCEPT ![id] = new]

(* UPDATE of the columns that differ from what the transaction read. *)
Update(id, old, new) ==
  agents' = [agents EXCEPT ![id] =
               [k \in DOMAIN new |-> IF new[k] # old[k] THEN new[k] ELSE agents[id][k]]]

(* The row itself was read, so a DELETE meanwhile makes the UPDATE fail. *)
Gone(r) == agents[seen[r].agent] = NoRow

(* The handlers of one agent begin with a SELECT by name. *)
Select(r, op) ==
  /\ At(r, op, "routed")
  /\ \/ Named(Ask[r].name) = {} /\ Answer(r, "missing")
     \/ \E a \in Named(Ask[r].name) : Proceed(r, [agent |-> a, row |-> agents[a]])
  /\ UNCHANGED projects /\ UNCHANGED accountVars /\ UNCHANGED agentVars

Refuse(r) ==
  Answer(r, "error") /\ UNCHANGED <<agents, projects>>

(* The project an agent is registered in: the one asked for, or the        *)
(* default one, which is made when there is none of that slug.             *)
CreateAgent(r) ==
  LET slug  == IF Ask[r].slug = None THEN "default" ELSE Ask[r].slug
      found == Slugged(slug) IN
  /\ At(r, "create", "routed")
  /\ \/ Named(Ask[r].name) # {} /\ Answer(r, "conflict")
     \/ Named(Ask[r].name) = {} /\ Ask[r].slug # None /\ found = {} /\ Answer(r, "missing")
     \/ Named(Ask[r].name) = {} /\ Ask[r].slug = None /\ found = {} /\ Proceed(r, [project |-> r])
     \/ Named(Ask[r].name) = {} /\ \E p \in found : Proceed(r, [project |-> p])
  /\ UNCHANGED projects /\ UNCHANGED accountVars /\ UNCHANGED agentVars

(* Mutant: nothing keeps the key of projects. *)
InsertAgent_NoKey(r) ==
  LET p == seen[r].project IN
  /\ At(r, "create", "writing")
  /\ IF Named(Ask[r].name) # {} \/ (p # r /\ projects[p] = NoRow) THEN Refuse(r)
     ELSE /\ Answer(r, "committed")
          /\ projects' = [projects EXCEPT ![p] = IF p = r THEN "default" ELSE @]
          /\ agents' = [agents EXCEPT ![r] =
               [name |-> Ask[r].name, project |-> p, token |-> r, used |-> None, url |-> None]]
  /\ UNCHANGED <<versions, trajs>> /\ UNCHANGED accountVars

InsertAgent(r) ==
  LET p == seen[r].project IN
  /\ At(r, "create", "writing")
  /\ IF \/ Named(Ask[r].name) # {}
        \/ p = r /\ Slugged("default") # {}
        \/ p # r /\ projects[p] = NoRow
     THEN Refuse(r)
     ELSE /\ Answer(r, "committed")
          /\ projects' = [projects EXCEPT ![p] = IF p = r THEN "default" ELSE @]
          /\ agents' = [agents EXCEPT ![r] =
               [name |-> Ask[r].name, project |-> p, token |-> r, used |-> None, url |-> None]]
  /\ UNCHANGED <<versions, trajs>> /\ UNCHANGED accountVars

(* generate_token; a rotation also clears last_token_used_at. *)
Mint(r) ==
  LET row == seen[r].row IN
  /\ \/ At(r, "rotate", "writing")
     \/ At(r, "issue", "writing") /\ row.token = None
  /\ IF Gone(r) THEN Refuse(r)
     ELSE /\ Answer(r, "ok")
          /\ Update(seen[r].agent, row,
                    [row EXCEPT !.token = r, !.used = IF Ask[r].op = "rotate" THEN None ELSE @])
          /\ UNCHANGED projects
  /\ UNCHANGED <<versions, trajs>> /\ UNCHANGED accountVars

HasToken(r) ==
  /\ At(r, "issue", "writing") /\ seen[r].row.token # None
  /\ Answer(r, "conflict")
  /\ UNCHANGED projects /\ UNCHANGED accountVars /\ UNCHANGED agentVars

(* The versions go with the agent; its trajectories stay, without it. *)
DeleteAgent(r) ==
  LET a   == seen[r].agent
      old == {v \in Rows(versions) : versions[v].agent = a} IN
  /\ At(r, "delete", "writing")
  /\ agents' = [agents EXCEPT ![a] = NoRow]
  /\ versions' = [v \in Ids |-> IF v \in old THEN NoRow ELSE versions[v]]
  /\ trajs' = [t \in Trajs |->
       IF trajs[t] = NoRow THEN NoRow
       ELSE [trajs[t] EXCEPT !.agent = IF @ = a THEN None ELSE @,
                             !.version = IF @ \in old THEN None ELSE @]]
  /\ Answer(r, "ok")
  /\ UNCHANGED projects /\ UNCHANGED accountVars

(* A rename is lower-cased; a project is looked up by its slug. *)
PatchAgent(r) ==
  LET found == Named(Ask[r].name)
      name  == IF Ask[r].rename = None THEN Ask[r].name ELSE Lower[Ask[r].rename] IN
  /\ At(r, "patch", "routed")
  /\ \/ found = {} /\ Answer(r, "missing")
     \/ found # {} /\ Ask[r].rename # None /\ name \notin ValidNames /\ Answer(r, "invalid")
     \/ \E a \in found :
          LET taken == Ask[r].rename # None /\ Named(name) \ {a} # {}
              to    == IF Ask[r].slug = None THEN {agents[a].project} ELSE Slugged(Ask[r].slug) IN
          /\ Ask[r].rename = None \/ name \in ValidNames
          /\ \/ taken /\ Answer(r, "conflict")
             \/ ~taken /\ to = {} /\ Answer(r, "missing")
             \/ ~taken /\ \E p \in to :
                  Proceed(r, [agent |-> a, row |-> agents[a],
                              new |-> [agents[a] EXCEPT !.name = name, !.project = p,
                                         !.url = IF Ask[r].url = None THEN @ ELSE Ask[r].url]])
  /\ UNCHANGED projects /\ UNCHANGED accountVars /\ UNCHANGED agentVars

WritePatch(r) ==
  LET new == seen[r].new IN
  /\ At(r, "patch", "writing")
  /\ IF \/ Gone(r)
        \/ new.name # seen[r].row.name /\ Named(new.name) \ {seen[r].agent} # {}
        \/ new.project # seen[r].row.project /\ projects[new.project] = NoRow
     THEN Refuse(r)
     ELSE Answer(r, "committed") /\ Update(seen[r].agent, seen[r].row, new) /\ UNCHANGED projects
  /\ UNCHANGED <<versions, trajs>> /\ UNCHANGED accountVars

-----------------------------------------------------------------------------
(* Projects. *)

CreateProject(r) ==
  /\ At(r, "newproject", "routed")
  /\ IF Slugged(Ask[r].slug) # {} THEN Answer(r, "conflict") ELSE Proceed(r, [project |-> r])
  /\ UNCHANGED projects /\ UNCHANGED accountVars /\ UNCHANGED agentVars

UpdateProject(r) ==
  LET taken == Ask[r].to # Ask[r].slug /\ Slugged(Ask[r].to) # {} IN
  /\ At(r, "reslug", "routed")
  /\ \/ Slugged(Ask[r].slug) = {} /\ Answer(r, "missing")
     \/ Slugged(Ask[r].slug) # {} /\ taken /\ Answer(r, "conflict")
     \/ ~taken /\ \E p \in Slugged(Ask[r].slug) : Proceed(r, [project |-> p])
  /\ UNCHANGED projects /\ UNCHANGED accountVars /\ UNCHANGED agentVars

(* The INSERT or UPDATE of a slug, under the unique key. *)
WriteSlug(r) ==
  LET p  == seen[r].project
      to == IF Ask[r].op = "reslug" THEN Ask[r].to ELSE Ask[r].slug IN
  /\ At(r, "newproject", "writing") \/ At(r, "reslug", "writing")
  /\ IF Slugged(to) \ {p} # {} \/ (Ask[r].op = "reslug" /\ projects[p] = NoRow)
     THEN Refuse(r)
     ELSE Answer(r, "committed") /\ projects' = [projects EXCEPT ![p] = to] /\ UNCHANGED agents
  /\ UNCHANGED <<versions, trajs>> /\ UNCHANGED accountVars

Housed(p) == {a \in Rows(agents) : agents[a].project = p}

DeleteProject(r) ==
  LET found == Slugged(Ask[r].slug) IN
  /\ At(r, "dropproject", "routed")
  /\ \/ Ask[r].slug = "default" /\ Answer(r, "conflict")
     \/ Ask[r].slug # "default" /\ found = {} /\ Answer(r, "missing")
     \/ /\ Ask[r].slug # "default"
        /\ \E p \in found : IF Housed(p) # {} THEN Answer(r, "conflict")
                            ELSE Proceed(r, [project |-> p])
  /\ UNCHANGED projects /\ UNCHANGED accountVars /\ UNCHANGED agentVars

(* Mutant: the count decides, and no foreign key. *)
DropProject_Trusts(r) ==
  /\ At(r, "dropproject", "writing")
  /\ Answer(r, "ok") /\ projects' = [projects EXCEPT ![seen[r].project] = NoRow]
  /\ UNCHANGED agentVars /\ UNCHANGED accountVars

DropProject(r) ==
  /\ At(r, "dropproject", "writing")
  /\ IF Housed(seen[r].project) # {} THEN Refuse(r)
     ELSE Answer(r, "ok") /\ projects' = [projects EXCEPT ![seen[r].project] = NoRow]
          /\ UNCHANGED agents
  /\ UNCHANGED <<versions, trajs>> /\ UNCHANGED accountVars

-----------------------------------------------------------------------------
(* The row is read again for the answer, if it is still there. *)
Reload(r) ==
  /\ \/ At(r, "create", "committed") /\ agents[r] # NoRow
     \/ At(r, "patch", "committed") /\ ~Gone(r)
     \/ /\ At(r, "newproject", "committed") \/ At(r, "reslug", "committed")
        /\ projects[seen[r].project] # NoRow
  /\ Answer(r, "ok")
  /\ UNCHANGED projects /\ UNCHANGED accountVars /\ UNCHANGED agentVars

-----------------------------------------------------------------------------
(* A batch of spans. *)

Bearers(token) == {a \in Rows(agents) : agents[a].token = token}

Authorise(r) ==
  /\ At(r, "post", "sent")
  /\ IF Bearers(Ask[r].token) = {} THEN Answer(r, "unauthorized")
     ELSE /\ pc' = [pc EXCEPT ![r] = "routed"]
          /\ \E a \in Bearers(Ask[r].token) :
               seen' = [seen EXCEPT ![r] = [agent |-> a, row |-> agents[a]]]
          /\ UNCHANGED by
  /\ UNCHANGED projects /\ UNCHANGED accountVars /\ UNCHANGED agentVars

(* A short sha alone versions the batch too, though no key has it. *)
Versioned(r) == Ask[r].sha # None \/ Ask[r].short # None \/ Ask[r].package # None

Matching(r) ==
  {v \in Rows(versions) : versions[v] = [agent |-> seen[r].agent, sha |-> Ask[r].sha,
                                         package |-> Ask[r].package]}

(* scalar_one_or_none raises when two rows match. *)
ResolveVersion(r) ==
  LET with(v) == [agent |-> seen[r].agent, row |-> seen[r].row, version |-> v] IN
  /\ At(r, "post", "routed")
  /\ \/ ~Versioned(r) /\ Proceed(r, with(None))
     \/ Versioned(r) /\ Matching(r) = {} /\ Proceed(r, with(r))
     \/ Versioned(r) /\ Cardinality(Matching(r)) = 1 /\ \E v \in Matching(r) : Proceed(r, with(v))
     \/ Versioned(r) /\ Cardinality(Matching(r)) > 1 /\ Answer(r, "error")
  /\ UNCHANGED projects /\ UNCHANGED accountVars /\ UNCHANGED agentVars

(* NULLs are distinct in the unique key of versions. *)
Duplicate(r) ==
  seen[r].version = r /\ Ask[r].sha # None /\ Ask[r].package # None /\ Matching(r) # {}

(* Mutant: the version follows the last batch, the agent the first. *)
Attributed_LastVersion(old, r) ==
  IF old = NoRow \/ seen[r].version # None
  THEN [agent |-> seen[r].agent, service |-> seen[r].row.name, version |-> r]
  ELSE [old EXCEPT !.service = seen[r].row.name]

(* What the batch makes of its trajectory's row. *)
Attributed(old, r) ==
  LET fresh == [agent |-> seen[r].agent, service |-> seen[r].row.name, version |-> seen[r].version] IN
  IF old = NoRow THEN fresh
  ELSE [agent   |-> IF old.agent = None THEN fresh.agent ELSE old.agent,
        service |-> fresh.service,
        version |-> IF old.version = None THEN fresh.version ELSE old.version]

(* An empty language or URL is refreshed, by what the batch read. *)
Refreshed(r) ==
  [seen[r].row EXCEPT !.used = Ask[r].token,
                      !.url = IF @ = None THEN Ask[r].url ELSE @]

(* One transaction: the version, the trajectory, last_token_used_at.  All  *)
(* of them need the agent's row to be there still.                         *)
WriteBatch(r) ==
  LET a == seen[r].agent
      v == seen[r].version IN
  /\ At(r, "post", "writing")
  /\ IF Gone(r) \/ Duplicate(r)
     THEN Refuse(r) /\ UNCHANGED <<versions, trajs>>
     ELSE /\ Answer(r, "ok")
          /\ versions' = [versions EXCEPT ![r] = IF v = r
                            THEN [agent |-> a, sha |-> Ask[r].sha, package |-> Ask[r].package] ELSE @]
          /\ trajs' = [trajs EXCEPT ![Ask[r].traj] = Attributed(@, r)]
          /\ Update(a, [seen[r].row EXCEPT !.used = NoRow], Refreshed(r))  \* a new time
          /\ UNCHANGED projects
  /\ UNCHANGED accountVars

AgentsNext ==
  \E r \in DOMAIN pc :
    \/ CreateAgent(r) \/ InsertAgent(r)
    \/ Select(r, "rotate") \/ Select(r, "issue") \/ Mint(r) \/ HasToken(r)
    \/ Select(r, "delete") \/ DeleteAgent(r)
    \/ PatchAgent(r) \/ WritePatch(r)
    \/ CreateProject(r) \/ UpdateProject(r) \/ WriteSlug(r)
    \/ DeleteProject(r) \/ DropProject(r) \/ Reload(r)
    \/ Authorise(r) \/ ResolveVersion(r) \/ WriteBatch(r)

-----------------------------------------------------------------------------
(* Requests check a key and insert later; still no two rows ever share     *)
(* one: names of agents (services/agents.py:61), slugs of projects, those  *)
(* of default projects made on demand included (projects/helpers.py:29),   *)
(* e-mails of concurrent first signups (api/auth.py:68), and versions with *)
(* both a sha and a package (otlp/agent_resolver.py:136).  A version with  *)
(* a NULL in the key may be doubled by first batches that overlap, against *)
(* otlp/agent_resolver.py:7; later batches of it are answered 500 then     *)
(* (ResolveVersion).                                                       *)
KeysUnique ==
  /\ \A a, b \in Rows(agents) : agents[a].name = agents[b].name => a = b
  /\ \A p, q \in Rows(projects) : projects[p] = projects[q] => p = q
  /\ \A u, v \in Rows(users) : users[u].email = users[v].email => u = v
  /\ \A v, w \in Rows(versions) :
       versions[v] = versions[w] /\ versions[v].sha # None /\ versions[v].package # None => v = w

(* An agent is assigned to a project, or registered in one, while that     *)
(* project is counted, renamed or deleted (services/projects.py:139): its  *)
(* project is there all the same.                                          *)
ProjectsOutliveAgents == \A a \in Rows(agents) : projects[agents[a].project] # NoRow

Works(token) == Bearers(token) # {}

Known(token) ==
  \/ \E a \in DOMAIN StartAgents : org /\ StartAgents[a].token = token
  \/ token \in DOMAIN pc /\ Ask[token].op \in {"create", "rotate", "issue"} /\ pc[token] = "ok"

(* A token that was rotated away, replaced by a second issue               *)
(* (services/agents.py:129) or deleted with its agent never authenticates  *)
(* again, whatever edits and batches still hold the row that had it.       *)
RevokedStaysRevoked ==
  [][\A t \in Ids : Known(t) /\ ~Works(t) => ~Works(t)']_<<requestVars, accountVars, agentVars, projects>>

(* What batches leave behind is theirs.  A trajectory names agents,        *)
(* versions and services of batches that wrote it and were answered 200,   *)
(* though maybe not of the same one (otlp/ingest.py:220), and no row that  *)
(* is gone; while one agent alone writes it, its version is that agent's.  *)
(* last_token_used_at comes from a batch of this agent, though after a     *)
(* rotation maybe with the old token (services/agents.py:115).             *)
BatchesAttributed ==
  LET Wrote(t) == {r \in DOMAIN pc : Ask[r].op = "post" /\ Ask[r].traj = t /\ pc[r] = "ok"} IN
  /\ \A t \in Rows(trajs) :
       LET T == trajs[t] IN
       /\ T.service \in {seen[r].row.name : r \in Wrote(t)}
       /\ T.agent # None => T.agent \in Rows(agents) \cap {seen[r].agent : r \in Wrote(t)}
       /\ T.version # None => T.version \in Rows(versions) \cap {seen[r].version : r \in Wrote(t)}
       /\ T.version # None /\ (\A q, r \in Wrote(t) : seen[q].agent = seen[r].agent)
            => versions[T.version].agent = T.agent
  /\ \A a \in Rows(agents) : agents[a].used # None =>
       \E r \in UNION {Wrote(t) : t \in Trajs} :
         Ask[r].token = agents[a].used /\ seen[r].agent = a
=============================================================================
