------------------------------ MODULE Workspace ------------------------------
(***************************************************************************)
(* The API of one organization: requests of all kinds served at the same   *)
(* time over one database.                                                 *)
(***************************************************************************)
EXTENDS Agents, Collab

vars == <<requestVars, accountVars, projects, agentVars, collabVars>>

TypeOK == AccountsTypeOK /\ AgentsTypeOK /\ CollabTypeOK

Init == AccountsInit /\ AgentsInit /\ CollabInit

Next ==
  \/ AccountsNext /\ UNCHANGED <<agentVars, collabVars>>
  \/ AgentsNext /\ UNCHANGED collabVars
  \/ CollabNext /\ UNCHANGED agentVars

Spec == Init /\ [][Next]_vars
=============================================================================
