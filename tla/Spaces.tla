------------------------------- MODULE Spaces -------------------------------
(***************************************************************************)
(* Spaces: internal/core/api/spaces and the creation transaction of        *)
(* internal/db/adapters/space_create_tx.go.                                *)
(***************************************************************************)
EXTENDS Access

(* The leads of a team: a flag of the membership row nothing here changes. *)
Leads(u, t) == tm[t][u] # "none" /\ <<u, t>> \in Cast.leads

(* resolveOwnerTeam, canCreateSpace and the visibility authority.          *)
createPreconditions(u, o, t, vis) ==
  /\ TeamLive(t) /\ TeamOrg[t] = o
  /\ IsOrgAdmin(u, o) \/ Leads(u, t)
  /\ vis # "discoverable" => IsOrgAdmin(u, o)

(* A key the request gives is the one it gets or is refused; one derived   *)
(* from the name is tried again with a number until it is free.            *)
KeyCandidates(k) == IF k = Nil THEN Work.keys ELSE {k}
FreeKeys(r) == {k \in KeyCandidates(r.key) : SpaceKeyFree(r.sp, k)}

CreateSpaceBegin(h) ==
  /\ Ready(h, "createspace")
  /\ \E u \in Work.callers, sp \in Space, t \in Team, vis \in Work.visibilities, k \in Work.keys \cup {Nil} :
       LET o == SpaceOrg[sp] IN
       /\ space[sp].st = "absent"
       /\ Member(o, u)
       /\ createPreconditions(u, o, t, vis)
       /\ Begin(h, [op |-> "createspace", pc |-> "create", u |-> u, sp |-> sp, t |-> t, vis |-> vis,
                    key |-> k, needsGrant |-> ~IsOrgAdmin(u, o)])
       /\ UNCHANGED <<orgVars, space>>

CreatorGrant(gs, r) == IF r.needsGrant THEN CreateSpaceGrant(gs, r.sp, r.u, SpaceAdmin) ELSE gs

(* The row, the creator's space_members row and, when he is no             *)
(* administrator, his grant: together, or not at all when he has left the  *)
(* organization.  The foreign key waits for a deletion of the owning team, *)
(* and is content with the row it left.                                    *)
CreateSpaceTx(h) ==
  LET r == req[h] IN
  /\ At(h, "createspace", "create")
  /\ Free(h, {<<"team", r.t>>})
  /\ r.needsGrant => FreeGrantId # {}
  /\ IF space[r.sp].st = "absent" /\ (r.needsGrant => Member(SpaceOrg[r.sp], r.u)) /\ FreeKeys(r) # {}
     THEN \E k \in FreeKeys(r) :
            /\ space' = [space EXCEPT ![r.sp] = [st |-> "live", key |-> k, owner |-> r.t, vis |-> r.vis,
                                                 mem |-> {r.u}, wf |-> FALSE]]
            /\ grants' = CreatorGrant(grants, r)
            /\ Commit(h, [op |-> "createspace", pc |-> "workflow", sp |-> r.sp])
     ELSE End(h) /\ UNCHANGED <<space, grants>>
  /\ UNCHANGED <<account, role, team, tm, sess>>

(* Best effort: a failure is logged and the space stays without.           *)
AssignDefaultWorkflowToSpace(h) ==
  /\ At(h, "createspace", "workflow")
  /\ \E done \in BOOLEAN : space' = [space EXCEPT ![req[h].sp].wf = done]
  /\ End(h)
  /\ UNCHANGED orgVars

-----------------------------------------------------------------------------
(* PUT: the row, the visibility and the owning team are three statements,  *)
(* and what the request leaves alone it compares with the row read first.  *)

requireVisibilityAuthority(u, sp, vis) == vis # space[sp].vis => IsOrgAdmin(u, SpaceOrg[sp])

UpdateSpaceBegin(h) ==
  /\ Ready(h, "updatespace")
  /\ \E u \in Work.callers, sp \in Space, vis \in Work.visibilities, t \in Work.teams \cup {Nil},
        k \in Work.keys \cup {Nil} :
       /\ Can(u, "manage_space", sp)
       /\ requireVisibilityAuthority(u, sp, vis)
       /\ Begin(h, [op |-> "updatespace", pc |-> "row", sp |-> sp, vis |-> vis, t |-> t,
                    key |-> IF k = Nil THEN space[sp].key ELSE k,
                    was |-> [vis |-> space[sp].vis, owner |-> space[sp].owner]])
       /\ UNCHANGED <<orgVars, space>>

UpdateSpace(h) ==
  LET r == req[h] IN
  /\ At(h, "updatespace", "row")
  /\ IF SpaceLive(r.sp) /\ SpaceKeyFree(r.sp, r.key)
     THEN space' = [space EXCEPT ![r.sp].key = r.key] /\ Go(h, [r EXCEPT !.pc = "visibility"])
     ELSE End(h) /\ UNCHANGED space
  /\ UNCHANGED orgVars

applyVisibilityChange(h) ==
  LET r == req[h] IN
  /\ At(h, "updatespace", "visibility")
  /\ IF r.vis = r.was.vis THEN Go(h, [r EXCEPT !.pc = "owner"]) /\ UNCHANGED space
     ELSE IF SpaceLive(r.sp)
          THEN space' = [space EXCEPT ![r.sp].vis = r.vis] /\ Go(h, [r EXCEPT !.pc = "owner"])
          ELSE End(h) /\ UNCHANGED space
  /\ UNCHANGED orgVars

applyOwnerTeamChange(h) ==
  LET r == req[h] IN
  /\ At(h, "updatespace", "owner")
  /\ IF r.t \notin {Nil, r.was.owner} /\ TeamLive(r.t) /\ TeamOrg[r.t] = SpaceOrg[r.sp]
     THEN Go(h, [r EXCEPT !.pc = "setowner"])
     ELSE End(h)
  /\ UNCHANGED <<orgVars, space>>

SetSpaceOwnerTeam(h) ==
  LET r == req[h] IN
  /\ At(h, "updatespace", "setowner")
  /\ Free(h, {<<"team", r.t>>})
  /\ space' = IF SpaceLive(r.sp) THEN [space EXCEPT ![r.sp].owner = r.t] ELSE space
  /\ End(h)
  /\ UNCHANGED orgVars

-----------------------------------------------------------------------------
(* Deletion, and the legacy members, who are a list and not an access path *)

DeleteSpace(h) ==
  /\ Ready(h, "deletespace")
  /\ \E u \in Work.callers, sp \in Space :
       /\ Can(u, "manage_space", sp)
       /\ Begin(h, [op |-> "deletespace", pc |-> "delete", sp |-> sp])
       /\ UNCHANGED <<orgVars, space>>

SoftDeleteSpace(h) ==
  /\ At(h, "deletespace", "delete")
  /\ space' = [space EXCEPT ![req[h].sp].st = "deleted"]
  /\ End(h)
  /\ UNCHANGED orgVars

AddSpaceMember(h) ==
  /\ Ready(h, "spacemember")
  /\ \E u \in Work.callers, sp \in Space, v \in User :
       /\ Can(u, "manage_space", sp)
       /\ Serve
       /\ space' = [space EXCEPT ![sp].mem = @ \cup {v}]
       /\ UNCHANGED orgVars

RemoveSpaceMember(h) ==
  /\ Ready(h, "spacemember")
  /\ \E u \in Work.callers, sp \in Space, v \in User :
       /\ Can(u, "manage_space", sp)
       /\ Serve
       /\ space' = [space EXCEPT ![sp].mem = @ \ {v}]
       /\ UNCHANGED orgVars

SpacesStep(h) ==
  \/ CreateSpaceBegin(h) \/ CreateSpaceTx(h) \/ AssignDefaultWorkflowToSpace(h)
  \/ UpdateSpaceBegin(h) \/ UpdateSpace(h) \/ applyVisibilityChange(h)
  \/ applyOwnerTeamChange(h) \/ SetSpaceOwnerTeam(h)
  \/ DeleteSpace(h) \/ SoftDeleteSpace(h) \/ AddSpaceMember(h) \/ RemoveSpaceMember(h)
=============================================================================
