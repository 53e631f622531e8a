------------------------------- MODULE Access -------------------------------
(***************************************************************************)
(* Who may do what in a space: internal/core/access (capabilities, the     *)
(* resolver, the explainer, grants and bulk grants) with the adapters that *)
(* run its queries and the handlers of internal/core/api/grants.           *)
(*                                                                         *)
(* Access is resolved once, when the request comes in; the statements that *)
(* follow do not ask again.                                                *)
(***************************************************************************)
EXTENDS Teams

-----------------------------------------------------------------------------
(* Capabilities *)

NoRole == 0

minRoleFor ==
  [read_items |-> Viewer, create_items |-> Contributor, edit_own_items |-> Contributor,
   comment |-> Contributor, edit_any_item |-> Agent, transition_any_item |-> Agent, manage_queue |-> Agent, manage_space |-> SpaceAdmin,
   manage_grants |-> SpaceAdmin, manage_shares |-> SpaceAdmin]

Grants(r, c) == c \in DOMAIN minRoleFor /\ r # NoRole /\ r >= minRoleFor[c]

-----------------------------------------------------------------------------
(* The resolver *)

DirectTeams(o, u) == {t \in OrgTeams(o) : tm[t][u] # "none" /\ TeamLive(t)}

(* A direct team and everything below it: the paths that meet one.         *)
EffectiveTeams(o, u) ==
  {t \in OrgTeams(o) : TeamLive(t) /\ Range(team[t].path) \cap DirectTeams(o, u) # {}}

LiveGrants(o) == {g \in grants : SpaceOrg[g.sp] = o /\ SpaceLive(g.sp)}

ResolveAccessRows(o, u) ==
  {<<g.sp, g.role>> : g \in {x \in LiveGrants(o) : x.s = u \/ x.s \in EffectiveTeams(o, u)}}
    \cup {<<sp, Viewer>> : sp \in {x \in Space : SpaceOrg[x] = o /\ SpaceLive(x) /\ space[x].vis = "org"}}

ListSpaceIDsByOrg(o) == {sp \in Space : SpaceOrg[sp] = o /\ SpaceLive(sp)}

(* The highest of the rows; an administrator of the organization is at the *)
(* top in every live space of it and holds no row.                         *)
RoleOn(u, sp) ==
  LET o == SpaceOrg[sp] IN
  CASE ~Member(o, u)   -> NoRole
    [] u \in Admins(o) -> IF sp \in ListSpaceIDsByOrg(o) THEN SpaceAdmin ELSE NoRole
    [] OTHER           -> Max({NoRole} \cup {r[2] : r \in {x \in ResolveAccessRows(o, u) : x[1] = sp}})

CanReadSpace(u, sp) == RoleOn(u, sp) # NoRole
IsOrgAdmin(u, o) == u \in Admins(o)

Can(u, c, sp) ==
  IF IsOrgAdmin(u, SpaceOrg[sp]) THEN CanReadSpace(u, sp) ELSE Grants(RoleOn(u, sp), c)

(* An edit is anyone's who may edit any item, and the author's own.        *)
CanEditEntity(u, sp, author) ==
  \/ Can(u, "edit_any_item", sp)
  \/ u = author /\ Can(u, "edit_own_items", sp)

-----------------------------------------------------------------------------
(* The explainer: another path to the same answer, from other queries *)

\* mutant: a team's grant reaches its own members and not the teams below
ListMatchingGrantsDirect(o, sp, u) == {g \in grants : g.sp = sp /\ g.s \in {u} \cup DirectTeams(o, u)}

ListMatchingGrantsForSpace(o, sp, u) ==
  {g \in grants : /\ g.sp = sp
                  /\ \/ g.s = u
                     \/ /\ g.s \in Team /\ TeamLive(g.s)
                        /\ Range(team[g.s].path) \cap DirectTeams(o, u) # {}}

collectChain(matches) == Max({NoRole} \cup {g.role : g \in matches})

Explain(u, sp) ==
  LET o == SpaceOrg[sp]
      best == collectChain(ListMatchingGrantsForSpace(o, sp, u))
  IN
  CASE ~Member(o, u)   -> NoRole
    [] IsOrgAdmin(u, o) -> SpaceAdmin
    [] OTHER           -> IF space[sp].vis = "org" /\ best < Viewer THEN Viewer ELSE best

-----------------------------------------------------------------------------
(* Grants, one at a time *)

(* requireManageGrants, then ValidateSubjectInOrg.                         *)
CreateGrantBegin(h) ==
  /\ Ready(h, "grant")
  /\ \E u \in Work.callers, sp \in Space, s \in Work.subjects, r \in Work.grades :
       /\ Can(u, "manage_grants", sp)
       /\ IF s \in User THEN Member(SpaceOrg[sp], s) ELSE TeamLive(s) /\ TeamOrg[s] = SpaceOrg[sp]
       /\ Begin(h, [op |-> "grant", pc |-> "insert", sp |-> sp, s |-> s, r |-> r])
       /\ UNCHANGED <<orgVars, space>>

(* A bulk apply may hold an equal row it has just inserted: the unique     *)
(* index waits, and then finds it.                                         *)
CreateGrant(h) ==
  LET r == req[h] IN
  /\ At(h, "grant", "insert")
  /\ FreeGrantId # {}
  /\ grants' = IF NoGrantYet(grants, r.sp, r.s) THEN CreateSpaceGrant(grants, r.sp, r.s, r.r) ELSE grants
  /\ End(h)
  /\ UNCHANGED <<account, role, team, tm, sess, space>>

(* PATCH and DELETE read the grant, check that it is this space's, and go  *)
(* on by its id.                                                           *)
grantInSpace(h, op) ==
  /\ Ready(h, op)
  /\ \E u \in Work.callers, g \in grants, r \in Work.grades :
       /\ Can(u, "manage_grants", g.sp)
       /\ Begin(h, [op |-> op, pc |-> "write", id |-> g.id, r |-> r])
       /\ UNCHANGED <<orgVars, space>>

UpdateGrantBegin(h) == grantInSpace(h, "regrade")
DeleteGrantBegin(h) == grantInSpace(h, "ungrant")

UpdateGrantRole(h) ==
  /\ At(h, "regrade", "write")
  /\ Free(h, {<<"grant", req[h].id>>})
  /\ grants' = UpdateSpaceGrantRole(grants, req[h].id, req[h].r)
  /\ End(h)
  /\ UNCHANGED <<account, role, team, tm, sess, space>>

DeleteGrant(h) ==
  /\ At(h, "ungrant", "write")
  /\ Free(h, {<<"grant", req[h].id>>})
  /\ grants' = DeleteSpaceGrant(grants, req[h].id)
  /\ End(h)
  /\ UNCHANGED <<account, role, team, tm, sess, space>>

-----------------------------------------------------------------------------
(* Bulk: a set of cells (team, space), each with the role it is to have or *)
(* none, applied in one transaction.                                       *)

NoChange == 0   \* a cell without a role revokes

(* The diff against the rows: what is done to each cell.                   *)
classifyChange(c, rows) ==
  LET cur == {g \in rows : g.sp = c.sp /\ g.s = c.t} IN
  CASE c.role = NoChange /\ cur = {} -> [do |-> "noop"]
    [] c.role = NoChange /\ cur # {} -> [do |-> "revoke", id |-> (CHOOSE g \in cur : TRUE).id]
    [] c.role # NoChange /\ cur = {} -> [do |-> "create", cell |-> c]
    [] \E g \in cur : g.role = c.role -> [do |-> "noop"]
    [] OTHER                         -> [do |-> "update", id |-> (CHOOSE g \in cur : TRUE).id, cell |-> c]

computeBulkDiff(changes, rows) == {classifyChange(c, rows) : c \in changes}

(* Every action of the diff on the table, or nothing: a row that is there  *)
(* already, or no longer, fails the transaction.                           *)
executeBulkAction(gs, a) ==
  CASE a.do = "revoke" -> DeleteSpaceGrant(gs, a.id)
    [] a.do = "update" -> UpdateSpaceGrantRole(gs, a.id, a.cell.role)
    [] a.do = "create" -> CreateSpaceGrant(gs, a.cell.sp, a.cell.t, a.cell.role)
    [] OTHER           -> gs

BulkFails(gs, diff) ==
  \E a \in diff : \/ a.do = "create" /\ ~NoGrantYet(gs, a.cell.sp, a.cell.t)
                  \/ a.do = "update" /\ a.id \notin {g.id : g \in gs}

validateBulkTargets(o, changes) ==
  \A c \in changes : TeamLive(c.t) /\ TeamOrg[c.t] = o /\ c.sp \in ListSpaceIDsByOrg(o)

ApplyBulkBegin(h) ==
  /\ Ready(h, "bulk")
  /\ \E o \in Org, cs \in Work.bulks :
       /\ AdminGate(o)
       /\ validateBulkTargets(o, cs)
       /\ Begin(h, [op |-> "bulk", pc |-> "lock", o |-> o, cs |-> cs])
       /\ UNCHANGED <<orgVars, space>>

TeamGrants(o) == {g \in LiveGrants(o) : g.s \in Team}

\* mutant: the rows are read and not locked
ReadTeamGrants(h) ==
  /\ At(h, "bulk", "lock")
  /\ Go(h, [op |-> "bulk", pc |-> "execute", o |-> req[h].o, cs |-> req[h].cs,
            diff |-> computeBulkDiff(req[h].cs, TeamGrants(req[h].o))])
  /\ UNCHANGED <<orgVars, space>>

ListTeamGrantsByOrgForUpdate(h) ==
  LET rows == TeamGrants(req[h].o) IN
  /\ At(h, "bulk", "lock")
  /\ GoLocked(h, GrantRows(rows), [op |-> "bulk", pc |-> "execute", o |-> req[h].o, cs |-> req[h].cs,
                                   diff |-> computeBulkDiff(req[h].cs, rows)])
  /\ UNCHANGED <<orgVars, space>>

ApplyBulk(h) ==
  LET diff == req[h].diff IN
  /\ At(h, "bulk", "execute")
  /\ Cardinality(FreeGrantId) >= Cardinality({a \in diff : a.do = "create"})
  /\ grants' = IF BulkFails(grants, diff) THEN grants ELSE FoldSet(LAMBDA a, gs : executeBulkAction(gs, a), grants, diff)
  /\ End(h)
  /\ UNCHANGED <<account, role, team, tm, sess, space>>

AccessStep(h) ==
  \/ CreateGrantBegin(h) \/ CreateGrant(h)
  \/ UpdateGrantBegin(h) \/ UpdateGrantRole(h) \/ DeleteGrantBegin(h) \/ DeleteGrant(h)
  \/ ApplyBulkBegin(h) \/ ListTeamGrantsByOrgForUpdate(h) \/ ApplyBulk(h)
=============================================================================
