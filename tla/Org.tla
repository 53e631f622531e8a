--------------------------------- MODULE Org ---------------------------------
(***************************************************************************)
(* The rows the components share: users, memberships, teams, team_members, *)
(* spaces, the access grants whose subject is a person or a team, and      *)
(* sessions, with the statements of internal/db/queries that read and      *)
(* write them.  A statement that writes is an operator from the table's    *)
(* old value to its new one, so that a transaction is one assignment.      *)
(***************************************************************************)
EXTENDS Server, FiniteSetsExt, SequencesExt

CONSTANTS User, Org, Team, Email, Sid, Space, GrantId,
          TeamOrg,      \* the organization a team id belongs to
          DefaultTeam,  \* the default team of each organization
          SpaceOrg,     \* the organization a space id belongs to
          MaxDepth      \* teams.MaxDepth and the CHECK teams_depth_max

ASSUME TeamsBelong ==
  /\ TeamOrg \in [Team -> Org]
  /\ DefaultTeam \in [Org -> Team]
  /\ SpaceOrg \in [Space -> Org]
  /\ \A o \in Org : TeamOrg[DefaultTeam[o]] = o
  /\ MaxDepth \in Nat \ {0}

VARIABLES account, role, team, tm, grants, sess, space

(* What the account components write; they only read space.                *)
orgVars == <<account, role, team, tm, grants, sess>>

AdminRole == {"owner", "admin"}
Role      == {"member"} \cup AdminRole

(* A users row.  st is absent until the row is inserted.  pw counts the    *)
(* passwords the account has had, 0 being none yet.                        *)
Account == [st : {"absent", "live", "deleted"}, active : BOOLEAN,
            gen : Nat, pw : Nat, email : Email, home : Org]

(* A sessions row and the token pair minted with it: gen is the pair's     *)
(* tgen claim.  pw, at and awake remember, for the properties, the         *)
(* password, the address and the is_active flag the account row had when   *)
(* the sign-in read it.                                                    *)
NoSession == [st |-> "none", u |-> Nil, gen |-> 0, pw |-> 0, at |-> Nil, awake |-> TRUE]

(* A spaces row: its key, its owning team, its visibility, the people in   *)
(* the legacy space_members table and whether it has a workflow assigned.  *)
Visibility == {"hidden", "discoverable", "org"}
SpaceRow == [st : {"absent", "live", "deleted"}, key : STRING \cup {Nil}, owner : Team \cup {Nil}, vis : Visibility,
             mem : SUBSET User, wf : BOOLEAN]

(* The roles of a space_grants row, in their order.                        *)
Viewer == 1
Contributor == 2
Agent == 3
SpaceAdmin == 4
Grant == [id : GrantId, sp : Space, s : User \cup Team, role : Viewer .. SpaceAdmin]

(* A teams row: its parent and the path from the root to itself.           *)
TeamRow == [st : {"absent", "live", "deleted"}, parent : Team \cup {Nil}, path : Seq(Team)]

ASSUME CastsAreTyped ==
  \A m \in DOMAIN Casts :
    /\ Casts[m].account \in [User -> Account]
    /\ Casts[m].role \in [Org -> [User -> Role \cup {"none"}]]
    /\ Casts[m].team \in [Team -> TeamRow]
    /\ Casts[m].tm \in [Team -> [User -> {"none", "member", "primary"}]]
    /\ Casts[m].grants \subseteq Grant
    /\ Casts[m].space \in [Space -> SpaceRow]

(* and a live team has the teams of its own organization above it.         *)
ASSUME CastPathsStayHome ==
  \A m \in DOMAIN Casts : \A t \in Team :
    LET row == Casts[m].team[t] IN
    row.st = "live" => \A i \in DOMAIN row.path : TeamOrg[row.path[i]] = TeamOrg[t]

(* The population the workload starts from.                                *)
OrgInit ==
  /\ account = Cast.account
  /\ role = Cast.role
  /\ team = Cast.team
  /\ tm = Cast.tm
  /\ grants = Cast.grants
  /\ sess = [s \in Sid |-> NoSession]
  /\ space = Cast.space

-----------------------------------------------------------------------------
(* users and memberships *)

Live(u)     == account[u].st = "live"
Active(u)   == Live(u) /\ account[u].active
Member(o, u)  == role[o][u] # "none"
IsAdminClass(r) == r \in AdminRole
Admins(o)   == {u \in User : IsAdminClass(role[o][u])}

\* mutant: an inactive administrator counts
CountOtherOrgAdmins(o, u) == Cardinality(Admins(o) \ {u})
CountOtherActiveOrgAdmins(o, u) ==
  Cardinality({v \in Admins(o) \ {u} : Active(v)})

ListOrgsWhereUserIsLastAdmin(u) ==
  {o \in Org : u \in Admins(o) /\ CountOtherActiveOrgAdmins(o, u) = 0}

(* The rows the two locking queries choose. *)
LockAdminMembershipsInOrg(o) == {<<"membership", o, u>> : u \in Admins(o)}
LockAdminMembershipsForUserOrgs(u) ==
  UNION {LockAdminMembershipsInOrg(o) : o \in {p \in Org : u \in Admins(p)}}

BumpTokenGeneration(a, u)   == [a EXCEPT ![u].gen = @ + 1]
\* mutants: no bump rides the write; the address comes back empty
DeactivateWithoutBump(a, u)   == [a EXCEPT ![u].active = FALSE]
PasswordWithoutBump(a, u)     == [a EXCEPT ![u].pw = @ + 1]

DeactivateUserAccount(a, u) == [a EXCEPT ![u].active = FALSE, ![u].gen = @ + 1]
ReactivateUserAccount(a, u) == [a EXCEPT ![u].active = TRUE]
UpdateUserPasswordHash(a, u) == [a EXCEPT ![u].pw = @ + 1, ![u].gen = @ + 1]
UpdateUserEmail(a, u, e)    == [a EXCEPT ![u].email = e, ![u].gen = @ + 1]
UpdateUserProfile(a, u, e)  == [a EXCEPT ![u].email = e]

(* users is UNIQUE (org_id, email): a row may take the address only if no  *)
(* other row of its home organization has it.                              *)
EmailFree(u, o, e) ==
  \A v \in User \ {u} : account[v].st # "absent" /\ account[v].home = o => account[v].email # e

CreateUser(a, u, o, e, p) ==
  [a EXCEPT ![u] = [st |-> "live", active |-> TRUE, gen |-> 0, pw |-> p, email |-> e, home |-> o]]

GetUserByEmail(e) == {u \in User : Live(u) /\ account[u].email = e}
GetUserByEmailAndOrg(o, e) == {u \in GetUserByEmail(e) : account[u].home = o}

-----------------------------------------------------------------------------
(* sessions *)

RevokeSession(ss, s) == [ss EXCEPT ![s].st = IF @ = "live" THEN "revoked" ELSE @]
RevokeAllUserSessions(ss, u) ==
  [s \in Sid |-> IF ss[s].u = u THEN RevokeSession(ss, s)[s] ELSE ss[s]]

(* What the token pair of a session says, and the one read the middleware  *)
(* makes to judge it: the account's flag and generation, and whether the   *)
(* session the token names is still there, unrevoked and unexpired.        *)
Claims(s) == [user |-> sess[s].u, tgen |-> sess[s].gen, sid |-> s]
AuthState(u, s) ==
  [active |-> Active(u), tgen |-> account[u].gen, sessionValid |-> sess[s].st = "live" /\ sess[s].u = u]

checkAuthState(c) ==
  LET state == AuthState(c.user, c.sid)
  IN  state.active /\ c.tgen = state.tgen /\ state.sessionValid

Accepted(s) == sess[s].st # "none" /\ checkAuthState(Claims(s))

-----------------------------------------------------------------------------
(* teams and team_members *)

TeamLive(t)  == team[t].st = "live"
OrgTeams(o)  == {t \in Team : TeamOrg[t] = o}
Subtree(t)   == {x \in OrgTeams(TeamOrg[t]) : TeamLive(x) /\ t \in Range(team[x].path)}
ListSubtreeForUpdate(t) == {<<"team", x>> : x \in Subtree(t)}

AddTeamMember(m, t, u)   == [m EXCEPT ![t][u] = IF @ = "none" THEN "member" ELSE @]
ClearPrimaryTeam(m, o, u) ==
  [t \in Team |-> IF TeamOrg[t] = o /\ m[t][u] = "primary" THEN [m[t] EXCEPT ![u] = "member"] ELSE m[t]]
SetPrimaryFlag(m, t, u)  == [m EXCEPT ![t][u] = IF @ = "none" THEN @ ELSE "primary"]
DeleteTeamMembershipsInOrg(m, o, u) ==
  [t \in Team |-> IF TeamOrg[t] = o THEN [m[t] EXCEPT ![u] = "none"] ELSE m[t]]

PrimaryTeams(m, o, u) == {t \in OrgTeams(o) : m[t][u] = "primary"}

(* team_members_one_primary: a statement that would give a person a second *)
(* primary team of the organization fails and its transaction with it.     *)
OnePrimary(m) == \A o \in Org, u \in User : Cardinality(PrimaryTeams(m, o, u)) <= 1

EnrolAsMember(m, o, t, u) == AddTeamMember(m, t, u)   \* mutant: nobody made it primary

(* Enrolment in a team, as primary when the person has no primary yet.     *)
EnrolIn(m, o, t, u) ==
  IF PrimaryTeams(m, o, u) = {} THEN SetPrimaryFlag(AddTeamMember(m, t, u), t, u)
  ELSE AddTeamMember(m, t, u)

-----------------------------------------------------------------------------
(* spaces and space_grants *)

SpaceLive(sp) == space[sp].st = "live"

(* idx_spaces_org_key: a live space's key is its own in the organization.  *)
SpaceKeyFree(sp, k) ==
  \A x \in Space \ {sp} : SpaceLive(x) /\ SpaceOrg[x] = SpaceOrg[sp] => space[x].key # k
CountTeamOwnedSpaces(t) == Cardinality({sp \in Space : SpaceLive(sp) /\ space[sp].owner = t})

FreeGrantId == GrantId \ {g.id : g \in grants}
GrantRows(gs) == {<<"grant", g.id>> : g \in gs}

(* space_grants is UNIQUE (space_id, subject_type, subject_id).            *)
NoGrantYet(gs, sp, s) == \A g \in gs : g.sp # sp \/ g.s # s
CreateSpaceGrant(gs, sp, s, r) ==
  gs \cup {[id |-> Min(GrantId \ {g.id : g \in gs}), sp |-> sp, s |-> s, role |-> r]}
UpdateSpaceGrantRole(gs, id, r) == {IF g.id = id THEN [g EXCEPT !.role = r] ELSE g : g \in gs}
DeleteSpaceGrant(gs, id) == {g \in gs : g.id # id}

DeleteGrantsBySubject(gs, o, s) == {g \in gs : g.s # s \/ SpaceOrg[g.sp] # o}
=============================================================================
