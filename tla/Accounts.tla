------------------------------ MODULE Accounts ------------------------------
(***************************************************************************)
(* People, teams, sessions, credential links, invitations and the          *)
(* administration of workflows together: they write the same accounts,     *)
(* memberships and team rows, each from its own transactions.              *)
(***************************************************************************)
EXTENDS Invites, Workflows

(* The service takes no other role in a request (people/service.go), the   *)
(* handlers take a team by its id, and each organization has an active     *)
(* administrator to begin with.                                            *)
ASSUME WorkloadsAskForARole ==
  \A m \in DOMAIN Mixes : {"roles", "teams"} \subseteq DOMAIN Mixes[m] /\ Mixes[m].roles \subseteq {"member", "admin"}
ASSUME WorkloadsNameTeams == \A m \in DOMAIN Mixes : Mixes[m].teams \subseteq Team
ASSUME CastsHaveAnAdmin ==
  \A m \in DOMAIN Casts : \A o \in Org : \E u \in User :
    /\ Casts[m].role[o][u] \in AdminRole
    /\ Casts[m].account[u].st = "live" /\ Casts[m].account[u].active

(* x is at the end of its path, each team on it is live, of the same       *)
(* organization and has the path down to itself, and the last but one is   *)
(* x's parent.                                                             *)
Rooted(rows, x) ==
  LET p == rows[x].path IN
  /\ Len(p) \in 1 .. MaxDepth /\ p[Len(p)] = x
  /\ \A i \in 1 .. Len(p) :
       LET y == p[i] IN
       /\ rows[y].st = "live" /\ TeamOrg[y] = TeamOrg[x]
       /\ Len(rows[y].path) = i /\ \A j \in 1 .. i : rows[y].path[j] = p[j]
  /\ IF rows[x].parent = Nil THEN Len(p) = 1 ELSE Len(p) > 1 /\ rows[x].parent = p[Len(p) - 1]

(* The teams and memberships there are to begin with are in order.         *)
ASSUME CastTeamsStand ==
  \A m \in DOMAIN Casts :
    LET c == Casts[m] IN
    /\ \A t \in Team : c.team[t].st = "live" => Rooted(c.team, t)
    /\ \A o \in Org : c.team[DefaultTeam[o]].st = "live"
    /\ \A o \in Org, u \in User :
         IF c.role[o][u] # "none"
         THEN \E t \in Team : c.team[t].st = "live" /\ {x \in OrgTeams(o) : c.tm[x][u] = "primary"} = {t}
         ELSE /\ \A t \in OrgTeams(o) : c.tm[t][u] = "none"
              /\ \A g \in c.grants : g.s = u => SpaceOrg[g.sp] # o
    /\ \A i \in DOMAIN c.invite :
         /\ c.invite[i].role \in Role
         /\ c.invite[i].team \in Team \cup {Nil} /\ c.invite[i].o \in Org
         /\ c.invite[i].team # Nil => TeamOrg[c.invite[i].team] = c.invite[i].o

AccountsInit == ServerInit /\ OrgInit /\ LinkInit /\ InviteInit /\ WorkflowInit

PersonsStep(h) ==
  \/ (PeopleStep(h) \/ TeamsStep(h) \/ SessionsStep(h)) /\ UNCHANGED <<linkVars, inviteVars>>
  \/ LinksStep(h) /\ UNCHANGED inviteVars
  \/ InvitesStep(h)
  \/ Victim(h) /\ UNCHANGED <<orgVars, linkVars, inviteVars>>

Expiry ==
  \/ \E l \in Link : LinkExpires(l) /\ UNCHANGED inviteVars
  \/ \E i \in Invite : InviteExpires(i)
  \/ \E s \in Sid : SessionExpires(s) /\ UNCHANGED <<linkVars, inviteVars>>

AccountsNext ==
  \/ \E h \in Handler : PersonsStep(h) /\ UNCHANGED <<space, workflowVars>>
  \/ Expiry /\ UNCHANGED <<space, workflowVars>>
  \/ \E h \in Handler : WorkflowsStep(h) /\ UNCHANGED <<linkVars, inviteVars>>

AccountsSpec == AccountsInit /\ [][AccountsNext]_<<accountVars, space, workflowVars>>

-----------------------------------------------------------------------------

(* An organization never runs out of active administrators: whatever       *)
(* demotions, removals and deactivations are in flight, the locks and the  *)
(* counts under them leave one (people/errors.go, ErrLastAdmin).           *)
AdminRemains == \A o \in Org : \E u \in Admins(o) : Active(u)

(* A token the middleware has once refused is refused for good: no         *)
(* reactivation, sign-in or bump makes it acceptable again.                *)
KillIsPermanent ==
  [][\A s \in Sid : sess[s].st # "none" /\ ~Accepted(s) => ~Accepted(s)']_accountVars

(* A session that is still accepted was opened with the password and under *)
(* the address its account has now, by an account that was active: every   *)
(* change of either, and every deactivation, ended the sessions before it. *)
NoSessionOutlivesItsCredentials ==
  \A s \in Sid : Accepted(s) => /\ sess[s].pw = account[sess[s].u].pw
                                /\ sess[s].at = account[sess[s].u].email
                                /\ sess[s].awake

(* Each member has exactly one primary team, and it is a live one,         *)
(* whatever teams are deleted, left and joined (ADR-0006, never teamless); *)
(* who is no member of an organization is in none of its teams and holds   *)
(* no grant there.                                                         *)
OneTeamEach ==
  \A o \in Org, u \in User :
    IF Member(o, u) THEN \E t \in Team : TeamLive(t) /\ PrimaryTeams(tm, o, u) = {t}
    ELSE /\ \A t \in OrgTeams(o) : tm[t][u] = "none"
         /\ \A g \in grants : g.s = u => SpaceOrg[g.sp] # o

(* The path of a live team is its live parent's path and itself, no deeper *)
(* than MaxDepth, so that no chain of parents is a cycle (teams.sql,       *)
(* CreateTeam and ReparentSubtree).                                        *)
PathsFollowParents ==
  \A t \in Team : TeamLive(t) =>
    LET p == team[t].parent
    IN  /\ Len(team[t].path) <= MaxDepth
        /\ IF p = Nil THEN team[t].path = <<t>>
           ELSE TeamLive(p) /\ team[t].path = Append(team[p].path, t)

(* Both, of the team rows and the rows of their members.                   *)
TeamsAreSound == OneTeamEach /\ PathsFollowParents

(* A credential link takes effect at most once, and is spent by it         *)
(* (queries/credential_links.sql, the guarded consume).                    *)
LinksSpentOnce == \A l \in Link : uses[l] <= 1 /\ (uses[l] = 1 <=> link[l].st = "consumed")

(* An invitation is accepted by one person only, and is over by it         *)
(* (queries/invites.sql, MarkInviteAccepted).                              *)
InvitesAcceptedOnce == \A i \in Invite : Len(joined[i]) <= 1 /\ (Len(joined[i]) = 1 <=> invite[i].st = "accepted")

(* It was accepted with the token that was current: a resend ends the link *)
(* sent before (queries/invites.sql, RefreshInviteToken).                  *)
AcceptedWithTheCurrentToken == \A i \in Invite : \A j \in Range(joined[i]) : j.tok = invite[i].tok

TokensSpentOnce == LinksSpentOnce /\ InvitesAcceptedOnce /\ AcceptedWithTheCurrentToken

(* Deletions racing additions leave no dangling row: a transition joins    *)
(* two live states of its own live workflow, a guard, post-function or     *)
(* approver hangs from a live transition, a workflow has one initial state *)
(* at most, and a space follows a live workflow of its own organization.   *)
GraphsStayWhole ==
  /\ \A s \in WfState : StateLive(s) => FlowLive(wstate[s].w)
  /\ \A e \in WfEdge : EdgeLive(e) => {wedge[e].from, wedge[e].to} \subseteq ListStates(wedge[e].w)
  /\ \A t \in TierRow : TierLive(t) => EdgeLive(tier[t].e)
  /\ \A w \in Workflow : Cardinality({s \in ListStates(w) : wstate[s].init}) <= 1
  /\ \A sp \in Space : /\ space[sp].wf <=> assigned[sp] # Nil
                       /\ assigned[sp] # Nil => workflowInOrg(SpaceOrg[sp], assigned[sp])

GraphOf(w) ==
  <<flow[w], ListStates(w), ListTransitions(w), UNION {ListGuards(e) \cup ListPostFunctions(e) \cup ListApprovers(e) : e \in ListTransitions(w)}>>

(* Ids name rows of every organization, and a handler checks the path's    *)
(* once, before its write: still, a workflow and what is in it change only *)
(* by a request to the organization that has it (handler.go, workflowInOrg *)
(* and the checks of the row against its workflow).                        *)
OnlyOwnAdministrators ==
  [][\A w \in Workflow :
       FlowLive(w) /\ GraphOf(w)' # GraphOf(w) =>
         \E h \in Handler : req[h].op \in WorkflowOp /\ req[h].o = flow[w].o /\ req'[h] = Idle]_<<accountVars, workflowVars>>
=============================================================================
