---------------------------- MODULE GraphsProofs ----------------------------
(***************************************************************************)
(* Proofs about the workflow graphs of Accounts, for any organizations,    *)
(* workflows, states, transitions and workloads.                           *)
(***************************************************************************)
EXTENDS AccountsProofs, FiniteSetTheorems

(* The requests that say something of a workflow.                          *)
FlowOp == WorkflowOp \cup {"createspace"}

(* A request that says nothing of one.                                     *)
Foreign(r) ==
  /\ "op" \in DOMAIN r
  /\ r.op # "idle" => "pc" \in DOMAIN r
  /\ r.op \notin FlowOp

(* A step of h that goes on with such a request, or with the one it had.   *)
Aside(h) ==
  /\ \A k \in Handler \ {h} : req'[k] = req[k]
  /\ Foreign(req'[h]) \/ req'[h] = req[h]

(* A request that learns more stays foreign, and so does one that forgets  *)
(* a column or goes on to its next statement.                              *)
LEMMA ForeignWith == ASSUME NEW r, NEW s, Foreign(r) PROVE Foreign(With(r, s))
<1>1. "op" \in DOMAIN r /\ "op" \in DOMAIN With(r, s) /\ With(r, s).op = r.op
  BY WithKeeps DEF Foreign
<1>2. "pc" \in DOMAIN r => "pc" \in DOMAIN With(r, s)
  BY WithKeeps
<1> QED
  BY <1>1, <1>2 DEF Foreign

LEMMA ForeignDrop == ASSUME NEW r, NEW f, Foreign(r), f \notin {"op", "pc"} PROVE Foreign(Drop(r, f))
BY DEF Foreign, Drop

LEMMA ForeignGo ==
  ASSUME Shape, NEW h \in Handler, NEW op, NEW pc, NEW to, At(h, op, pc), op \notin FlowOp
  PROVE  Foreign([req[h] EXCEPT !.pc = to])
BY DEF Shape, At, Foreign

(* A step that goes on with a foreign request is aside, and so is one that *)
(* ends.                                                                   *)
LEMMA ForeignSteps ==
  ASSUME Shape, NEW h \in Handler, NEW r, NEW rows, Foreign(r),
         Begin(h, r) \/ Go(h, r) \/ Commit(h, r) \/ GoLocked(h, rows, r)
  PROVE  Aside(h)
BY DEF Shape, Begin, Go, Commit, GoLocked, Aside

LEMMA EndAside ==
  ASSUME Shape, NEW h \in Handler, End(h)
  PROVE  Aside(h)
BY DEF Shape, End, Aside, Idle, Foreign, FlowOp, WorkflowOp

(* The steps of people, of teams, of sessions, of credential links and of  *)
(* invitations are aside: their requests name no workflow.                 *)
LEMMA PeopleAside ==
  ASSUME Shape, NEW h \in Handler, PeopleStep(h)
  PROVE  Aside(h)
<1> USE DEF Shape, Aside, Foreign, FlowOp, WorkflowOp, At, Begin, Go, End, Commit, Serve, GoLocked, Idle
<1>1. CASE DeactivatePerson(h) \/ ReactivatePerson(h) \/ ForceLogoutPerson(h) \/ RemovePerson(h)
  BY <1>1 DEF DeactivatePerson, ReactivatePerson, ForceLogoutPerson, RemovePerson, lifecycleAction, Lifecycle
<1>2. CASE lockAdmins(h)
  BY <1>2 DEF lockAdmins, With
<1>3. CASE adminsLocked(h)
  BY <1>3 DEF adminsLocked
<1>4. CASE requireOtherAdmins(h)
  BY <1>4 DEF requireOtherAdmins
<1>5. CASE Deactivate(h) \/ Reactivate(h) \/ ForceLogout(h) \/ RemoveFromOrg(h)
  BY <1>5 DEF Deactivate, Reactivate, ForceLogout, RemoveFromOrg
<1>6. CASE UpdatePerson(h)
  BY <1>6 DEF UpdatePerson
<1>7. CASE ChangeOrgRole(h)
  BY <1>7 DEF ChangeOrgRole, applyPersonUpdates
<1>8. CASE UpdateMembershipRole(h)
  BY <1>8 DEF UpdateMembershipRole, applyPersonUpdates
<1>9. CASE ChangePrimaryTeam(h) \/ EnrolAsPrimary(h)
  BY <1>9 DEF ChangePrimaryTeam, EnrolAsPrimary
<1> QED
  BY <1>1, <1>2, <1>3, <1>4, <1>5, <1>6, <1>7, <1>8, <1>9 DEF PeopleStep

LEMMA TeamsAside ==
  ASSUME Shape, NEW h \in Handler, TeamsStep(h)
  PROVE  Aside(h)
<1> USE DEF Shape, Aside, Foreign, FlowOp, WorkflowOp, At, Begin, Go, End, Serve, GoLocked, Idle, With, Drop
<1>1. CASE Create(h) \/ CreateTeam(h)
  BY <1>1 DEF Create, CreateTeam
<1>2. CASE Update(h) \/ ChooseSubtree(h)
  BY <1>2 DEF Update, ChooseSubtree
<1>3. CASE LockSubtree(h)
  BY <1>3 DEF LockSubtree
<1>4. CASE lockReparentTarget(h) \/ ReparentSubtree(h)
  <2>1. CASE End(h)
    BY <2>1, EndAside
  <2>2. CASE lockReparentTarget(h) /\ ~End(h)
    <3> DEFINE r == Drop([req[h] EXCEPT !.pc = "rewrite"], "want")
    <3>1. Foreign(r)
      BY <2>2, ForeignGo, ForeignDrop DEF lockReparentTarget, FlowOp, WorkflowOp
    <3> DEFINE p == req[h].parent
    <3>2. GoLocked(h, req[h].want, With(r, [above |-> IF p = Nil THEN <<>> ELSE team[p].path]))
      BY <2>2 DEF lockReparentTarget
    <3> QED
      BY <3>1, <3>2, ForeignWith, ForeignSteps
  <2> QED
    BY <1>4, <2>1, <2>2 DEF ReparentSubtree
<1>5. CASE Delete(h) \/ DeleteTeam(h)
  BY <1>5 DEF Delete, DeleteTeam
<1>6. CASE lockTeamForDeletion(h)
  <2>1. CASE End(h)
    BY <2>1, EndAside
  <2>2. CASE ~End(h)
    <3> DEFINE r == Drop([req[h] EXCEPT !.pc = "migrate"], "want")
    <3>1. Foreign(r)
      BY <1>6, ForeignGo, ForeignDrop DEF lockTeamForDeletion, FlowOp, WorkflowOp
    <3>2. PICK rows, s : GoLocked(h, rows, With(r, s))
      BY <1>6, <2>2 DEF lockTeamForDeletion
    <3> QED
      BY <3>1, <3>2, ForeignWith, ForeignSteps
  <2> QED
    BY <2>1, <2>2
<1>7. CASE PutMember(h) \/ GetTeam(h) \/ AddMember(h) \/ SetPrimary(h)
  BY <1>7 DEF PutMember, GetTeam, AddMember, SetPrimary
<1>8. CASE RemoveMember(h) \/ RemoveTeamMember(h) \/ EnsureDefaultMembership(h)
  BY <1>8 DEF RemoveMember, RemoveTeamMember, EnsureDefaultMembership
<1> QED
  BY <1>1, <1>2, <1>3, <1>4, <1>5, <1>6, <1>7, <1>8 DEF TeamsStep


LEMMA ForeignMoves ==
  ASSUME Shape, NEW h \in Handler, NEW r, Foreign(r), Begin(h, r) \/ Go(h, r) \/ Commit(h, r)
  PROVE  Aside(h)
BY DEF Shape, Begin, Go, Commit, Aside

LEMMA ServeAside == ASSUME NEW h \in Handler, Serve PROVE Aside(h)
BY DEF Serve, Aside

LEMMA SessionsAside ==
  ASSUME Shape, NEW h \in Handler, SessionsStep(h)
  PROVE  Aside(h)
<1> USE DEF FlowOp, WorkflowOp
<1>1. CASE Login(h) \/ Refresh(h) \/ LogoutAll(h) \/ UpdateMe(h)
  <2>1. PICK r : Foreign(r) /\ Begin(h, r)
    BY <1>1 DEF Login, Refresh, LogoutAll, UpdateMe, Foreign
  <2> QED
    BY <2>1, ForeignMoves
<1>2. CASE DeleteAllSessions(h)
  BY <1>2, ForeignGo, ForeignMoves DEF DeleteAllSessions
<1>3. CASE Logout(h)
  BY <1>3, ServeAside DEF Logout
<1>4. CASE finishLogin(h) \/ IssueTokenPair(h) \/ RevokeTokens(h) \/ UpdateProfile(h)
  BY <1>4, EndAside DEF finishLogin, IssueTokenPair, RevokeTokens, UpdateProfile
<1> QED
  BY <1>1, <1>2, <1>3, <1>4 DEF SessionsStep

LEMMA LinksAside ==
  ASSUME Shape, NEW h \in Handler, LinksStep(h)
  PROVE  Aside(h)
<1> USE DEF FlowOp, WorkflowOp
<1>1. CASE RequestReset(h) \/ IssueReset(h) \/ RequestEmailChange(h) \/ GetUserByEmailAcrossOrgs(h) \/ Consume(h)
  <2>1. PICK r : Foreign(r) /\ Begin(h, r)
    BY <1>1 DEF RequestReset, IssueReset, RequestEmailChange, MintRequest, GetUserByEmailAcrossOrgs, Consume, Foreign
  <2> QED
    BY <2>1, ForeignMoves
<1>2. CASE CreateUserForAdmin(h) \/ runCreateUserWithLink(h)
  BY <1>2, ServeAside DEF CreateUserForAdmin, runCreateUserWithLink, CreateUserWithSignInLink
<1>3. CASE Issue(h) \/ runResetPassword(h) \/ EmailTakenAtConsume(h) \/ signInAfterConsume(h)
  BY <1>3, EndAside DEF Issue, runResetPassword, EmailTakenAtConsume, signInAfterConsume
<1>4. CASE ConsumeCredentialLink(h)
  <2>1. CASE End(h)
    BY <2>1, EndAside
  <2>2. CASE ~End(h)
    <3>1. PICK rows : GoLocked(h, rows, [req[h] EXCEPT !.pc = "apply"])
      BY <1>4, <2>2 DEF ConsumeCredentialLink
    <3> QED
      BY <1>4, <3>1, ForeignGo, ForeignSteps DEF ConsumeCredentialLink
  <2> QED
    BY <2>1, <2>2
<1>5. CASE applyConsumedEffect(h) \/ GetUserAfterConsume(h)
  <2>1. End(h) \/ \E r : Foreign(r) /\ (Commit(h, r) \/ Go(h, r))
    BY <1>5 DEF applyConsumedEffect, GetUserAfterConsume, Foreign
  <2> QED
    BY <2>1, EndAside, ForeignMoves
<1> QED
  BY <1>1, <1>2, <1>3, <1>4, <1>5 DEF LinksStep

LEMMA InvitesAside ==
  ASSUME Shape, NEW h \in Handler, InvitesStep(h)
  PROVE  Aside(h)
<1> USE DEF FlowOp, WorkflowOp
<1>1. CASE CreateInvites(h) \/ Accept(h)
  <2>1. PICK r : Foreign(r) /\ Begin(h, r)
    BY <1>1 DEF CreateInvites, Accept, Foreign
  <2> QED
    BY <2>1, ForeignMoves
<1>2. CASE CreateInvite(h) \/ signInAfterAccept(h)
  BY <1>2, EndAside DEF CreateInvite, signInAfterAccept
<1>3. CASE RevokeInvite(h) \/ RefreshInviteToken(h)
  BY <1>3, ServeAside DEF RevokeInvite, RefreshInviteToken
<1>4. CASE loadAcceptableInvite(h)
  BY <1>4, EndAside, ForeignGo, ForeignMoves DEF loadAcceptableInvite
<1>5. CASE resolveAcceptUser(h)
  <2> DEFINE q == [req[h] EXCEPT !.pc = "join"]
  <2>1. "op" \in DOMAIN q /\ "pc" \in DOMAIN q /\ q.op = "accept"
    BY <1>5 DEF resolveAcceptUser, At, Shape
  <2>2. \A u, new, t : Foreign(With([u |-> u, new |-> new, t |-> t], q))
    <3> HIDE DEF q
    <3> QED
      BY <2>1 DEF With, Foreign
  <2>3. End(h) \/ \E u, new, t : Go(h, With([u |-> u, new |-> new, t |-> t], q))
    BY <1>5 DEF resolveAcceptUser
  <2> QED
    BY <2>2, <2>3, EndAside, ForeignMoves
<1>6. CASE MarkInviteAccepted(h)
  <2>1. End(h) \/ \E r : Foreign(r) /\ Commit(h, r)
    BY <1>6 DEF MarkInviteAccepted, Foreign
  <2> QED
    BY <2>1, EndAside, ForeignMoves
<1> QED
  BY <1>1, <1>2, <1>3, <1>4, <1>5, <1>6 DEF InvitesStep

LEMMA PersonsAside ==
  ASSUME Shape, NEW h \in Handler, PersonsStep(h)
  PROVE  Aside(h)
BY PeopleAside, TeamsAside, SessionsAside, LinksAside, InvitesAside, EndAside DEF PersonsStep, Victim

-----------------------------------------------------------------------------
(* The invariant of the graphs                                             *)

(* The columns of a spaces row.                                            *)
SpaceColumns == {"st", "key", "owner", "vis", "mem", "wf"}

(* Every row of the tables has its columns.                                *)
GraphRows ==
  /\ DOMAIN flow = Workflow /\ \A w \in Workflow : DOMAIN flow[w] = {"st", "o", "name", "default", "kind"}
  /\ DOMAIN wstate = WfState /\ \A s \in WfState : DOMAIN wstate[s] = {"st", "w", "init"}
  /\ DOMAIN wedge = WfEdge /\ \A e \in WfEdge : DOMAIN wedge[e] = {"st", "w", "from", "to"}
  /\ DOMAIN tier = TierRow /\ \A t \in TierRow : DOMAIN tier[t] = {"st", "e", "table", "s"}
  /\ DOMAIN assigned = Space
  /\ DOMAIN space = Space /\ \A sp \in Space : DOMAIN space[sp] = SpaceColumns

(* A state is of a live workflow.                                          *)
StatesStay == \A s \in WfState : StateLive(s) => wstate[s].w \in Workflow /\ FlowLive(wstate[s].w)

(* A transition joins live states of its own workflow.                     *)
EdgesStay ==
  \A e \in WfEdge : EdgeLive(e) =>
    /\ wedge[e].from \in WfState /\ StateLive(wedge[e].from) /\ wstate[wedge[e].from].w = wedge[e].w
    /\ wedge[e].to \in WfState /\ StateLive(wedge[e].to) /\ wstate[wedge[e].to].w = wedge[e].w

(* A guard, post-function or approver hangs from a live transition.        *)
TiersStay == \A t \in TierRow : TierLive(t) => tier[t].e \in WfEdge /\ EdgeLive(tier[t].e)

(* A workflow has one initial state at most.                               *)
OneInitial ==
  \A s, t \in WfState :
    StateLive(s) /\ StateLive(t) /\ wstate[s].w = wstate[t].w /\ wstate[s].init /\ wstate[t].init => s = t

(* A space follows a live workflow of its organization, says so in its     *)
(* row, and does not before it is created.                                 *)
SpacesFollow ==
  \A sp \in Space :
    /\ space[sp].wf <=> assigned[sp] # Nil
    /\ assigned[sp] # Nil => assigned[sp] \in Workflow /\ workflowInOrg(SpaceOrg[sp], assigned[sp])
    /\ space[sp].st = "absent" => assigned[sp] = Nil

Graphs == GraphRows /\ StatesStay /\ EdgesStay /\ TiersStay /\ OneInitial /\ SpacesFollow

(* What a request still has of the organization, the workflow and the rows *)
(* it was checked to name: an id is never given to another row.            *)
FlowRequest(r, f, ss, es, sp) ==
  /\ r.op \in WorkflowOp \ {"createflow"} =>
       /\ {"op", "pc", "o", "w"} \subseteq DOMAIN r
       /\ r.w \in Workflow /\ f[r.w].st # "none" /\ (f[r.w].st = "live" => f[r.w].o = r.o)
  /\ r.op = "deletestate" =>
       /\ "s" \in DOMAIN r /\ r.s \in WfState
       /\ r.pc = "delete" => ss[r.s].st # "none" /\ (ss[r.s].st = "live" => ss[r.s].w = r.w)
  /\ r.op \in {"createtier", "deletetier"} =>
       r.e \in WfEdge /\ es[r.e].st # "none" /\ (es[r.e].st = "live" => es[r.e].w = r.w)
  /\ r.op = "createspace" =>
       /\ "sp" \in DOMAIN r /\ r.sp \in Space
       /\ r.pc = "workflow" => DOMAIN r = {"op", "pc", "sp"}
       /\ r.pc \in {"workflow", "assign"} => sp[r.sp].st # "absent"
       /\ r.pc = "assign" =>
            r.w \in Workflow /\ f[r.w].st # "none" /\ (f[r.w].st = "live" => f[r.w].o = SpaceOrg[r.sp])

(* Every handler's request is such a one.                                  *)
FlowRequests == \A h \in Handler : FlowRequest(req[h], flow, wstate, wedge, space)

(* What a step may do to rows that were once inserted: they stay inserted, *)
(* a deleted one stays deleted, and a live one keeps its organization or   *)
(* its workflow.                                                           *)
RowsAge ==
  /\ \A w \in Workflow : flow[w].st # "none" =>
       flow'[w].st # "none" /\ (flow'[w].st = "live" => flow[w].st = "live" /\ flow'[w].o = flow[w].o)
  /\ \A s \in WfState : wstate[s].st # "none" =>
       wstate'[s].st # "none" /\ (wstate'[s].st = "live" => wstate[s].st = "live" /\ wstate'[s].w = wstate[s].w)
  /\ \A e \in WfEdge : wedge[e].st # "none" =>
       wedge'[e].st # "none" /\ (wedge'[e].st = "live" => wedge[e].st = "live" /\ wedge'[e].w = wedge[e].w)
  /\ \A sp \in Space : space[sp].st # "absent" => space'[sp].st # "absent"

(* So a request keeps what it was checked for while the rows age.          *)
LEMMA RequestsAge ==
  ASSUME RowsAge, NEW r, FlowRequest(r, flow, wstate, wedge, space)
  PROVE  FlowRequest(r, flow', wstate', wedge', space')
BY DEF RowsAge, FlowRequest

(* The invariant is at least the property the run checks.                  *)
LEMMA GraphsGiveWhole == Graphs => GraphsStayWhole
<1> SUFFICES ASSUME Graphs PROVE GraphsStayWhole
  OBVIOUS
<1>1. \A s \in WfState : StateLive(s) => FlowLive(wstate[s].w)
  BY DEF Graphs, StatesStay
<1>2. \A e \in WfEdge : EdgeLive(e) => {wedge[e].from, wedge[e].to} \subseteq ListStates(wedge[e].w)
  BY DEF Graphs, EdgesStay, ListStates
<1>3. \A t \in TierRow : TierLive(t) => EdgeLive(tier[t].e)
  BY DEF Graphs, TiersStay
<1>4. ASSUME NEW w \in Workflow PROVE Cardinality({s \in ListStates(w) : wstate[s].init}) <= 1
  <2> DEFINE I == {s \in ListStates(w) : wstate[s].init}
  <2>1. \A s, t \in I : s = t
    BY DEF Graphs, OneInitial, ListStates
  <2>2. CASE I = {}
    BY <2>2, FS_EmptySet
  <2>3. CASE I # {}
    <3>1. PICK s : I = {s}
      BY <2>1, <2>3
    <3>2. Cardinality({s}) = 1
      BY FS_Singleton
    <3> HIDE DEF I
    <3>3. Cardinality(I) <= 1
      BY <3>1, <3>2
    <3> QED
      BY <3>3 DEF I
  <2> QED
    BY <2>2, <2>3
<1>5. \A sp \in Space : /\ space[sp].wf <=> assigned[sp] # Nil
                        /\ assigned[sp] # Nil => workflowInOrg(SpaceOrg[sp], assigned[sp])
  BY DEF Graphs, SpacesFollow
<1> QED
  BY <1>1, <1>2, <1>3, <1>4, <1>5 DEF GraphsStayWhole

(* The graphs of the casts are whole (CastGraphsAreWhole).                 *)
LEMMA GraphsInit == AccountsInit => Graphs
<1> SUFFICES ASSUME AccountsInit PROVE Graphs
  OBVIOUS
<1>1. mix.name \in DOMAIN Casts
  <2>1. PICK n \in DOMAIN Mixes : mix = With([name |-> n], Mixes[n])
    BY DEF AccountsInit, ServerInit
  <2> QED
    BY <2>1, EveryMixHasACast DEF With
<1> DEFINE c == Cast
<1> USE DEF NoFlow, NoState, NoEdge, NoTier
<1>2. /\ flow = [w \in Workflow |-> IF w \in DOMAIN c.flows THEN c.flows[w] ELSE NoFlow]
      /\ wstate = [s \in WfState |-> IF s \in DOMAIN c.states THEN c.states[s] ELSE NoState]
      /\ wedge = [e \in WfEdge |-> IF e \in DOMAIN c.edges THEN c.edges[e] ELSE NoEdge]
      /\ tier = [t \in TierRow |-> IF t \in DOMAIN c.tiers THEN c.tiers[t] ELSE NoTier]
      /\ assigned = [sp \in Space |-> IF sp \in DOMAIN c.assigned THEN c.assigned[sp] ELSE Nil]
      /\ space = c.space
  BY DEF AccountsInit, WorkflowInit, OrgInit
<1>3. /\ \A w \in DOMAIN c.flows : DOMAIN c.flows[w] = DOMAIN NoFlow /\ c.flows[w].st = "live"
      /\ \A s \in DOMAIN c.states : /\ DOMAIN c.states[s] = DOMAIN NoState /\ c.states[s].st = "live"
                                    /\ c.states[s].w \in Workflow \cap DOMAIN c.flows
      /\ \A s, t \in DOMAIN c.states : c.states[s].w = c.states[t].w /\ c.states[s].init /\ c.states[t].init => s = t
      /\ \A e \in DOMAIN c.edges : /\ DOMAIN c.edges[e] = DOMAIN NoEdge /\ c.edges[e].st = "live"
                                   /\ \A s \in {c.edges[e].from, c.edges[e].to} :
                                        s \in WfState \cap DOMAIN c.states /\ c.states[s].w = c.edges[e].w
      /\ \A t \in DOMAIN c.tiers : /\ DOMAIN c.tiers[t] = DOMAIN NoTier /\ c.tiers[t].st = "live"
                                   /\ c.tiers[t].e \in WfEdge \cap DOMAIN c.edges
      /\ \A sp \in DOMAIN c.assigned : /\ c.assigned[sp] \in Workflow \cap DOMAIN c.flows
                                       /\ c.flows[c.assigned[sp]].o = SpaceOrg[sp]
      /\ \A sp \in Space : /\ c.space[sp].wf <=> sp \in DOMAIN c.assigned
                           /\ c.space[sp].st = "absent" => sp \notin DOMAIN c.assigned
      /\ Nil \notin Workflow
      /\ c.space \in [Space -> SpaceRow]
  BY <1>1, CastGraphsAreWhole, CastsAreTyped DEF Cast
<1> HIDE DEF c
<1>4. GraphRows
  BY <1>2, <1>3 DEF GraphRows, SpaceRow, SpaceColumns
<1>5. StatesStay
  BY <1>2, <1>3 DEF StatesStay, StateLive, FlowLive
<1>6. EdgesStay
  BY <1>2, <1>3 DEF EdgesStay, EdgeLive, StateLive
<1>7. TiersStay
  BY <1>2, <1>3 DEF TiersStay, EdgeLive, TierLive
<1>8. OneInitial
  BY <1>2, <1>3 DEF OneInitial, StateLive
<1>9. SpacesFollow
  BY <1>2, <1>3 DEF SpacesFollow, workflowInOrg, FlowLive
<1> QED
  BY <1>4, <1>5, <1>6, <1>7, <1>8, <1>9 DEF Graphs

-----------------------------------------------------------------------------
(* What a request is told                                                  *)

(* A step of h after which h still has of the rows what it was checked for *)
Told(h) ==
  /\ \A k \in Handler \ {h} : req'[k] = req[k]
  /\ FlowRequest(req'[h], flow', wstate', wedge', space')

LEMMA ForeignRequest ==
  ASSUME NEW r, r.op \notin FlowOp, NEW f, NEW ss, NEW es, NEW sp
  PROVE  FlowRequest(r, f, ss, es, sp)
BY DEF FlowRequest, FlowOp, WorkflowOp

(* The other handlers' requests only age.                                  *)
LEMMA RequestsStay ==
  ASSUME FlowRequests, RowsAge, NEW h \in Handler, Told(h)
  PROVE  FlowRequests'
<1> SUFFICES ASSUME NEW k \in Handler PROVE FlowRequest(req'[k], flow', wstate', wedge', space')
  BY DEF FlowRequests
<1>1. CASE k = h
  BY <1>1 DEF Told
<1>2. CASE k # h
  <2>1. req'[k] = req[k] /\ FlowRequest(req[k], flow, wstate, wedge, space)
    BY <1>2 DEF Told, FlowRequests
  <2> QED
    BY <2>1, RequestsAge
<1> QED
  BY <1>1, <1>2

(* Nothing changes of what a step leaves alone.                            *)
LEMMA RowsStand == ASSUME UNCHANGED <<space, workflowVars>> PROVE RowsAge
BY DEF RowsAge, workflowVars

LEMMA GraphsStand == ASSUME Graphs, UNCHANGED <<space, workflowVars>> PROVE Graphs'
BY DEF Graphs, GraphRows, StatesStay, EdgesStay, TiersStay, OneInitial, SpacesFollow, StateLive, FlowLive, EdgeLive,
   TierLive, workflowInOrg, workflowVars

(* A request that ends, or goes on as a foreign one, claims nothing.       *)
LEMMA EndTold == ASSUME Shape, NEW h \in Handler, End(h) PROVE Told(h) /\ req'[h] = Idle
<1>1. req'[h] = Idle /\ \A k \in Handler \ {h} : req'[k] = req[k]
  BY DEF End, Shape
<1> QED
  BY <1>1, ForeignRequest DEF Told, Idle, FlowOp, WorkflowOp

LEMMA AsideTold ==
  ASSUME FlowRequests, RowsAge, NEW h \in Handler, Aside(h)
  PROVE  Told(h)
<1>1. CASE Foreign(req'[h])
  BY <1>1, ForeignRequest DEF Aside, Told, Foreign
<1>2. CASE req'[h] = req[h]
  BY <1>2, RequestsAge DEF Aside, Told, FlowRequests
<1> QED
  BY <1>1, <1>2 DEF Aside

(* One that begins or goes on has what the step checked for it.            *)
LEMMA BeginTold ==
  ASSUME Shape, NEW h \in Handler, NEW r, Begin(h, r) \/ Go(h, r) \/ Commit(h, r),
         FlowRequest(r, flow', wstate', wedge', space')
  PROVE  Told(h)
BY DEF Shape, Begin, Go, Commit, Told

LEMMA WorkflowTold ==
  ASSUME Shape, NEW h \in Handler, NEW op, NEW pc, NEW more, OnWorkflow(h, op, pc, more),
         op \notin {"createtier", "deletetier", "createspace"},
         op = "deletestate" => pc = "load" /\ \A m \in more : "s" \in DOMAIN m /\ m.s \in WfState
  PROVE  Told(h)
<1>1. PICK o \in Org, w \in Workflow, m \in more : workflowInOrg(o, w) /\ Begin(h, With([op |-> op, pc |-> pc, o |-> o, w |-> w], m))
  BY DEF OnWorkflow
<1> DEFINE b == [op |-> op, pc |-> pc, o |-> o, w |-> w]
           r == With(b, m)
<1>2. DOMAIN r = {"op", "pc", "o", "w"} \cup DOMAIN m /\ r.op = op /\ r.pc = pc /\ r.o = o /\ r.w = w
  <2>1. DOMAIN b = {"op", "pc", "o", "w"}
    OBVIOUS
  <2>2. DOMAIN With(b, m) = DOMAIN b \cup DOMAIN m /\ \A f \in DOMAIN b : With(b, m)[f] = b[f]
    BY WithKeeps
  <2> QED
    BY <2>1, <2>2
<1>3. op = "deletestate" => r.s = m.s /\ m.s \in WfState /\ "s" \in DOMAIN m
  <2> SUFFICES ASSUME op = "deletestate" PROVE r.s = m.s /\ m.s \in WfState /\ "s" \in DOMAIN m
    OBVIOUS
  <2>2. "s" \in DOMAIN m /\ DOMAIN b = {"op", "pc", "o", "w"} /\ m.s \in WfState
    OBVIOUS
  <2> HIDE DEF b
  <2> QED
    BY <2>2 DEF With
<1>4. Begin(h, r)
  BY <1>1
<1> HIDE DEF r
<1>5. FlowRequest(r, flow, wstate, wedge, space)
  BY <1>1, <1>2, <1>3 DEF FlowRequest, workflowInOrg, FlowLive
<1>6. FlowRequest(r, flow', wstate', wedge', space')
  BY <1>5 DEF OnWorkflow, workflowVars
<1> QED
  BY <1>4, <1>6, BeginTold

LEMMA TransitionTold ==
  ASSUME Shape, NEW h \in Handler, NEW op \in {"createtier", "deletetier"}, NEW pc, NEW more, OnTransition(h, op, pc, more)
  PROVE  Told(h)
<1>1. PICK o \in Org, w \in Workflow, e \in WfEdge, m \in more :
        resolveTransition(o, w, e) /\ Begin(h, With([op |-> op, pc |-> pc, o |-> o, w |-> w, e |-> e], m))
  BY DEF OnTransition
<1> DEFINE b == [op |-> op, pc |-> pc, o |-> o, w |-> w, e |-> e]
           r == With(b, m)
<1>2. DOMAIN r = {"op", "pc", "o", "w", "e"} \cup DOMAIN m /\ r.op = op /\ r.pc = pc /\ r.o = o /\ r.w = w /\ r.e = e
  <2>1. DOMAIN b = {"op", "pc", "o", "w", "e"}
    OBVIOUS
  <2>2. DOMAIN With(b, m) = DOMAIN b \cup DOMAIN m /\ \A f \in DOMAIN b : With(b, m)[f] = b[f]
    BY WithKeeps
  <2> QED
    BY <2>1, <2>2
<1>4. Begin(h, r)
  BY <1>1
<1> HIDE DEF r
<1>5. FlowRequest(r, flow, wstate, wedge, space)
  BY <1>1, <1>2 DEF FlowRequest, resolveTransition, workflowInOrg, FlowLive, EdgeLive
<1>6. FlowRequest(r, flow', wstate', wedge', space')
  BY <1>5 DEF OnTransition, workflowVars
<1> QED
  BY <1>4, <1>6, BeginTold

(* The steps that begin a request or read for it, and write nothing.       *)
ReadingStep(h) ==
  \/ CreateWorkflowBegin(h) \/ UpdateWorkflowBegin(h) \/ DeleteWorkflowBegin(h) \/ CountSpacesUsingWorkflow(h)
  \/ CreateStateBegin(h) \/ DeleteStateBegin(h) \/ GetState(h) \/ CreateTransitionBegin(h) \/ DeleteTransitionBegin(h)
  \/ CreateGuardBegin(h) \/ CreatePostFunctionBegin(h) \/ CreateApproverBegin(h)
  \/ DeleteGuardBegin(h) \/ DeletePostFunctionBegin(h) \/ DeleteApproverBegin(h)
  \/ (CreateSpaceBegin(h) /\ UNCHANGED workflowVars) \/ GetDefaultWorkflow(h)

(* They check what the request goes on to rely on.                         *)
LEMMA ReadingTold ==
  ASSUME Shape, FlowRequests, NEW h \in Handler, ReadingStep(h)
  PROVE  Told(h) /\ UNCHANGED <<space, workflowVars>>
<1>0. FlowRequest(req[h], flow, wstate, wedge, space) /\ "op" \in DOMAIN req[h]
  BY DEF FlowRequests, Shape
<1>1. CASE CreateWorkflowBegin(h)
  <2>1. PICK o \in Org, m \in FlowBodies : Begin(h, With([op |-> "createflow", pc |-> "write", o |-> o], m))
    BY <1>1 DEF CreateWorkflowBegin
  <2> DEFINE r == With([op |-> "createflow", pc |-> "write", o |-> o], m)
  <2>2. r.op = "createflow"
    BY WithKeeps
  <2>3. Begin(h, r)
    BY <2>1
  <2> HIDE DEF r
  <2>4. FlowRequest(r, flow', wstate', wedge', space')
    BY <2>2 DEF FlowRequest
  <2> QED
    BY <1>1, <2>3, <2>4, BeginTold DEF CreateWorkflowBegin
<1>2. CASE \/ UpdateWorkflowBegin(h) \/ DeleteWorkflowBegin(h) \/ CreateStateBegin(h) \/ DeleteStateBegin(h)
           \/ CreateTransitionBegin(h) \/ DeleteTransitionBegin(h)
  <2>2. UpdateWorkflowBegin(h) => Told(h)
    BY WorkflowTold DEF UpdateWorkflowBegin
  <2>3. DeleteWorkflowBegin(h) => Told(h)
    BY WorkflowTold DEF DeleteWorkflowBegin
  <2>4. CreateStateBegin(h) => Told(h)
    BY WorkflowTold DEF CreateStateBegin
  <2>5. DeleteStateBegin(h) => Told(h)
    <3>1. \A m \in [s : WfState] : "s" \in DOMAIN m /\ m.s \in WfState
      OBVIOUS
    <3> DEFINE more == [s : WfState]
    <3>2. \A m \in more : "s" \in DOMAIN m /\ m.s \in WfState
      BY <3>1
    <3>3. DeleteStateBegin(h) => OnWorkflow(h, "deletestate", "load", more)
      BY DEF DeleteStateBegin
    <3> HIDE DEF more
    <3> QED
      BY <3>2, <3>3, WorkflowTold
  <2>6. CreateTransitionBegin(h) => Told(h)
    BY WorkflowTold DEF CreateTransitionBegin
  <2>7. DeleteTransitionBegin(h) => Told(h)
    BY WorkflowTold DEF DeleteTransitionBegin
  <2>1. Told(h)
    BY <1>2, <2>2, <2>3, <2>4, <2>5, <2>6, <2>7
  <2> QED
    BY <1>2, <2>1 DEF OnWorkflow, UpdateWorkflowBegin, DeleteWorkflowBegin, CreateStateBegin, DeleteStateBegin,
       CreateTransitionBegin, DeleteTransitionBegin
<1>3. CASE \/ CreateGuardBegin(h) \/ CreatePostFunctionBegin(h) \/ CreateApproverBegin(h)
           \/ DeleteGuardBegin(h) \/ DeletePostFunctionBegin(h) \/ DeleteApproverBegin(h)
  <2>1. Told(h)
    BY <1>3, TransitionTold DEF CreateGuardBegin, CreatePostFunctionBegin, CreateApproverBegin, DeleteGuardBegin,
       DeletePostFunctionBegin, DeleteApproverBegin
  <2> QED
    BY <1>3, <2>1 DEF OnTransition, CreateGuardBegin, CreatePostFunctionBegin, CreateApproverBegin, DeleteGuardBegin,
       DeletePostFunctionBegin, DeleteApproverBegin
<1>4. CASE CountSpacesUsingWorkflow(h)
  <2>1. UNCHANGED <<space, workflowVars>> /\ (End(h) \/ Go(h, [req[h] EXCEPT !.pc = "delete"]))
    BY <1>4 DEF CountSpacesUsingWorkflow
  <2>2. FlowRequest([req[h] EXCEPT !.pc = "delete"], flow', wstate', wedge', space')
    BY <1>0, <1>4, <2>1 DEF CountSpacesUsingWorkflow, At, FlowRequest, WorkflowOp, workflowVars
  <2> QED
    BY <2>1, <2>2, EndTold, BeginTold
<1>5. CASE GetState(h)
  <2>1. /\ UNCHANGED <<space, workflowVars>>
        /\ \/ End(h)
           \/ StateLive(req[h].s) /\ wstate[req[h].s].w = req[h].w /\ Go(h, [req[h] EXCEPT !.pc = "delete"])
    BY <1>5 DEF GetState
  <2>2. CASE StateLive(req[h].s) /\ wstate[req[h].s].w = req[h].w /\ Go(h, [req[h] EXCEPT !.pc = "delete"])
    <3>1. FlowRequest([req[h] EXCEPT !.pc = "delete"], flow', wstate', wedge', space')
      BY <1>0, <1>5, <2>1, <2>2 DEF GetState, At, FlowRequest, WorkflowOp, workflowVars, StateLive
    <3> QED
      BY <2>1, <2>2, <3>1, BeginTold
  <2> QED
    BY <2>1, <2>2, EndTold
<1>6. CASE CreateSpaceBegin(h) /\ UNCHANGED workflowVars
  <2>1. PICK r : Begin(h, r) /\ "sp" \in DOMAIN r /\ r.op = "createspace" /\ r.pc = "create" /\ r.sp \in Space
    BY <1>6 DEF CreateSpaceBegin
  <2>2. FlowRequest(r, flow', wstate', wedge', space')
    BY <2>1 DEF FlowRequest, WorkflowOp
  <2> QED
    BY <1>6, <2>1, <2>2, BeginTold DEF CreateSpaceBegin
<1>7. CASE GetDefaultWorkflow(h)
  <2> DEFINE b == [req[h] EXCEPT !.pc = "assign"]
  <2>1. UNCHANGED <<space, workflowVars>> /\ (End(h) \/ \E w \in DefaultWorkflows(req[h].sp) : Go(h, With(b, [w |-> w])))
    BY <1>7 DEF GetDefaultWorkflow
  <2>2. CASE \E w \in DefaultWorkflows(req[h].sp) : Go(h, With(b, [w |-> w]))
    <3>1. PICK w \in DefaultWorkflows(req[h].sp) : Go(h, With(b, [w |-> w]))
      BY <2>2
    <3> DEFINE r == With(b, [w |-> w])
    <3>2. req[h].op = "createspace" /\ req[h].sp \in Space /\ DOMAIN req[h] = {"op", "pc", "sp"}
          /\ space[req[h].sp].st # "absent"
      BY <1>0, <1>7 DEF GetDefaultWorkflow, At, FlowRequest
    <3>3. DOMAIN b = {"op", "pc", "sp"} /\ b.op = "createspace" /\ b.pc = "assign" /\ b.sp = req[h].sp
      BY <3>2
    <3> HIDE DEF b
    <3>4. "sp" \in DOMAIN r /\ r.op = "createspace" /\ r.pc = "assign" /\ r.sp = req[h].sp /\ r.w = w
      BY <3>3 DEF With
    <3>5. Go(h, r)
      BY <3>1
    <3> HIDE DEF r
    <3>6. FlowRequest(r, flow', wstate', wedge', space')
      BY <2>1, <3>2, <3>4 DEF FlowRequest, WorkflowOp, DefaultWorkflows, FlowLive, workflowVars
    <3> QED
      BY <2>1, <3>5, <3>6, BeginTold
  <2> QED
    BY <2>1, <2>2, EndTold
<1> QED
  BY <1>1, <1>2, <1>3, <1>4, <1>5, <1>6, <1>7 DEF ReadingStep

-----------------------------------------------------------------------------
(* What a step does to the graphs                                          *)

(* A step of h that changes a workflow is of a request to its organization.*)
Own(h) ==
  \A w \in Workflow :
    FlowLive(w) /\ GraphOf(w)' # GraphOf(w) => req[h].op \in WorkflowOp /\ req[h].o = flow[w].o /\ req'[h] = Idle

(* The rows that hang from the transitions of w, as the tables tell them.  *)
Hanging(w) ==
  {t \in TierRow : TierLive(t) /\ tier[t].table \in {"guard", "postfn", "approver"} /\ tier[t].e \in ListTransitions(w)}

(* A workflow whose row, states, transitions and hanging rows stay has its *)
(* graph kept.                                                             *)
LEMMA SameGraph ==
  ASSUME NEW w, flow'[w] = flow[w],
         \A s \in WfState : (s \in ListStates(w))' <=> s \in ListStates(w),
         \A e \in WfEdge : (e \in ListTransitions(w))' <=> e \in ListTransitions(w),
         \A t \in TierRow : (t \in Hanging(w))' <=> t \in Hanging(w)
  PROVE  GraphOf(w)' = GraphOf(w)
<1>1. ListStates(w)' = ListStates(w)
  BY DEF ListStates
<1>2. ListTransitions(w)' = ListTransitions(w)
  BY DEF ListTransitions
<1>3. Hanging(w)' = Hanging(w)
  BY DEF Hanging
<1>4. UNION {ListGuards(e) \cup ListPostFunctions(e) \cup ListApprovers(e) : e \in ListTransitions(w)} = Hanging(w)
  BY DEF Hanging, ListGuards, ListPostFunctions, ListApprovers, TierRows
<1>5. (UNION {ListGuards(e) \cup ListPostFunctions(e) \cup ListApprovers(e) : e \in ListTransitions(w)})' = Hanging(w)'
  BY DEF Hanging, ListGuards, ListPostFunctions, ListApprovers, TierRows
<1> QED
  BY <1>1, <1>2, <1>3, <1>4, <1>5 DEF GraphOf

(* A step that ends a request to one workflow and keeps the other graphs   *)
(* is that request's own.                                                  *)
LEMMA OneGraph ==
  ASSUME NEW h, NEW w, req'[h] = Idle,
         \A x \in Workflow \ {w} : FlowLive(x) => GraphOf(x)' = GraphOf(x),
         FlowLive(w) => req[h].op \in WorkflowOp /\ req[h].o = flow[w].o
  PROVE  Own(h)
BY DEF Own

LEMMA NoGraph == ASSUME NEW h, \A x \in Workflow : FlowLive(x) => GraphOf(x)' = GraphOf(x) PROVE Own(h)
BY DEF Own

(* States and transitions of one workflow go, with the transitions at the  *)
(* states and the rows that hang from the transitions.                     *)
Removal(w, ss, es) ==
  /\ ss \subseteq ListStates(w) /\ es \subseteq ListTransitions(w)
  /\ \A e \in ListTransitions(w) : wedge[e].from \in ss \/ wedge[e].to \in ss => e \in es
  /\ DOMAIN wstate' = WfState /\ DOMAIN wedge' = WfEdge /\ DOMAIN tier' = TierRow
  /\ \A s \in WfState : wstate'[s] = IF s \in ss THEN Gone(NoState) ELSE wstate[s]
  /\ \A e \in WfEdge : wedge'[e] = IF e \in es THEN Gone(NoEdge) ELSE wedge[e]
  /\ \A t \in TierRow : tier'[t] = IF TierLive(t) /\ tier[t].e \in es THEN Gone(NoTier) ELSE tier[t]

(* What a deleted row is.                                                  *)
LEMMA GoneRows ==
  /\ Gone(NoFlow).st = "deleted" /\ DOMAIN Gone(NoFlow) = {"st", "o", "name", "default", "kind"}
  /\ Gone(NoState).st = "deleted" /\ DOMAIN Gone(NoState) = {"st", "w", "init"}
  /\ Gone(NoEdge).st = "deleted" /\ DOMAIN Gone(NoEdge) = {"st", "w", "from", "to"}
  /\ Gone(NoTier).st = "deleted" /\ DOMAIN Gone(NoTier) = {"st", "e", "table", "s"}
BY DEF Gone, NoFlow, NoState, NoEdge, NoTier

(* A removal leaves no transition without its states and no row without    *)
(* its transition, and the other workflows as they were.                   *)
LEMMA RemovalKeeps ==
  ASSUME Graphs, NEW w \in Workflow, NEW ss, NEW es, Removal(w, ss, es)
  PROVE  /\ EdgesStay' /\ TiersStay' /\ OneInitial'
         /\ \A s \in WfState : StateLive(s)' => StateLive(s) /\ s \notin ss /\ wstate'[s].w = wstate[s].w
         /\ \A s \in WfState : wstate[s].st # "none" => wstate'[s].st # "none"
         /\ \A e \in WfEdge : wedge[e].st # "none" =>
              wedge'[e].st # "none" /\ (wedge'[e].st = "live" => wedge[e].st = "live" /\ wedge'[e].w = wedge[e].w)
         /\ \A x \in Workflow \ {w} : flow'[x] = flow[x] => GraphOf(x)' = GraphOf(x)
<1>1. \A s \in WfState : StateLive(s)' => StateLive(s) /\ s \notin ss /\ wstate'[s] = wstate[s]
  BY GoneRows DEF Removal, StateLive
<1>2. \A e \in WfEdge : EdgeLive(e)' => EdgeLive(e) /\ e \notin es /\ wedge'[e] = wedge[e]
  BY GoneRows DEF Removal, EdgeLive
<1>3. \A t \in TierRow : TierLive(t)' => TierLive(t) /\ tier[t].e \notin es /\ tier'[t] = tier[t]
  BY GoneRows DEF Removal, TierLive
<1>4. \A s \in WfState : StateLive(s) /\ s \notin ss => StateLive(s)' /\ wstate'[s] = wstate[s]
  BY DEF Removal, StateLive
<1>5. \A e \in WfEdge : EdgeLive(e) /\ e \notin es => EdgeLive(e)' /\ wedge'[e] = wedge[e]
  BY DEF Removal, EdgeLive
<1>6. \A t \in TierRow : TierLive(t) /\ tier[t].e \notin es => TierLive(t)' /\ tier'[t] = tier[t]
  BY DEF Removal, TierLive
<1>7. EdgesStay'
  <2> SUFFICES ASSUME NEW e \in WfEdge, EdgeLive(e)'
               PROVE  /\ wedge'[e].from \in WfState /\ wstate'[wedge'[e].from].st = "live" /\ wstate'[wedge'[e].from].w = wedge'[e].w
                      /\ wedge'[e].to \in WfState /\ wstate'[wedge'[e].to].st = "live" /\ wstate'[wedge'[e].to].w = wedge'[e].w
    BY DEF EdgesStay, StateLive
  <2>1. EdgeLive(e) /\ e \notin es /\ wedge'[e] = wedge[e]
    BY <1>2
  <2>2. /\ wedge[e].from \in WfState /\ StateLive(wedge[e].from) /\ wstate[wedge[e].from].w = wedge[e].w
        /\ wedge[e].to \in WfState /\ StateLive(wedge[e].to) /\ wstate[wedge[e].to].w = wedge[e].w
    BY <2>1 DEF Graphs, EdgesStay
  <2>3. wedge[e].from \notin ss /\ wedge[e].to \notin ss
    BY <2>1, <2>2 DEF Removal, ListStates, ListTransitions
  <2> QED
    BY <1>4, <2>1, <2>2, <2>3 DEF StateLive
<1>8. TiersStay'
  <2> SUFFICES ASSUME NEW t \in TierRow, TierLive(t)' PROVE tier'[t].e \in WfEdge /\ wedge'[tier'[t].e].st = "live"
    BY DEF TiersStay, EdgeLive
  <2> QED
    BY <1>3, <1>5 DEF Graphs, TiersStay, EdgeLive
<1>9. OneInitial'
  BY <1>1 DEF Graphs, OneInitial, StateLive
<1>10. ASSUME NEW x \in Workflow \ {w}, flow'[x] = flow[x] PROVE GraphOf(x)' = GraphOf(x)
  <2>1. \A s \in WfState : (s \in ListStates(x))' <=> s \in ListStates(x)
    BY <1>1, <1>4 DEF ListStates, Removal
  <2>2. \A e \in WfEdge : (e \in ListTransitions(x))' <=> e \in ListTransitions(x)
    BY <1>2, <1>5 DEF ListTransitions, Removal
  <2>3. \A t \in TierRow : (t \in Hanging(x))' <=> t \in Hanging(x)
    <3> TAKE t \in TierRow
    <3>1. ListTransitions(x) \cap es = {}
      BY DEF ListTransitions, Removal
    <3>2. ListTransitions(x)' = ListTransitions(x)
      BY <2>2 DEF ListTransitions
    <3> QED
      BY <1>3, <1>6, <3>1, <3>2 DEF Hanging
  <2> QED
    BY <1>10, <2>1, <2>2, <2>3, SameGraph
<1>11. \A s \in WfState : wstate[s].st # "none" => wstate'[s].st # "none"
  BY GoneRows DEF Removal
<1>12. \A e \in WfEdge : wedge[e].st # "none" => wedge'[e].st # "none"
  BY GoneRows DEF Removal
<1> QED
  BY <1>1, <1>2, <1>7, <1>8, <1>9, <1>10, <1>11, <1>12 DEF EdgeLive

(* The writes of workflows keep the graphs.                                *)
StaySound(h) == Graphs' /\ RowsAge /\ Own(h)

(* A new workflow has an id no row had; an updated one keeps its           *)
(* organization; a deleted one takes its states, transitions and their     *)
(* rows along and leaves its spaces.                                       *)
LEMMA CreateWorkflowKeeps ==
  ASSUME Shape, Graphs, NEW h \in Handler, CreateWorkflow(h)
  PROVE  StaySound(h)
<1>1. PICK w \in Workflow : /\ flow[w].st = "none"
                            /\ \/ flow' = flow
                               \/ flow' = [flow EXCEPT ![w] = [st |-> "live", o |-> req[h].o, name |-> req[h].name,
                                                               default |-> req[h].default, kind |-> req[h].kind]]
  BY DEF CreateWorkflow
<1>2. UNCHANGED <<space, wstate, wedge, tier, assigned>>
  BY DEF CreateWorkflow
<1>3. DOMAIN flow' = Workflow /\ \A x \in Workflow \ {w} : flow'[x] = flow[x]
  BY <1>1 DEF Graphs, GraphRows
<1>4. DOMAIN flow'[w] = {"st", "o", "name", "default", "kind"}
  BY <1>1 DEF Graphs, GraphRows
<1>5. \A x \in Workflow : FlowLive(x) => x # w /\ flow'[x] = flow[x]
  BY <1>1, <1>3 DEF FlowLive
<1>6. GraphRows'
  BY <1>2, <1>3, <1>4 DEF Graphs, GraphRows
<1>7. StatesStay'
  BY <1>2, <1>5 DEF Graphs, StatesStay, StateLive, FlowLive
<1>8. EdgesStay' /\ TiersStay' /\ OneInitial'
  BY <1>2 DEF Graphs, EdgesStay, TiersStay, OneInitial, StateLive, EdgeLive, TierLive
<1>9. SpacesFollow'
  BY <1>2, <1>5 DEF Graphs, SpacesFollow, workflowInOrg, FlowLive
<1>10. RowsAge
  BY <1>1, <1>2, <1>3 DEF RowsAge
<1>11. \A x \in Workflow : FlowLive(x) => GraphOf(x)' = GraphOf(x)
  <2> SUFFICES ASSUME NEW x \in Workflow, FlowLive(x) PROVE GraphOf(x)' = GraphOf(x)
    OBVIOUS
  <2>1. flow'[x] = flow[x] /\ ListStates(x)' = ListStates(x) /\ ListTransitions(x)' = ListTransitions(x)
    BY <1>2, <1>5 DEF ListStates, ListTransitions, StateLive, EdgeLive
  <2>2. Hanging(x)' = Hanging(x)
    BY <1>2, <2>1 DEF Hanging, TierLive
  <2> QED
    BY <2>1, <2>2, SameGraph
<1> QED
  BY <1>6, <1>7, <1>8, <1>9, <1>10, <1>11, NoGraph DEF StaySound, Graphs

LEMMA UpdateWorkflowKeeps ==
  ASSUME Shape, Graphs, FlowRequests, NEW h \in Handler, UpdateWorkflow(h)
  PROVE  StaySound(h)
<1> DEFINE w == req[h].w
<1>0. w \in Workflow /\ req[h].op \in WorkflowOp /\ (FlowLive(w) => flow[w].o = req[h].o)
  BY DEF FlowRequests, FlowRequest, UpdateWorkflow, At, WorkflowOp, FlowLive
<1>00. req'[h] = Idle
  BY EndTold DEF UpdateWorkflow
<1>1. \/ flow' = flow
      \/ flow' = [flow EXCEPT ![w].name = req[h].name, ![w].default = req[h].default, ![w].kind = req[h].kind]
  BY DEF UpdateWorkflow
<1>2. UNCHANGED <<space, wstate, wedge, tier, assigned>>
  BY DEF UpdateWorkflow
<1> HIDE DEF w
<1>3. DOMAIN flow' = Workflow /\ \A x \in Workflow \ {w} : flow'[x] = flow[x]
  BY <1>1 DEF Graphs, GraphRows
<1>4. flow'[w].st = flow[w].st /\ flow'[w].o = flow[w].o /\ DOMAIN flow'[w] = DOMAIN flow[w]
  BY <1>0, <1>1 DEF Graphs, GraphRows
<1>5. \A x \in Workflow : flow'[x].st = flow[x].st /\ flow'[x].o = flow[x].o
  BY <1>3, <1>4
<1>6. GraphRows'
  BY <1>0, <1>2, <1>3, <1>4 DEF Graphs, GraphRows
<1>7. StatesStay'
  BY <1>2, <1>5 DEF Graphs, StatesStay, StateLive, FlowLive
<1>8. EdgesStay' /\ TiersStay' /\ OneInitial'
  BY <1>2 DEF Graphs, EdgesStay, TiersStay, OneInitial, StateLive, EdgeLive, TierLive
<1>9. SpacesFollow'
  BY <1>2, <1>5 DEF Graphs, SpacesFollow, workflowInOrg, FlowLive
<1>10. RowsAge
  BY <1>2, <1>5 DEF RowsAge
<1>11. \A x \in Workflow \ {w} : FlowLive(x) => GraphOf(x)' = GraphOf(x)
  <2> SUFFICES ASSUME NEW x \in Workflow \ {w} PROVE GraphOf(x)' = GraphOf(x)
    OBVIOUS
  <2>1. flow'[x] = flow[x] /\ ListStates(x)' = ListStates(x) /\ ListTransitions(x)' = ListTransitions(x)
    BY <1>2, <1>3 DEF ListStates, ListTransitions, StateLive, EdgeLive
  <2>2. Hanging(x)' = Hanging(x)
    BY <1>2, <2>1 DEF Hanging, TierLive
  <2> QED
    BY <2>1, <2>2, SameGraph
<1> QED
  BY <1>0, <1>00, <1>6, <1>7, <1>8, <1>9, <1>10, <1>11, OneGraph DEF StaySound, Graphs

LEMMA DeleteWorkflowKeeps ==
  ASSUME Shape, Graphs, FlowRequests, NEW h \in Handler, DeleteWorkflow(h), ~UNCHANGED <<space, workflowVars>>
  PROVE  StaySound(h)
<1> DEFINE w == req[h].w
<1>0. w \in Workflow /\ req[h].op \in WorkflowOp /\ (FlowLive(w) => flow[w].o = req[h].o)
  BY DEF FlowRequests, FlowRequest, DeleteWorkflow, At, WorkflowOp, FlowLive
<1>00. req'[h] = Idle
  BY EndTold DEF DeleteWorkflow
<1> DEFINE ss == ListStates(w)
           es == {e \in WfEdge : EdgeLive(e) /\ {wedge[e].from, wedge[e].to} \cap ss # {}}
<1>1. /\ FlowLive(w)
      /\ flow' = [flow EXCEPT ![w] = Gone(NoFlow)]
      /\ wstate' = [s \in WfState |-> IF s \in ss THEN Gone(NoState) ELSE wstate[s]]
      /\ wedge' = [e \in WfEdge |-> IF e \in es THEN Gone(NoEdge) ELSE wedge[e]]
      /\ tier' = [t \in TierRow |-> IF TierLive(t) /\ tier[t].e \in es THEN Gone(NoTier) ELSE tier[t]]
      /\ assigned' = [sp \in Space |-> IF assigned[sp] = w THEN Nil ELSE assigned[sp]]
      /\ space' = [sp \in Space |-> [space[sp] EXCEPT !.wf = @ /\ assigned[sp] # w]]
  BY DEF DeleteWorkflow, WithoutStates, WithoutEdges
<1>2. es \subseteq ListTransitions(w)
  BY DEF Graphs, EdgesStay, ListStates, ListTransitions
<1>3. \A e \in ListTransitions(w) : wedge[e].from \in ss \/ wedge[e].to \in ss => e \in es
  BY DEF ListTransitions
<1> HIDE DEF w, es
<1>4. Removal(w, ss, es)
  BY <1>1, <1>2, <1>3 DEF Removal
<1> HIDE DEF ss
<1>5. /\ DOMAIN flow' = Workflow /\ flow'[w] = Gone(NoFlow)
      /\ \A x \in Workflow \ {w} : flow'[x] = flow[x]
  BY <1>0, <1>1 DEF Graphs, GraphRows
<1>6. \A x \in Workflow \ {w} : GraphOf(x)' = GraphOf(x)
  BY <1>0, <1>4, <1>5, RemovalKeeps
<1>7. EdgesStay' /\ TiersStay' /\ OneInitial'
  BY <1>0, <1>4, RemovalKeeps
<1>8. \A s \in WfState : StateLive(s)' => StateLive(s) /\ wstate[s].w # w /\ wstate'[s].w = wstate[s].w
  BY <1>0, <1>4, RemovalKeeps DEF ListStates, ss
<1>9. StatesStay'
  BY <1>5, <1>8 DEF Graphs, StatesStay, FlowLive
<1>10. GraphRows'
  <2>1. DOMAIN wstate' = WfState /\ \A s \in WfState : DOMAIN wstate'[s] = {"st", "w", "init"}
    BY <1>1, GoneRows DEF Graphs, GraphRows
  <2>2. DOMAIN wedge' = WfEdge /\ \A e \in WfEdge : DOMAIN wedge'[e] = {"st", "w", "from", "to"}
    BY <1>1, GoneRows DEF Graphs, GraphRows
  <2>3. DOMAIN tier' = TierRow /\ \A t \in TierRow : DOMAIN tier'[t] = {"st", "e", "table", "s"}
    BY <1>1, GoneRows DEF Graphs, GraphRows
  <2>4. \A x \in Workflow : DOMAIN flow'[x] = {"st", "o", "name", "default", "kind"}
    BY <1>5, GoneRows DEF Graphs, GraphRows
  <2>5. DOMAIN assigned' = Space /\ DOMAIN space' = Space /\ \A sp \in Space : DOMAIN space'[sp] = SpaceColumns
    BY <1>1 DEF Graphs, GraphRows
  <2> QED
    BY <1>5, <2>1, <2>2, <2>3, <2>4, <2>5 DEF GraphRows
<1>11. \A sp \in Space : /\ space'[sp].st = space[sp].st
                         /\ space'[sp].wf <=> space[sp].wf /\ assigned[sp] # w
                         /\ assigned'[sp] = IF assigned[sp] = w THEN Nil ELSE assigned[sp]
  BY <1>1 DEF Graphs, GraphRows, SpaceColumns
<1>12. SpacesFollow'
  BY <1>5, <1>11 DEF Graphs, SpacesFollow, workflowInOrg, FlowLive
<1>13. RowsAge
  <2>1. \A x \in Workflow : flow[x].st # "none" =>
          flow'[x].st # "none" /\ (flow'[x].st = "live" => flow[x].st = "live" /\ flow'[x].o = flow[x].o)
    BY <1>5, GoneRows
  <2>2. \A s \in WfState : wstate[s].st # "none" =>
          wstate'[s].st # "none" /\ (wstate'[s].st = "live" => wstate[s].st = "live" /\ wstate'[s].w = wstate[s].w)
    BY <1>0, <1>4, RemovalKeeps DEF StateLive
  <2>3. \A e \in WfEdge : wedge[e].st # "none" =>
          wedge'[e].st # "none" /\ (wedge'[e].st = "live" => wedge[e].st = "live" /\ wedge'[e].w = wedge[e].w)
    BY <1>0, <1>4, RemovalKeeps
  <2> QED
    BY <1>11, <2>1, <2>2, <2>3 DEF RowsAge
<1> QED
  BY <1>0, <1>00, <1>1, <1>6, <1>7, <1>9, <1>10, <1>12, <1>13, OneGraph DEF StaySound, Graphs

(* The statement itself asks for the workflow and, by                      *)
(* idx_workflow_initial, for no other initial state.                       *)
LEMMA CreateStateKeeps ==
  ASSUME Shape, Graphs, FlowRequests, NEW h \in Handler, CreateState(h)
  PROVE  StaySound(h)
<1> DEFINE w == req[h].w
           i == req[h].init
<1>0. w \in Workflow /\ req[h].op \in WorkflowOp /\ (FlowLive(w) => flow[w].o = req[h].o)
  BY DEF FlowRequests, FlowRequest, CreateState, At, WorkflowOp, FlowLive
<1>00. req'[h] = Idle
  BY EndTold DEF CreateState
<1>1. PICK s \in WfState :
        /\ wstate[s].st = "none"
        /\ \/ wstate' = wstate
           \/ FlowLive(w) /\ (i => InitialFree(w)) /\ wstate' = [wstate EXCEPT ![s] = [st |-> "live", w |-> w, init |-> i]]
  <2> DEFINE fresh == {s \in WfState : wstate[s].st = "none"}
  <2>1. fresh # {} /\ wstate' = IF FlowLive(w) /\ (i => InitialFree(w))
                                THEN [wstate EXCEPT ![CHOOSE s \in fresh : TRUE] = [st |-> "live", w |-> w, init |-> i]]
                                ELSE wstate
    BY DEF CreateState
  <2>2. (CHOOSE s \in fresh : TRUE) \in fresh
    BY <2>1
  <2> QED
    BY <2>1, <2>2
<1>2. UNCHANGED <<space, flow, wedge, tier, assigned>>
  BY DEF CreateState
<1> HIDE DEF w, i
<1>3. CASE wstate' = wstate
  <2>1. UNCHANGED <<space, workflowVars>>
    BY <1>2, <1>3 DEF workflowVars
  <2>2. \A x \in Workflow : GraphOf(x)' = GraphOf(x)
    <3> TAKE x \in Workflow
    <3> QED
      BY <1>2, <1>3, SameGraph DEF ListStates, ListTransitions, Hanging, StateLive, EdgeLive, TierLive
  <2> QED
    BY <2>1, <2>2, GraphsStand, RowsStand, NoGraph DEF StaySound
<1>4. CASE FlowLive(w) /\ (i => InitialFree(w)) /\ wstate' = [wstate EXCEPT ![s] = [st |-> "live", w |-> w, init |-> i]]
  <2>1. /\ DOMAIN wstate' = WfState /\ \A t \in WfState \ {s} : wstate'[t] = wstate[t]
        /\ wstate'[s] = [st |-> "live", w |-> w, init |-> i]
    BY <1>1, <1>4 DEF Graphs, GraphRows
  <2>2. \A t \in WfState : StateLive(t) => t # s /\ wstate'[t] = wstate[t]
    BY <1>1, <2>1 DEF StateLive
  <2>3. GraphRows'
    BY <1>2, <2>1 DEF Graphs, GraphRows
  <2>4. StatesStay'
    BY <1>0, <1>2, <1>4, <2>1 DEF Graphs, StatesStay, StateLive, FlowLive
  <2>5. EdgesStay'
    BY <1>2, <2>2 DEF Graphs, EdgesStay, StateLive, EdgeLive
  <2>6. TiersStay'
    BY <1>2 DEF Graphs, TiersStay, EdgeLive, TierLive
  <2>7. OneInitial'
    <3> SUFFICES ASSUME NEW t \in WfState, NEW u \in WfState, StateLive(t)', StateLive(u)', wstate'[t].w = wstate'[u].w,
                        wstate'[t].init, wstate'[u].init
                 PROVE  t = u
      BY DEF OneInitial, StateLive
    <3>1. CASE t # s /\ u # s
      BY <2>1, <3>1 DEF Graphs, OneInitial, StateLive
    <3>2. \A v \in WfState : v # s /\ StateLive(v)' /\ wstate'[v].w = w /\ wstate'[v].init => ~i
      BY <1>4, <2>1 DEF InitialFree, ListStates, StateLive
    <3>3. CASE t = s /\ u # s
      BY <2>1, <3>2, <3>3
    <3>4. CASE t # s /\ u = s
      BY <2>1, <3>2, <3>4
    <3> QED
      BY <3>1, <3>3, <3>4
  <2>8. SpacesFollow'
    BY <1>2 DEF Graphs, SpacesFollow, workflowInOrg, FlowLive
  <2>9. RowsAge
    BY <1>1, <1>2, <2>1 DEF RowsAge
  <2>10. \A x \in Workflow \ {w} : FlowLive(x) => GraphOf(x)' = GraphOf(x)
    <3> SUFFICES ASSUME NEW x \in Workflow \ {w} PROVE GraphOf(x)' = GraphOf(x)
      OBVIOUS
    <3>1. ListTransitions(x)' = ListTransitions(x) /\ flow'[x] = flow[x]
      BY <1>2 DEF ListTransitions, EdgeLive
    <3>2. Hanging(x)' = Hanging(x)
      BY <1>2, <3>1 DEF Hanging, TierLive
    <3>3. \A t \in WfState : (t \in ListStates(x))' <=> t \in ListStates(x)
      BY <1>1, <2>1 DEF ListStates, StateLive
    <3> QED
      BY <3>1, <3>2, <3>3, SameGraph
  <2> QED
    BY <1>0, <1>00, <2>3, <2>4, <2>5, <2>6, <2>7, <2>8, <2>9, <2>10, OneGraph DEF StaySound, Graphs
<1> QED
  BY <1>1, <1>3, <1>4

(* A removal within a workflow that itself stays.                          *)
LEMMA RemovalWithin ==
  ASSUME Graphs, NEW w \in Workflow, NEW ss, NEW es, Removal(w, ss, es), UNCHANGED <<space, flow, assigned>>
  PROVE  Graphs' /\ RowsAge /\ \A x \in Workflow \ {w} : GraphOf(x)' = GraphOf(x)
<1>1. EdgesStay' /\ TiersStay' /\ OneInitial'
  BY RemovalKeeps
<1>2. \A x \in Workflow \ {w} : GraphOf(x)' = GraphOf(x)
  BY RemovalKeeps
<1>3. \A s \in WfState : StateLive(s)' => StateLive(s) /\ wstate'[s].w = wstate[s].w
  BY RemovalKeeps
<1>4. StatesStay'
  BY <1>3 DEF Graphs, StatesStay, FlowLive
<1>5. SpacesFollow'
  BY DEF Graphs, SpacesFollow, workflowInOrg, FlowLive
<1>6. GraphRows'
  <2>1. \A s \in WfState : DOMAIN wstate'[s] = {"st", "w", "init"}
    BY GoneRows DEF Graphs, GraphRows, Removal
  <2>2. \A e \in WfEdge : DOMAIN wedge'[e] = {"st", "w", "from", "to"}
    BY GoneRows DEF Graphs, GraphRows, Removal
  <2>3. \A t \in TierRow : DOMAIN tier'[t] = {"st", "e", "table", "s"}
    BY GoneRows DEF Graphs, GraphRows, Removal
  <2> QED
    BY <2>1, <2>2, <2>3 DEF Graphs, GraphRows, Removal
<1>7. RowsAge
  <2>2. \A s \in WfState : wstate[s].st # "none" =>
          wstate'[s].st # "none" /\ (wstate'[s].st = "live" => wstate[s].st = "live" /\ wstate'[s].w = wstate[s].w)
    BY RemovalKeeps DEF StateLive
  <2>3. \A e \in WfEdge : wedge[e].st # "none" =>
          wedge'[e].st # "none" /\ (wedge'[e].st = "live" => wedge[e].st = "live" /\ wedge'[e].w = wedge[e].w)
    BY RemovalKeeps
  <2> QED
    BY <2>2, <2>3 DEF RowsAge
<1> QED
  BY <1>1, <1>2, <1>4, <1>5, <1>6, <1>7 DEF Graphs

(* The state was compared with the workflow by an earlier statement, and   *)
(* its row has not changed hands since.                                    *)
LEMMA DeleteStateKeeps ==
  ASSUME Shape, Graphs, FlowRequests, NEW h \in Handler, DeleteState(h), ~UNCHANGED <<space, workflowVars>>
  PROVE  StaySound(h)
<1> DEFINE w == req[h].w
           s == req[h].s
           ss == {s}
           es == {e \in WfEdge : EdgeLive(e) /\ {wedge[e].from, wedge[e].to} \cap ss # {}}
<1>0. /\ w \in Workflow /\ req[h].op \in WorkflowOp /\ (FlowLive(w) => flow[w].o = req[h].o)
      /\ s \in WfState /\ (StateLive(s) => wstate[s].w = w)
  BY DEF FlowRequests, FlowRequest, DeleteState, At, WorkflowOp, FlowLive, StateLive
<1>00. req'[h] = Idle
  BY EndTold DEF DeleteState
<1>1. /\ StateLive(s)
      /\ UNCHANGED <<space, flow, assigned>>
      /\ wstate' = [t \in WfState |-> IF t \in ss THEN Gone(NoState) ELSE wstate[t]]
      /\ wedge' = [e \in WfEdge |-> IF e \in es THEN Gone(NoEdge) ELSE wedge[e]]
      /\ tier' = [t \in TierRow |-> IF TierLive(t) /\ tier[t].e \in es THEN Gone(NoTier) ELSE tier[t]]
  BY DEF DeleteState, WithoutStates, WithoutEdges, workflowVars
<1>2. es \subseteq ListTransitions(w)
  BY <1>0, <1>1 DEF Graphs, EdgesStay, ListTransitions
<1>3. \A e \in ListTransitions(w) : wedge[e].from \in ss \/ wedge[e].to \in ss => e \in es
  BY DEF ListTransitions
<1>4. ss \subseteq ListStates(w)
  BY <1>0, <1>1 DEF ListStates
<1> HIDE DEF w, es, ss
<1>5. Removal(w, ss, es)
  BY <1>1, <1>2, <1>3, <1>4 DEF Removal
<1> QED
  BY <1>0, <1>00, <1>1, <1>5, RemovalWithin, OneGraph DEF StaySound

LEMMA DeleteTransitionKeeps ==
  ASSUME Shape, Graphs, FlowRequests, NEW h \in Handler, DeleteTransition(h)
  PROVE  StaySound(h)
<1> DEFINE w == req[h].w
           es == {req[h].e} \cap ListTransitions(w)
<1>0. w \in Workflow /\ req[h].op \in WorkflowOp /\ (FlowLive(w) => flow[w].o = req[h].o)
  BY DEF FlowRequests, FlowRequest, DeleteTransition, At, WorkflowOp, FlowLive
<1>00. req'[h] = Idle
  BY EndTold DEF DeleteTransition
<1>1. /\ UNCHANGED <<space, flow, wstate, assigned>>
      /\ wedge' = [e \in WfEdge |-> IF e \in es THEN Gone(NoEdge) ELSE wedge[e]]
      /\ tier' = [t \in TierRow |-> IF TierLive(t) /\ tier[t].e \in es THEN Gone(NoTier) ELSE tier[t]]
  BY DEF DeleteTransition, WithoutEdges
<1>2. es \subseteq ListTransitions(w)
  OBVIOUS
<1> HIDE DEF w, es
<1>3. Removal(w, {}, es)
  BY <1>1, <1>2 DEF Removal, Graphs, GraphRows
<1> QED
  BY <1>0, <1>00, <1>1, <1>3, RemovalWithin, OneGraph DEF StaySound

(* The insertion takes its two states from the workflow's own.             *)
LEMMA CreateTransitionKeeps ==
  ASSUME Shape, Graphs, FlowRequests, NEW h \in Handler, CreateTransition(h)
  PROVE  StaySound(h)
<1> DEFINE w == req[h].w
           a == req[h].from
           b == req[h].to
           row == [st |-> "live", w |-> w, from |-> a, to |-> b]
<1>0. w \in Workflow /\ req[h].op \in WorkflowOp /\ (FlowLive(w) => flow[w].o = req[h].o)
  BY DEF FlowRequests, FlowRequest, CreateTransition, At, WorkflowOp, FlowLive
<1>00. req'[h] = Idle
  BY EndTold DEF CreateTransition
<1>1. PICK e \in WfEdge :
        /\ wedge[e].st = "none"
        /\ \/ wedge' = wedge
           \/ StatesExist(w, {a, b}) /\ wedge' = [wedge EXCEPT ![e] = row]
  <2> DEFINE fresh == {e \in WfEdge : wedge[e].st = "none"}
             ok == StatesExist(w, {a, b}) /\ \A e \in ListAvailableTransitions(w, a) : wedge[e].to # b
  <2>1. fresh # {} /\ wedge' = IF ok THEN [wedge EXCEPT ![CHOOSE e \in fresh : TRUE] = row] ELSE wedge
    BY DEF CreateTransition
  <2>2. (CHOOSE e \in fresh : TRUE) \in fresh
    BY <2>1
  <2> QED
    BY <2>1, <2>2
<1>2. UNCHANGED <<space, flow, wstate, tier, assigned>>
  BY DEF CreateTransition
<1>3. DOMAIN row = {"st", "w", "from", "to"} /\ row.st = "live" /\ row.w = w /\ row.from = a /\ row.to = b
  OBVIOUS
<1> HIDE DEF w, a, b, row
<1>4. CASE wedge' = wedge
  <2>1. UNCHANGED <<space, workflowVars>>
    BY <1>2, <1>4 DEF workflowVars
  <2>2. \A x \in Workflow : GraphOf(x)' = GraphOf(x)
    <3> TAKE x \in Workflow
    <3> QED
      BY <1>2, <1>4, SameGraph DEF ListStates, ListTransitions, Hanging, StateLive, EdgeLive, TierLive
  <2> QED
    BY <2>1, <2>2, GraphsStand, RowsStand, NoGraph DEF StaySound
<1>5. CASE StatesExist(w, {a, b}) /\ wedge' = [wedge EXCEPT ![e] = row]
  <2>1. DOMAIN wedge' = WfEdge /\ wedge'[e] = row /\ \A d \in WfEdge \ {e} : wedge'[d] = wedge[d]
    BY <1>5 DEF Graphs, GraphRows
  <2>2. \A d \in WfEdge : EdgeLive(d) => d # e /\ wedge'[d] = wedge[d]
    BY <1>1, <2>1 DEF EdgeLive
  <2>3. GraphRows'
    BY <1>2, <1>3, <2>1 DEF Graphs, GraphRows
  <2>4. StatesStay' /\ OneInitial'
    BY <1>2 DEF Graphs, StatesStay, OneInitial, StateLive, FlowLive
  <2>5. EdgesStay'
    <3>1. a \in WfState /\ StateLive(a) /\ wstate[a].w = w /\ b \in WfState /\ StateLive(b) /\ wstate[b].w = w
      BY <1>5 DEF StatesExist, ListStates
    <3>2. \A d \in WfEdge : wedge'[d].st = "live" => d = e \/ (wedge'[d] = wedge[d] /\ EdgeLive(d))
      BY <2>1 DEF EdgeLive
    <3> QED
      BY <1>2, <1>3, <2>1, <3>1, <3>2 DEF Graphs, EdgesStay, EdgeLive, StateLive
  <2>6. TiersStay'
    BY <1>2, <2>2 DEF Graphs, TiersStay, EdgeLive, TierLive
  <2>7. SpacesFollow'
    BY <1>2 DEF Graphs, SpacesFollow, workflowInOrg, FlowLive
  <2>8. RowsAge
    BY <1>1, <1>2, <2>1 DEF RowsAge
  <2>9. \A x \in Workflow \ {w} : FlowLive(x) => GraphOf(x)' = GraphOf(x)
    <3> SUFFICES ASSUME NEW x \in Workflow \ {w} PROVE GraphOf(x)' = GraphOf(x)
      OBVIOUS
    <3>1. ListStates(x)' = ListStates(x) /\ flow'[x] = flow[x]
      BY <1>2 DEF ListStates, StateLive
    <3>2. \A d \in WfEdge : (d \in ListTransitions(x))' <=> d \in ListTransitions(x)
      BY <1>1, <1>3, <2>1 DEF ListTransitions, EdgeLive
    <3>3. ListTransitions(x)' = ListTransitions(x)
      BY <3>2 DEF ListTransitions
    <3>4. Hanging(x)' = Hanging(x)
      BY <1>2, <3>3 DEF Hanging, TierLive
    <3> QED
      BY <3>1, <3>2, <3>4, SameGraph
  <2> QED
    BY <1>0, <1>00, <2>3, <2>4, <2>5, <2>6, <2>7, <2>8, <2>9, OneGraph DEF StaySound, Graphs
<1> QED
  BY <1>1, <1>4, <1>5

(* The rows that hang from one transition of w are written.                *)
LEMMA TiersKeep ==
  ASSUME Graphs, NEW w \in Workflow, NEW e \in WfEdge, EdgeLive(e) => wedge[e].w = w,
         UNCHANGED <<space, flow, wstate, wedge, assigned>>,
         DOMAIN tier' = TierRow, \A t \in TierRow : DOMAIN tier'[t] = {"st", "e", "table", "s"},
         \A t \in TierRow : tier'[t] = tier[t] \/ ((TierLive(t) => tier[t].e = e) /\ (TierLive(t)' => tier'[t].e = e /\ EdgeLive(e)))
  PROVE  Graphs' /\ RowsAge /\ \A x \in Workflow \ {w} : FlowLive(x) => GraphOf(x)' = GraphOf(x)
<1>1. GraphRows'
  BY DEF Graphs, GraphRows
<1>2. StatesStay' /\ EdgesStay' /\ OneInitial' /\ SpacesFollow'
  BY DEF Graphs, StatesStay, EdgesStay, OneInitial, SpacesFollow, StateLive, EdgeLive, FlowLive, workflowInOrg
<1>3. TiersStay'
  BY DEF Graphs, TiersStay, TierLive, EdgeLive
<1>4. RowsAge
  BY DEF RowsAge
<1>5. \A x \in Workflow \ {w} : GraphOf(x)' = GraphOf(x)
  <2> TAKE x \in Workflow \ {w}
  <2>1. ListStates(x)' = ListStates(x) /\ ListTransitions(x)' = ListTransitions(x) /\ flow'[x] = flow[x]
    BY DEF ListStates, ListTransitions, StateLive, EdgeLive
  <2>2. e \notin ListTransitions(x)
    BY DEF ListTransitions
  <2>3. \A t \in TierRow : (t \in Hanging(x))' <=> t \in Hanging(x)
    BY <2>1, <2>2 DEF Hanging, TierLive
  <2> QED
    BY <2>1, <2>3, SameGraph
<1> QED
  BY <1>1, <1>2, <1>3, <1>4, <1>5 DEF Graphs

(* The transition was resolved by an earlier statement; the foreign key    *)
(* asks for it again.                                                      *)
LEMMA InsertTierKeeps ==
  ASSUME Shape, Graphs, FlowRequests, NEW h \in Handler, NEW table, NEW ok, InsertTier(h, table, ok)
  PROVE  StaySound(h)
<1> DEFINE w == req[h].w
           e == req[h].e
           row == [st |-> "live", e |-> e, table |-> table, s |-> req[h].s]
<1>0. /\ w \in Workflow /\ req[h].op \in WorkflowOp /\ (FlowLive(w) => flow[w].o = req[h].o)
      /\ e \in WfEdge /\ (EdgeLive(e) => wedge[e].w = w)
  BY DEF FlowRequests, FlowRequest, InsertTier, At, WorkflowOp, FlowLive, EdgeLive
<1>00. req'[h] = Idle
  BY EndTold DEF InsertTier
<1>1. PICK t \in TierRow :
        /\ tier[t].st = "none"
        /\ \/ tier' = tier
           \/ EdgeLive(e) /\ tier' = [tier EXCEPT ![t] = row]
  <2> DEFINE fresh == {t \in TierRow : tier[t].st = "none"}
  <2>1. fresh # {} /\ tier' = IF EdgeLive(e) /\ ok THEN [tier EXCEPT ![CHOOSE t \in fresh : TRUE] = row] ELSE tier
    BY DEF InsertTier
  <2>2. (CHOOSE t \in fresh : TRUE) \in fresh
    BY <2>1
  <2> QED
    BY <2>1, <2>2
<1>2. UNCHANGED <<space, flow, wstate, wedge, assigned>>
  BY DEF InsertTier
<1>3. DOMAIN row = {"st", "e", "table", "s"} /\ row.e = e
  OBVIOUS
<1> HIDE DEF w, e, row
<1>4. DOMAIN tier' = TierRow /\ \A u \in TierRow : DOMAIN tier'[u] = {"st", "e", "table", "s"}
  BY <1>1, <1>3 DEF Graphs, GraphRows
<1>5. \A u \in TierRow : tier'[u] = tier[u] \/ ((TierLive(u) => tier[u].e = e) /\ (TierLive(u)' => tier'[u].e = e /\ EdgeLive(e)))
  BY <1>1, <1>3 DEF Graphs, GraphRows, TierLive
<1> QED
  BY <1>0, <1>00, <1>2, <1>4, <1>5, TiersKeep, OneGraph DEF StaySound

LEMMA DeleteTierKeeps ==
  ASSUME Shape, Graphs, FlowRequests, NEW h \in Handler, NEW table, DeleteTier(h, table)
  PROVE  StaySound(h)
<1> DEFINE w == req[h].w
           e == req[h].e
<1>0. /\ w \in Workflow /\ req[h].op \in WorkflowOp /\ (FlowLive(w) => flow[w].o = req[h].o)
      /\ e \in WfEdge /\ (EdgeLive(e) => wedge[e].w = w)
  BY DEF FlowRequests, FlowRequest, DeleteTier, At, WorkflowOp, FlowLive, EdgeLive
<1>00. req'[h] = Idle
  BY EndTold DEF DeleteTier
<1>1. /\ tier' = [t \in TierRow |-> IF t \in DeleteOfEdge(req[h]) THEN Gone(NoTier) ELSE tier[t]]
      /\ \A t \in DeleteOfEdge(req[h]) : tier[t].e = e
  BY DEF DeleteTier, DeleteOfEdge, TierRows
<1>2. UNCHANGED <<space, flow, wstate, wedge, assigned>>
  BY DEF DeleteTier
<1> HIDE DEF w, e
<1>4. DOMAIN tier' = TierRow /\ \A u \in TierRow : DOMAIN tier'[u] = {"st", "e", "table", "s"}
  BY <1>1, GoneRows DEF Graphs, GraphRows
<1>5. \A u \in TierRow : tier'[u] = tier[u] \/ ((TierLive(u) => tier[u].e = e) /\ (TierLive(u)' => tier'[u].e = e /\ EdgeLive(e)))
  BY <1>1, GoneRows DEF TierLive
<1> QED
  BY <1>0, <1>00, <1>2, <1>4, <1>5, TiersKeep, OneGraph DEF StaySound

(* A space comes to be, or follows a workflow.                             *)
LEMMA SpacesKeep ==
  ASSUME Graphs, UNCHANGED <<flow, wstate, wedge, tier>>, DOMAIN assigned' = Space, DOMAIN space' = Space,
         \A sp \in Space : DOMAIN space'[sp] = SpaceColumns,
         SpacesFollow', \A sp \in Space : space[sp].st # "absent" => space'[sp].st # "absent"
  PROVE  Graphs' /\ RowsAge /\ \A x \in Workflow : GraphOf(x)' = GraphOf(x)
<1>1. GraphRows' /\ StatesStay' /\ EdgesStay' /\ TiersStay' /\ OneInitial'
  BY DEF Graphs, GraphRows, StatesStay, EdgesStay, TiersStay, OneInitial, StateLive, EdgeLive, FlowLive, TierLive
<1>2. RowsAge
  BY DEF RowsAge
<1>3. \A x \in Workflow : GraphOf(x)' = GraphOf(x)
  BY SameGraph DEF ListStates, ListTransitions, Hanging, StateLive, EdgeLive, TierLive
<1> QED
  BY <1>1, <1>2, <1>3 DEF Graphs

(* A space that is created follows nothing yet.                            *)
LEMMA CreateSpaceKeeps ==
  ASSUME Shape, Graphs, FlowRequests, NEW h \in Handler, CreateSpaceTx(h), UNCHANGED workflowVars
  PROVE  StaySound(h) /\ Told(h)
<1> DEFINE sp == req[h].sp
           row(k) == [st |-> "live", key |-> k, owner |-> req[h].t, vis |-> req[h].vis, mem |-> {req[h].u}, wf |-> FALSE]
           next == [op |-> "createspace", pc |-> "workflow", sp |-> sp]
<1>0. sp \in Space
  BY DEF FlowRequests, FlowRequest, CreateSpaceTx, At
<1>1. \/ End(h) /\ UNCHANGED space
      \/ /\ space[sp].st = "absent" /\ Commit(h, next)
         /\ \E k \in FreeKeys(req[h]) : space' = [space EXCEPT ![sp] = row(k)]
  BY DEF CreateSpaceTx
<1>2. CASE End(h) /\ UNCHANGED space
  <2>1. \A x \in Workflow : GraphOf(x)' = GraphOf(x)
    BY SameGraph DEF ListStates, ListTransitions, Hanging, StateLive, EdgeLive, TierLive, workflowVars
  <2> QED
    BY <1>2, <2>1, GraphsStand, RowsStand, NoGraph, EndTold DEF StaySound
<1>3. CASE /\ space[sp].st = "absent" /\ Commit(h, next)
           /\ \E k \in FreeKeys(req[h]) : space' = [space EXCEPT ![sp] = row(k)]
  <2>1. PICK k : space' = [space EXCEPT ![sp] = row(k)]
    BY <1>3
  <2> HIDE DEF sp
  <2>2. DOMAIN space' = Space /\ space'[sp] = row(k) /\ \A x \in Space \ {sp} : space'[x] = space[x]
    BY <1>0, <2>1 DEF Graphs, GraphRows
  <2>3. DOMAIN row(k) = SpaceColumns /\ row(k).st = "live" /\ ~row(k).wf
    BY DEF SpaceColumns
  <2> HIDE DEF row
  <2>4. \A x \in Space : DOMAIN space'[x] = SpaceColumns
    BY <2>2, <2>3 DEF Graphs, GraphRows
  <2>5. SpacesFollow'
    BY <1>3, <2>2, <2>3 DEF Graphs, SpacesFollow, workflowInOrg, FlowLive, workflowVars
  <2>6. \A x \in Space : space[x].st # "absent" => space'[x].st # "absent"
    BY <1>3, <2>2
  <2>7. UNCHANGED <<flow, wstate, wedge, tier>> /\ DOMAIN assigned' = Space
    BY DEF workflowVars, Graphs, GraphRows
  <2>8. Graphs' /\ RowsAge /\ \A x \in Workflow : GraphOf(x)' = GraphOf(x)
    BY <2>2, <2>4, <2>5, <2>6, <2>7, SpacesKeep
  <2>9. FlowRequest(next, flow', wstate', wedge', space')
    BY <1>0, <2>2, <2>3 DEF FlowRequest, WorkflowOp
  <2> HIDE DEF next
  <2> QED
    BY <1>3, <2>8, <2>9, NoGraph, BeginTold DEF StaySound
<1> QED
  BY <1>1, <1>2, <1>3

(* The default that was read for it is of its organization still, or is    *)
(* gone.                                                                   *)
LEMMA AssignKeeps ==
  ASSUME Shape, Graphs, FlowRequests, NEW h \in Handler, AssignWorkflowToSpace(h), ~UNCHANGED <<space, workflowVars>>
  PROVE  StaySound(h)
<1> DEFINE sp == req[h].sp
           w == req[h].w
<1>0. sp \in Space /\ space[sp].st # "absent" /\ w \in Workflow /\ (FlowLive(w) => flow[w].o = SpaceOrg[sp])
  BY DEF FlowRequests, FlowRequest, AssignWorkflowToSpace, At, FlowLive
<1>1. /\ FlowLive(w) /\ assigned' = [assigned EXCEPT ![sp] = w] /\ space' = [space EXCEPT ![sp].wf = TRUE]
      /\ UNCHANGED <<flow, wstate, wedge, tier>>
  BY DEF AssignWorkflowToSpace, workflowVars
<1> HIDE DEF sp, w
<1>2. /\ DOMAIN assigned' = Space /\ assigned'[sp] = w /\ \A x \in Space \ {sp} : assigned'[x] = assigned[x]
      /\ DOMAIN space' = Space /\ \A x \in Space \ {sp} : space'[x] = space[x]
      /\ space'[sp].wf /\ space'[sp].st = space[sp].st /\ DOMAIN space'[sp] = SpaceColumns
  BY <1>0, <1>1 DEF Graphs, GraphRows, SpaceColumns
<1>3. \A x \in Space : DOMAIN space'[x] = SpaceColumns
  BY <1>2 DEF Graphs, GraphRows
<1>4. w # Nil
  BY <1>0, CastGraphsAreWhole
<1>5. SpacesFollow'
  BY <1>0, <1>1, <1>2, <1>4 DEF Graphs, SpacesFollow, workflowInOrg, FlowLive
<1>6. \A x \in Space : space[x].st # "absent" => space'[x].st # "absent"
  BY <1>2
<1> QED
  BY <1>1, <1>2, <1>3, <1>5, <1>6, SpacesKeep, NoGraph DEF StaySound

(* A step that leaves the tables alone keeps the graphs.                   *)
LEMMA NothingMoves ==
  ASSUME Graphs, UNCHANGED <<space, workflowVars>>, NEW h
  PROVE  StaySound(h)
<1>1. \A x \in Workflow : GraphOf(x)' = GraphOf(x)
  BY SameGraph DEF ListStates, ListTransitions, Hanging, StateLive, EdgeLive, TierLive, workflowVars
<1> QED
  BY <1>1, GraphsStand, RowsStand, NoGraph DEF StaySound

(* So every step of the administration of workflows keeps the graphs, and  *)
(* changes only those of the organization it was checked for.              *)
LEMMA WorkflowsStepKeeps ==
  ASSUME Shape, Graphs, FlowRequests, NEW h \in Handler, WorkflowsStep(h)
  PROVE  StaySound(h) /\ Told(h)
<1>1. CASE ReadingStep(h)
  BY <1>1, ReadingTold, NothingMoves
<1>2. CASE CreateSpaceTx(h) /\ UNCHANGED workflowVars
  BY <1>2, CreateSpaceKeeps
<1>3. CASE CreateWorkflow(h) \/ UpdateWorkflow(h) \/ CreateState(h) \/ CreateTransition(h) \/ DeleteTransition(h)
  <2>1. StaySound(h)
    BY <1>3, CreateWorkflowKeeps, UpdateWorkflowKeeps, CreateStateKeeps, CreateTransitionKeeps, DeleteTransitionKeeps
  <2> QED
    BY <1>3, <2>1, EndTold DEF CreateWorkflow, UpdateWorkflow, CreateState, CreateTransition, DeleteTransition
<1>4. CASE DeleteWorkflow(h) \/ DeleteState(h) \/ AssignWorkflowToSpace(h)
  <2>1. StaySound(h)
    BY <1>4, DeleteWorkflowKeeps, DeleteStateKeeps, AssignKeeps, NothingMoves
  <2> QED
    BY <1>4, <2>1, EndTold DEF DeleteWorkflow, DeleteState, AssignWorkflowToSpace
<1>5. CASE \/ CreateGuard(h) \/ CreatePostFunction(h) \/ CreateApprover(h)
           \/ DeleteGuard(h) \/ DeletePostFunction(h) \/ DeleteApprover(h)
  <2>1. (\E table, ok : InsertTier(h, table, ok)) \/ \E table : DeleteTier(h, table)
    BY <1>5 DEF CreateGuard, CreatePostFunction, CreateApprover, DeleteGuard, DeletePostFunction, DeleteApprover
  <2>2. StaySound(h) /\ End(h)
    BY <2>1, InsertTierKeeps, DeleteTierKeeps DEF InsertTier, DeleteTier
  <2> QED
    BY <2>2, EndTold
<1> QED
  BY <1>1, <1>2, <1>3, <1>4, <1>5 DEF WorkflowsStep, NewSpaceStep, ReadingStep

(* The inductive invariant.                                                *)
GraphInv == Sound /\ Graphs /\ FlowRequests

LEMMA GraphsNext ==
  ASSUME GraphInv, [AccountsNext]_<<accountVars, space, workflowVars>>
  PROVE  /\ GraphInv'
         /\ \A w \in Workflow : FlowLive(w) /\ GraphOf(w)' # GraphOf(w) =>
              \E h \in Handler : req[h].op \in WorkflowOp /\ req[h].o = flow[w].o /\ req'[h] = Idle
<1>0. Sound /\ Sound' /\ Shape /\ Graphs /\ FlowRequests
  BY SoundNext DEF GraphInv, Sound
<1>1. ASSUME NEW h \in Handler, StaySound(h), Told(h)
      PROVE  /\ GraphInv'
             /\ \A w \in Workflow : FlowLive(w) /\ GraphOf(w)' # GraphOf(w) =>
                  \E k \in Handler : req[k].op \in WorkflowOp /\ req[k].o = flow[w].o /\ req'[k] = Idle
  BY <1>0, <1>1, RequestsStay DEF GraphInv, StaySound, Own
<1>2. CASE \E h \in Handler : PersonsStep(h) /\ UNCHANGED <<space, workflowVars>>
  <2>1. PICK h \in Handler : PersonsStep(h) /\ UNCHANGED <<space, workflowVars>>
    BY <1>2
  <2> QED
    BY <1>0, <1>1, <2>1, PersonsAside, NothingMoves, RowsStand, AsideTold
<1>3. CASE \E h \in Handler : WorkflowsStep(h)
  <2>1. PICK h \in Handler : WorkflowsStep(h)
    BY <1>3
  <2> QED
    BY <1>0, <1>1, <2>1, WorkflowsStepKeeps
<1>4. CASE UNCHANGED <<req, space, workflowVars>>
  <2>1. Graphs' /\ RowsAge /\ FlowRequests'
    <3>1. Graphs' /\ RowsAge
      BY <1>0, <1>4, GraphsStand, RowsStand
    <3> QED
      BY <1>0, <1>4, <3>1 DEF FlowRequests, workflowVars
  <2>2. \A x \in Workflow : GraphOf(x)' = GraphOf(x)
    BY <1>4, SameGraph DEF ListStates, ListTransitions, Hanging, StateLive, EdgeLive, TierLive, workflowVars
  <2> QED
    BY <1>0, <2>1, <2>2 DEF GraphInv
<1>5. Expiry => UNCHANGED req
  BY DEF Expiry, LinkExpires, InviteExpires, SessionExpires, serverVars, accountVars
<1> QED
  BY <1>2, <1>3, <1>4, <1>5 DEF AccountsNext, accountVars, serverVars

LEMMA GraphInvInit == AccountsInit => GraphInv
<1> SUFFICES ASSUME AccountsInit PROVE GraphInv
  OBVIOUS
<1>1. FlowRequests
  BY ForeignRequest DEF AccountsInit, ServerInit, FlowRequests, Idle, FlowOp, WorkflowOp
<1> QED
  BY <1>1, SoundInit, GraphsInit DEF GraphInv

(* Whatever requests to create and delete are interleaved, the graphs stay *)
(* whole: between the check a handler makes and its write the rows it      *)
(* names may vanish, and the foreign keys and the guarded statements       *)
(* (queries/workflows.sql, queries/workflow_tiers.sql) then leave nothing  *)
(* dangling.                                                               *)
THEOREM GraphsAreWhole == AccountsSpec => []GraphsStayWhole
<1>1. GraphInv /\ [AccountsNext]_<<accountVars, space, workflowVars>> => GraphInv'
  BY GraphsNext
<1>2. GraphInv => GraphsStayWhole
  BY GraphsGiveWhole DEF GraphInv
<1> QED
  BY GraphInvInit, <1>1, <1>2, PTL DEF AccountsSpec

(* A workflow and what is in it change only by a request to the            *)
(* organization that has it: ids may be anyone's, the check before the     *)
(* write is not repeated by it, and still no step changes another          *)
(* organization's (workflows/handler.go, workflowInOrg).                   *)
THEOREM OnlyOwnersAdminister == AccountsSpec => OnlyOwnAdministrators
<1>1. GraphInv /\ [AccountsNext]_<<accountVars, space, workflowVars>> => GraphInv'
  BY GraphsNext
<1>2. GraphInv /\ [AccountsNext]_<<accountVars, space, workflowVars>> =>
        [\A w \in Workflow :
           FlowLive(w) /\ GraphOf(w)' # GraphOf(w) =>
             \E h \in Handler : req[h].op \in WorkflowOp /\ req[h].o = flow[w].o /\ req'[h] = Idle]_<<accountVars, workflowVars>>
  BY GraphsNext
<1> QED
  BY GraphInvInit, <1>1, <1>2, PTL DEF AccountsSpec, OnlyOwnAdministrators
=============================================================================
