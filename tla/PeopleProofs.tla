---------------------------- MODULE PeopleProofs ----------------------------
(***************************************************************************)
(* Proofs about the membership and team rows of Accounts, for any people,  *)
(* organizations, teams and workloads: an organization keeps an active     *)
(* administrator whatever demotions, removals and deactivations of them    *)
(* are in flight together, the paths of teams follow their parents however *)
(* the tree is rearranged, and a member has one live primary team however  *)
(* people and teams come and go.                                           *)
(***************************************************************************)
EXTENDS AccountsProofs, FiniteSetTheorems, SequenceTheorems

(* The requests that can take an administrator away.                       *)
OustOp == {"deactivate", "remove", "update"}

(* The row lock of the membership of u in o.                               *)
Membership(o, u) == <<"membership", o, u>>

(* r is about u's place in o, and is to end or lower it, or to deactivate  *)
(* u, who is then lost to every organization.                              *)
Concerns(r, o, u) == r.u = u /\ (r.op = "deactivate" \/ r.o = o)
Lowers(r) == r.op = "update" => r.pc \in {"role", "demote", "locking", "count", "write"} /\ ~IsAdminClass(r.to)
Takes(r, o, u) == r.op \in OustOp /\ Concerns(r, o, u) /\ Lowers(r)

(* It has chosen the rows it is to lock, or has locked them.               *)
Threat(r) == r.op \in OustOp /\ r.pc \in {"locking", "count", "write"} /\ Lowers(r)
Chosen(h) == IF req[h].pc = "locking" THEN req[h].want ELSE held[h]

(* The columns such a request has at its statements.                       *)
OustRequest(r) ==
  r.op \in OustOp =>
    /\ {"u", "o"} \subseteq DOMAIN r
    /\ r.u \in User /\ r.o \in Org
    /\ r.op \in {"deactivate", "remove"} => "was" \in DOMAIN r
    /\ r.op = "deactivate" => r.pc \in {"member", "locking", "count", "write"}
    /\ r.op = "remove" => r.pc \in {"member", "locking", "count", "write"}
    /\ r.pc = "locking" <=> "want" \in DOMAIN r
    /\ r.op = "update" =>
         /\ {"to", "t"} \subseteq DOMAIN r
         /\ r.pc \in {"role", "demote", "locking", "count", "write", "team", "enrol"}
         /\ r.pc \in {"role", "demote", "locking", "count", "write"} => r.to \in {"member", "admin"}
         /\ r.pc \in {"demote", "locking", "count"} => r.to = "member"

Tables ==
  /\ Shape
  /\ DOMAIN account = User
  /\ DOMAIN role = Org /\ \A o \in Org : DOMAIN role[o] = User
  /\ mix.roles \subseteq {"member", "admin"}
  /\ \A h \in Handler : OustRequest(req[h])

(* No row is locked twice.                                                 *)
LocksApart == \A h, k \in Handler : h # k => held[h] \cap held[k] = {}

(* A threatening request has chosen the row of its target, and of two that *)
(* threaten one organization the later chose that of the other's target.   *)
TargetChosen(h) ==
  Threat(req[h]) =>
    \A o \in Org : \A u \in Admins(o) : Concerns(req[h], o, u) => Membership(o, u) \in Chosen(h)
OneChoseBoth(h, k) ==
  Threat(req[h]) /\ Threat(req[k]) =>
    \A o \in Org : \A u, v \in Admins(o) : Concerns(req[h], o, u) /\ Concerns(req[k], o, v) =>
      Membership(o, v) \in Chosen(h) \/ Membership(o, u) \in Chosen(k)

(* One that has counted leaves another active administrator, and a removal *)
(* that takes no lock is of none.                                          *)
Remain(o, us) == \E v \in Admins(o) \ us : Active(v)
OthersCounted(h) ==
  Threat(req[h]) /\ req[h].pc = "write" =>
    \A o \in Org : \A u \in Admins(o) : Concerns(req[h], o, u) => Remain(o, {u})
Harmless(h) == At(h, "remove", "member") /\ ~IsAdminClass(req[h].was) => req[h].u \notin Admins(req[h].o)

Staffed ==
  /\ Tables /\ LocksApart
  /\ \A h \in Handler : TargetChosen(h) /\ OthersCounted(h) /\ Harmless(h)
  /\ \A h, k \in Handler : h # k => OneChoseBoth(h, k)
  /\ AdminRemains

(* Nobody is made an administrator while a request that is to take him     *)
(* away is in flight: no lock is on a row that is not an administrator's.  *)
NobodyIsRaised == \A h \in Handler, o \in Org, u \in User : Takes(req[h], o, u) /\ u \in Admins(o)' => u \in Admins(o)
NobodyIsRaisedMeanwhile == [][NobodyIsRaised]_<<accountVars, space, workflowVars>>
-----------------------------------------------------------------------------
(* What a step of one handler does to the others *)

(* A step of h leaves the other handlers and the workload alone, takes no  *)
(* row another has locked, and, unless it leaves h's request and locks as  *)
(* they are, goes on with a request of none of the operations of S.        *)
Busyness(r) == "op" \in DOMAIN r /\ (r.op # "idle" => "pc" \in DOMAIN r)

Frame(h, S) ==
  /\ DOMAIN req' = Handler /\ DOMAIN held' = Handler /\ UNCHANGED mix
  /\ \A k \in Handler \ {h} : req'[k] = req[k] /\ held'[k] = held[k] /\ held'[h] \cap held[k] \subseteq held[h]
  /\ Busyness(req'[h])
  /\ req'[h].op \in S => req'[h] = req[h] /\ held'[h] = held[h]

LEMMA FrameGo ==
  ASSUME Shape, NEW h \in Handler, NEW S, NEW r, NEW rows, Busyness(r), r.op \notin S,
         Begin(h, r) \/ Go(h, r) \/ Commit(h, r) \/ GoLocked(h, rows, r)
  PROVE  Frame(h, S)
BY DEF Shape, Begin, Go, Commit, GoLocked, Free, Frame

LEMMA FrameEnd == ASSUME Shape, NEW h \in Handler, NEW S, "idle" \notin S, End(h) PROVE Frame(h, S)
BY DEF Shape, End, Idle, Busyness, Frame

LEMMA FrameServe == ASSUME Shape, NEW h \in Handler, NEW S, Serve PROVE Frame(h, S)
BY DEF Shape, Serve, Busyness, Frame

(* A request that learns more, loses a column or goes on to another        *)
(* statement keeps its operation.                                          *)
LEMMA BusyWith == ASSUME NEW r, NEW s, Busyness(r) PROVE Busyness(With(r, s)) /\ With(r, s).op = r.op
<1>1. "op" \in DOMAIN With(r, s) /\ With(r, s).op = r.op
  BY WithKeeps DEF Busyness
<1>2. "pc" \in DOMAIN r => "pc" \in DOMAIN With(r, s)
  BY WithKeeps
<1> QED
  BY <1>1, <1>2 DEF Busyness

LEMMA BusyDrop ==
  ASSUME NEW r, NEW f, Busyness(r), f \notin {"op", "pc"}
  PROVE  Busyness(Drop(r, f)) /\ Drop(r, f).op = r.op
BY DEF Busyness, Drop

LEMMA BusyGo ==
  ASSUME Shape, NEW h \in Handler, NEW to
  PROVE  Busyness([req[h] EXCEPT !.pc = to]) /\ [req[h] EXCEPT !.pc = to].op = req[h].op
BY DEF Shape, Busyness

LEMMA FrameOn ==
  ASSUME Shape, NEW h \in Handler, NEW S, NEW to, req[h].op \notin S, NEW rows, NEW s,
         \/ Go(h, [req[h] EXCEPT !.pc = to]) \/ Commit(h, [req[h] EXCEPT !.pc = to])
         \/ GoLocked(h, rows, [req[h] EXCEPT !.pc = to])
         \/ Go(h, With([req[h] EXCEPT !.pc = to], s)) \/ GoLocked(h, rows, With(Drop([req[h] EXCEPT !.pc = to], "want"), s))
  PROVE  Frame(h, S)
<1> DEFINE r == [req[h] EXCEPT !.pc = to]
           q == Drop(r, "want")
<1>1. Busyness(r) /\ r.op = req[h].op
  BY BusyGo
<1> HIDE DEF r
<1>2. Busyness(q) /\ q.op = req[h].op
  BY <1>1, BusyDrop
<1> HIDE DEF q
<1>3. Busyness(With(r, s)) /\ With(r, s).op = req[h].op
  BY <1>1, BusyWith
<1>4. Busyness(With(q, s)) /\ With(q, s).op = req[h].op
  BY <1>2, BusyWith
<1> DEFINE r1 == With(r, s)
           q1 == With(q, s)
<1>5. \/ Go(h, r) \/ Commit(h, r) \/ GoLocked(h, rows, r) \/ Go(h, r1) \/ GoLocked(h, rows, q1)
  BY DEF r, q
<1> HIDE DEF r1, q1
<1>6. Busyness(r1) /\ Busyness(q1) /\ r1.op = req[h].op /\ q1.op = req[h].op
  BY <1>3, <1>4 DEF r1, q1
<1>7. CASE Go(h, r) \/ Commit(h, r) \/ GoLocked(h, rows, r)
  BY <1>1, <1>7, FrameGo
<1>8. CASE Go(h, r1)
  BY <1>6, <1>8, FrameGo
<1>9. CASE GoLocked(h, rows, q1)
  BY <1>6, <1>9, FrameGo
<1> QED
  BY <1>5, <1>7, <1>8, <1>9
PeopleOp == {"deactivate", "reactivate", "forcelogout", "remove", "update"}
TeamOp   == {"createteam", "reparent", "deleteteam", "putmember", "removemember"}

LEMMA PeopleFrame ==
  ASSUME Shape, NEW h \in Handler, PeopleStep(h), NEW S, S \cap (PeopleOp \cup {"idle"}) = {}
  PROVE  Frame(h, S)
<1> USE DEF PeopleOp
<1>1. CASE DeactivatePerson(h) \/ ReactivatePerson(h) \/ ForceLogoutPerson(h) \/ RemovePerson(h)
  <2>1. PICK op \in PeopleOp : lifecycleAction(h, op)
    BY <1>1 DEF DeactivatePerson, ReactivatePerson, ForceLogoutPerson, RemovePerson
  <2>2. PICK o, u, was : Begin(h, [op |-> op, pc |-> "member", o |-> o, u |-> u, was |-> was])
    BY <2>1 DEF lifecycleAction
  <2> QED
    BY <2>2, FrameGo DEF Busyness
<1>2. CASE lockAdmins(h)
  <2>1. req[h].op \notin S
    BY <1>2 DEF lockAdmins, At
  <2>2. PICK s : Go(h, With([req[h] EXCEPT !.pc = "locking"], s))
    BY <1>2 DEF lockAdmins
  <2> QED
    BY <2>1, <2>2, FrameOn
<1>3. CASE adminsLocked(h)
  <2> DEFINE r == [f \in DOMAIN req[h] \ {"want"} |-> IF f = "pc" THEN "count" ELSE req[h][f]]
  <2>1. req[h].op \notin S /\ Busyness(r) /\ r.op = req[h].op
    BY <1>3 DEF adminsLocked, Shape, Busyness
  <2>2. \E rows : GoLocked(h, rows, r)
    BY <1>3 DEF adminsLocked
  <2> HIDE DEF r
  <2> QED
    BY <2>1, <2>2, FrameGo
<1>4. CASE requireOtherAdmins(h)
  BY <1>4, FrameOn, FrameEnd DEF requireOtherAdmins
<1>5. CASE Deactivate(h) \/ Reactivate(h) \/ ForceLogout(h) \/ RemoveFromOrg(h) \/ EnrolAsPrimary(h)
  BY <1>5, FrameEnd DEF Deactivate, Reactivate, ForceLogout, RemoveFromOrg, EnrolAsPrimary
<1>6. CASE UpdatePerson(h)
  BY <1>6, FrameGo DEF UpdatePerson, Busyness
<1>7. CASE ChangeOrgRole(h)
  <2>1. req[h].op \notin S
    BY <1>7 DEF ChangeOrgRole, At
  <2>2. End(h) \/ \E pc : Go(h, [req[h] EXCEPT !.pc = pc]) \/ Commit(h, [req[h] EXCEPT !.pc = pc])
    BY <1>7 DEF ChangeOrgRole, applyPersonUpdates
  <2> QED
    BY <2>1, <2>2, FrameOn, FrameEnd
<1>8. CASE UpdateMembershipRole(h)
  BY <1>8, FrameOn, FrameEnd DEF UpdateMembershipRole, applyPersonUpdates, At
<1>9. CASE ChangePrimaryTeam(h)
  BY <1>9, FrameOn, FrameEnd DEF ChangePrimaryTeam, At
<1> QED
  BY <1>1, <1>2, <1>3, <1>4, <1>5, <1>6, <1>7, <1>8, <1>9 DEF PeopleStep

LEMMA TeamsFrame ==
  ASSUME Shape, NEW h \in Handler, TeamsStep(h), NEW S, S \cap (TeamOp \cup {"idle"}) = {}
  PROVE  Frame(h, S)
<1> USE DEF TeamOp
<1>1. CASE Create(h) \/ Update(h) \/ Delete(h)
  <2>1. CASE Create(h)
    BY <2>1, FrameGo DEF Create, Busyness
  <2>2. CASE Update(h)
    BY <2>2, FrameGo DEF Update, Busyness
  <2>3. CASE Delete(h)
    BY <2>3, FrameGo DEF Delete, Busyness
  <2> QED
    BY <1>1, <2>1, <2>2, <2>3
<1>2. CASE PutMember(h) \/ RemoveMember(h)
  <2>1. CASE PutMember(h)
    BY <2>1, FrameGo DEF PutMember, Busyness
  <2>2. CASE RemoveMember(h)
    BY <2>2, FrameGo DEF RemoveMember, Busyness
  <2> QED
    BY <1>2, <2>1, <2>2
<1>3. CASE CreateTeam(h) \/ ReparentSubtree(h) \/ DeleteTeam(h) \/ SetPrimary(h) \/ RemoveTeamMember(h)
  BY <1>3, FrameEnd DEF CreateTeam, ReparentSubtree, DeleteTeam, SetPrimary, RemoveTeamMember
<1>4. CASE ChooseSubtree(h)
  BY <1>4, FrameOn DEF ChooseSubtree
<1>5. CASE LockSubtree(h) /\ ~End(h)
  <2>1. req[h].op \notin S
    BY <1>5 DEF LockSubtree, At
  <2>2. PICK rows, s : GoLocked(h, rows, With(Drop([req[h] EXCEPT !.pc = "target"], "want"), s))
    BY <1>5 DEF LockSubtree
  <2> QED
    BY <2>1, <2>2, FrameOn
<1>6. CASE lockReparentTarget(h) /\ ~End(h)
  <2>1. req[h].op \notin S
    BY <1>6 DEF lockReparentTarget, At
  <2>2. PICK rows, s : GoLocked(h, rows, With(Drop([req[h] EXCEPT !.pc = "rewrite"], "want"), s))
    BY <1>6 DEF lockReparentTarget
  <2> QED
    BY <2>1, <2>2, FrameOn
<1>7. CASE lockTeamForDeletion(h) /\ ~End(h)
  <2>1. req[h].op \notin S
    BY <1>7 DEF lockTeamForDeletion, At
  <2>2. PICK rows, s : GoLocked(h, rows, With(Drop([req[h] EXCEPT !.pc = "migrate"], "want"), s))
    BY <1>7 DEF lockTeamForDeletion
  <2> QED
    BY <2>1, <2>2, FrameOn
<1>8. CASE GetTeam(h) \/ AddMember(h)
  BY <1>8, FrameOn, FrameEnd DEF GetTeam, AddMember, At
<1>9. CASE EnsureDefaultMembership(h)
  BY <1>9, FrameServe DEF EnsureDefaultMembership
<1> QED
  BY <1>1, <1>2, <1>3, <1>4, <1>5, <1>6, <1>7, <1>8, <1>9, FrameEnd DEF TeamsStep

SessionOp == {"login", "refresh", "logoutall", "updateme"}
LinkOp    == {"issue", "breakglass", "consume"}
InviteOp  == {"invite", "accept"}

LEMMA SessionsFrame ==
  ASSUME Shape, NEW h \in Handler, SessionsStep(h), NEW S, S \cap (SessionOp \cup {"idle"}) = {}
  PROVE  Frame(h, S)
<1> USE DEF SessionOp
<1>1. CASE Login(h)
  BY <1>1, FrameGo DEF Login, Busyness
<1>2. CASE Refresh(h)
  BY <1>2, FrameGo DEF Refresh, Busyness
<1>3. CASE LogoutAll(h) \/ UpdateMe(h)
  <2>1. CASE LogoutAll(h)
    BY <2>1, FrameGo DEF LogoutAll, Busyness
  <2>2. CASE UpdateMe(h)
    BY <2>2, FrameGo DEF UpdateMe, Busyness
  <2> QED
    BY <1>3, <2>1, <2>2
<1>4. CASE DeleteAllSessions(h)
  BY <1>4, FrameOn DEF DeleteAllSessions, At
<1>5. CASE Logout(h)
  BY <1>5, FrameServe DEF Logout
<1>6. CASE finishLogin(h) \/ IssueTokenPair(h) \/ RevokeTokens(h) \/ UpdateProfile(h)
  BY <1>6, FrameEnd DEF finishLogin, IssueTokenPair, RevokeTokens, UpdateProfile
<1> QED
  BY <1>1, <1>2, <1>3, <1>4, <1>5, <1>6 DEF SessionsStep

LEMMA LinksFrame ==
  ASSUME Shape, NEW h \in Handler, LinksStep(h), NEW S, S \cap (LinkOp \cup {"idle"}) = {}
  PROVE  Frame(h, S)
<1> USE DEF LinkOp
<1>1. CASE RequestReset(h) \/ IssueReset(h) \/ RequestEmailChange(h)
  <2>1. CASE RequestReset(h)
    BY <2>1, FrameGo DEF RequestReset, Busyness, MintRequest
  <2>2. CASE IssueReset(h)
    BY <2>2, FrameGo DEF IssueReset, Busyness, MintRequest
  <2>3. CASE RequestEmailChange(h)
    BY <2>3, FrameGo DEF RequestEmailChange, Busyness, MintRequest
  <2> QED
    BY <1>1, <2>1, <2>2, <2>3
<1>2. CASE GetUserByEmailAcrossOrgs(h) \/ Consume(h)
  <2>1. CASE GetUserByEmailAcrossOrgs(h)
    BY <2>1, FrameGo DEF GetUserByEmailAcrossOrgs, Busyness
  <2>2. CASE Consume(h)
    BY <2>2, FrameGo DEF Consume, Busyness
  <2> QED
    BY <1>2, <2>1, <2>2
<1>3. CASE CreateUserForAdmin(h) \/ runCreateUserWithLink(h)
  BY <1>3, FrameServe DEF CreateUserForAdmin, runCreateUserWithLink, CreateUserWithSignInLink
<1>4. CASE Issue(h) \/ runResetPassword(h) \/ EmailTakenAtConsume(h) \/ signInAfterConsume(h)
  BY <1>4, FrameEnd DEF Issue, runResetPassword, EmailTakenAtConsume, signInAfterConsume
<1>5. CASE ConsumeCredentialLink(h)
  BY <1>5, FrameOn, FrameEnd DEF ConsumeCredentialLink, At
<1>6. CASE applyConsumedEffect(h)
  BY <1>6, FrameGo, FrameEnd DEF applyConsumedEffect, Busyness
<1>7. CASE GetUserAfterConsume(h)
  BY <1>7, FrameGo, FrameEnd DEF GetUserAfterConsume, Busyness
<1> QED
  BY <1>1, <1>2, <1>3, <1>4, <1>5, <1>6, <1>7 DEF LinksStep

LEMMA InvitesFrame ==
  ASSUME Shape, NEW h \in Handler, InvitesStep(h), NEW S, S \cap (InviteOp \cup {"idle"}) = {}
  PROVE  Frame(h, S)
<1> USE DEF InviteOp
<1>1. CASE CreateInvites(h) \/ Accept(h)
  <2>1. CASE CreateInvites(h)
    BY <2>1, FrameGo DEF CreateInvites, Busyness
  <2>2. CASE Accept(h)
    BY <2>2, FrameGo DEF Accept, Busyness
  <2> QED
    BY <1>1, <2>1, <2>2
<1>2. CASE RevokeInvite(h) \/ RefreshInviteToken(h)
  BY <1>2, FrameServe DEF RevokeInvite, RefreshInviteToken
<1>3. CASE CreateInvite(h) \/ signInAfterAccept(h)
  BY <1>3, FrameEnd DEF CreateInvite, signInAfterAccept
<1>4. CASE loadAcceptableInvite(h)
  BY <1>4, FrameOn, FrameEnd DEF loadAcceptableInvite, At
<1>5. CASE resolveAcceptUser(h)
  <2> DEFINE q == [req[h] EXCEPT !.pc = "join"]
  <2>1. Busyness(q) /\ q.op = "accept"
    BY <1>5, BusyGo DEF resolveAcceptUser, At
  <2> HIDE DEF q
  <2>2. \A u, new, t : LET r == With([u |-> u, new |-> new, t |-> t], q) IN Busyness(r) /\ r.op = "accept"
    BY <2>1 DEF With, Busyness
  <2>3. End(h) \/ \E u, new, t : Go(h, With([u |-> u, new |-> new, t |-> t], q))
    BY <1>5 DEF resolveAcceptUser, q
  <2> QED
    BY <2>2, <2>3, FrameGo, FrameEnd
<1>6. CASE MarkInviteAccepted(h)
  <2>1. End(h) \/ \E x : Commit(h, [op |-> "accept", pc |-> "session", u |-> req[h].u, row |-> x])
    BY <1>6 DEF MarkInviteAccepted
  <2> QED
    <3>1. ASSUME NEW u, NEW x, Commit(h, [op |-> "accept", pc |-> "session", u |-> u, row |-> x]) PROVE Frame(h, S)
      BY <3>1, FrameGo DEF Busyness
    <3> QED
      BY <2>1, <3>1, FrameEnd
<1> QED
  BY <1>1, <1>2, <1>3, <1>4, <1>5, <1>6 DEF InvitesStep
LEMMA WorkflowRequestFrame ==
  ASSUME Shape, NEW h \in Handler, NEW S, NEW op, op \notin S, NEW pc, NEW more,
         OnWorkflow(h, op, pc, more) \/ OnTransition(h, op, pc, more)
  PROVE  Frame(h, S)
<1>1. ASSUME NEW r, Busyness(r), r.op = op, NEW m, Begin(h, With(r, m)) PROVE Frame(h, S)
  <2> DEFINE q == With(r, m)
  <2>1. Busyness(q) /\ q.op = op
    BY <1>1, BusyWith
  <2> HIDE DEF q
  <2>2. Begin(h, q)
    BY <1>1 DEF q
  <2> QED
    BY <2>1, <2>2, FrameGo
<1>2. CASE OnWorkflow(h, op, pc, more)
  <2>1. PICK o, w, m : Begin(h, With([op |-> op, pc |-> pc, o |-> o, w |-> w], m))
    BY <1>2 DEF OnWorkflow
  <2> QED
    BY <1>1, <2>1 DEF Busyness
<1>3. CASE OnTransition(h, op, pc, more)
  <2>1. PICK o, w, e, m : Begin(h, With([op |-> op, pc |-> pc, o |-> o, w |-> w, e |-> e], m))
    BY <1>3 DEF OnTransition
  <2> QED
    BY <1>1, <2>1 DEF Busyness
<1> QED
  BY <1>2, <1>3

LEMMA WorkflowsFrame ==
  ASSUME Shape, NEW h \in Handler, WorkflowsStep(h), NEW S, S \cap (WorkflowOp \cup {"createspace", "idle"}) = {}
  PROVE  Frame(h, S)
<1> USE DEF WorkflowOp
<1>1. CASE CreateWorkflowBegin(h)
  <2>1. PICK o, b : Begin(h, With([op |-> "createflow", pc |-> "write", o |-> o], b))
    BY <1>1 DEF CreateWorkflowBegin
  <2> DEFINE q == With([op |-> "createflow", pc |-> "write", o |-> o], b)
  <2>2. Busyness(q) /\ q.op = "createflow"
    BY BusyWith DEF Busyness
  <2> HIDE DEF q
  <2>3. Begin(h, q)
    BY <2>1 DEF q
  <2> QED
    BY <2>2, <2>3, FrameGo
<1>2. CASE \/ UpdateWorkflowBegin(h) \/ DeleteWorkflowBegin(h) \/ CreateStateBegin(h) \/ DeleteStateBegin(h)
           \/ CreateTransitionBegin(h) \/ DeleteTransitionBegin(h)
  BY <1>2, WorkflowRequestFrame DEF UpdateWorkflowBegin, DeleteWorkflowBegin, CreateStateBegin,
     DeleteStateBegin, CreateTransitionBegin, DeleteTransitionBegin
<1>3. CASE \/ CreateGuardBegin(h) \/ CreatePostFunctionBegin(h) \/ CreateApproverBegin(h)
           \/ DeleteGuardBegin(h) \/ DeletePostFunctionBegin(h) \/ DeleteApproverBegin(h)
  BY <1>3, WorkflowRequestFrame DEF CreateGuardBegin, CreatePostFunctionBegin, CreateApproverBegin,
     DeleteGuardBegin, DeletePostFunctionBegin, DeleteApproverBegin
<1>4. CASE CountSpacesUsingWorkflow(h) \/ GetState(h)
  BY <1>4, FrameEnd, FrameOn DEF CountSpacesUsingWorkflow, GetState, At
<1>5. CASE \/ CreateWorkflow(h) \/ UpdateWorkflow(h) \/ DeleteWorkflow(h) \/ CreateState(h) \/ DeleteState(h)
           \/ CreateTransition(h) \/ DeleteTransition(h) \/ AssignWorkflowToSpace(h)
  BY <1>5, FrameEnd DEF CreateWorkflow, UpdateWorkflow, DeleteWorkflow, CreateState, DeleteState, CreateTransition,
     DeleteTransition, AssignWorkflowToSpace
<1>6. CASE \/ CreateGuard(h) \/ CreatePostFunction(h) \/ CreateApprover(h)
           \/ DeleteGuard(h) \/ DeletePostFunction(h) \/ DeleteApprover(h)
  BY <1>6, FrameEnd DEF CreateGuard, CreatePostFunction, CreateApprover, InsertTier, DeleteGuard, DeletePostFunction,
     DeleteApprover, DeleteTier
<1>7. CASE CreateSpaceBegin(h)
  <2>1. PICK r : Begin(h, r) /\ DOMAIN r = {"op", "pc", "u", "sp", "t", "vis", "key", "needsGrant"} /\ r.op = "createspace"
    BY <1>7 DEF CreateSpaceBegin
  <2> QED
    BY <2>1, FrameGo DEF Busyness
<1>8. CASE CreateSpaceTx(h)
  <2>1. End(h) \/ \E sp : Commit(h, [op |-> "createspace", pc |-> "workflow", sp |-> sp])
    BY <1>8 DEF CreateSpaceTx
  <2>2. ASSUME NEW sp, Commit(h, [op |-> "createspace", pc |-> "workflow", sp |-> sp]) PROVE Frame(h, S)
    BY <2>2, FrameGo DEF Busyness
  <2> QED
    BY <2>1, <2>2, FrameEnd
<1>9. CASE GetDefaultWorkflow(h)
  <2>1. req[h].op = "createspace"
    BY <1>9 DEF GetDefaultWorkflow, At
  <2>2. End(h) \/ \E w : Go(h, With([req[h] EXCEPT !.pc = "assign"], w))
    BY <1>9 DEF GetDefaultWorkflow
  <2> QED
    BY <2>1, <2>2, FrameOn, FrameEnd
<1> QED
  BY <1>1, <1>2, <1>3, <1>4, <1>5, <1>6, <1>7, <1>8, <1>9 DEF WorkflowsStep, NewSpaceStep
-----------------------------------------------------------------------------
(* The last administrator *)

(* Who is an active administrator stays one, in every organization, or in  *)
(* those that the request of h is not about.                               *)
Stays(o, v) == v \in Admins(o) /\ Active(v) => v \in Admins(o)' /\ Active(v)'
Steady == \A o \in Org, v \in User : Stays(o, v)
SparesOthers(h) == \A o \in Org, v \in User : ~Concerns(req[h], o, v) => Stays(o, v)

(* Two requests past their locks have not both a target in an organization. *)
LEMMA OneAtATime ==
  ASSUME Staffed, NEW h \in Handler, NEW k \in Handler, h # k, Threat(req[h]), Threat(req[k]),
         req[h].pc # "locking", req[k].pc # "locking",
         NEW o \in Org, NEW u \in Admins(o), Concerns(req[h], o, u), NEW v \in Admins(o), Concerns(req[k], o, v)
  PROVE  FALSE
<1>1. Membership(o, u) \in held[h] /\ Membership(o, v) \in held[k]
  BY DEF Staffed, TargetChosen, Chosen
<1>2. Membership(o, v) \in held[h] \/ Membership(o, u) \in held[k]
  BY DEF Staffed, OneChoseBoth, Chosen
<1>3. held[h] \cap held[k] = {}
  BY DEF Staffed, LocksApart
<1> QED
  BY <1>1, <1>2, <1>3

LEMMA ApartStep == ASSUME LocksApart, NEW h \in Handler, Frame(h, {}) PROVE LocksApart'
BY DEF LocksApart, Frame

(* What a request had chosen and counted still holds of it when another    *)
(* handler makes a step, since its target is not raised meanwhile.         *)
LEMMA BystanderStep ==
  ASSUME Staffed, NobodyIsRaised, NEW h \in Handler, Frame(h, {}), NEW k \in Handler \ {h}
  PROVE  TargetChosen(k)' /\ Harmless(k)' /\ \A j \in Handler \ {h, k} : OneChoseBoth(j, k)'
<1>1. req'[k] = req[k] /\ held'[k] = held[k] /\ OustRequest(req[k])
  BY DEF Frame, Staffed, Tables
<1>2. \A j \in Handler, o \in Org, u \in User :
        Threat(req[j]) /\ Concerns(req[j], o, u) /\ u \in Admins(o)' => u \in Admins(o)
  BY DEF NobodyIsRaised, Takes, Threat
<1>3. \A o \in Org : Admins(o)' \subseteq User
  BY DEF Admins
<1>4. TargetChosen(k)'
  <2>1. TargetChosen(k)
    BY DEF Staffed
  <2> QED
    BY <1>1, <1>2, <1>3, <2>1 DEF TargetChosen, Chosen
<1>5. Harmless(k)'
  <2>1. SUFFICES ASSUME At(k, "remove", "member"), ~IsAdminClass(req[k].was), req[k].u \in Admins(req[k].o)'
                 PROVE  FALSE
    BY <1>1 DEF Harmless, At
  <2>2. req[k].o \in Org /\ req[k].u \in User /\ Takes(req[k], req[k].o, req[k].u)
    BY <1>1, <2>1 DEF At, OustRequest, OustOp, Takes, Concerns, Lowers
  <2>3. req[k].u \in Admins(req[k].o)
    BY <1>1, <2>1, <2>2 DEF NobodyIsRaised
  <2> QED
    BY <2>1, <2>3 DEF Staffed, Harmless
<1>6. ASSUME NEW j \in Handler \ {h, k} PROVE OneChoseBoth(j, k)'
  <2>1. req'[j] = req[j] /\ held'[j] = held[j]
    BY DEF Frame
  <2>2. OneChoseBoth(j, k)
    BY DEF Staffed
  <2> QED
    BY <1>1, <1>2, <1>3, <2>1, <2>2 DEF OneChoseBoth, Chosen
<1> QED
  BY <1>4, <1>5, <1>6

LEMMA SteadyRemain == ASSUME Steady, NEW o \in Org, NEW us, Remain(o, us) PROVE Remain(o, us)'
BY DEF Steady, Stays, Remain, Admins

(* A step that spares the others, by a request that has counted them if it *)
(* is to take its own target away.                                         *)
LEMMA StaffedStep ==
  ASSUME Staffed, NobodyIsRaised, NEW h \in Handler, Frame(h, {}), Tables',
         Steady \/ (SparesOthers(h) /\ Threat(req[h]) /\ req[h].pc = "write"),
         TargetChosen(h)', OthersCounted(h)', Harmless(h)',
         \A k \in Handler \ {h} : OneChoseBoth(h, k)' /\ OneChoseBoth(k, h)'
  PROVE  Staffed'
<1>1. LocksApart'
  BY ApartStep DEF Staffed
<1>2. AdminRemains'
  <2>1. SUFFICES ASSUME NEW o \in Org PROVE Remain(o, {})'
    BY DEF AdminRemains, Remain
  <2>2. Remain(o, {})
    BY DEF Staffed, AdminRemains, Remain
  <2>3. CASE Steady
    BY <2>2, <2>3, SteadyRemain
  <2>4. CASE SparesOthers(h) /\ Threat(req[h]) /\ req[h].pc = "write"
    <3>1. PICK v \in Admins(o) : Active(v)
      BY <2>2 DEF Remain
    <3>2. CASE Concerns(req[h], o, v)
      <4>1. Remain(o, {v})
        BY <2>4, <3>2 DEF Staffed, OthersCounted
      <4>2. PICK w \in Admins(o) : w # v /\ Active(w)
        BY <4>1 DEF Remain
      <4>3. ~Concerns(req[h], o, w)
        BY <3>2, <4>2 DEF Concerns
      <4> QED
        BY <2>4, <4>2, <4>3 DEF SparesOthers, Stays, Remain, Admins
    <3>3. CASE ~Concerns(req[h], o, v)
      BY <2>4, <3>1, <3>3 DEF SparesOthers, Stays, Remain, Admins
    <3> QED
      BY <3>2, <3>3
  <2> QED
    BY <2>3, <2>4
<1>3. ASSUME NEW k \in Handler \ {h} PROVE OthersCounted(k)'
  <2>1. req'[k] = req[k]
    BY DEF Frame
  <2>2. SUFFICES ASSUME Threat(req[k]), req[k].pc = "write", NEW o \in Org, NEW u \in User, u \in Admins(o)',
                        Concerns(req[k], o, u)
                 PROVE  Remain(o, {u})'
    BY <2>1 DEF OthersCounted, Admins
  <2>3. u \in Admins(o)
    BY <2>2 DEF NobodyIsRaised, Takes, Threat
  <2>4. Remain(o, {u})
    BY <2>2, <2>3 DEF Staffed, OthersCounted
  <2>5. CASE Steady
    BY <2>4, <2>5, SteadyRemain
  <2>6. CASE SparesOthers(h) /\ Threat(req[h]) /\ req[h].pc = "write"
    <3>1. PICK v \in Admins(o) : v # u /\ Active(v)
      BY <2>4 DEF Remain
    <3>2. ~Concerns(req[h], o, v)
      BY <2>2, <2>3, <2>6, <3>1, OneAtATime
    <3> QED
      BY <2>6, <3>1, <3>2 DEF SparesOthers, Stays, Remain, Admins
  <2> QED
    BY <2>5, <2>6
<1>4. ASSUME NEW k \in Handler, NEW j \in Handler, k # j PROVE OneChoseBoth(k, j)'
  BY <1>4, BystanderStep
<1>5. ASSUME NEW k \in Handler PROVE TargetChosen(k)' /\ OthersCounted(k)' /\ Harmless(k)'
  BY <1>3, BystanderStep
<1> QED
  BY <1>1, <1>2, <1>4, <1>5 DEF Staffed
(* A step by which h neither begins a request that ousts nor goes on with  *)
(* one keeps the organizations staffed, if it is steady.                   *)
LEMMA QuietStep ==
  ASSUME Staffed, NobodyIsRaised, NEW h \in Handler, Frame(h, OustOp), Steady,
         DOMAIN account' = User, DOMAIN role' = Org /\ \A o \in Org : DOMAIN role'[o] = User
  PROVE  Staffed'
<1>1. Frame(h, {}) /\ Shape'
  BY DEF Frame, Shape, Busyness, Staffed, Tables
<1>2. Tables'
  BY <1>1 DEF Staffed, Tables, Frame, OustRequest
<1>3. CASE req'[h].op \notin OustOp
  BY <1>1, <1>2, <1>3, StaffedStep DEF TargetChosen, OthersCounted, Harmless, OneChoseBoth, Threat, OustOp, At
<1>4. CASE req'[h].op \in OustOp
  <2>1. req'[h] = req[h] /\ held'[h] = held[h]
    BY <1>4 DEF Frame
  <2>2. \A o \in Org, u \in User : Threat(req[h]) /\ Concerns(req[h], o, u) /\ u \in Admins(o)' => u \in Admins(o)
    BY DEF NobodyIsRaised, Takes, Threat
  <2>3. \A o \in Org : Admins(o)' \subseteq User
    BY DEF Admins
  <2>4. TargetChosen(h)'
    BY <2>1, <2>2, <2>3 DEF Staffed, TargetChosen, Chosen
  <2>5. OthersCounted(h)'
    BY <2>1, <2>2, <2>3, SteadyRemain DEF Staffed, OthersCounted
  <2>6. Harmless(h)'
    <3>1. SUFFICES ASSUME At(h, "remove", "member"), ~IsAdminClass(req[h].was), req[h].u \in Admins(req[h].o)'
                   PROVE  FALSE
      BY <2>1 DEF Harmless, At
    <3>2. req[h].o \in Org /\ req[h].u \in User /\ Takes(req[h], req[h].o, req[h].u)
      BY <3>1 DEF Staffed, Tables, At, OustRequest, OustOp, Takes, Concerns, Lowers
    <3> QED
      BY <2>1, <3>1, <3>2 DEF NobodyIsRaised, Staffed, Harmless
  <2>7. ASSUME NEW k \in Handler \ {h} PROVE OneChoseBoth(h, k)' /\ OneChoseBoth(k, h)'
    <3>1. req'[k] = req[k] /\ held'[k] = held[k]
      BY DEF Frame
    <3>2. \A o \in Org, u \in User : Threat(req[k]) /\ Concerns(req[k], o, u) /\ u \in Admins(o)' => u \in Admins(o)
      BY DEF NobodyIsRaised, Takes, Threat
    <3>3. OneChoseBoth(h, k) /\ OneChoseBoth(k, h)
      BY DEF Staffed
    <3> QED
      BY <2>1, <2>2, <2>3, <3>1, <3>2, <3>3 DEF OneChoseBoth, Chosen
  <2> QED
    BY <1>1, <1>2, <2>4, <2>5, <2>6, <2>7, StaffedStep
<1> QED
  BY <1>3, <1>4
(* What becomes of the tables in a step that takes nobody away.            *)
Peaceful ==
  /\ Steady
  /\ DOMAIN account' = User
  /\ DOMAIN role' = Org /\ \A o \in Org : DOMAIN role'[o] = User

LEMMA Unwritten == ASSUME Tables, UNCHANGED <<account, role>> PROVE Peaceful
BY DEF Tables, Peaceful, Steady, Stays, Admins, Active, Live

(* The writes to an account other than its deactivation leave it awake.    *)
LEMMA AccountWritten ==
  ASSUME Tables, Users(account), UNCHANGED role, NEW u, NEW e,
         account' \in {account, BumpTokenGeneration(account, u), UpdateUserPasswordHash(account, u),
                       UpdateUserEmail(account, u, e), UpdateUserProfile(account, u, e),
                       ReactivateUserAccount(account, u)}
  PROVE  Peaceful
<1>1. DOMAIN account' = User
  BY DEF Users, BumpTokenGeneration, UpdateUserPasswordHash, UpdateUserEmail, UpdateUserProfile, ReactivateUserAccount
<1>2. ASSUME NEW v \in User, account[v].active PROVE account'[v].st = account[v].st /\ account'[v].active
  <2>1. DOMAIN account[v] = Columns
    BY DEF Users, UsersRow
  <2> QED
    BY <1>2, <2>1 DEF Users, Columns, BumpTokenGeneration, UpdateUserPasswordHash, UpdateUserEmail, UpdateUserProfile,
       ReactivateUserAccount
<1> QED
  BY <1>1, <1>2 DEF Tables, Peaceful, Steady, Stays, Admins, Active, Live

LEMMA TeamsPeaceful == ASSUME Tables, NEW h \in Handler, TeamsStep(h) PROVE Peaceful
<1>1. UNCHANGED <<account, role>>
  BY DEF TeamsStep, orgVars, Create, CreateTeam, Update, ChooseSubtree, LockSubtree, lockReparentTarget,
     ReparentSubtree, Delete, lockTeamForDeletion, DeleteTeam, PutMember, GetTeam, AddMember, SetPrimary,
     RemoveMember, RemoveTeamMember, EnsureDefaultMembership
<1> QED
  BY <1>1, Unwritten

LEMMA WorkflowsPeaceful == ASSUME Tables, NEW h \in Handler, WorkflowsStep(h) PROVE Peaceful
<1>1. UNCHANGED <<account, role>>
  BY DEF WorkflowsStep, orgVars, CreateWorkflowBegin, CreateWorkflow, UpdateWorkflow, UpdateWorkflowBegin,
     DeleteWorkflowBegin, CreateStateBegin, DeleteStateBegin, CreateTransitionBegin, DeleteTransitionBegin,
     OnWorkflow, OnTransition, CountSpacesUsingWorkflow, GetState, DeleteWorkflow, CreateState, DeleteState,
     CreateTransition, DeleteTransition, CreateGuardBegin, CreatePostFunctionBegin, CreateApproverBegin,
     DeleteGuardBegin, DeletePostFunctionBegin, DeleteApproverBegin, CreateGuard, CreatePostFunction,
     CreateApprover, InsertTier, DeleteGuard, DeletePostFunction, DeleteApprover, DeleteTier,
     NewSpaceStep, CreateSpaceBegin, CreateSpaceTx, GetDefaultWorkflow, AssignWorkflowToSpace
<1> QED
  BY <1>1, Unwritten

LEMMA SessionsPeaceful == ASSUME Tables, Users(account), NEW h \in Handler, SessionsStep(h) PROVE Peaceful
<1>1. CASE RevokeTokens(h) \/ UpdateProfile(h)
  BY <1>1, AccountWritten DEF RevokeTokens, UpdateProfile
<1>2. CASE ~(RevokeTokens(h) \/ UpdateProfile(h))
  <2>1. UNCHANGED <<account, role>>
    BY <1>2 DEF SessionsStep, orgVars, Login, finishLogin, Refresh, IssueTokenPair, Logout, LogoutAll,
       DeleteAllSessions, UpdateMe
  <2> QED
    BY <2>1, Unwritten
<1> QED
  BY <1>1, <1>2

(* A person who is created was nobody's administrator that is active.      *)
LEMMA CreationPeaceful ==
  ASSUME Tables, Users(account), NEW u \in User, NEW o, NEW oo, NEW e, NEW p, NEW r, account[u].st = "absent",
         account' = CreateUser(account, u, oo, e, p), role' = [role EXCEPT ![o][u] = r]
  PROVE  Peaceful
<1>1. DOMAIN account' = User /\ \A v \in User \ {u} : account'[v] = account[v]
  BY DEF CreateUser, Users
<1>2. DOMAIN role' = Org /\ \A x \in Org : DOMAIN role'[x] = User /\ \A v \in User \ {u} : role'[x][v] = role[x][v]
  BY DEF Tables
<1> QED
  BY <1>1, <1>2 DEF Peaceful, Steady, Stays, Admins, Active, Live

LEMMA LinksPeaceful == ASSUME Tables, Users(account), NEW h \in Handler, LinksStep(h) PROVE Peaceful
<1>1. CASE CreateUserForAdmin(h) \/ runCreateUserWithLink(h)
  <2>1. \E o \in Org, e \in Email, u \in User, r \in Work.roles \cup Role : CreateUserWithSignInLink(o, u, e, r)
    BY <1>1 DEF CreateUserForAdmin, runCreateUserWithLink
  <2>2. ASSUME NEW o, NEW e, NEW u \in User, NEW r, CreateUserWithSignInLink(o, u, e, r) PROVE Peaceful
    BY <2>2, CreationPeaceful DEF CreateUserWithSignInLink
  <2> QED
    BY <2>1, <2>2
<1>2. CASE runResetPassword(h)
  BY <1>2, AccountWritten DEF runResetPassword
<1>3. CASE applyConsumedEffect(h)
  BY <1>3, AccountWritten DEF applyConsumedEffect, applyEmailEffect, applyPasswordEffect
<1>4. CASE ~(CreateUserForAdmin(h) \/ runCreateUserWithLink(h) \/ runResetPassword(h) \/ applyConsumedEffect(h))
  <2>1. UNCHANGED <<account, role>>
    BY <1>4 DEF LinksStep, orgVars, RequestReset, IssueReset, RequestEmailChange, Issue, GetUserByEmailAcrossOrgs,
       Consume, ConsumeCredentialLink, EmailTakenAtConsume, GetUserAfterConsume, signInAfterConsume
  <2> QED
    BY <2>1, Unwritten
<1> QED
  BY <1>1, <1>2, <1>3, <1>4

(* An acceptance makes a member of who was none, and changes nobody else's *)
(* role.                                                                   *)
LEMMA InvitesPeaceful == ASSUME Tables, Users(account), NEW h \in Handler, InvitesStep(h) PROVE Peaceful
<1>1. CASE MarkInviteAccepted(h) /\ ~UNCHANGED <<account, role>>
  <2> DEFINE u == req[h].u
             o == invite[req[h].i].o
  <2>1. PICK e, r : /\ account' = account \/ (account[u].st = "absent" /\ account' = CreateUser(account, u, o, e, 1))
                    /\ role' = [role EXCEPT ![o][u] = IF @ = "none" THEN r ELSE @]
    BY <1>1 DEF MarkInviteAccepted
  <2>2. DOMAIN account' = User /\ \A v \in User : Active(v) => account'[v] = account[v]
    BY <2>1 DEF Users, CreateUser, Active, Live
  <2>3. /\ DOMAIN role' = Org
        /\ \A x \in Org : /\ DOMAIN role'[x] = User
                          /\ \A v \in User : role[x][v] # "none" => role'[x][v] = role[x][v]
    BY <2>1 DEF Tables
  <2> QED
    BY <2>2, <2>3 DEF Peaceful, Steady, Stays, Admins, Active, Live, IsAdminClass, AdminRole
<1>2. CASE ~MarkInviteAccepted(h) \/ UNCHANGED <<account, role>>
  <2>1. UNCHANGED <<account, role>>
    BY <1>2 DEF InvitesStep, orgVars, CreateInvites, CreateInvite, RevokeInvite, RefreshInviteToken, Accept,
       loadAcceptableInvite, resolveAcceptUser, signInAfterAccept
  <2> QED
    BY <2>1, Unwritten
<1> QED
  BY <1>1, <1>2
(* The tables after a step of h, and the staffing after one by which h     *)
(* threatens nobody.                                                       *)
LEMMA TablesStep ==
  ASSUME Tables, NEW h \in Handler, Frame(h, {}), OustRequest(req'[h]),
         DOMAIN account' = User, DOMAIN role' = Org, \A o \in Org : DOMAIN role'[o] = User
  PROVE  Tables'
<1>1. Shape'
  BY DEF Tables, Frame, Shape, Busyness
<1>2. \A k \in Handler : OustRequest(req'[k])
  BY DEF Tables, Frame
<1> QED
  BY <1>1, <1>2 DEF Tables, Frame

LEMMA UnthreateningStep ==
  ASSUME Staffed, NobodyIsRaised, NEW h \in Handler, Frame(h, {}), OustRequest(req'[h]), ~Threat(req'[h]), Harmless(h)',
         DOMAIN account' = User, DOMAIN role' = Org, \A o \in Org : DOMAIN role'[o] = User,
         Steady \/ (SparesOthers(h) /\ Threat(req[h]) /\ req[h].pc = "write")
  PROVE  Staffed'
<1>1. Tables'
  BY TablesStep DEF Staffed
<1>2. TargetChosen(h)' /\ OthersCounted(h)' /\ \A k \in Handler \ {h} : OneChoseBoth(h, k)' /\ OneChoseBoth(k, h)'
  BY DEF TargetChosen, OthersCounted, OneChoseBoth
<1> QED
  BY <1>1, <1>2, StaffedStep

LEMMA LifecycleStaffed ==
  ASSUME Staffed, NobodyIsRaised, NEW h \in Handler, NEW op \in {"deactivate", "reactivate", "forcelogout", "remove"},
         lifecycleAction(h, op)
  PROVE  Staffed'
<1>1. PICK o \in Org, u \in User : Begin(h, [op |-> op, pc |-> "member", o |-> o, u |-> u, was |-> role[o][u]])
  BY DEF lifecycleAction
<1> DEFINE r == [op |-> op, pc |-> "member", o |-> o, u |-> u, was |-> role[o][u]]
<1>2. Frame(h, {}) /\ req'[h] = r
  BY <1>1, FrameGo DEF Staffed, Tables, Shape, Busyness, Begin
<1>3. UNCHANGED <<account, role>>
  BY DEF lifecycleAction, orgVars
<1>4. OustRequest(r) /\ ~Threat(r)
  BY DEF OustRequest, OustOp, Threat
<1>5. Harmless(h)'
  BY <1>2, <1>3 DEF Harmless, At, Admins
<1>6. Peaceful
  BY <1>3, Unwritten DEF Staffed
<1> QED
  BY <1>2, <1>4, <1>5, <1>6, UnthreateningStep DEF Peaceful

LEMMA LockingStaffed ==
  ASSUME Staffed, NobodyIsRaised, NEW h \in Handler, lockAdmins(h)
  PROVE  Staffed'
<1> DEFINE rows == IF req[h].op = "deactivate" THEN LockAdminMembershipsForUserOrgs(req[h].u)
                   ELSE LockAdminMembershipsInOrg(req[h].o)
           q == [req[h] EXCEPT !.pc = "locking"]
           r == With(q, [want |-> rows])
<1>0. OustRequest(req[h]) /\ Shape
  BY DEF Staffed, Tables
<1>1. Go(h, r) /\ UNCHANGED <<account, role>>
  BY DEF lockAdmins, orgVars
<1>2. Frame(h, {})
  BY <1>0, <1>1, FrameOn
<1>3. /\ req[h].op \in OustOp /\ req[h].pc \in {"member", "demote"} /\ "want" \notin DOMAIN req[h]
      /\ {"op", "pc", "u", "o"} \subseteq DOMAIN req[h] /\ Lowers(req[h])
      /\ req[h].op = "update" => {"to", "t"} \subseteq DOMAIN req[h] /\ req[h].to = "member"
  BY <1>0 DEF lockAdmins, At, OustOp, OustRequest, Shape, Lowers, IsAdminClass, AdminRole
<1>4. DOMAIN q = DOMAIN req[h] /\ q.pc = "locking" /\ \A f \in DOMAIN q \ {"pc"} : q[f] = req[h][f]
  BY <1>3
<1> HIDE DEF rows, q
<1>5. DOMAIN r = DOMAIN q \cup {"want"} /\ r.want = rows /\ \A f \in DOMAIN q : r[f] = q[f]
  BY <1>3, <1>4 DEF With
<1> HIDE DEF r
<1>6. r.op = req[h].op /\ r.u = req[h].u /\ r.o = req[h].o /\ r.pc = "locking" /\ (r.op = "update" => r.to = "member")
  BY <1>3, <1>4, <1>5
<1>7. OustRequest(r)
  BY <1>0, <1>3, <1>4, <1>5, <1>6 DEF OustRequest, OustOp
<1>8. \A o \in Org : \A u, v \in Admins(o) : Concerns(req[h], o, u) => Membership(o, v) \in rows
  BY DEF rows, LockAdminMembershipsForUserOrgs, LockAdminMembershipsInOrg, Concerns, Membership, Admins
<1>9. req'[h] = r /\ \A o \in Org : Admins(o)' = Admins(o)
  BY <1>0, <1>1 DEF Go, Shape, Admins
<1>10. TargetChosen(h)'
  BY <1>5, <1>6, <1>8, <1>9 DEF TargetChosen, Chosen, Concerns
<1>11. OthersCounted(h)' /\ Harmless(h)'
  BY <1>6, <1>9 DEF OthersCounted, Harmless, At
<1>12. ASSUME NEW k \in Handler \ {h} PROVE OneChoseBoth(h, k)' /\ OneChoseBoth(k, h)'
  <2>1. req'[k] = req[k] /\ held'[k] = held[k]
    BY <1>2 DEF Frame
  <2> QED
    BY <1>5, <1>6, <1>8, <1>9, <2>1 DEF OneChoseBoth, Chosen, Concerns
<1>13. Peaceful
  BY <1>1, Unwritten DEF Staffed
<1>14. Tables'
  BY <1>2, <1>7, <1>9, <1>13, TablesStep DEF Peaceful, Staffed
<1> QED
  BY <1>2, <1>10, <1>11, <1>12, <1>13, <1>14, StaffedStep DEF Peaceful
LEMMA LockedStaffed ==
  ASSUME Staffed, NobodyIsRaised, NEW h \in Handler, adminsLocked(h)
  PROVE  Staffed'
<1> DEFINE still == {x \in req[h].want : IsAdminClass(role[x[2]][x[3]])}
           r == [f \in DOMAIN req[h] \ {"want"} |-> IF f = "pc" THEN "count" ELSE req[h][f]]
<1>0. OustRequest(req[h]) /\ Shape
  BY DEF Staffed, Tables
<1>1. GoLocked(h, still, r) /\ UNCHANGED <<account, role>>
  BY DEF adminsLocked, orgVars
<1>2. /\ req[h].op \in OustOp /\ req[h].pc = "locking"
      /\ {"op", "pc", "u", "o"} \subseteq DOMAIN req[h]
      /\ req[h].op = "update" => {"to", "t"} \subseteq DOMAIN req[h] /\ req[h].to = "member"
  BY <1>0 DEF adminsLocked, OustOp, OustRequest, Shape
<1>3. Threat(req[h])
  BY <1>2 DEF Threat, Lowers, IsAdminClass, AdminRole
<1>4. DOMAIN r = DOMAIN req[h] \ {"want"} /\ r.pc = "count" /\ \A f \in DOMAIN r \ {"pc"} : r[f] = req[h][f]
  BY <1>2
<1> HIDE DEF r
<1>5. r.op = req[h].op /\ r.u = req[h].u /\ r.o = req[h].o /\ (r.op = "update" => r.to = "member")
  BY <1>2, <1>4
<1>6. OustRequest(r) /\ Busyness(r)
  BY <1>0, <1>2, <1>4, <1>5 DEF OustRequest, OustOp, Busyness
<1>7. Frame(h, {})
  BY <1>0, <1>1, <1>6, FrameGo
<1>8. req'[h] = r /\ held'[h] = held[h] \cup still /\ \A o \in Org : Admins(o)' = Admins(o)
  BY <1>0, <1>1 DEF GoLocked, Shape, Admins
<1>9. \A o \in Org : \A v \in Admins(o) : Membership(o, v) \in req[h].want => Membership(o, v) \in held'[h]
  BY <1>8 DEF Membership, Admins
<1>10. TargetChosen(h)'
  <2>1. TargetChosen(h)
    BY DEF Staffed
  <2> QED
    BY <1>2, <1>3, <1>4, <1>5, <1>8, <1>9, <2>1 DEF TargetChosen, Chosen, Concerns
<1>11. OthersCounted(h)' /\ Harmless(h)'
  BY <1>4, <1>8 DEF OthersCounted, Harmless, At
<1>12. ASSUME NEW k \in Handler \ {h} PROVE OneChoseBoth(h, k)' /\ OneChoseBoth(k, h)'
  <2>1. req'[k] = req[k] /\ held'[k] = held[k]
    BY <1>7 DEF Frame
  <2>2. OneChoseBoth(h, k) /\ OneChoseBoth(k, h)
    BY DEF Staffed
  <2> QED
    BY <1>2, <1>3, <1>4, <1>5, <1>8, <1>9, <2>1, <2>2 DEF OneChoseBoth, Chosen, Concerns
<1>13. Peaceful
  BY <1>1, Unwritten DEF Staffed
<1>14. Tables'
  BY <1>6, <1>7, <1>8, <1>13, TablesStep DEF Peaceful, Staffed
<1> QED
  BY <1>7, <1>10, <1>11, <1>12, <1>13, <1>14, StaffedStep DEF Peaceful

(* The count answers with an active administrator besides the target.      *)
LEMMA CountedRemain ==
  ASSUME NEW o, NEW u, CountOtherActiveOrgAdmins(o, u) # 0
  PROVE  Remain(o, {u})
<1>1. {v \in Admins(o) \ {u} : Active(v)} # {}
  BY FS_EmptySet DEF CountOtherActiveOrgAdmins
<1> QED
  BY <1>1 DEF Remain

LEMMA CountingStaffed ==
  ASSUME Staffed, NobodyIsRaised, NEW h \in Handler, requireOtherAdmins(h)
  PROVE  Staffed'
<1>0. OustRequest(req[h]) /\ Shape
  BY DEF Staffed, Tables
<1>1. UNCHANGED <<account, role>>
  BY DEF requireOtherAdmins, orgVars
<1>2. Peaceful
  BY <1>1, Unwritten DEF Staffed
<1>3. CASE End(h)
  <2>1. Frame(h, OustOp)
    BY <1>0, <1>3, FrameEnd DEF OustOp
  <2> QED
    BY <1>2, <2>1, QuietStep DEF Peaceful
<1>4. CASE ~End(h)
  <2> DEFINE r == [req[h] EXCEPT !.pc = "write"]
  <2>1. /\ req[h].op \in OustOp /\ req[h].pc = "count" /\ Go(h, r)
        /\ IF req[h].op = "deactivate" THEN ListOrgsWhereUserIsLastAdmin(req[h].u) = {}
           ELSE CountOtherActiveOrgAdmins(req[h].o, req[h].u) # 0
    BY <1>4 DEF requireOtherAdmins, OustOp
  <2>2. /\ {"op", "pc", "u", "o"} \subseteq DOMAIN req[h]
        /\ req[h].op = "update" => {"to", "t"} \subseteq DOMAIN req[h] /\ req[h].to = "member"
    BY <1>0, <2>1 DEF OustOp, OustRequest, Shape
  <2>3. Threat(req[h])
    BY <2>1, <2>2 DEF Threat, Lowers, IsAdminClass, AdminRole
  <2>4. DOMAIN r = DOMAIN req[h] /\ r.pc = "write" /\ \A f \in DOMAIN r \ {"pc"} : r[f] = req[h][f]
    BY <2>2
  <2> HIDE DEF r
  <2>5. r.op = req[h].op /\ r.u = req[h].u /\ r.o = req[h].o /\ (r.op = "update" => r.to = "member")
    BY <2>2, <2>4
  <2>6. OustRequest(r) /\ Busyness(r)
    BY <1>0, <2>1, <2>2, <2>4, <2>5 DEF OustRequest, OustOp, Busyness
  <2>7. Frame(h, {})
    BY <1>0, <2>1, <2>6, FrameGo
  <2>8. req'[h] = r /\ held'[h] = held[h] /\ \A o \in Org : Admins(o)' = Admins(o)
    BY <1>0, <1>1, <2>1 DEF Go, Shape, Admins
  <2>9. TargetChosen(h)'
    <3>1. TargetChosen(h)
      BY DEF Staffed
    <3> QED
      BY <2>1, <2>3, <2>4, <2>5, <2>8, <3>1 DEF TargetChosen, Chosen, Concerns
  <2>10. OthersCounted(h)'
    <3>1. SUFFICES ASSUME NEW o \in Org, NEW u \in User, u \in Admins(o), Concerns(r, o, u)
                   PROVE  Remain(o, {u})
      BY <1>1, <2>8 DEF OthersCounted, Admins, Remain, Active, Live
    <3>2. CountOtherActiveOrgAdmins(o, u) # 0
      BY <2>1, <2>5, <3>1 DEF Concerns, ListOrgsWhereUserIsLastAdmin
    <3> QED
      BY <3>2, CountedRemain
  <2>11. Harmless(h)'
    BY <2>4, <2>8 DEF Harmless, At
  <2>12. ASSUME NEW k \in Handler \ {h} PROVE OneChoseBoth(h, k)' /\ OneChoseBoth(k, h)'
    <3>1. req'[k] = req[k] /\ held'[k] = held[k]
      BY <2>7 DEF Frame
    <3>2. OneChoseBoth(h, k) /\ OneChoseBoth(k, h)
      BY DEF Staffed
    <3> QED
      BY <2>1, <2>3, <2>4, <2>5, <2>8, <3>1, <3>2 DEF OneChoseBoth, Chosen, Concerns
  <2>13. Tables'
    BY <1>2, <2>6, <2>7, <2>8, TablesStep DEF Peaceful, Staffed
  <2> QED
    BY <1>2, <2>7, <2>9, <2>10, <2>11, <2>12, <2>13, StaffedStep DEF Peaceful
<1> QED
  BY <1>3, <1>4
(* A request that is over, or is left with the primary team, threatens     *)
(* nobody.                                                                 *)
LEMMA OverStaffed ==
  ASSUME Staffed, NobodyIsRaised, NEW h \in Handler,
         \/ End(h)
         \/ /\ req[h].op = "update" /\ req[h].pc # "locking"
            /\ \E pc \in {"team", "enrol"} : Go(h, [req[h] EXCEPT !.pc = pc]) \/ Commit(h, [req[h] EXCEPT !.pc = pc]),
         DOMAIN account' = User, DOMAIN role' = Org, \A o \in Org : DOMAIN role'[o] = User,
         Steady \/ (SparesOthers(h) /\ Threat(req[h]) /\ req[h].pc = "write")
  PROVE  Staffed'
<1>0. OustRequest(req[h]) /\ Shape
  BY DEF Staffed, Tables
<1>1. CASE End(h)
  <2>1. Frame(h, {}) /\ req'[h] = Idle
    BY <1>0, <1>1, FrameEnd DEF End, Shape
  <2> QED
    BY <2>1, UnthreateningStep DEF OustRequest, OustOp, Threat, Harmless, At, Idle
<1>2. CASE ~End(h)
  <2>1. PICK pc \in {"team", "enrol"} : Go(h, [req[h] EXCEPT !.pc = pc]) \/ Commit(h, [req[h] EXCEPT !.pc = pc])
    BY <1>2
  <2> DEFINE r == [req[h] EXCEPT !.pc = pc]
  <2>2. Frame(h, {}) /\ req'[h] = r
    BY <1>0, <2>1, FrameOn DEF Go, Commit, Shape
  <2>3. {"op", "pc", "u", "o", "to", "t"} \subseteq DOMAIN req[h] /\ req[h].op = "update" /\ req[h].pc # "locking"
    BY <1>0, <1>2 DEF OustRequest, OustOp, Shape
  <2>4. DOMAIN r = DOMAIN req[h] /\ r.pc = pc /\ \A f \in DOMAIN r \ {"pc"} : r[f] = req[h][f]
    BY <2>3
  <2> HIDE DEF r
  <2>5. OustRequest(r) /\ ~Threat(r)
    BY <1>0, <2>3, <2>4 DEF OustRequest, OustOp, Threat
  <2>6. Harmless(h)'
    BY <2>2, <2>3, <2>4 DEF Harmless, At
  <2> QED
    BY <2>2, <2>5, <2>6, UnthreateningStep
<1> QED
  BY <1>1, <1>2

LEMMA DeactivateStaffed == ASSUME Staffed, Users(account), NobodyIsRaised, NEW h \in Handler, Deactivate(h) PROVE Staffed'
<1>0. OustRequest(req[h]) /\ Shape
  BY DEF Staffed, Tables
<1>1. /\ DOMAIN account' = User
      /\ \A v \in User \ {req[h].u} : account'[v] = account[v]
      /\ UNCHANGED role
  BY DEF Deactivate, Users, DeactivateUserAccount
<1>2. End(h) /\ Threat(req[h]) /\ req[h].pc = "write" /\ req[h].op = "deactivate"
  BY DEF Deactivate, At, Threat, OustOp, Lowers
<1>3. SparesOthers(h)
  BY <1>1, <1>2 DEF SparesOthers, Stays, Concerns, Admins, Active, Live
<1>4. DOMAIN role' = Org /\ \A o \in Org : DOMAIN role'[o] = User
  BY <1>1 DEF Staffed, Tables
<1> QED
  BY <1>1, <1>2, <1>3, <1>4, OverStaffed

LEMMA RemovalStaffed == ASSUME Staffed, NobodyIsRaised, NEW h \in Handler, RemoveFromOrg(h) PROVE Staffed'
<1>0. OustRequest(req[h]) /\ Tables /\ Harmless(h)
  BY DEF Staffed, Tables
<1>1. req[h].op = "remove" /\ {"u", "o"} \subseteq DOMAIN req[h] /\ req[h].o \in Org /\ req[h].u \in User
  BY <1>0 DEF RemoveFromOrg, At, OustRequest, OustOp
<1>2. UNCHANGED account /\ End(h) /\ role' = [role EXCEPT ![req[h].o][req[h].u] = "none"]
  BY DEF RemoveFromOrg
<1>3. /\ DOMAIN role' = Org
      /\ \A o \in Org : /\ DOMAIN role'[o] = User
                        /\ \A v \in User : o # req[h].o \/ v # req[h].u => role'[o][v] = role[o][v]
  BY <1>0, <1>1, <1>2 DEF Tables
<1>4. SparesOthers(h)
  BY <1>1, <1>2, <1>3 DEF SparesOthers, Stays, Concerns, Admins, Active, Live
<1>5. DOMAIN account' = User
  BY <1>0, <1>2 DEF Tables
<1>6. CASE At(h, "remove", "write")
  <2>1. Threat(req[h]) /\ req[h].pc = "write"
    BY <1>6 DEF At, Threat, OustOp, Lowers
  <2> QED
    BY <1>2, <1>3, <1>4, <1>5, <2>1, OverStaffed
<1>7. CASE At(h, "remove", "member") /\ ~IsAdminClass(req[h].was)
  <2>1. req[h].u \notin Admins(req[h].o)
    BY <1>0, <1>7 DEF Harmless
  <2>2. Steady
    BY <1>1, <1>4, <2>1 DEF Steady, SparesOthers, Stays, Concerns
  <2> QED
    BY <1>2, <1>3, <1>5, <2>2, OverStaffed
<1> QED
  BY <1>6, <1>7 DEF RemoveFromOrg

(* A change of role that is written lowers its target, and has counted the *)
(* others, or leaves an administrator one.                                 *)
LEMMA RoleStaffed == ASSUME Staffed, NobodyIsRaised, NEW h \in Handler, UpdateMembershipRole(h) PROVE Staffed'
<1>0. OustRequest(req[h]) /\ Tables
  BY DEF Staffed, Tables
<1>1. /\ req[h].op = "update" /\ req[h].pc = "write" /\ {"u", "o", "to"} \subseteq DOMAIN req[h]
      /\ req[h].o \in Org /\ req[h].u \in User /\ req[h].to \in {"member", "admin"}
  BY <1>0 DEF UpdateMembershipRole, At, OustRequest, OustOp
<1>2. /\ UNCHANGED account /\ applyPersonUpdates(h)
      /\ role' = [role EXCEPT ![req[h].o][req[h].u] = IF @ = "none" THEN @ ELSE req[h].to]
  BY DEF UpdateMembershipRole
<1>3. /\ DOMAIN role' = Org
      /\ \A o \in Org : /\ DOMAIN role'[o] = User
                        /\ \A v \in User : \/ role'[o][v] = role[o][v]
                                           \/ o = req[h].o /\ v = req[h].u /\ role[o][v] # "none" /\ role'[o][v] = req[h].to
  BY <1>0, <1>1, <1>2 DEF Tables
<1>4. SparesOthers(h)
  BY <1>1, <1>2, <1>3 DEF SparesOthers, Stays, Concerns, Admins, Active, Live
<1>5. DOMAIN account' = User
  BY <1>0, <1>2 DEF Tables
<1>6. End(h) \/ Commit(h, [req[h] EXCEPT !.pc = "team"])
  BY <1>2 DEF applyPersonUpdates
<1>7. CASE req[h].to = "member"
  <2>1. Threat(req[h])
    BY <1>1, <1>7 DEF Threat, OustOp, Lowers, IsAdminClass, AdminRole
  <2> QED
    BY <1>1, <1>3, <1>4, <1>5, <1>6, <2>1, OverStaffed
<1>8. CASE req[h].to = "admin"
  <2>1. Steady
    BY <1>2, <1>3, <1>8 DEF Steady, Stays, Admins, Active, Live, IsAdminClass, AdminRole
  <2> QED
    BY <1>1, <1>3, <1>5, <1>6, <2>1, OverStaffed
<1> QED
  BY <1>1, <1>7, <1>8
LEMMA RequestStaffed == ASSUME Staffed, NobodyIsRaised, NEW h \in Handler, UpdatePerson(h) PROVE Staffed'
<1>0. Shape /\ Tables
  BY DEF Staffed, Tables
<1>1. PICK o \in Org, u \in User, to \in Work.roles \cup {Nil}, t \in Work.teams \cup {Nil} :
        /\ Begin(h, [op |-> "update", pc |-> IF to # Nil THEN "role" ELSE "team", o |-> o, u |-> u, to |-> to, t |-> t])
        /\ UNCHANGED orgVars
  BY DEF UpdatePerson
<1> DEFINE r == [op |-> "update", pc |-> IF to # Nil THEN "role" ELSE "team", o |-> o, u |-> u, to |-> to, t |-> t]
<1>2. OustRequest(r) /\ Busyness(r) /\ ~Threat(r)
  BY <1>0 DEF OustRequest, OustOp, Busyness, Threat, Tables, Work
<1>3. Frame(h, {}) /\ req'[h] = r
  BY <1>0, <1>1, <1>2, FrameGo DEF Begin, Shape
<1>4. Peaceful
  BY <1>0, <1>1, Unwritten DEF orgVars
<1> QED
  BY <1>2, <1>3, <1>4, UnthreateningStep DEF Peaceful, Harmless, At

(* A change of role that is not of an administrator, or makes one, needs   *)
(* no lock: it has nobody to count.                                        *)
LEMMA ReadRoleStaffed == ASSUME Staffed, NobodyIsRaised, NEW h \in Handler, ChangeOrgRole(h) PROVE Staffed'
<1>0. OustRequest(req[h]) /\ Shape
  BY DEF Staffed, Tables
<1>1. /\ req[h].op = "update" /\ req[h].pc = "role" /\ {"op", "pc", "u", "o", "to", "t"} \subseteq DOMAIN req[h]
      /\ "want" \notin DOMAIN req[h]
      /\ req[h].o \in Org /\ req[h].u \in User /\ req[h].to \in {"member", "admin"}
  BY <1>0 DEF ChangeOrgRole, At, OustRequest, OustOp, Shape
<1>2. UNCHANGED <<account, role>>
  BY DEF ChangeOrgRole, orgVars
<1>3. Peaceful
  BY <1>2, Unwritten DEF Staffed
<1> DEFINE was == role[req[h].o][req[h].u]
           on(pc) == [req[h] EXCEPT !.pc = pc]
<1>4. \/ End(h) \/ Commit(h, on("team"))
      \/ IsAdminClass(was) /\ ~IsAdminClass(req[h].to) /\ Go(h, on("demote"))
      \/ ~(IsAdminClass(was) /\ ~IsAdminClass(req[h].to)) /\ Go(h, on("write"))
  BY DEF ChangeOrgRole, applyPersonUpdates
<1>5. CASE End(h) \/ Commit(h, on("team"))
  BY <1>1, <1>3, <1>5, OverStaffed DEF Peaceful
<1>6. ASSUME NEW pc \in {"demote", "write"}, Go(h, on(pc)), pc = "demote" => req[h].to = "member",
             pc = "write" => req[h].to = "admin" \/ req[h].u \notin Admins(req[h].o)
      PROVE  Staffed'
  <2> DEFINE r == on(pc)
  <2>1. Frame(h, {}) /\ req'[h] = r
    BY <1>0, <1>6, FrameOn DEF Go, Shape
  <2>2. DOMAIN r = DOMAIN req[h] /\ r.pc = pc /\ \A f \in DOMAIN r \ {"pc"} : r[f] = req[h][f]
    BY <1>1
  <2> HIDE DEF r
  <2>3. OustRequest(r)
    BY <1>0, <1>1, <1>6, <2>2 DEF OustRequest, OustOp
  <2>4. Harmless(h)'
    BY <1>1, <2>1, <2>2 DEF Harmless, At
  <2>5. ASSUME NEW o \in Org, NEW u \in Admins(o) PROVE ~(Threat(r) /\ Concerns(r, o, u))
    BY <1>1, <1>6, <2>2 DEF Threat, Concerns, OustOp, Lowers, IsAdminClass, AdminRole
  <2>6. \A o \in Org : Admins(o)' = Admins(o)
    BY <1>2 DEF Admins
  <2>7. TargetChosen(h)' /\ OthersCounted(h)' /\ \A k \in Handler \ {h} : OneChoseBoth(h, k)' /\ OneChoseBoth(k, h)'
    BY <2>1, <2>5, <2>6 DEF TargetChosen, OthersCounted, OneChoseBoth
  <2>8. Tables'
    BY <1>3, <2>1, <2>3, TablesStep DEF Peaceful, Staffed
  <2> QED
    BY <1>3, <2>1, <2>4, <2>7, <2>8, StaffedStep DEF Peaceful
<1>7. CASE IsAdminClass(was) /\ ~IsAdminClass(req[h].to) /\ Go(h, on("demote"))
  BY <1>1, <1>6, <1>7 DEF IsAdminClass, AdminRole
<1>8. CASE ~(IsAdminClass(was) /\ ~IsAdminClass(req[h].to)) /\ Go(h, on("write"))
  <2>1. req[h].to = "admin" \/ req[h].u \notin Admins(req[h].o)
    BY <1>1, <1>8 DEF Admins, IsAdminClass, AdminRole
  <2> QED
    BY <1>6, <1>8, <2>1
<1> QED
  BY <1>4, <1>5, <1>7, <1>8

LEMMA PeopleStaffed ==
  ASSUME Staffed, Users(account), NobodyIsRaised, NEW h \in Handler, PeopleStep(h)
  PROVE  Staffed'
<1>0. Tables /\ Shape
  BY DEF Staffed, Tables
<1>1. CASE DeactivatePerson(h) \/ ReactivatePerson(h) \/ ForceLogoutPerson(h) \/ RemovePerson(h)
  BY <1>1, LifecycleStaffed DEF DeactivatePerson, ReactivatePerson, ForceLogoutPerson, RemovePerson
<1>2. CASE lockAdmins(h) \/ adminsLocked(h) \/ requireOtherAdmins(h)
  BY <1>2, LockingStaffed, LockedStaffed, CountingStaffed
<1>3. CASE Deactivate(h) \/ RemoveFromOrg(h) \/ UpdateMembershipRole(h)
  BY <1>3, DeactivateStaffed, RemovalStaffed, RoleStaffed
<1>4. CASE Reactivate(h) \/ ForceLogout(h) \/ EnrolAsPrimary(h)
  <2>1. Peaceful
    BY <1>0, <1>4, AccountWritten, Unwritten DEF Reactivate, ForceLogout, EnrolAsPrimary
  <2>2. End(h)
    BY <1>4 DEF Reactivate, ForceLogout, EnrolAsPrimary
  <2> QED
    BY <2>1, <2>2, OverStaffed DEF Peaceful
<1>5. CASE UpdatePerson(h) \/ ChangeOrgRole(h)
  BY <1>5, RequestStaffed, ReadRoleStaffed
<1>6. CASE ChangePrimaryTeam(h)
  <2>1. Peaceful
    BY <1>0, <1>6, Unwritten DEF ChangePrimaryTeam, orgVars
  <2>2. End(h) \/ (At(h, "update", "team") /\ Go(h, [req[h] EXCEPT !.pc = "enrol"]))
    BY <1>6 DEF ChangePrimaryTeam
  <2> QED
    BY <2>1, <2>2, OverStaffed DEF Peaceful, At
<1> QED
  BY <1>1, <1>2, <1>3, <1>4, <1>5, <1>6 DEF PeopleStep

LEMMA StaffedInit == AccountsInit => Staffed
<1>1. SUFFICES ASSUME AccountsInit PROVE Staffed
  OBVIOUS
<1>2. PICK m \in DOMAIN Mixes : mix = With([name |-> m], Mixes[m])
  BY <1>1 DEF AccountsInit, ServerInit
<1>3. mix.name = m /\ m \in DOMAIN Casts
  BY <1>2, WithKeeps, EveryMixHasACast
<1>4. /\ account = Casts[m].account /\ role = Casts[m].role
      /\ req = [h \in Handler |-> Idle] /\ held = [h \in Handler |-> {}]
  BY <1>1, <1>3 DEF AccountsInit, ServerInit, OrgInit, Cast
<1>5. mix.roles \subseteq {"member", "admin"}
  BY <1>2, WithKeeps, WorkloadsAskForARole DEF With
<1>6. Tables
  BY <1>3, <1>4, <1>5, CastsAreTyped DEF Tables, Shape, Idle, OustRequest, OustOp
<1>7. AdminRemains
  BY <1>3, <1>4, CastsHaveAnAdmin DEF AdminRemains, Admins, IsAdminClass, Active, Live
<1> QED
  BY <1>4, <1>6, <1>7 DEF Staffed, LocksApart, TargetChosen, OthersCounted, Harmless, OneChoseBoth, Threat, OustOp, Idle, At

LEMMA StaffedNext ==
  ASSUME Staffed, Sound, NobodyIsRaised, [AccountsNext]_<<accountVars, space, workflowVars>>
  PROVE  Staffed'
<1>0. Tables /\ Shape /\ Users(account)
  BY DEF Staffed, Tables, Sound
<1>1. ASSUME NEW h \in Handler, Frame(h, OustOp), Peaceful PROVE Staffed'
  BY <1>1, QuietStep DEF Peaceful
<1>2. ASSUME NEW h \in Handler, PersonsStep(h) PROVE Staffed'
  <2>1. CASE PeopleStep(h)
    BY <1>0, <2>1, PeopleStaffed
  <2>2. CASE TeamsStep(h)
    BY <1>0, <1>1, <2>2, TeamsFrame, TeamsPeaceful DEF OustOp, TeamOp
  <2>3. CASE SessionsStep(h)
    BY <1>0, <1>1, <2>3, SessionsFrame, SessionsPeaceful DEF OustOp, SessionOp
  <2>4. CASE LinksStep(h)
    BY <1>0, <1>1, <2>4, LinksFrame, LinksPeaceful DEF OustOp, LinkOp
  <2>5. CASE InvitesStep(h)
    BY <1>0, <1>1, <2>5, InvitesFrame, InvitesPeaceful DEF OustOp, InviteOp
  <2>6. CASE Victim(h) /\ UNCHANGED orgVars
    BY <1>0, <1>1, <2>6, FrameEnd, Unwritten DEF Victim, orgVars, OustOp
  <2> QED
    BY <1>2, <2>1, <2>2, <2>3, <2>4, <2>5, <2>6 DEF PersonsStep
<1>3. ASSUME NEW h \in Handler, WorkflowsStep(h) PROVE Staffed'
  BY <1>0, <1>1, <1>3, WorkflowsFrame, WorkflowsPeaceful DEF OustOp, WorkflowOp
<1>4. CASE UNCHANGED <<account, role, req, held, mix>>
  BY <1>4 DEF Staffed, Tables, Shape, LocksApart, TargetChosen, OthersCounted, Harmless, OneChoseBoth, Chosen, Remain,
     AdminRemains, Admins, Active, Live, At
<1>5. CASE Expiry
  BY <1>4, <1>5 DEF Expiry, LinkExpires, InviteExpires, SessionExpires, orgVars, serverVars
<1>6. CASE UNCHANGED <<accountVars, space, workflowVars>>
  BY <1>4, <1>6 DEF accountVars, serverVars, orgVars
<1> QED
  BY <1>2, <1>3, <1>5, <1>6 DEF AccountsNext

(* An organization never runs out of active administrators, whatever       *)
(* demotions, removals and deactivations of them are in flight together    *)
(* (people/service.go, lockAndRequireOtherAdmins), provided that nobody    *)
(* is made an administrator while one of these is to take him away.        *)
THEOREM AnAdminRemains == AccountsSpec /\ NobodyIsRaisedMeanwhile => []AdminRemains
<1>1. Staffed => AdminRemains
  BY DEF Staffed
<1>2. Staffed /\ Sound /\ NobodyIsRaised /\ [AccountsNext]_<<accountVars, space, workflowVars>> => Staffed'
  BY StaffedNext
<1>3. Staffed /\ Sound /\ UNCHANGED <<accountVars, space, workflowVars>> => Staffed'
  <2>1. UNCHANGED role => NobodyIsRaised
    BY DEF NobodyIsRaised, Admins
  <2> QED
    BY <2>1, StaffedNext DEF accountVars, orgVars
<1> QED
  BY TokensAreSound, StaffedInit, <1>1, <1>2, <1>3, PTL DEF AccountsSpec, NobodyIsRaisedMeanwhile
-----------------------------------------------------------------------------
(* The forest of teams *)

Path(x) == team[x].path
TeamLock(t) == <<"team", t>>
Under(p) == IF p = Nil THEN {} ELSE {TeamLock(p)}

TeamRows == team \in [Team -> TeamRow]
Forest   == \A x \in Team : TeamLive(x) => Rooted(team, x)

(* The columns a request on the tree has at its statements.                *)
TreeOp == {"createteam", "reparent", "deleteteam"}
TreeRequest(r) ==
  /\ r.op = "createteam" =>
       /\ {"t", "parent", "want"} \subseteq DOMAIN r
       /\ r.t \in Team /\ r.parent \in Team \cup {Nil} /\ r.want = Under(r.parent)
  /\ r.op \in {"reparent", "deleteteam"} =>
       /\ {"o", "t"} \subseteq DOMAIN r
       /\ r.t \in Team /\ TeamOrg[r.t] = r.o
       /\ r.op = "reparent" => "parent" \in DOMAIN r /\ r.parent \in Team \cup {Nil}
       /\ r.pc \in {"subtree", "locking", "target"} => "above" \notin DOMAIN r
       /\ r.op = "reparent" /\ r.pc = "target" => "want" \in DOMAIN r /\ r.want = Under(r.parent)

(* Who moves a team has it locked, and has the new parent locked, which is *)
(* not below it, before it writes; who deletes one has it locked, and      *)
(* nothing is below it.                                                    *)
Rearranging(h) ==
  LET r == req[h] IN
  /\ r.op = "reparent" /\ r.pc \in {"target", "rewrite"} => TeamLive(r.t) /\ TeamLock(r.t) \in held[h]
  /\ r.op = "reparent" /\ r.pc = "rewrite" =>
       IF r.parent = Nil THEN r.above = <<>>
       ELSE /\ TeamLive(r.parent) /\ TeamOrg[r.parent] = r.o /\ TeamLock(r.parent) \in held[h]
            /\ r.above = Path(r.parent) /\ r.t \notin Range(r.above)
  /\ r.op = "deleteteam" /\ r.pc = "migrate" =>
       TeamLive(r.t) /\ TeamLock(r.t) \in held[h] /\ Subtree(r.t) = {r.t}

ForestInv ==
  /\ Shape /\ LocksApart /\ TeamRows /\ Forest
  /\ \A h \in Handler : TreeRequest(req[h]) /\ Rearranging(h)

(* No team comes under one while its deletion waits for its row, between   *)
(* the snapshot that found no other below it and the lock.                 *)
SubtreesSeenWhole ==
  \A h \in Handler : At(h, "deleteteam", "locking") => ListSubtreeForUpdate(req[h].t) \subseteq req[h].want

LEMMA PathIsASeq ==
  ASSUME TeamRows, NEW x \in Team
  PROVE  /\ Path(x) \in Seq(Team) /\ Len(Path(x)) \in Nat /\ DOMAIN Path(x) = 1 .. Len(Path(x))
         /\ \A i \in 1 .. Len(Path(x)) : Path(x)[i] \in Team
BY DEF TeamRows, TeamRow, Path

(* A team is on a path once only, for its own path is the path down to it. *)
LEMMA OnThePath ==
  ASSUME TeamRows, Forest, NEW x \in Team, TeamLive(x), NEW t, t \in Range(Path(x))
  PROVE  /\ t \in Team /\ TeamLive(t) /\ TeamOrg[t] = TeamOrg[x]
         /\ Len(Path(t)) \in 1 .. Len(Path(x)) /\ Path(x)[Len(Path(t))] = t
         /\ \A j \in 1 .. Len(Path(t)) : Path(t)[j] = Path(x)[j]
         /\ \A i \in 1 .. Len(Path(x)) : Path(x)[i] = t => i = Len(Path(t))
<1>1. PICK i \in 1 .. Len(Path(x)) : Path(x)[i] = t
  BY PathIsASeq DEF Range
<1>2. t \in Team
  BY <1>1, PathIsASeq
<1>3. Rooted(team, x)
  BY DEF Forest
<1>4. \A k \in 1 .. Len(Path(x)) : Path(x)[k] = t =>
        /\ TeamLive(t) /\ TeamOrg[t] = TeamOrg[x]
        /\ Len(Path(t)) = k /\ \A j \in 1 .. k : Path(t)[j] = Path(x)[j]
  BY <1>3 DEF Rooted, Path, TeamLive
<1> QED
  BY <1>1, <1>2, <1>4

LEMMA BelowAreOwn ==
  ASSUME TeamRows, Forest, NEW t \in Team
  PROVE  \A x \in Team : x \in Subtree(t) <=> TeamLive(x) /\ t \in Range(Path(x))
BY OnThePath DEF Subtree, OrgTeams, Path

LEMMA InOwnSubtree ==
  ASSUME TeamRows, Forest, NEW t \in Team, TeamLive(t)
  PROVE  t \in Range(Path(t)) /\ t \in Subtree(t)
<1>1. Rooted(team, t)
  BY DEF Forest
<1>2. t \in Range(Path(t))
  BY <1>1, PathIsASeq DEF Rooted, Range, Path
<1> QED
  BY <1>2, BelowAreOwn

(* What is written for a team below t: its path from t down, under above.  *)
LEMMA RerootedPath ==
  ASSUME TeamRows, Forest, NEW t \in Team, NEW x \in Subtree(t), NEW above \in Seq(Team)
  PROVE  LET q == Rerooted(Path(x), t, above)
             n == Len(Path(t))
         IN  /\ n \in 1 .. Len(Path(x)) /\ Path(x)[n] = t
             /\ q \in Seq(Team) /\ Len(q) = Len(above) + Len(Path(x)) - n + 1
             /\ \A j \in 1 .. Len(above) : q[j] = above[j]
             /\ \A i \in n .. Len(Path(x)) : q[Len(above) + i - n + 1] = Path(x)[i]
<1> DEFINE p == Path(x)
           n == Len(Path(t))
           tail == SubSeq(p, n, Len(p))
<1>0. x \in Team /\ TeamLive(x) /\ t \in Range(p)
  BY BelowAreOwn DEF Subtree, OrgTeams, Path
<1>1. /\ n \in 1 .. Len(p) /\ p[n] = t
      /\ \A i \in 1 .. Len(p) : p[i] = t => i = n
  BY <1>0, OnThePath
<1>2. p \in Seq(Team) /\ Len(p) \in Nat /\ DOMAIN p = 1 .. Len(p) /\ n \in Nat
  BY <1>0, <1>1, PathIsASeq
<1>3. (CHOOSE i \in DOMAIN p : p[i] = t) = n
  BY <1>1, <1>2
<1>4. /\ tail \in Seq(Team) /\ Len(tail) = Len(p) - n + 1
      /\ \A i \in 1 .. Len(p) - n + 1 : tail[i] = p[n + i - 1]
  <2>1. \A i \in n .. Len(p) : p[i] \in Team
    BY <1>1, <1>2
  <2> QED
    BY <1>1, <1>2, <2>1, SubSeqProperties
<1>5. Rerooted(p, t, above) = above \o tail
  BY <1>3 DEF Rerooted
<1> HIDE DEF p, n, tail
<1>6. /\ above \o tail \in Seq(Team) /\ Len(above \o tail) = Len(above) + Len(tail) /\ Len(above) \in Nat
      /\ \A i \in 1 .. Len(above) + Len(tail) :
           (above \o tail)[i] = IF i <= Len(above) THEN above[i] ELSE tail[i - Len(above)]
  BY <1>4, ConcatProperties, LenProperties
<1>7. ASSUME NEW i \in n .. Len(p) PROVE (above \o tail)[Len(above) + i - n + 1] = p[i]
  <2> DEFINE k == Len(above) + i - n + 1
  <2>1. k \in 1 .. Len(above) + Len(tail) /\ ~(k <= Len(above)) /\ k - Len(above) = i - n + 1
    BY <1>1, <1>2, <1>4, <1>6
  <2>2. i - n + 1 \in 1 .. Len(p) - n + 1 /\ n + (i - n + 1) - 1 = i
    BY <1>1, <1>2
  <2>3. tail[i - n + 1] = p[n + (i - n + 1) - 1]
    BY <1>4, <2>2
  <2> HIDE DEF k
  <2>4. (above \o tail)[k] = tail[k - Len(above)]
    BY <1>6, <2>1
  <2>5. (above \o tail)[k] = p[i]
    BY <2>1, <2>2, <2>3, <2>4
  <2> QED
    BY <2>5 DEF k
<1>8. \A j \in 1 .. Len(above) : (above \o tail)[j] = above[j]
  <2>1. SUFFICES ASSUME NEW j \in 1 .. Len(above) PROVE (above \o tail)[j] = above[j]
    OBVIOUS
  <2>2. j \in 1 .. Len(above) + Len(tail) /\ j <= Len(above)
    BY <1>1, <1>2, <1>4, <1>6
  <2> QED
    BY <1>6, <2>2
<1>9. Len(above \o tail) = Len(above) + Len(p) - n + 1
  BY <1>1, <1>2, <1>4, <1>6
<1> QED
  BY <1>1, <1>5, <1>6, <1>7, <1>8, <1>9 DEF p, n

LEMMA ForestHasPaths == ASSUME TeamRows, Forest PROVE PathsFollowParents
<1>1. SUFFICES ASSUME NEW t \in Team, TeamLive(t)
               PROVE  /\ Len(Path(t)) <= MaxDepth
                      /\ IF team[t].parent = Nil THEN Path(t) = <<t>>
                         ELSE TeamLive(team[t].parent) /\ Path(t) = Append(Path(team[t].parent), t)
  BY DEF PathsFollowParents, Path
<1> DEFINE p == team[t].parent
           n == Len(Path(t))
<1>2. Rooted(team, t)
  BY <1>1 DEF Forest
<1>3. n \in 1 .. MaxDepth /\ Path(t)[n] = t /\ MaxDepth \in Nat
  BY <1>2, TeamsBelong DEF Rooted, Path
<1>4. Path(t) \in Seq(Team)
  BY PathIsASeq
<1>5. CASE p = Nil
  <2>1. n = 1
    BY <1>2, <1>5 DEF Rooted, Path
  <2>2. Path(t) = <<t>>
    BY <1>3, <1>4, <2>1, SeqEqual
  <2> QED
    BY <1>3, <1>5, <2>2
<1>6. CASE p # Nil
  <2>1. n > 1 /\ p = Path(t)[n - 1]
    BY <1>2, <1>6 DEF Rooted, Path
  <2>2. n - 1 \in 1 .. n
    BY <1>3, <2>1
  <2>3. TeamLive(p) /\ Len(Path(p)) = n - 1 /\ \A j \in 1 .. n - 1 : Path(p)[j] = Path(t)[j]
    BY <1>2, <2>1, <2>2 DEF Rooted, Path, TeamLive
  <2>4. p \in Team /\ Path(p) \in Seq(Team)
    BY <1>4, <2>1, <2>2, PathIsASeq
  <2>5. /\ Append(Path(p), t) \in Seq(Team) /\ Len(Append(Path(p), t)) = Len(Path(p)) + 1
        /\ \A i \in 1 .. Len(Path(p)) : Append(Path(p), t)[i] = Path(p)[i]
        /\ Append(Path(p), t)[Len(Path(p)) + 1] = t
    BY <2>4, AppendProperties
  <2>6. Len(Append(Path(p), t)) = n /\ \A i \in 1 .. n : Append(Path(p), t)[i] = Path(t)[i]
    <3>1. Len(Append(Path(p), t)) = n
      BY <1>3, <2>3, <2>5
    <3>2. ASSUME NEW i \in 1 .. n PROVE Append(Path(p), t)[i] = Path(t)[i]
      <4>1. i \in 1 .. n - 1 \/ i = n
        BY <1>3
      <4>2. CASE i \in 1 .. n - 1
        BY <2>3, <2>5, <4>2
      <4>3. CASE i = n
        BY <1>3, <2>3, <2>5, <4>3
      <4> QED
        BY <4>1, <4>2, <4>3
    <3> QED
      BY <3>1, <3>2
  <2>7. Path(t) = Append(Path(p), t)
    BY <1>4, <2>5, <2>6, SeqEqual
  <2> QED
    BY <1>3, <1>6, <2>3, <2>7
<1> QED
  BY <1>5, <1>6

(* What is rooted stays so while the rows on its path do.                  *)
LEMMA RootedStays ==
  ASSUME TeamRows, Forest, NEW x \in Team, TeamLive(x), NEW rows,
         \A y \in Range(Path(x)) : rows[y] = team[y]
  PROVE  Rooted(rows, x)
<1>1. Rooted(team, x)
  BY DEF Forest
<1>2. rows[x] = team[x]
  BY InOwnSubtree
<1>3. \A i \in 1 .. Len(Path(x)) : rows[Path(x)[i]] = team[Path(x)[i]]
  BY PathIsASeq DEF Range
<1> QED
  BY <1>1, <1>2, <1>3 DEF Rooted, Path

LEMMA ForestDeleted ==
  ASSUME TeamRows, Forest, NEW t \in Team, TeamLive(t), Subtree(t) = {t}, team' = [team EXCEPT ![t].st = "deleted"]
  PROVE  TeamRows' /\ Forest' /\ \A x \in Team : Subtree(x)' \subseteq Subtree(x)
<1>1. \A x \in Team : team'[x] = IF x = t THEN [team[x] EXCEPT !.st = "deleted"] ELSE team[x]
  BY DEF TeamRows
<1>2. \A x \in Team : TeamLive(x)' <=> TeamLive(x) /\ x # t
  BY <1>1 DEF TeamLive, TeamRows, TeamRow
<1>3. TeamRows'
  BY DEF TeamRows, TeamRow
<1>4. ASSUME NEW x \in Team, TeamLive(x)' PROVE Rooted(team', x)
  <2>1. TeamLive(x) /\ x # t
    BY <1>2, <1>4
  <2>2. t \notin Range(Path(x))
    BY <2>1, BelowAreOwn
  <2>3. \A y \in Range(Path(x)) : y \in Team
    BY <2>1, OnThePath
  <2> QED
    BY <1>1, <2>1, <2>2, <2>3, RootedStays
<1>5. \A x \in Team : Subtree(x)' \subseteq Subtree(x)
  BY <1>1, <1>2 DEF Subtree, OrgTeams, TeamRows, TeamRow
<1> QED
  BY <1>3, <1>4, <1>5 DEF Forest

LEMMA ForestGrown ==
  ASSUME TeamRows, Forest, NEW t \in Team, NEW p \in Team \cup {Nil}, NEW above, team[t].st = "absent",
         IF p = Nil THEN above = <<>> ELSE TeamLive(p) /\ TeamOrg[p] = TeamOrg[t] /\ above = Path(p),
         Len(above) + 1 <= MaxDepth,
         team' = [team EXCEPT ![t] = [st |-> "live", parent |-> p, path |-> Append(above, t)]]
  PROVE  /\ TeamRows' /\ Forest'
         /\ \A x \in Team : Subtree(x)' \subseteq Subtree(x) \cup {t}
         /\ \A x \in Team : t \in Subtree(x)' => x = t \/ (p # Nil /\ p \in Subtree(x))
<1> DEFINE q == Append(above, t)
           n == Len(above)
<1>1. above \in Seq(Team) /\ n \in Nat
  <2>1. CASE p = Nil
    BY <2>1, EmptySeq
  <2>2. CASE p # Nil
    BY <2>2, PathIsASeq
  <2> QED
    BY <2>1, <2>2
<1>2. /\ q \in Seq(Team) /\ Len(q) = n + 1 /\ DOMAIN q = 1 .. n + 1
      /\ \A i \in 1 .. n : q[i] = above[i]
      /\ q[n + 1] = t
  BY <1>1, AppendProperties, LenProperties
<1> HIDE DEF q
<1>3. team' = [team EXCEPT ![t] = [st |-> "live", parent |-> p, path |-> q]]
  BY DEF q
<1>4. /\ \A x \in Team \ {t} : team'[x] = team[x]
      /\ team'[t].st = "live" /\ team'[t].parent = p /\ team'[t].path = q
  BY <1>3 DEF TeamRows
<1>5. TeamRows'
  <2>1. [st |-> "live", parent |-> p, path |-> q] \in TeamRow
    BY <1>2 DEF TeamRow
  <2> QED
    BY <1>3, <2>1 DEF TeamRows
<1>6. ASSUME NEW x \in Team, x # t, TeamLive(x)' PROVE Rooted(team', x)
  <2>1. TeamLive(x)
    BY <1>4, <1>6 DEF TeamLive
  <2>2. \A y \in Range(Path(x)) : y \in Team /\ TeamLive(y)
    BY <2>1, OnThePath
  <2>3. \A y \in Range(Path(x)) : y # t
    BY <2>2 DEF TeamLive
  <2> QED
    BY <1>4, <2>1, <2>2, <2>3, RootedStays
<1>7. \A i \in 1 .. n : /\ p # Nil /\ above[i] \in Range(Path(p)) /\ above[i] \in Team /\ TeamLive(above[i]) /\ above[i] # t
                       /\ TeamOrg[above[i]] = TeamOrg[t] /\ Len(Path(above[i])) = i
                       /\ \A j \in 1 .. i : Path(above[i])[j] = above[j]
  <2>1. CASE p = Nil
    BY <2>1
  <2>2. CASE p # Nil
    <3>1. Rooted(team, p) /\ above = Path(p)
      BY <2>2 DEF Forest
    <3>2. ASSUME NEW i \in 1 .. n PROVE above[i] \in Range(Path(p)) /\ above[i] \in Team /\ TeamLive(above[i])
      BY <2>2, <3>1, PathIsASeq DEF Rooted, Range, TeamLive, Path
    <3>3. \A i \in 1 .. n : TeamOrg[above[i]] = TeamOrg[t] /\ Len(Path(above[i])) = i
                            /\ \A j \in 1 .. i : Path(above[i])[j] = above[j]
      BY <2>2, <3>1 DEF Rooted, Path
    <3>4. \A i \in 1 .. n : above[i] # t
      BY <3>2 DEF TeamLive
    <3> QED
      BY <2>2, <3>2, <3>3, <3>4
  <2> QED
    BY <2>1, <2>2
<1>8. Rooted(team', t)
  <2>1. Len(q) \in 1 .. MaxDepth /\ q[Len(q)] = t
    BY <1>1, <1>2, TeamsBelong
  <2>2. ASSUME NEW i \in 1 .. Len(q)
        PROVE  /\ team'[q[i]].st = "live" /\ TeamOrg[q[i]] = TeamOrg[t] /\ Len(team'[q[i]].path) = i
               /\ \A j \in 1 .. i : team'[q[i]].path[j] = q[j]
    <3>1. i \in 1 .. n \/ i = n + 1
      BY <1>1, <1>2
    <3>2. CASE i \in 1 .. n
      <4>1. q[i] = above[i] /\ \A j \in 1 .. i : q[j] = above[j]
        BY <1>1, <1>2, <3>2
      <4>2. team'[q[i]] = team[above[i]]
        BY <1>4, <1>7, <3>2, <4>1
      <4> QED
        BY <1>7, <3>2, <4>1, <4>2 DEF TeamLive, Path
    <3>3. CASE i = n + 1
      BY <1>2, <1>4, <3>3
    <3> QED
      BY <3>1, <3>2, <3>3
  <2>3. IF p = Nil THEN Len(q) = 1 ELSE Len(q) > 1 /\ p = q[Len(q) - 1]
    <3>1. CASE p = Nil
      BY <1>2, <3>1
    <3>2. CASE p # Nil
      <4>1. Rooted(team, p) /\ above = Path(p)
        BY <3>2 DEF Forest
      <4>2. n >= 1 /\ above[n] = p
        BY <4>1 DEF Rooted, Path
      <4> QED
        BY <1>1, <1>2, <3>2, <4>2
    <3> QED
      BY <3>1, <3>2
  <2> QED
    BY <1>4, <2>1, <2>2, <2>3 DEF Rooted
<1>9. \A x \in Team : Subtree(x)' \subseteq Subtree(x) \cup {t}
  BY <1>4 DEF Subtree, OrgTeams, TeamLive
<1>10. \A x \in Team : t \in Subtree(x)' => x = t \/ (p # Nil /\ p \in Subtree(x))
  <2>1. SUFFICES ASSUME NEW x \in Team, t \in Subtree(x)', x # t PROVE p # Nil /\ p \in Subtree(x)
    OBVIOUS
  <2>2. PICK i \in 1 .. n + 1 : q[i] = x
    BY <1>2, <1>4, <2>1 DEF Subtree, Range
  <2>3. i \in 1 .. n
    BY <1>1, <1>2, <2>1, <2>2
  <2>4. p # Nil /\ x \in Range(Path(p))
    BY <1>2, <1>7, <2>2, <2>3
  <2> QED
    BY <2>4, BelowAreOwn
<1> QED
  BY <1>5, <1>6, <1>8, <1>9, <1>10 DEF Forest

(* The one statement that moves the subtree of t to below p, whose path is *)
(* above; t is not on it.                                                  *)
Landing(t, p, above) ==
  IF p = Nil THEN above = <<>>
  ELSE TeamLive(p) /\ TeamOrg[p] = TeamOrg[t] /\ above = Path(p) /\ t \notin Range(above)
Rewritten(t, p, above, moved) ==
  /\ moved = [x \in Subtree(t) |-> Rerooted(Path(x), t, above)]
  /\ \A x \in Subtree(t) : ~(Len(moved[x]) > MaxDepth)
  /\ team' = [x \in Team |->
                IF x \notin Subtree(t) THEN team[x]
                ELSE [team[x] EXCEPT !.path = moved[x], !.parent = IF x = t THEN p ELSE @]]

LEMMA ForestRerooted ==
  ASSUME TeamRows, Forest, NEW t \in Team, TeamLive(t), NEW p \in Team \cup {Nil}, NEW above,
         Landing(t, p, above), NEW moved, Rewritten(t, p, above, moved)
  PROVE  /\ TeamRows' /\ Forest'
         /\ \A x \in Team \ Subtree(t) : team'[x] = team[x]
         /\ \A x, y \in Team : y \in Subtree(x)' =>
              y \in Subtree(x) \/ (y \in Subtree(t) /\ p # Nil /\ p \in Subtree(x))
<1> DEFINE a == Len(above)
           n == Len(Path(t))
<1>1. above \in Seq(Team) /\ a \in Nat /\ (p = Nil => a = 0)
  <2>1. CASE p = Nil
    BY <2>1, EmptySeq DEF Landing
  <2>2. CASE p # Nil
    BY <2>2, PathIsASeq DEF Landing
  <2> QED
    BY <2>1, <2>2
<1>2. Subtree(t) \subseteq Team /\ \A x \in Subtree(t) : TeamLive(x) /\ TeamOrg[x] = TeamOrg[t]
  BY DEF Subtree, OrgTeams
<1>3. ASSUME NEW x \in Subtree(t)
      PROVE  /\ Len(Path(x)) \in Nat /\ n \in 1 .. Len(Path(x)) /\ Path(x)[n] = t
             /\ moved[x] \in Seq(Team) /\ Len(moved[x]) = a + Len(Path(x)) - n + 1
             /\ \A j \in 1 .. a : moved[x][j] = above[j]
             /\ \A i \in n .. Len(Path(x)) : moved[x][a + i - n + 1] = Path(x)[i]
             /\ ~(Len(moved[x]) > MaxDepth)
  <2>1. moved[x] = Rerooted(Path(x), t, above) /\ ~(Len(moved[x]) > MaxDepth)
    BY DEF Rewritten
  <2>2. Len(Path(x)) \in Nat
    BY <1>2, PathIsASeq
  <2> DEFINE q == Rerooted(Path(x), t, above)
  <2>3. /\ n \in 1 .. Len(Path(x)) /\ Path(x)[n] = t
        /\ q \in Seq(Team) /\ Len(q) = a + Len(Path(x)) - n + 1
        /\ \A j \in 1 .. a : q[j] = above[j]
        /\ \A i \in n .. Len(Path(x)) : q[a + i - n + 1] = Path(x)[i]
    BY <1>1, RerootedPath
  <2> HIDE DEF q, a, n
  <2>4. moved[x] = q
    BY <2>1 DEF q
  <2> QED
    BY <2>1, <2>2, <2>3, <2>4
<1>4. /\ \A x \in Team \ Subtree(t) : team'[x] = team[x]
      /\ \A x \in Subtree(t) : /\ team'[x].st = team[x].st /\ team'[x].path = moved[x]
                              /\ team'[x].parent = IF x = t THEN p ELSE team[x].parent
  BY <1>2 DEF TeamRows, TeamRow, Rewritten
<1> HIDE DEF a, n
<1>5. \A x \in Team : TeamLive(x)' <=> TeamLive(x)
  BY <1>4 DEF TeamLive
<1>6. TeamRows'
  <2>1. ASSUME NEW x \in Subtree(t)
        PROVE  [team[x] EXCEPT !.path = moved[x], !.parent = IF x = t THEN p ELSE @] \in TeamRow
    <3>1. team[x] \in TeamRow /\ moved[x] \in Seq(Team)
      BY <1>2, <1>3 DEF TeamRows
    <3> QED
      BY <3>1 DEF TeamRow
  <2> QED
    BY <2>1 DEF TeamRows, Rewritten
<1>7. ASSUME NEW i \in 1 .. a
      PROVE  /\ p # Nil /\ above[i] \in Team /\ TeamLive(above[i]) /\ above[i] \notin Subtree(t)
             /\ above[i] \in Range(Path(p))
             /\ TeamOrg[above[i]] = TeamOrg[t] /\ Len(Path(above[i])) = i
             /\ \A j \in 1 .. i : Path(above[i])[j] = above[j]
  <2>1. p # Nil
    BY <1>1, <1>7
  <2>2. /\ Rooted(team, p) /\ above = Path(p) /\ p \in Team /\ TeamLive(p) /\ TeamOrg[p] = TeamOrg[t]
        /\ t \notin Range(Path(p)) /\ a = Len(Path(p))
    BY <2>1 DEF Forest, Landing, a
  <2>3. /\ above[i] \in Team /\ TeamLive(above[i]) /\ TeamOrg[above[i]] = TeamOrg[t]
        /\ above[i] \in Range(Path(p))
    BY <1>7, <2>1, <2>2, PathIsASeq DEF Rooted, Path, TeamLive, Range
  <2>4. Len(Path(above[i])) = i /\ \A j \in 1 .. i : Path(above[i])[j] = above[j]
    BY <1>7, <2>2 DEF Rooted, Path
  <2>5. above[i] \notin Subtree(t)
    <3>1. SUFFICES ASSUME t \in Range(Path(above[i])) PROVE FALSE
      BY <2>3, BelowAreOwn
    <3>2. PICK j \in 1 .. i : Path(above[i])[j] = t
      BY <2>3, <2>4, <3>1, PathIsASeq DEF Range
    <3>3. above[j] = t /\ j \in 1 .. a
      BY <1>1, <2>4, <3>2
    <3> QED
      BY <2>2, <3>3, PathIsASeq DEF Range
  <2> QED
    BY <2>1, <2>3, <2>4, <2>5
<1>8. ASSUME NEW x \in Team, TeamLive(x), x \notin Subtree(t) PROVE Rooted(team', x)
  <2>1. ASSUME NEW y \in Range(Path(x)) PROVE y \in Team /\ y \notin Subtree(t)
    <3>1. /\ y \in Team /\ TeamLive(y) /\ Len(Path(y)) \in 1 .. Len(Path(x))
          /\ \A j \in 1 .. Len(Path(y)) : Path(y)[j] = Path(x)[j]
      BY <1>8, OnThePath
    <3>2. SUFFICES ASSUME t \in Range(Path(y)) PROVE t \in Range(Path(x))
      BY <1>8, <3>1, BelowAreOwn
    <3>3. PICK j \in 1 .. Len(Path(y)) : Path(y)[j] = t
      BY <3>1, <3>2, PathIsASeq DEF Range
    <3>4. j \in 1 .. Len(Path(x)) /\ Path(x)[j] = t
      BY <3>1, <3>3, PathIsASeq
    <3> QED
      BY <3>4, PathIsASeq DEF Range
  <2> QED
    BY <1>4, <1>8, <2>1, RootedStays
<1>9. ASSUME NEW x \in Subtree(t) PROVE Rooted(team', x)
  <2> DEFINE q == moved[x]
             l == Len(Path(x))
  <2>1. /\ n \in 1 .. l /\ Path(x)[n] = t /\ l \in Nat
        /\ Len(q) = a + l - n + 1
        /\ \A j \in 1 .. a : q[j] = above[j]
        /\ \A i \in n .. l : q[a + i - n + 1] = Path(x)[i]
    BY <1>3
  <2>2. /\ x \in Team /\ TeamLive(x) /\ TeamOrg[x] = TeamOrg[t] /\ Rooted(team, x) /\ team'[x].path = q
        /\ l = Len(Path(x))
    BY <1>2, <1>4 DEF Forest
  <2>3. ~(Len(q) > MaxDepth) /\ (x = t => l = n)
    BY <1>3 DEF n
  <2> HIDE DEF q, l
  <2>4. Len(q) \in 1 .. MaxDepth /\ q[Len(q)] = x
    <3>1. Len(q) \in 1 .. MaxDepth
      BY <1>1, <2>1, <2>3, TeamsBelong
    <3>2. Path(x)[l] = x
      BY <2>2 DEF Rooted, Path
    <3>3. l \in n .. l /\ a + l - n + 1 = Len(q)
      BY <2>1
    <3>4. q[a + l - n + 1] = Path(x)[l]
      BY <2>1, <3>3
    <3> QED
      BY <3>1, <3>2, <3>3, <3>4
  <2>5. ASSUME NEW k \in 1 .. Len(q)
        PROVE  /\ team'[q[k]].st = "live" /\ TeamOrg[q[k]] = TeamOrg[x] /\ Len(team'[q[k]].path) = k
               /\ \A j \in 1 .. k : team'[q[k]].path[j] = q[j]
    <3>1. k \in 1 .. a \/ k \in a + 1 .. Len(q)
      BY <1>1, <2>1
    <3>2. CASE k \in 1 .. a
      <4>1. q[k] = above[k] /\ \A j \in 1 .. k : q[j] = above[j]
        BY <1>1, <2>1, <3>2
      <4>2. team'[q[k]] = team[above[k]]
        BY <1>4, <1>7, <3>2, <4>1
      <4> QED
        BY <1>7, <2>2, <3>2, <4>1, <4>2 DEF TeamLive, Path
    <3>3. CASE k \in a + 1 .. Len(q)
      <4> DEFINE i == k - a + n - 1
                 y == Path(x)[i]
      <4>1. i \in n .. l /\ i \in 1 .. l /\ a + i - n + 1 = k
        BY <1>1, <2>1, <3>3
      <4>2. q[k] = y
        BY <2>1, <4>1
      <4> HIDE DEF i
      <4>3. y \in Team /\ TeamLive(y) /\ TeamOrg[y] = TeamOrg[x] /\ Len(Path(y)) = i /\ \A j \in 1 .. i : Path(y)[j] = Path(x)[j]
        BY <2>2, <4>1, PathIsASeq DEF Rooted, Path, TeamLive
      <4>4. y \in Subtree(t)
        <5>1. n \in 1 .. Len(Path(y)) /\ Path(y)[n] = t
          BY <2>1, <4>1, <4>3
        <5>2. t \in Range(Path(y))
          BY <4>3, <5>1, PathIsASeq DEF Range
        <5> QED
          BY <4>3, <5>2, BelowAreOwn
      <4> HIDE DEF y
      <4>5. /\ Len(moved[y]) = a + Len(Path(y)) - n + 1
            /\ \A j \in 1 .. a : moved[y][j] = above[j]
            /\ \A j \in n .. Len(Path(y)) : moved[y][a + j - n + 1] = Path(y)[j]
        BY <1>3, <4>4
      <4>6. Len(moved[y]) = k
        BY <4>1, <4>3, <4>5
      <4>7. ASSUME NEW j \in 1 .. k PROVE moved[y][j] = q[j]
        <5>1. j \in 1 .. a \/ j \in a + 1 .. k
          BY <1>1, <3>3
        <5>2. CASE j \in 1 .. a
          BY <2>1, <4>5, <5>2
        <5>3. CASE j \in a + 1 .. k
          <6> DEFINE m == j - a + n - 1
          <6>1. m \in n .. i /\ m \in n .. l /\ m \in 1 .. i /\ a + m - n + 1 = j
            BY <1>1, <2>1, <4>1, <5>3
          <6> HIDE DEF m
          <6>2. moved[y][a + m - n + 1] = Path(y)[m] /\ q[a + m - n + 1] = Path(x)[m] /\ Path(y)[m] = Path(x)[m]
            BY <2>1, <4>3, <4>5, <6>1
          <6> QED
            BY <6>1, <6>2
        <5> QED
          BY <5>1, <5>2, <5>3
      <4> QED
        BY <1>4, <4>2, <4>3, <4>4, <4>6, <4>7 DEF TeamLive
    <3> QED
      BY <3>1, <3>2, <3>3
  <2>6. IF team'[x].parent = Nil THEN Len(q) = 1 ELSE Len(q) > 1 /\ team'[x].parent = q[Len(q) - 1]
    <3>1. CASE x = t /\ p = Nil
      <4>1. a = 0 /\ l = n
        BY <1>1, <2>3, <3>1
      <4> QED
        BY <1>4, <2>1, <3>1, <4>1
    <3>2. CASE x = t /\ p # Nil
      <4>1. Rooted(team, p) /\ above = Path(p) /\ l = n /\ a = Len(Path(p))
        BY <2>3, <3>2 DEF Forest, Landing, a
      <4>2. a >= 1 /\ above[a] = p
        BY <1>1, <4>1 DEF Rooted, Path
      <4>3. Len(q) = a + 1 /\ Len(q) - 1 = a /\ a \in 1 .. a
        BY <1>1, <2>1, <4>1, <4>2
      <4> QED
        BY <1>1, <1>4, <2>1, <3>2, <4>2, <4>3
    <3>3. CASE x # t
      <4>1. Path(x)[l] = x
        BY <2>2 DEF Rooted, Path
      <4>2. n < l
        BY <2>1, <3>3, <4>1
      <4>3. team[x].parent # Nil /\ team[x].parent = Path(x)[l - 1]
        BY <2>1, <2>2, <4>2 DEF Rooted, Path
      <4>4. l - 1 \in n .. l /\ a + (l - 1) - n + 1 = Len(q) - 1 /\ Len(q) > 1
        BY <1>1, <2>1, <4>2
      <4>5. q[a + (l - 1) - n + 1] = Path(x)[l - 1]
        BY <2>1, <4>4
      <4> QED
        BY <1>4, <3>3, <4>3, <4>4, <4>5
    <3> QED
      BY <3>1, <3>2, <3>3
  <2> QED
    BY <2>2, <2>4, <2>5, <2>6 DEF Rooted
<1>10. ASSUME NEW x \in Team, NEW y \in Team, y \in Subtree(x)'
       PROVE  y \in Subtree(x) \/ (y \in Subtree(t) /\ p # Nil /\ p \in Subtree(x))
  <2>1. TeamLive(y)
    BY <1>5, <1>10 DEF Subtree
  <2>2. CASE y \notin Subtree(t)
    BY <1>4, <1>10, <2>1, <2>2 DEF Subtree
  <2>3. CASE y \in Subtree(t)
    <3>1. x \in Range(moved[y])
      BY <1>4, <1>10, <2>3 DEF Subtree
    <3>2. PICK k \in 1 .. Len(moved[y]) : moved[y][k] = x
      BY <1>3, <2>3, <3>1, LenProperties DEF Range
    <3>3. k \in 1 .. a \/ k \in a + 1 .. Len(moved[y])
      BY <1>1, <3>2
    <3>4. CASE k \in 1 .. a
      <4>1. x = above[k] /\ p # Nil /\ x \in Range(Path(p))
        BY <1>3, <1>7, <2>3, <3>2, <3>4
      <4>2. p \in Team /\ TeamLive(p)
        BY <4>1 DEF Landing
      <4> QED
        BY <2>3, <4>1, <4>2, BelowAreOwn
    <3>5. CASE k \in a + 1 .. Len(moved[y])
      <4> DEFINE i == k - a + n - 1
      <4>0. Len(Path(y)) \in Nat /\ n \in 1 .. Len(Path(y)) /\ Len(moved[y]) = a + Len(Path(y)) - n + 1
        BY <1>3, <2>3, PathIsASeq
      <4>1. i \in n .. Len(Path(y)) /\ i \in 1 .. Len(Path(y)) /\ a + i - n + 1 = k
        BY <1>1, <3>5, <4>0
      <4> HIDE DEF i
      <4>2. Path(y)[i] = x
        BY <1>3, <2>3, <3>2, <4>1
      <4>3. x \in Range(Path(y))
        BY <4>1, <4>2, PathIsASeq DEF Range
      <4> QED
        BY <2>1, <4>3, BelowAreOwn
    <3> QED
      BY <3>3, <3>4, <3>5
  <2> QED
    BY <2>2, <2>3
<1>11. Forest'
  BY <1>5, <1>8, <1>9 DEF Forest
<1> QED
  BY <1>4, <1>6, <1>10, <1>11

LEMMA ForestStep ==
  ASSUME ForestInv, NEW h \in Handler, Frame(h, {}), TeamRows', Forest', TreeRequest(req'[h]),
         Rearranging(h)', \A k \in Handler \ {h} : Rearranging(k)'
  PROVE  ForestInv'
<1>1. LocksApart'
  BY ApartStep DEF ForestInv
<1>2. Shape'
  BY DEF ForestInv, Shape, Frame, Busyness
<1>3. \A k \in Handler : TreeRequest(req'[k]) /\ Rearranging(k)'
  BY DEF ForestInv, Frame
<1> QED
  BY <1>1, <1>2, <1>3 DEF ForestInv

(* What another handler has locked stays as it is.                         *)
LEMMA RearrangingStays ==
  ASSUME NEW k \in Handler, Rearranging(k), TreeRequest(req[k]), req'[k] = req[k], held'[k] = held[k],
         \A x \in Team : TeamLive(x) /\ TeamLock(x) \in held[k] => team'[x] = team[x],
         At(k, "deleteteam", "migrate") => Subtree(req[k].t)' = Subtree(req[k].t)
  PROVE  Rearranging(k)'
<1>1. \A x \in Team : TeamLive(x) /\ TeamLock(x) \in held[k] => TeamLive(x)' /\ Path(x)' = Path(x)
  BY DEF TeamLive, Path
<1>2. CASE req[k].op = "reparent"
  <2>1. req[k].t \in Team /\ req[k].parent \in Team \cup {Nil}
    BY <1>2 DEF TreeRequest
  <2> QED
    BY <1>1, <1>2, <2>1 DEF Rearranging
<1>3. CASE req[k].op = "deleteteam"
  <2>1. req[k].t \in Team
    BY <1>3 DEF TreeRequest
  <2> QED
    BY <1>1, <1>3, <2>1 DEF Rearranging, At
<1>4. CASE req[k].op \notin {"reparent", "deleteteam"}
  BY <1>4 DEF Rearranging
<1> QED
  BY <1>2, <1>3, <1>4

LEMMA ReadForest ==
  ASSUME ForestInv, NEW h \in Handler, Frame(h, {}), UNCHANGED team, TreeRequest(req'[h]), Rearranging(h)'
  PROVE  ForestInv'
<1>1. TeamRows' /\ Forest'
  BY DEF ForestInv, TeamRows, Forest, TeamLive
<1>2. \A x : Subtree(x)' = Subtree(x)
  BY DEF Subtree, OrgTeams, TeamLive
<1>3. ASSUME NEW k \in Handler \ {h} PROVE Rearranging(k)'
  <2>1. Rearranging(k) /\ TreeRequest(req[k]) /\ req'[k] = req[k] /\ held'[k] = held[k]
    BY DEF ForestInv, Frame
  <2> QED
    BY <1>2, <2>1, RearrangingStays
<1> QED
  BY <1>1, <1>3, ForestStep

LEMMA QuietForest ==
  ASSUME ForestInv, NEW h \in Handler, Frame(h, TreeOp), UNCHANGED team
  PROVE  ForestInv'
<1>1. Frame(h, {})
  BY DEF Frame
<1>2. CASE req'[h].op \notin TreeOp
  BY <1>1, <1>2, ReadForest DEF TreeOp, TreeRequest, Rearranging
<1>3. CASE req'[h].op \in TreeOp
  <2>1. Rearranging(h) /\ TreeRequest(req[h]) /\ req'[h] = req[h] /\ held'[h] = held[h]
    BY <1>3 DEF ForestInv, Frame
  <2>2. \A x : Subtree(x)' = Subtree(x)
    BY DEF Subtree, OrgTeams, TeamLive
  <2>3. Rearranging(h)'
    BY <2>1, <2>2, RearrangingStays
  <2> QED
    BY <1>1, <2>1, <2>3, ReadForest
<1> QED
  BY <1>2, <1>3
-----------------------------------------------------------------------------
(* The statements that read the tree *)

(* A request that comes in has nothing locked yet.                         *)
LEMMA BeginForest ==
  ASSUME ForestInv, NEW h \in Handler, NEW r, Busyness(r), TreeRequest(r), r.pc \in {"insert", "subtree"},
         Begin(h, r), UNCHANGED team
  PROVE  ForestInv'
<1>1. Frame(h, {}) /\ req'[h] = r
  BY FrameGo DEF ForestInv, Shape, Begin
<1>2. Rearranging(h)'
  BY <1>1 DEF Rearranging
<1> QED
  BY <1>1, <1>2, ReadForest

LEMMA ArrivalForest == ASSUME ForestInv, NEW h \in Handler, Create(h) \/ Update(h) \/ Delete(h) PROVE ForestInv'
<1>1. CASE Create(h)
  <2>1. PICK t \in Team, p \in Team \cup {Nil} :
          Begin(h, [op |-> "createteam", pc |-> "insert", t |-> t, parent |-> p, want |-> Under(p)]) /\ UNCHANGED team
    BY <1>1 DEF Create, Under, TeamLock, orgVars
  <2> DEFINE r == [op |-> "createteam", pc |-> "insert", t |-> t, parent |-> p, want |-> Under(p)]
  <2>2. Busyness(r) /\ TreeRequest(r) /\ r.pc = "insert"
    BY DEF Busyness, TreeRequest
  <2> QED
    BY <2>1, <2>2, BeginForest
<1>2. CASE Update(h)
  <2>1. PICK o \in Org, t \in Team, p \in Team \cup {Nil} :
          /\ TeamOrg[t] = o
          /\ Begin(h, [op |-> "reparent", pc |-> "subtree", o |-> o, t |-> t, parent |-> p]) /\ UNCHANGED team
    BY <1>2 DEF Update, teamInOrg, orgVars
  <2> DEFINE r == [op |-> "reparent", pc |-> "subtree", o |-> o, t |-> t, parent |-> p]
  <2>2. Busyness(r) /\ TreeRequest(r) /\ r.pc = "subtree"
    BY <2>1 DEF Busyness, TreeRequest
  <2> QED
    BY <2>1, <2>2, BeginForest
<1>3. CASE Delete(h)
  <2>1. PICK o \in Org, t \in Team :
          /\ TeamOrg[t] = o
          /\ Begin(h, [op |-> "deleteteam", pc |-> "subtree", o |-> o, t |-> t]) /\ UNCHANGED team
    BY <1>3 DEF Delete, teamInOrg, orgVars
  <2> DEFINE r == [op |-> "deleteteam", pc |-> "subtree", o |-> o, t |-> t]
  <2>2. Busyness(r) /\ TreeRequest(r) /\ r.pc = "subtree"
    BY <2>1 DEF Busyness, TreeRequest
  <2> QED
    BY <2>1, <2>2, BeginForest
<1> QED
  BY <1>1, <1>2, <1>3

LEMMA EndForest == ASSUME ForestInv, NEW h \in Handler, End(h), UNCHANGED team PROVE ForestInv'
<1>1. Frame(h, TreeOp)
  BY FrameEnd DEF ForestInv, TreeOp
<1> QED
  BY <1>1, QuietForest

LEMMA ChoosingForest == ASSUME ForestInv, NEW h \in Handler, ChooseSubtree(h) PROVE ForestInv'
<1> DEFINE q == [req[h] EXCEPT !.pc = "locking"]
           r == With(q, [want |-> ListSubtreeForUpdate(req[h].t)])
<1>0. Shape /\ TreeRequest(req[h])
  BY DEF ForestInv
<1>1. Go(h, r) /\ UNCHANGED team
  BY DEF ChooseSubtree, orgVars
<1>2. Frame(h, {}) /\ req'[h] = r
  BY <1>0, <1>1, FrameOn DEF Shape, Go
<1>3. /\ req[h].op \in {"reparent", "deleteteam"} /\ req[h].pc = "subtree" /\ {"op", "pc", "o", "t"} \subseteq DOMAIN req[h]
      /\ req[h].t \in Team /\ TeamOrg[req[h].t] = req[h].o
      /\ req[h].op = "reparent" => "parent" \in DOMAIN req[h] /\ req[h].parent \in Team \cup {Nil}
      /\ "above" \notin DOMAIN req[h]
  BY <1>0 DEF ChooseSubtree, TreeRequest, Shape
<1>4. DOMAIN q = DOMAIN req[h] /\ q.pc = "locking" /\ \A f \in DOMAIN q \ {"pc"} : q[f] = req[h][f]
  BY <1>3
<1> HIDE DEF q
<1>5. DOMAIN r = DOMAIN q \cup {"want"} /\ \A f \in DOMAIN q : r[f] = q[f]
  BY WithKeeps DEF With
<1> HIDE DEF r
<1>6. /\ r.op = req[h].op /\ r.pc = "locking" /\ r.o = req[h].o /\ r.t = req[h].t
      /\ r.op = "reparent" => "parent" \in DOMAIN r /\ r.parent = req[h].parent
      /\ {"o", "t"} \subseteq DOMAIN r /\ "above" \notin DOMAIN r
  BY <1>3, <1>4, <1>5
<1>7. TreeRequest(r)
  BY <1>3, <1>6 DEF TreeRequest
<1>8. Rearranging(h)'
  BY <1>2, <1>6 DEF Rearranging
<1> QED
  BY <1>1, <1>2, <1>7, <1>8, ReadForest

(* What a request keeps when it has its rows and goes on, with s.          *)
Onto(r, to, s) == With(Drop([r EXCEPT !.pc = to], "want"), s)
Carries(q, r, to, s) ==
  /\ DOMAIN q = (DOMAIN r \ {"want"}) \cup DOMAIN s
  /\ q.pc = to /\ \A f \in DOMAIN r \ {"pc", "want"} : q[f] = r[f]
  /\ \A f \in DOMAIN s \ (DOMAIN r \ {"want"}) : q[f] = s[f]

LEMMA OntoCarries == ASSUME NEW r, "pc" \in DOMAIN r, NEW to, NEW s PROVE Carries(Onto(r, to, s), r, to, s)
<1> DEFINE p == [r EXCEPT !.pc = to]
           d == Drop(p, "want")
           q == With(d, s)
<1>1. DOMAIN p = DOMAIN r /\ p.pc = to /\ \A f \in DOMAIN r \ {"pc"} : p[f] = r[f]
  OBVIOUS
<1> HIDE DEF p
<1>2. DOMAIN d = DOMAIN r \ {"want"} /\ d.pc = to /\ \A f \in DOMAIN r \ {"pc", "want"} : d[f] = r[f]
  BY <1>1 DEF Drop
<1> HIDE DEF d
<1>3. DOMAIN q = DOMAIN d \cup DOMAIN s /\ \A f \in DOMAIN q : q[f] = IF f \in DOMAIN d THEN d[f] ELSE s[f]
  BY DEF With
<1> HIDE DEF q
<1>4. Carries(q, r, to, s)
  BY <1>2, <1>3 DEF Carries
<1> QED
  BY <1>4 DEF Onto, q, d, p

LEMMA LockingForest == ASSUME ForestInv, NEW h \in Handler, LockSubtree(h) PROVE ForestInv'
<1>0. Shape /\ TreeRequest(req[h]) /\ UNCHANGED team
  BY DEF ForestInv, LockSubtree, orgVars
<1>1. CASE End(h)
  BY <1>0, <1>1, EndForest
<1>2. CASE ~End(h)
  <2> DEFINE s == [height |-> subtreeHeight(req[h].t, LockedSubtree(h)), want |-> Under(req[h].parent)]
             r == Onto(req[h], "target", s)
  <2>1. GoLocked(h, LockedSubtree(h), r) /\ TeamLock(req[h].t) \in LockedSubtree(h)
    BY <1>2 DEF LockSubtree, Under, TeamLock, Onto
  <2>2. Frame(h, {}) /\ req'[h] = r /\ held'[h] = held[h] \cup LockedSubtree(h)
    BY <1>0, <2>1, FrameOn DEF Shape, GoLocked, Onto
  <2>3. /\ req[h].op = "reparent" /\ req[h].pc = "locking" /\ {"op", "pc", "o", "t", "parent"} \subseteq DOMAIN req[h]
        /\ req[h].t \in Team /\ TeamOrg[req[h].t] = req[h].o /\ req[h].parent \in Team \cup {Nil}
        /\ "above" \notin DOMAIN req[h]
    BY <1>0 DEF LockSubtree, At, TreeRequest, Shape
  <2>4. DOMAIN s = {"height", "want"} /\ s.want = Under(req[h].parent)
    OBVIOUS
  <2> HIDE DEF s
  <2>5. /\ {"op", "pc", "o", "t", "parent", "want"} \subseteq DOMAIN r /\ "above" \notin DOMAIN r
        /\ r.op = "reparent" /\ r.pc = "target" /\ r.o = req[h].o /\ r.t = req[h].t /\ r.parent = req[h].parent
        /\ r.want = Under(r.parent)
    <3>1. Carries(r, req[h], "target", s)
      BY <2>3, OntoCarries
    <3> HIDE DEF r
    <3> QED
      BY <2>3, <2>4, <3>1 DEF Carries
  <2> HIDE DEF r
  <2>6. TreeRequest(r)
    BY <2>3, <2>5 DEF TreeRequest
  <2>7. TeamLive(req[h].t)
    BY <2>1 DEF LockedSubtree, Subtree, TeamLock
  <2>8. Rearranging(h)'
    BY <1>0, <2>1, <2>2, <2>5, <2>7 DEF Rearranging, TeamLive
  <2> QED
    BY <1>0, <2>2, <2>6, <2>8, ReadForest
<1> QED
  BY <1>1, <1>2

LEMMA TargetForest == ASSUME ForestInv, NEW h \in Handler, lockReparentTarget(h) PROVE ForestInv'
<1>0. Shape /\ TreeRequest(req[h]) /\ Rearranging(h) /\ UNCHANGED team
  BY DEF ForestInv, lockReparentTarget, orgVars
<1>1. CASE End(h)
  BY <1>0, <1>1, EndForest
<1>2. CASE ~End(h)
  <2> DEFINE t == req[h].t
             p == req[h].parent
             above == IF p = Nil THEN <<>> ELSE Path(p)
             s == [above |-> above]
             r == Onto(req[h], "rewrite", s)
  <2>1. /\ GoLocked(h, req[h].want, r)
        /\ p # Nil => TeamLive(p) /\ TeamOrg[p] = req[h].o /\ t \notin Range(Path(p))
    BY <1>2 DEF lockReparentTarget, GetTeamForUpdate, Path, Onto
  <2>2. Frame(h, {}) /\ req'[h] = r /\ held'[h] = held[h] \cup req[h].want
    BY <1>0, <2>1, FrameOn DEF Shape, GoLocked, Onto
  <2>3. /\ req[h].op = "reparent" /\ req[h].pc = "target" /\ {"op", "pc", "o", "t", "parent"} \subseteq DOMAIN req[h]
        /\ t \in Team /\ TeamOrg[t] = req[h].o /\ p \in Team \cup {Nil}
        /\ "above" \notin DOMAIN req[h] /\ req[h].want = Under(p)
    BY <1>0 DEF lockReparentTarget, At, TreeRequest, Shape
  <2>4. DOMAIN s = {"above"} /\ s.above = above
    OBVIOUS
  <2> HIDE DEF s
  <2>5. /\ {"op", "pc", "o", "t", "parent", "above"} \subseteq DOMAIN r
        /\ r.op = "reparent" /\ r.pc = "rewrite" /\ r.o = req[h].o /\ r.t = t /\ r.parent = p /\ r.above = above
    <3>1. Carries(r, req[h], "rewrite", s)
      BY <2>3, OntoCarries
    <3> HIDE DEF r
    <3> QED
      BY <2>3, <2>4, <3>1 DEF Carries
  <2> HIDE DEF r
  <2>6. TreeRequest(r)
    BY <2>3, <2>5 DEF TreeRequest
  <2>7. TeamLive(t) /\ TeamLock(t) \in held[h]
    BY <1>0, <2>3 DEF Rearranging
  <2>8. Rearranging(h)'
    <3>1. \A x : TeamLive(x)' = TeamLive(x) /\ Path(x)' = Path(x)
      BY <1>0 DEF TeamLive, Path
    <3> QED
      BY <2>1, <2>2, <2>3, <2>5, <2>7, <3>1 DEF Rearranging, Under
  <2> QED
    BY <1>0, <2>2, <2>6, <2>8, ReadForest
<1> QED
  BY <1>1, <1>2

LEMMA CheckingForest ==
  ASSUME ForestInv, SubtreesSeenWhole, NEW h \in Handler, lockTeamForDeletion(h)
  PROVE  ForestInv'
<1>0. Shape /\ TreeRequest(req[h]) /\ UNCHANGED team
  BY DEF ForestInv, lockTeamForDeletion, orgVars
<1>1. CASE End(h)
  BY <1>0, <1>1, EndForest
<1>2. CASE ~End(h)
  <2> DEFINE t == req[h].t
             s == [primaries |-> {u \in User : tm[t][u] = "primary"}]
             r == Onto(req[h], "migrate", s)
  <2>1. GoLocked(h, {TeamLock(t)}, r) /\ LockedSubtree(h) = {TeamLock(t)}
    BY <1>2 DEF lockTeamForDeletion, TeamLock, Onto
  <2>2. Frame(h, {}) /\ req'[h] = r /\ held'[h] = held[h] \cup {TeamLock(t)}
    BY <1>0, <2>1, FrameOn DEF Shape, GoLocked, Onto
  <2>3. /\ req[h].op = "deleteteam" /\ req[h].pc = "locking" /\ {"op", "pc", "o", "t"} \subseteq DOMAIN req[h]
        /\ t \in Team /\ TeamOrg[t] = req[h].o
    BY <1>0 DEF lockTeamForDeletion, At, TreeRequest, Shape
  <2>4. Subtree(t) = {t}
    <3>1. \A x \in Subtree(t) : TeamLock(x) \in LockedSubtree(h)
      BY <2>3 DEF SubtreesSeenWhole, At, LockedSubtree, ListSubtreeForUpdate, TeamLock
    <3>2. \A x \in Subtree(t) : x = t
      BY <2>1, <3>1 DEF TeamLock
    <3>3. t \in Subtree(t)
      <4>1. TeamLock(t) \in LockedSubtree(h)
        BY <2>1
      <4> QED
        BY <4>1 DEF LockedSubtree, TeamLock
    <3> QED
      BY <3>2, <3>3
  <2>5. TeamLive(t)
    BY <2>4 DEF Subtree
  <2>6. DOMAIN s = {"primaries"}
    OBVIOUS
  <2> HIDE DEF s
  <2>7. /\ {"op", "pc", "o", "t"} \subseteq DOMAIN r
        /\ r.op = "deleteteam" /\ r.pc = "migrate" /\ r.o = req[h].o /\ r.t = t
    <3>1. Carries(r, req[h], "migrate", s)
      BY <2>3, OntoCarries
    <3> HIDE DEF r
    <3> QED
      BY <2>3, <2>6, <3>1 DEF Carries
  <2> HIDE DEF r
  <2>8. TreeRequest(r)
    BY <2>3, <2>7 DEF TreeRequest
  <2>9. Rearranging(h)'
    <3>1. \A x : TeamLive(x)' = TeamLive(x) /\ Subtree(x)' = Subtree(x)
      BY <1>0 DEF TeamLive, Subtree, OrgTeams
    <3> QED
      BY <2>2, <2>4, <2>5, <2>7, <3>1 DEF Rearranging
  <2> QED
    BY <1>0, <2>2, <2>8, <2>9, ReadForest
<1> QED
  BY <1>1, <1>2

-----------------------------------------------------------------------------
(* The statements that write the tree *)

(* A request that is over rearranges nothing.                              *)
LEMMA WrittenForest ==
  ASSUME ForestInv, NEW h \in Handler, End(h), TeamRows', Forest',
         \A k \in Handler \ {h} :
           /\ \A x \in Team : TeamLive(x) /\ TeamLock(x) \in held[k] => team'[x] = team[x]
           /\ At(k, "deleteteam", "migrate") => Subtree(req[k].t)' \subseteq Subtree(req[k].t)
  PROVE  ForestInv'
<1>0. Shape
  BY DEF ForestInv
<1>1. Frame(h, {}) /\ req'[h] = Idle
  BY <1>0, FrameEnd DEF End, Shape
<1>2. TreeRequest(req'[h]) /\ Rearranging(h)'
  BY <1>1 DEF TreeRequest, Rearranging, Idle
<1>3. ASSUME NEW k \in Handler \ {h} PROVE Rearranging(k)'
  <2>1. Rearranging(k) /\ TreeRequest(req[k]) /\ req'[k] = req[k] /\ held'[k] = held[k]
    BY <1>1 DEF ForestInv, Frame
  <2>2. ASSUME At(k, "deleteteam", "migrate") PROVE Subtree(req[k].t)' = Subtree(req[k].t)
    <3> DEFINE t == req[k].t
    <3>1. t \in Team /\ TeamLive(t) /\ TeamLock(t) \in held[k] /\ Subtree(t) = {t}
      BY <2>1, <2>2 DEF At, TreeRequest, Rearranging
    <3>2. team'[t] = team[t]
      BY <3>1
    <3>3. t \in Subtree(t)'
      <4>1. t \in Subtree(t)
        BY <3>1
      <4> QED
        BY <2>1, <3>2, <4>1 DEF Subtree, TeamLive, OrgTeams
    <3>4. Subtree(req[k].t)' \subseteq {t}
      BY <2>2, <3>1
    <3> QED
      BY <3>1, <3>3, <3>4
  <2> QED
    BY <2>1, <2>2, RearrangingStays
<1> QED
  BY <1>1, <1>2, <1>3, ForestStep

(* Who deletes a team has its row, and there is none but it below it.      *)
LEMMA DeleterHas ==
  ASSUME ForestInv, NEW k \in Handler, At(k, "deleteteam", "migrate")
  PROVE  req[k].t \in Team /\ TeamLive(req[k].t) /\ TeamLock(req[k].t) \in held[k] /\ Subtree(req[k].t) = {req[k].t}
BY DEF ForestInv, At, TreeRequest, Rearranging

LEMMA CreatedForest == ASSUME ForestInv, NEW h \in Handler, CreateTeam(h) PROVE ForestInv'
<1> DEFINE t == req[h].t
           p == req[h].parent
           above == IF p = Nil THEN <<>> ELSE Path(p)
<1>0. Shape /\ TreeRequest(req[h]) /\ TeamRows /\ Forest
  BY DEF ForestInv
<1>1. End(h) /\ t \in Team /\ p \in Team \cup {Nil} /\ Free(h, Under(p))
  BY <1>0 DEF CreateTeam, At, TreeRequest
<1>2. CASE team' = team
  BY <1>1, <1>2, EndForest
<1>3. CASE team' # team
  <2>1. /\ team[t].st = "absent" /\ Len(above) + 1 <= MaxDepth
        /\ IF p = Nil THEN above = <<>> ELSE TeamLive(p) /\ TeamOrg[p] = TeamOrg[t] /\ above = Path(p)
        /\ team' = [team EXCEPT ![t] = [st |-> "live", parent |-> p, path |-> Append(above, t)]]
    BY <1>3 DEF CreateTeam, GetTeamForUpdate, Path
  <2>2. \A k \in Handler \ {h} : req'[k] = req[k]
    BY <1>0, <1>1 DEF End, Shape
  <2> HIDE DEF t, p, above
  <2>3. /\ TeamRows' /\ Forest'
        /\ \A x \in Team : Subtree(x)' \subseteq Subtree(x) \cup {t}
        /\ \A x \in Team : t \in Subtree(x)' => x = t \/ (p # Nil /\ p \in Subtree(x))
    BY <1>0, <1>1, <2>1, ForestGrown
  <2>4. \A x \in Team : TeamLive(x) => team'[x] = team[x]
    BY <1>0, <1>1, <2>1 DEF TeamLive, TeamRows
  <2>5. ASSUME NEW k \in Handler \ {h}, At(k, "deleteteam", "migrate")
        PROVE  Subtree(req[k].t)' \subseteq Subtree(req[k].t)
    <3>1. PICK x \in Team : x = req[k].t
      BY <2>5, DeleterHas
    <3>2. x \in Team /\ TeamLive(x) /\ TeamLock(x) \in held[k] /\ Subtree(x) = {x}
      BY <2>5, <3>1, DeleterHas
    <3>3. t \notin Subtree(x)'
      <4>1. x # t
        BY <2>1, <3>2 DEF TeamLive
      <4>2. ~(p # Nil /\ p = x)
        BY <1>1, <3>2 DEF Free, Under
      <4> QED
        BY <2>3, <3>2, <4>1, <4>2
    <3>4. Subtree(x)' \subseteq Subtree(x)
      BY <2>3, <3>3
    <3> QED
      BY <2>2, <3>1, <3>4
  <2> QED
    BY <1>1, <2>3, <2>4, <2>5, WrittenForest
<1> QED
  BY <1>2, <1>3

LEMMA MovedForest == ASSUME ForestInv, NEW h \in Handler, ReparentSubtree(h) PROVE ForestInv'
<1> DEFINE t == req[h].t
           p == req[h].parent
           above == req[h].above
           moved == [x \in Subtree(t) |-> Rerooted(Path(x), t, above)]
<1>0. Shape /\ TreeRequest(req[h]) /\ Rearranging(h) /\ LocksApart /\ TeamRows /\ Forest
  BY DEF ForestInv
<1>1. /\ req[h].op = "reparent" /\ req[h].pc = "rewrite" /\ End(h) /\ t \in Team /\ p \in Team \cup {Nil}
      /\ Free(h, ListSubtreeForUpdate(t))
  BY <1>0 DEF ReparentSubtree, At, TreeRequest
<1>2. CASE team' = team
  BY <1>1, <1>2, EndForest
<1>3. CASE team' # team
  <2>1. Rewritten(t, p, above, moved)
    BY <1>3 DEF ReparentSubtree, Rewritten, Path
  <2>2. TeamLive(t) /\ Landing(t, p, above) /\ (p # Nil => TeamLock(p) \in held[h])
    BY <1>0, <1>1 DEF Rearranging, TreeRequest, Landing
  <2>3. \A k \in Handler \ {h} : req'[k] = req[k]
    BY <1>0, <1>1 DEF End, Shape
  <2> HIDE DEF t, p, above, moved
  <2>4. /\ TeamRows' /\ Forest'
        /\ \A x \in Team \ Subtree(t) : team'[x] = team[x]
        /\ \A x, y \in Team : y \in Subtree(x)' =>
             y \in Subtree(x) \/ (y \in Subtree(t) /\ p # Nil /\ p \in Subtree(x))
    BY <1>0, <1>1, <2>1, <2>2, ForestRerooted
  <2>5. ASSUME NEW k \in Handler \ {h}, NEW x \in Team, TeamLive(x), TeamLock(x) \in held[k] PROVE team'[x] = team[x]
    <3>1. x \notin Subtree(t)
      BY <1>1, <2>5 DEF Free, ListSubtreeForUpdate, TeamLock
    <3> QED
      BY <2>4, <3>1
  <2>6. ASSUME NEW k \in Handler \ {h}, At(k, "deleteteam", "migrate")
        PROVE  Subtree(req[k].t)' \subseteq Subtree(req[k].t)
    <3>1. PICK x \in Team : x = req[k].t
      BY <2>6, DeleterHas
    <3>2. x \in Team /\ TeamLive(x) /\ TeamLock(x) \in held[k] /\ Subtree(x) = {x}
      BY <2>6, <3>1, DeleterHas
    <3>3. ~(p # Nil /\ p \in Subtree(x))
      <4>1. held[h] \cap held[k] = {}
        BY <1>0 DEF LocksApart
      <4> QED
        BY <2>2, <3>2, <4>1
    <3>4. Subtree(x)' \subseteq Subtree(x)
      <4>1. Subtree(x)' \subseteq Team
        BY DEF Subtree, OrgTeams
      <4> QED
        BY <2>4, <3>3, <4>1
    <3> QED
      BY <2>3, <3>1, <3>4
  <2> QED
    BY <1>1, <2>4, <2>5, <2>6, WrittenForest
<1> QED
  BY <1>2, <1>3

LEMMA FelledForest == ASSUME ForestInv, NEW h \in Handler, DeleteTeam(h) PROVE ForestInv'
<1> DEFINE t == req[h].t
<1>0. Shape /\ LocksApart /\ TeamRows /\ Forest
  BY DEF ForestInv
<1>1. End(h) /\ At(h, "deleteteam", "migrate")
  BY DEF DeleteTeam
<1>2. CASE team' = team
  BY <1>1, <1>2, EndForest
<1>3. CASE team' # team
  <2>1. team' = [team EXCEPT ![t].st = "deleted"]
    BY <1>3 DEF DeleteTeam
  <2>2. t \in Team /\ TeamLive(t) /\ TeamLock(t) \in held[h] /\ Subtree(t) = {t}
    BY <1>1, DeleterHas
  <2>3. \A k \in Handler \ {h} : req'[k] = req[k]
    BY <1>0, <1>1 DEF End, Shape
  <2> HIDE DEF t
  <2>4. TeamRows' /\ Forest' /\ \A x \in Team : Subtree(x)' \subseteq Subtree(x)
    BY <1>0, <2>1, <2>2, ForestDeleted
  <2>5. ASSUME NEW k \in Handler \ {h}, NEW x \in Team, TeamLock(x) \in held[k] PROVE team'[x] = team[x]
    <3>1. held[h] \cap held[k] = {}
      BY <1>0 DEF LocksApart
    <3>2. x # t
      BY <2>2, <2>5, <3>1
    <3> QED
      BY <1>0, <2>1, <3>2 DEF TeamRows
  <2>6. ASSUME NEW k \in Handler \ {h}, At(k, "deleteteam", "migrate")
        PROVE  Subtree(req[k].t)' \subseteq Subtree(req[k].t)
    <3>1. PICK x \in Team : x = req[k].t
      BY <2>6, DeleterHas
    <3> QED
      BY <2>3, <2>4, <3>1
  <2> QED
    BY <1>1, <2>4, <2>5, <2>6, WrittenForest
<1> QED
  BY <1>2, <1>3

LEMMA TeamsForest == ASSUME ForestInv, SubtreesSeenWhole, NEW h \in Handler, TeamsStep(h) PROVE ForestInv'
<1>0. Shape
  BY DEF ForestInv
<1>1. CASE Create(h) \/ Update(h) \/ Delete(h)
  BY <1>1, ArrivalForest
<1>2. CASE ChooseSubtree(h) \/ LockSubtree(h) \/ lockReparentTarget(h) \/ lockTeamForDeletion(h)
  BY <1>2, ChoosingForest, LockingForest, TargetForest, CheckingForest
<1>3. CASE CreateTeam(h) \/ ReparentSubtree(h) \/ DeleteTeam(h)
  BY <1>3, CreatedForest, MovedForest, FelledForest
<1>4. CASE PutMember(h) \/ RemoveMember(h)
  <2>1. UNCHANGED team
    BY <1>4 DEF PutMember, RemoveMember, orgVars
  <2>2. CASE PutMember(h)
    BY <1>0, <2>1, <2>2, FrameGo, QuietForest DEF PutMember, Busyness, TreeOp
  <2>3. CASE RemoveMember(h)
    BY <1>0, <2>1, <2>3, FrameGo, QuietForest DEF RemoveMember, Busyness, TreeOp
  <2> QED
    BY <1>4, <2>2, <2>3
<1>5. CASE GetTeam(h) \/ AddMember(h)
  <2>1. UNCHANGED team /\ req[h].op \notin TreeOp
    BY <1>5 DEF GetTeam, AddMember, At, orgVars, TreeOp
  <2>2. End(h) \/ \E pc : Go(h, [req[h] EXCEPT !.pc = pc])
    BY <1>5 DEF GetTeam, AddMember
  <2> QED
    BY <1>0, <2>1, <2>2, FrameOn, QuietForest, EndForest
<1>6. CASE SetPrimary(h) \/ RemoveTeamMember(h)
  BY <1>6, EndForest DEF SetPrimary, RemoveTeamMember
<1>7. CASE EnsureDefaultMembership(h)
  BY <1>0, <1>7, FrameServe, QuietForest DEF EnsureDefaultMembership
<1> QED
  BY <1>1, <1>2, <1>3, <1>4, <1>5, <1>6, <1>7 DEF TeamsStep

(* Nothing else writes a team's row.                                       *)
LEMMA TreesUnwritten ==
  ASSUME NEW h \in Handler, PeopleStep(h) \/ SessionsStep(h) \/ LinksStep(h) \/ InvitesStep(h) \/ WorkflowsStep(h)
  PROVE  UNCHANGED team
<1>1. CASE PeopleStep(h)
  BY <1>1 DEF PeopleStep, orgVars, DeactivatePerson, ReactivatePerson, ForceLogoutPerson, RemovePerson, lifecycleAction,
     lockAdmins, adminsLocked, requireOtherAdmins, Deactivate, Reactivate, ForceLogout, RemoveFromOrg, UpdatePerson,
     ChangeOrgRole, UpdateMembershipRole, ChangePrimaryTeam, EnrolAsPrimary
<1>2. CASE SessionsStep(h)
  BY <1>2 DEF SessionsStep, orgVars, Login, finishLogin, Refresh, IssueTokenPair, Logout, LogoutAll,
     DeleteAllSessions, RevokeTokens, UpdateMe, UpdateProfile
<1>3. CASE LinksStep(h)
  BY <1>3 DEF LinksStep, orgVars, RequestReset, IssueReset, RequestEmailChange, Issue, GetUserByEmailAcrossOrgs,
     Consume, ConsumeCredentialLink, EmailTakenAtConsume, GetUserAfterConsume, signInAfterConsume,
     CreateUserForAdmin, runCreateUserWithLink, CreateUserWithSignInLink, runResetPassword, applyConsumedEffect
<1>4. CASE InvitesStep(h)
  BY <1>4 DEF InvitesStep, orgVars, CreateInvites, CreateInvite, RevokeInvite, RefreshInviteToken, Accept,
     loadAcceptableInvite, resolveAcceptUser, MarkInviteAccepted, signInAfterAccept
<1>5. CASE WorkflowsStep(h)
  BY <1>5 DEF WorkflowsStep, orgVars, CreateWorkflowBegin, CreateWorkflow, UpdateWorkflow, UpdateWorkflowBegin,
     DeleteWorkflowBegin, CreateStateBegin, DeleteStateBegin, CreateTransitionBegin, DeleteTransitionBegin,
     OnWorkflow, OnTransition, CountSpacesUsingWorkflow, GetState, DeleteWorkflow, CreateState, DeleteState,
     CreateTransition, DeleteTransition, CreateGuardBegin, CreatePostFunctionBegin, CreateApproverBegin,
     DeleteGuardBegin, DeletePostFunctionBegin, DeleteApproverBegin, CreateGuard, CreatePostFunction,
     CreateApprover, InsertTier, DeleteGuard, DeletePostFunction, DeleteApprover, DeleteTier,
     NewSpaceStep, CreateSpaceBegin, CreateSpaceTx, GetDefaultWorkflow, AssignWorkflowToSpace
<1> QED
  BY <1>1, <1>2, <1>3, <1>4, <1>5

LEMMA ForestInit == AccountsInit => ForestInv
<1>1. SUFFICES ASSUME AccountsInit PROVE ForestInv
  OBVIOUS
<1>2. PICK m \in DOMAIN Mixes : mix = With([name |-> m], Mixes[m])
  BY <1>1 DEF AccountsInit, ServerInit
<1>3. mix.name = m /\ m \in DOMAIN Casts
  BY <1>2, WithKeeps, EveryMixHasACast
<1>4. team = Casts[m].team /\ req = [h \in Handler |-> Idle] /\ held = [h \in Handler |-> {}]
  BY <1>1, <1>3 DEF AccountsInit, ServerInit, OrgInit, Cast
<1>5. TeamRows
  BY <1>3, <1>4, CastsAreTyped DEF TeamRows
<1>6. Forest
  BY <1>3, <1>4, CastTeamsStand DEF Forest, TeamLive
<1> QED
  BY <1>4, <1>5, <1>6 DEF ForestInv, Shape, LocksApart, TreeRequest, Rearranging, Idle

LEMMA ForestNext ==
  ASSUME ForestInv, SubtreesSeenWhole, [AccountsNext]_<<accountVars, space, workflowVars>>
  PROVE  ForestInv'
<1>0. Shape
  BY DEF ForestInv
<1>1. ASSUME NEW h \in Handler, PersonsStep(h) PROVE ForestInv'
  <2>1. CASE TeamsStep(h)
    BY <2>1, TeamsForest
  <2>2. CASE PeopleStep(h)
    BY <1>0, <2>2, PeopleFrame, TreesUnwritten, QuietForest DEF TreeOp, PeopleOp
  <2>3. CASE SessionsStep(h)
    BY <1>0, <2>3, SessionsFrame, TreesUnwritten, QuietForest DEF TreeOp, SessionOp
  <2>4. CASE LinksStep(h)
    BY <1>0, <2>4, LinksFrame, TreesUnwritten, QuietForest DEF TreeOp, LinkOp
  <2>5. CASE InvitesStep(h)
    BY <1>0, <2>5, InvitesFrame, TreesUnwritten, QuietForest DEF TreeOp, InviteOp
  <2>6. CASE Victim(h) /\ UNCHANGED orgVars
    BY <2>6, EndForest DEF Victim, orgVars
  <2> QED
    BY <1>1, <2>1, <2>2, <2>3, <2>4, <2>5, <2>6 DEF PersonsStep
<1>2. ASSUME NEW h \in Handler, WorkflowsStep(h) PROVE ForestInv'
  BY <1>0, <1>2, WorkflowsFrame, TreesUnwritten, QuietForest DEF TreeOp, WorkflowOp
<1>3. CASE UNCHANGED <<team, req, held>>
  BY <1>3 DEF ForestInv, Shape, LocksApart, TeamRows, Forest, TeamLive, Path, Rearranging, Subtree, OrgTeams
<1>4. CASE Expiry
  BY <1>3, <1>4 DEF Expiry, LinkExpires, InviteExpires, SessionExpires, orgVars, serverVars
<1>5. CASE UNCHANGED <<accountVars, space, workflowVars>>
  BY <1>3, <1>5 DEF accountVars, serverVars, orgVars
<1> QED
  BY <1>1, <1>2, <1>4, <1>5 DEF AccountsNext

(* The path of a live team is its live parent's path and itself, whatever  *)
(* teams are created, moved and deleted together (teams.sql, CreateTeam    *)
(* and ReparentSubtree, under the row locks of adapters/teams.go), so long *)
(* as none comes under a team whose deletion has chosen its rows and waits *)
(* for them.                                                               *)
THEOREM PathsFollowTheirParents == AccountsSpec /\ []SubtreesSeenWhole => []PathsFollowParents
<1>1. ForestInv => PathsFollowParents
  BY ForestHasPaths DEF ForestInv
<1>2. ForestInv /\ SubtreesSeenWhole /\ [AccountsNext]_<<accountVars, space, workflowVars>> => ForestInv'
  BY ForestNext
<1> QED
  BY ForestInit, <1>1, <1>2, PTL DEF AccountsSpec
-----------------------------------------------------------------------------
(* One primary team for each member *)

(* What the statements on team_members write.                              *)
Flags == [Team -> [User -> {"none", "member", "primary"}]]

LEMMA Added ==
  ASSUME NEW m \in Flags, NEW t \in Team, NEW u \in User
  PROVE  /\ AddTeamMember(m, t, u) \in Flags
         /\ \A x \in Team, v \in User :
              AddTeamMember(m, t, u)[x][v] = IF x = t /\ v = u /\ m[t][u] = "none" THEN "member" ELSE m[x][v]
BY DEF Flags, AddTeamMember

LEMMA Flagged ==
  ASSUME NEW m \in Flags, NEW t \in Team, NEW u \in User
  PROVE  /\ SetPrimaryFlag(m, t, u) \in Flags
         /\ \A x \in Team, v \in User :
              SetPrimaryFlag(m, t, u)[x][v] = IF x = t /\ v = u /\ m[t][u] # "none" THEN "primary" ELSE m[x][v]
BY DEF Flags, SetPrimaryFlag

LEMMA Cleared ==
  ASSUME NEW m \in Flags, NEW o \in Org, NEW u \in User
  PROVE  /\ ClearPrimaryTeam(m, o, u) \in Flags
         /\ \A x \in Team, v \in User :
              ClearPrimaryTeam(m, o, u)[x][v] =
                IF v = u /\ TeamOrg[x] = o /\ m[x][u] = "primary" THEN "member" ELSE m[x][v]
BY DEF Flags, ClearPrimaryTeam

LEMMA Dropped ==
  ASSUME NEW m \in Flags, NEW o \in Org, NEW u \in User
  PROVE  /\ DeleteTeamMembershipsInOrg(m, o, u) \in Flags
         /\ \A x \in Team, v \in User :
              DeleteTeamMembershipsInOrg(m, o, u)[x][v] = IF v = u /\ TeamOrg[x] = o THEN "none" ELSE m[x][v]
BY DEF Flags, DeleteTeamMembershipsInOrg

(* The primary team moves to t, which the person is in by then.            *)
Promote(m, o, t, u) == SetPrimaryFlag(ClearPrimaryTeam(m, o, u), t, u)

LEMMA Promoted ==
  ASSUME NEW m \in Flags, NEW o \in Org, NEW t \in Team, TeamOrg[t] = o, NEW u \in User, m[t][u] # "none"
  PROVE  /\ Promote(m, o, t, u) \in Flags
         /\ PrimaryTeams(Promote(m, o, t, u), o, u) = {t}
         /\ \A x \in Team, v \in User : v # u \/ TeamOrg[x] # o => Promote(m, o, t, u)[x][v] = m[x][v]
<1> DEFINE c == ClearPrimaryTeam(m, o, u)
           p == SetPrimaryFlag(c, t, u)
<1>1. c \in Flags /\ \A x \in Team, v \in User :
        c[x][v] = IF v = u /\ TeamOrg[x] = o /\ m[x][u] = "primary" THEN "member" ELSE m[x][v]
  BY Cleared
<1> HIDE DEF c
<1>2. p \in Flags /\ \A x \in Team, v \in User :
        p[x][v] = IF x = t /\ v = u /\ c[t][u] # "none" THEN "primary" ELSE c[x][v]
  BY <1>1, Flagged
<1> HIDE DEF p
<1>3. c[t][u] # "none" /\ \A x \in Team : TeamOrg[x] = o => c[x][u] # "primary"
  BY <1>1
<1>4. PrimaryTeams(p, o, u) = {t}
  BY <1>2, <1>3 DEF PrimaryTeams, OrgTeams
<1>5. \A x \in Team, v \in User : v # u \/ TeamOrg[x] # o => p[x][v] = m[x][v]
  BY <1>1, <1>2
<1>6. Promote(m, o, t, u) = p
  BY DEF Promote, c, p
<1> QED
  BY <1>2, <1>4, <1>5, <1>6

(* Enrolment gives the person a primary team, t, if he had none.           *)
LEMMA Enrolment ==
  ASSUME NEW m \in Flags, NEW o \in Org, NEW t \in Team, TeamOrg[t] = o, NEW u \in User
  PROVE  /\ EnrolIn(m, o, t, u) \in Flags
         /\ PrimaryTeams(EnrolIn(m, o, t, u), o, u) = IF PrimaryTeams(m, o, u) = {} THEN {t} ELSE PrimaryTeams(m, o, u)
         /\ \A x \in Team, v \in User : v # u \/ TeamOrg[x] # o => EnrolIn(m, o, t, u)[x][v] = m[x][v]
<1> DEFINE a == AddTeamMember(m, t, u)
           p == SetPrimaryFlag(a, t, u)
<1>1. a \in Flags /\ \A x \in Team, v \in User : a[x][v] = IF x = t /\ v = u /\ m[t][u] = "none" THEN "member" ELSE m[x][v]
  BY Added
<1> HIDE DEF a
<1>2. p \in Flags /\ \A x \in Team, v \in User : p[x][v] = IF x = t /\ v = u /\ a[t][u] # "none" THEN "primary" ELSE a[x][v]
  BY <1>1, Flagged
<1> HIDE DEF p
<1>3. CASE PrimaryTeams(m, o, u) = {}
  <2>1. a[t][u] # "none" /\ \A x \in Team : TeamOrg[x] = o => a[x][u] # "primary"
    BY <1>1, <1>3 DEF PrimaryTeams, OrgTeams
  <2>2. PrimaryTeams(p, o, u) = {t}
    BY <1>2, <2>1 DEF PrimaryTeams, OrgTeams
  <2>3. \A x \in Team, v \in User : v # u \/ TeamOrg[x] # o => p[x][v] = m[x][v]
    BY <1>1, <1>2
  <2>4. EnrolIn(m, o, t, u) = p
    BY <1>3 DEF EnrolIn, p, a
  <2> QED
    BY <1>2, <1>3, <2>2, <2>3, <2>4
<1>4. CASE PrimaryTeams(m, o, u) # {}
  <2>1. PrimaryTeams(a, o, u) = PrimaryTeams(m, o, u)
    BY <1>1 DEF PrimaryTeams, OrgTeams
  <2>2. \A x \in Team, v \in User : v # u \/ TeamOrg[x] # o => a[x][v] = m[x][v]
    BY <1>1
  <2>3. EnrolIn(m, o, t, u) = a
    BY <1>4 DEF EnrolIn, a
  <2> QED
    BY <1>1, <1>4, <2>1, <2>2, <2>3
<1> QED
  BY <1>3, <1>4

(* The index lets nobody have two primary teams.                           *)
LEMMA AtMostOne ==
  ASSUME NEW m, OnePrimary(m), NEW o \in Org, NEW u \in User, NEW x, NEW y, PrimaryTeams(m, o, u) = {x, y}
  PROVE  x = y
<1>1. Cardinality({x, y}) <= 1
  BY DEF OnePrimary
<1>2. SUFFICES ASSUME x # y PROVE FALSE
  OBVIOUS
<1>3. IsFiniteSet({x}) /\ Cardinality({x}) = 1
  BY FS_Singleton
<1>4. Cardinality({x} \cup {y}) = Cardinality({x}) + 1
  BY <1>2, <1>3, FS_AddElement
<1>5. {x} \cup {y} = {x, y}
  OBVIOUS
<1> QED
  BY <1>1, <1>3, <1>4, <1>5
-----------------------------------------------------------------------------
(* OneTeamEach, of one person.                                             *)
Seated(o, u) ==
  IF Member(o, u) THEN \E t \in Team : TeamLive(t) /\ PrimaryTeams(tm, o, u) = {t}
  ELSE /\ \A t \in OrgTeams(o) : tm[t][u] = "none"
       /\ \A g \in grants : g.s = u => SpaceOrg[g.sp] # o

(* He keeps his place as he is, if his primary team stays and he is given  *)
(* no grant as a stranger.                                                 *)
TeamsStand == \A x \in Team : TeamLive(x) => TeamLive(x)'
AsBefore(o, u) ==
  /\ Member(o, u)' <=> Member(o, u)
  /\ \A x \in OrgTeams(o) : tm'[x][u] = tm[x][u]
  /\ \A g \in grants' : g.s = u /\ SpaceOrg[g.sp] = o => g \in grants \/ Member(o, u)

LEMMA StillSeated ==
  ASSUME NEW o \in Org, NEW u \in User, Seated(o, u), AsBefore(o, u),
         \A x \in PrimaryTeams(tm, o, u) : TeamLive(x) => TeamLive(x)'
  PROVE  Seated(o, u)'
<1>1. PrimaryTeams(tm, o, u)' = PrimaryTeams(tm, o, u)
  BY DEF PrimaryTeams, OrgTeams, AsBefore
<1>2. CASE Member(o, u)
  BY <1>1, <1>2 DEF Seated, AsBefore
<1>3. CASE ~Member(o, u)
  BY <1>3 DEF Seated, AsBefore, OrgTeams
<1> QED
  BY <1>2, <1>3

LEMMA AllSeated == OneTeamEach <=> \A o \in Org, u \in User : Seated(o, u)
BY DEF OneTeamEach, Seated

(* Nobody's place changes, or one person's only.                           *)
LEMMA SeatsKept ==
  ASSUME OneTeamEach, TeamsStand, \A o \in Org, u \in User : AsBefore(o, u)
  PROVE  OneTeamEach'
<1>1. \A o \in Org, u \in User : Seated(o, u)'
  BY AllSeated, StillSeated DEF TeamsStand, PrimaryTeams, OrgTeams
<1> QED
  BY <1>1 DEF OneTeamEach, Seated

LEMMA OneMoves ==
  ASSUME OneTeamEach, TeamsStand, NEW o \in Org, NEW u \in User, Seated(o, u)',
         \A p \in Org, v \in User : p # o \/ v # u => AsBefore(p, v)
  PROVE  OneTeamEach'
<1>1. \A p \in Org, v \in User : Seated(p, v)'
  BY AllSeated, StillSeated DEF TeamsStand, PrimaryTeams, OrgTeams
<1> QED
  BY <1>1 DEF OneTeamEach, Seated

(* The rest of the organization, when only rows of u in o are written.     *)
LEMMA OthersAsBefore ==
  ASSUME NEW o \in Org, NEW u \in User,
         \A p \in Org, v \in User : p # o \/ v # u => (Member(p, v)' <=> Member(p, v)),
         \A x \in Team, v \in User : v # u \/ TeamOrg[x] # o => tm'[x][v] = tm[x][v],
         \A g \in grants' : g \in grants \/ (g.s = u /\ SpaceOrg[g.sp] = o) \/ Member(SpaceOrg[g.sp], g.s)
  PROVE  \A p \in Org, v \in User : p # o \/ v # u => AsBefore(p, v)
BY DEF AsBefore, OrgTeams
-----------------------------------------------------------------------------
(* What the writes do to the places *)

RoleRows == DOMAIN role = Org /\ \A o \in Org : DOMAIN role[o] = User
DefaultsStand == \A o \in Org : TeamLive(DefaultTeam[o])

Seats == tm \in Flags /\ RoleRows /\ DefaultsStand /\ OneTeamEach

(* The columns of the requests that join and leave.                        *)
MemberOp == {"remove", "update", "putmember", "removemember", "deleteteam", "invite", "accept"}
MemberRequest(r) ==
  /\ r.op \in {"remove", "update"} => {"o", "u"} \subseteq DOMAIN r /\ r.o \in Org /\ r.u \in User
  /\ r.op = "update" =>
       /\ {"to", "t"} \subseteq DOMAIN r
       /\ r.pc \in {"team", "enrol"} => r.t \in Team
       /\ r.pc \notin {"team", "enrol"} => r.to \in Role /\ r.t \in Team \cup {Nil}
       /\ r.pc = "enrol" => TeamOrg[r.t] = r.o
  /\ r.op \in {"putmember", "removemember", "deleteteam"} =>
       {"o", "t"} \subseteq DOMAIN r /\ r.o \in Org /\ r.t \in Team /\ TeamOrg[r.t] = r.o
  /\ r.op \in {"putmember", "removemember"} => "u" \in DOMAIN r /\ r.u \in User
  /\ r.op = "deleteteam" /\ r.pc = "migrate" => ~IsDefault(r.t)
  /\ r.op = "invite" =>
       /\ {"o", "role", "team"} \subseteq DOMAIN r
       /\ r.o \in Org /\ r.role \in Role /\ r.team \in Team \cup {Nil} /\ (r.team # Nil => TeamOrg[r.team] = r.o)

(* The first statement of each still finds the person a member, the team   *)
(* there, and who has it as primary as it was read.                        *)
WhatWasReadStands ==
  \A h \in Handler :
    LET r == req[h] IN
    /\ At(h, "putmember", "add") \/ At(h, "update", "enrol") \/ At(h, "removemember", "delete") => Member(r.o, r.u)
    /\ At(h, "putmember", "primary") \/ At(h, "update", "enrol") \/ At(h, "accept", "join") => TeamLive(r.t)
    /\ At(h, "removemember", "delete") /\ tm[r.t][r.u] = "primary" /\ ~r.wasPrimary =>
         \A x \in OrgTeams(r.o) \ {r.t} : TeamLive(x) => tm[x][r.u] = "none"
    /\ At(h, "deleteteam", "migrate") => {u \in User : tm[r.t][u] = "primary"} \subseteq r.primaries

LEMMA RemovalSeats ==
  ASSUME Seats, NEW h \in Handler, MemberRequest(req[h]), RemoveFromOrg(h) PROVE Seats'
<1>1. PICK o \in Org, u \in User : o = req[h].o /\ u = req[h].u
  BY DEF RemoveFromOrg, At, MemberRequest
<1>2. /\ role' = [role EXCEPT ![o][u] = "none"] /\ tm' = DeleteTeamMembershipsInOrg(tm, o, u)
      /\ grants' = DeleteGrantsBySubject(grants, o, u) /\ UNCHANGED team
  BY <1>1 DEF RemoveFromOrg
<1>3. RoleRows' /\ ~Member(o, u)' /\ \A p \in Org, v \in User : p # o \/ v # u => (Member(p, v)' <=> Member(p, v))
  BY <1>1, <1>2 DEF Seats, RoleRows, Member
<1>4. /\ tm' \in Flags
      /\ \A x \in Team, v \in User : tm'[x][v] = IF v = u /\ TeamOrg[x] = o THEN "none" ELSE tm[x][v]
  BY <1>1, <1>2, Dropped DEF Seats
<1>5. \A g \in grants' : g \in grants /\ (g.s # u \/ SpaceOrg[g.sp] # o)
  BY <1>2 DEF DeleteGrantsBySubject
<1>6. TeamsStand /\ DefaultsStand'
  BY <1>2 DEF TeamsStand, TeamLive, Seats, DefaultsStand
<1>7. Seated(o, u)'
  BY <1>1, <1>3, <1>4, <1>5 DEF Seated, OrgTeams
<1>8. \A p \in Org, v \in User : p # o \/ v # u => AsBefore(p, v)
  BY <1>1, <1>3, <1>4, <1>5, OthersAsBefore
<1>9. OneTeamEach'
  BY <1>1, <1>6, <1>7, <1>8, OneMoves DEF Seats
<1> QED
  BY <1>3, <1>4, <1>6, <1>9 DEF Seats

LEMMA RoleSeats ==
  ASSUME Seats, NEW h \in Handler, MemberRequest(req[h]), UpdateMembershipRole(h) PROVE Seats'
<1> DEFINE o == req[h].o
           u == req[h].u
           to == req[h].to
<1>1. o \in Org /\ u \in User /\ to \in Role
  BY DEF UpdateMembershipRole, At, MemberRequest
<1>2. role' = [role EXCEPT ![o][u] = IF @ = "none" THEN @ ELSE to] /\ UNCHANGED <<team, tm, grants>>
  BY DEF UpdateMembershipRole
<1> HIDE DEF o, u, to
<1>3. RoleRows' /\ \A p \in Org, v \in User : Member(p, v)' <=> Member(p, v)
  BY <1>1, <1>2 DEF Seats, RoleRows, Member, Role, AdminRole
<1>4. TeamsStand /\ DefaultsStand'
  BY <1>2 DEF TeamsStand, TeamLive, Seats, DefaultsStand
<1>5. OneTeamEach'
  BY <1>2, <1>3, <1>4, SeatsKept DEF Seats, AsBefore
<1> QED
  BY <1>2, <1>3, <1>4, <1>5 DEF Seats

(* The primary team of a member moves to a live team.                      *)
LEMMA PromotedSeats ==
  ASSUME Seats, NEW o \in Org, NEW u \in User, NEW t \in Team, TeamOrg[t] = o, TeamLive(t), Member(o, u),
         NEW m \in Flags, m[t][u] # "none",
         \A x \in Team, v \in User : v # u \/ TeamOrg[x] # o => m[x][v] = tm[x][v],
         tm' = Promote(m, o, t, u), UNCHANGED <<role, team, grants>>
  PROVE  Seats'
<1>1. /\ tm' \in Flags /\ PrimaryTeams(tm', o, u) = {t}
      /\ \A x \in Team, v \in User : v # u \/ TeamOrg[x] # o => tm'[x][v] = tm[x][v]
  BY Promoted
<1>2. RoleRows' /\ TeamsStand /\ DefaultsStand' /\ \A p \in Org, v \in User : Member(p, v)' <=> Member(p, v)
  BY DEF Seats, RoleRows, TeamsStand, TeamLive, DefaultsStand, Member
<1>3. Seated(o, u)'
  BY <1>1, <1>2 DEF Seated, TeamsStand
<1>4. \A p \in Org, v \in User : p # o \/ v # u => AsBefore(p, v)
  BY <1>1, <1>2, OthersAsBefore
<1>5. OneTeamEach'
  BY <1>2, <1>3, <1>4, OneMoves DEF Seats
<1> QED
  BY <1>1, <1>2, <1>5 DEF Seats

LEMMA EnrolSeats ==
  ASSUME Seats, WhatWasReadStands, NEW h \in Handler, MemberRequest(req[h]), EnrolAsPrimary(h) PROVE Seats'
<1> DEFINE o == req[h].o
           u == req[h].u
           t == req[h].t
           m == AddTeamMember(tm, t, u)
<1>1. o \in Org /\ u \in User /\ t \in Team /\ TeamOrg[t] = o
  BY DEF EnrolAsPrimary, At, MemberRequest
<1>2. Member(o, u) /\ TeamLive(t)
  BY DEF EnrolAsPrimary, WhatWasReadStands
<1>3. tm' = Promote(m, o, t, u) /\ UNCHANGED <<role, team, grants>>
  BY DEF EnrolAsPrimary, Promote
<1> HIDE DEF o, u, t
<1>4. m \in Flags /\ m[t][u] # "none" /\ \A x \in Team, v \in User : v # u \/ TeamOrg[x] # o => m[x][v] = tm[x][v]
  BY <1>1, Added DEF Seats
<1> HIDE DEF m
<1> QED
  BY <1>1, <1>2, <1>3, <1>4, PromotedSeats

LEMMA PrimarySeats ==
  ASSUME Seats, WhatWasReadStands, NEW h \in Handler, MemberRequest(req[h]), SetPrimary(h) PROVE Seats'
<1> DEFINE o == req[h].o
           u == req[h].u
           t == req[h].t
<1>1. o \in Org /\ u \in User /\ t \in Team /\ TeamOrg[t] = o
  BY DEF SetPrimary, At, MemberRequest
<1>2. TeamLive(t)
  BY DEF SetPrimary, WhatWasReadStands
<1>3. tm' = (IF tm[t][u] = "none" THEN tm ELSE Promote(tm, o, t, u)) /\ UNCHANGED <<role, team, grants>>
  BY DEF SetPrimary, Promote
<1> HIDE DEF o, u, t
<1>4. CASE tm[t][u] = "none"
  BY <1>3, <1>4, SeatsKept DEF Seats, RoleRows, DefaultsStand, TeamLive, TeamsStand, AsBefore, Member
<1>5. CASE tm[t][u] # "none"
  <2>1. Seated(o, u)
    BY <1>1, AllSeated DEF Seats
  <2>2. Member(o, u)
    BY <1>1, <1>5, <2>1 DEF Seated, OrgTeams
  <2> QED
    BY <1>1, <1>2, <1>3, <1>5, <2>2, PromotedSeats DEF Seats
<1> QED
  BY <1>4, <1>5

LEMMA AddedSeats ==
  ASSUME Seats, WhatWasReadStands, NEW h \in Handler, MemberRequest(req[h]), AddMember(h) PROVE Seats'
<1>1. PICK o \in Org, u \in User, t \in Team : o = req[h].o /\ u = req[h].u /\ t = req[h].t /\ TeamOrg[t] = o
  BY DEF AddMember, At, MemberRequest
<1>2. Member(o, u)
  BY <1>1 DEF AddMember, WhatWasReadStands
<1>3. tm' = AddTeamMember(tm, t, u) /\ UNCHANGED <<role, team, grants>>
  BY <1>1 DEF AddMember
<1>4. /\ tm' \in Flags
      /\ \A x \in Team, v \in User : tm'[x][v] = IF x = t /\ v = u /\ tm[t][u] = "none" THEN "member" ELSE tm[x][v]
  BY <1>1, <1>3, Added DEF Seats
<1>5. RoleRows' /\ TeamsStand /\ DefaultsStand' /\ \A p \in Org, v \in User : Member(p, v)' <=> Member(p, v)
  BY <1>3 DEF Seats, RoleRows, TeamsStand, TeamLive, DefaultsStand, Member
<1>6. Seated(o, u)'
  <2>1. PrimaryTeams(tm, o, u)' = PrimaryTeams(tm, o, u)
    BY <1>1, <1>4 DEF PrimaryTeams, OrgTeams
  <2>2. Seated(o, u)
    BY <1>1, AllSeated DEF Seats
  <2> QED
    BY <1>1, <1>2, <1>5, <2>1, <2>2 DEF Seated, TeamsStand
<1>7. \A p \in Org, v \in User : p # o \/ v # u => AsBefore(p, v)
  BY <1>1, <1>3, <1>4, <1>5, OthersAsBefore
<1>8. OneTeamEach'
  BY <1>1, <1>5, <1>6, <1>7, OneMoves DEF Seats
<1> QED
  BY <1>4, <1>5, <1>8 DEF Seats

(* A person is enrolled as he becomes, or is, a member.                    *)
LEMMA EnrolledSeats ==
  ASSUME Seats, NEW o \in Org, NEW u \in User, NEW t \in Team, TeamOrg[t] = o, TeamLive(t),
         NEW r, r # "none", role' = [role EXCEPT ![o][u] = r] \/ (role' = role /\ Member(o, u)),
         tm' = EnrolIn(tm, o, t, u), UNCHANGED team,
         \A g \in grants' : g \in grants \/ (g.s = u /\ SpaceOrg[g.sp] = o)
  PROVE  Seats'
<1>1. /\ tm' \in Flags
      /\ PrimaryTeams(tm', o, u) = IF PrimaryTeams(tm, o, u) = {} THEN {t} ELSE PrimaryTeams(tm, o, u)
      /\ \A x \in Team, v \in User : v # u \/ TeamOrg[x] # o => tm'[x][v] = tm[x][v]
  BY Enrolment DEF Seats
<1>2. RoleRows' /\ Member(o, u)' /\ \A p \in Org, v \in User : p # o \/ v # u => (Member(p, v)' <=> Member(p, v))
  BY DEF Seats, RoleRows, Member
<1>3. TeamsStand /\ DefaultsStand' /\ TeamLive(t)'
  BY DEF Seats, TeamsStand, TeamLive, DefaultsStand
<1>4. Seated(o, u)'
  <2>1. Seated(o, u)
    BY AllSeated DEF Seats
  <2>2. CASE Member(o, u)
    BY <1>1, <1>2, <1>3, <2>1, <2>2 DEF Seated, TeamsStand
  <2>3. CASE ~Member(o, u)
    <3>1. PrimaryTeams(tm, o, u) = {}
      BY <2>1, <2>3 DEF Seated, PrimaryTeams, OrgTeams
    <3> QED
      BY <1>1, <1>2, <1>3, <3>1 DEF Seated
  <2> QED
    BY <2>2, <2>3
<1>5. \A p \in Org, v \in User : p # o \/ v # u => AsBefore(p, v)
  BY <1>1, <1>2, OthersAsBefore
<1>6. OneTeamEach'
  BY <1>3, <1>4, <1>5, OneMoves DEF Seats
<1> QED
  BY <1>1, <1>2, <1>3, <1>6 DEF Seats

(* Leaving a team, if the index allows what is put right.                  *)
LEMMA LeftSeats ==
  ASSUME Seats, WhatWasReadStands, NEW h \in Handler, MemberRequest(req[h]), RemoveTeamMember(h) PROVE Seats'
<1>1. PICK o \in Org, u \in User, t \in Team : o = req[h].o /\ u = req[h].u /\ t = req[h].t /\ TeamOrg[t] = o
  BY DEF RemoveTeamMember, At, MemberRequest
<1>2. Member(o, u) /\ (tm[t][u] = "primary" /\ ~req[h].wasPrimary =>
                         \A x \in OrgTeams(o) \ {t} : TeamLive(x) => tm[x][u] = "none")
  BY <1>1 DEF RemoveTeamMember, WhatWasReadStands
<1> DEFINE d == DefaultTeam[o]
           without == [tm EXCEPT ![t][u] = "none"]
           left == {x \in OrgTeams(o) : TeamLive(x) /\ without[x][u] # "none"}
<1>3. PICK m \in restoreMembershipInvariants(h) : tm' = IF OnePrimary(m) THEN m ELSE tm
  BY DEF RemoveTeamMember
<1>4. \/ left = {} /\ m = [without EXCEPT ![d][u] = "primary"]
      \/ left # {} /\ req[h].wasPrimary /\ \E f \in left : m = SetPrimaryFlag(without, f, u)
      \/ left # {} /\ ~req[h].wasPrimary /\ m = without
  <2>1. restoreMembershipInvariants(h) =
          IF left = {} THEN {[without EXCEPT ![d][u] = "primary"]}
          ELSE IF req[h].wasPrimary THEN {SetPrimaryFlag(without, f, u) : f \in GetFallbackPrimaryTeam(o, d, left)}
          ELSE {without}
    BY <1>1 DEF restoreMembershipInvariants
  <2>2. GetFallbackPrimaryTeam(o, d, left) \subseteq left
    BY DEF GetFallbackPrimaryTeam
  <2> HIDE DEF left, without, d
  <2>3. CASE left = {}
    <3>1. restoreMembershipInvariants(h) = {[without EXCEPT ![d][u] = "primary"]}
      BY <2>1, <2>3
    <3> QED
      BY <1>3, <2>3, <3>1
  <2>4. CASE left # {} /\ req[h].wasPrimary
    <3>1. restoreMembershipInvariants(h) = {SetPrimaryFlag(without, f, u) : f \in GetFallbackPrimaryTeam(o, d, left)}
      BY <2>1, <2>4
    <3> QED
      BY <1>3, <2>2, <2>4, <3>1
  <2>5. CASE left # {} /\ ~req[h].wasPrimary
    <3>1. restoreMembershipInvariants(h) = {without}
      BY <2>1, <2>5
    <3> QED
      BY <1>3, <2>5, <3>1
  <2> QED
    BY <2>3, <2>4, <2>5
<1>5. UNCHANGED <<role, team, grants>>
  BY DEF RemoveTeamMember
<1>6. RoleRows' /\ TeamsStand /\ DefaultsStand' /\ \A p \in Org, v \in User : Member(p, v)' <=> Member(p, v)
  BY <1>5 DEF Seats, RoleRows, TeamsStand, TeamLive, DefaultsStand, Member
<1>7. CASE tm' = tm
  BY <1>5, <1>6, <1>7, SeatsKept DEF Seats, AsBefore
<1>8. CASE OnePrimary(m) /\ tm' = m
  <2>1. d \in Team /\ TeamOrg[d] = o /\ TeamLive(d)
    BY <1>1, TeamsBelong DEF Seats, DefaultsStand
  <2>2. /\ without \in Flags
        /\ \A x \in Team, v \in User : without[x][v] = IF x = t /\ v = u THEN "none" ELSE tm[x][v]
    BY DEF Seats, Flags
  <2>3. PICK p \in Team : TeamLive(p) /\ PrimaryTeams(tm, o, u) = {p}
    BY <1>2, AllSeated DEF Seats, Seated
  <2>4. \A x \in Team : TeamOrg[x] = o => (tm[x][u] = "primary" <=> x = p)
    BY <2>3 DEF PrimaryTeams, OrgTeams
  <2>5. p \in Team /\ TeamOrg[p] = o
    BY <2>3 DEF PrimaryTeams, OrgTeams
  <2>6. left = {x \in Team : TeamOrg[x] = o /\ TeamLive(x) /\ without[x][u] # "none"}
    BY DEF OrgTeams
  <2> HIDE DEF without, left, d
  <2>7. /\ m \in Flags
        /\ \A x \in Team, v \in User : v # u \/ TeamOrg[x] # o => m[x][v] = tm[x][v]
        /\ \E x \in Team : TeamLive(x) /\ PrimaryTeams(m, o, u) = {x}
    <3>1. CASE left = {} /\ m = [without EXCEPT ![d][u] = "primary"]
      <4>1. m \in Flags /\ \A x \in Team, v \in User : m[x][v] = IF x = d /\ v = u THEN "primary" ELSE without[x][v]
        BY <2>1, <2>2, <3>1 DEF Flags
      <4>2. p = t
        BY <2>2, <2>3, <2>4, <2>5, <2>6, <3>1
      <4>3. PrimaryTeams(m, o, u) = {d}
        BY <2>1, <2>2, <2>4, <4>1, <4>2 DEF PrimaryTeams, OrgTeams
      <4> QED
        BY <1>1, <2>1, <2>2, <4>1, <4>3
    <3>2. CASE \E f \in left : m = SetPrimaryFlag(without, f, u)
      <4>1. PICK f \in left : m = SetPrimaryFlag(without, f, u)
        BY <3>2
      <4>2. f \in Team /\ TeamOrg[f] = o /\ TeamLive(f) /\ without[f][u] # "none"
        BY <2>6
      <4>3. m \in Flags /\ \A x \in Team, v \in User : m[x][v] = IF x = f /\ v = u THEN "primary" ELSE without[x][v]
        BY <2>2, <4>1, <4>2, Flagged
      <4>4. PrimaryTeams(m, o, u) = {f}
        <5>1. CASE p = t
          BY <2>2, <2>4, <4>2, <4>3, <5>1 DEF PrimaryTeams, OrgTeams
        <5>2. CASE p # t
          <6>1. PrimaryTeams(m, o, u) = {f, p}
            BY <2>2, <2>4, <2>5, <4>2, <4>3, <5>2 DEF PrimaryTeams, OrgTeams
          <6> QED
            BY <1>8, <6>1, AtMostOne
        <5> QED
          BY <5>1, <5>2
      <4> QED
        BY <1>1, <2>2, <4>2, <4>3, <4>4
    <3>3. CASE left # {} /\ ~req[h].wasPrimary /\ m = without
      <4>1. p # t
        <5>1. SUFFICES ASSUME p = t PROVE FALSE
          OBVIOUS
        <5>2. \A x \in Team : TeamOrg[x] = o /\ TeamLive(x) /\ x # t => tm[x][u] = "none"
          BY <1>2, <2>3, <2>4, <2>5, <3>3, <5>1 DEF OrgTeams
        <5> QED
          BY <2>2, <2>6, <3>3, <5>2
      <4>2. PrimaryTeams(m, o, u) = {p}
        BY <2>2, <2>4, <2>5, <3>3, <4>1 DEF PrimaryTeams, OrgTeams
      <4> QED
        BY <1>1, <2>2, <2>3, <3>3, <4>2
    <3> QED
      BY <1>4, <3>1, <3>2, <3>3
  <2>8. tm' \in Flags /\ Seated(o, u)'
    BY <1>2, <1>6, <1>8, <2>7 DEF Seated, TeamsStand
  <2>9. \A q \in Org, v \in User : q # o \/ v # u => AsBefore(q, v)
    BY <1>5, <1>6, <1>8, <2>7, OthersAsBefore
  <2>10. OneTeamEach'
    BY <1>6, <2>8, <2>9, OneMoves DEF Seats
  <2> QED
    BY <1>6, <2>8, <2>10 DEF Seats
<1> QED
  BY <1>3, <1>7, <1>8

(* A team goes, and its members with it to the default team.               *)
LEMMA DeletedSeats ==
  ASSUME Seats, WhatWasReadStands, team \in [Team -> TeamRow], NEW h \in Handler, MemberRequest(req[h]), DeleteTeam(h) PROVE Seats'
<1>1. PICK o \in Org, t \in Team : o = req[h].o /\ t = req[h].t /\ TeamOrg[t] = o /\ t # DefaultTeam[o]
  BY DEF DeleteTeam, At, MemberRequest, IsDefault
<1> DEFINE d == DefaultTeam[o]
           m == migrateMembersToDefault(h)
<1>2. {u \in User : tm[t][u] = "primary"} \subseteq req[h].primaries
  BY <1>1 DEF DeleteTeam, WhatWasReadStands
<1>3. CASE UNCHANGED <<tm, grants, team>>
  BY <1>3, SeatsKept DEF DeleteTeam, Seats, RoleRows, DefaultsStand, TeamLive, TeamsStand, AsBefore, Member
<1>4. CASE OnePrimary(m) /\ tm' = m /\ grants' = DeleteGrantsBySubject(grants, o, t) /\ team' = [team EXCEPT ![t].st = "deleted"]
  <2>1. d \in Team /\ TeamOrg[d] = o /\ TeamLive(d) /\ d # t
    BY <1>1, TeamsBelong DEF Seats, DefaultsStand
  <2>2. \A x \in Team : x # t => (TeamLive(x)' <=> TeamLive(x))
    BY <1>4 DEF TeamLive
  <2>3. \A v \in User : AddTeamMember(tm, d, v)[d][v] = IF tm[d][v] = "none" THEN "member" ELSE tm[d][v]
    BY <2>1, Added DEF Seats
  <2>4. \A x \in Team, v \in User : tm[x][v] \in {"none", "member", "primary"}
    BY DEF Seats, Flags
  <2>5. /\ m \in Flags
        /\ \A v \in User : m[t][v] = "none"
        /\ \A x \in Team \ {t, d}, v \in User : m[x][v] = tm[x][v]
        /\ \A v \in User :
             LET now == IF tm[t][v] = "none" \/ tm[d][v] # "none" THEN tm[d][v] ELSE "member"
             IN  m[d][v] = IF v \in req[h].primaries /\ now # "none" THEN "primary" ELSE now
    <3>1. m = [x \in Team |-> [v \in User |->
                CASE x = t -> "none"
                  [] x = d -> LET now == IF tm[t][v] = "none" THEN tm[d][v] ELSE AddTeamMember(tm, d, v)[d][v]
                              IN  IF v \in req[h].primaries /\ now # "none" THEN "primary" ELSE now
                  [] OTHER -> tm[x][v]]]
      BY <1>1 DEF migrateMembersToDefault
    <3> HIDE DEF m, d
    <3>2. \A v \in User : m[t][v] = "none"
      BY <2>1, <3>1
    <3>3. \A x \in Team \ {t, d}, v \in User : m[x][v] = tm[x][v]
      BY <3>1
    <3>4. ASSUME NEW v \in User
          PROVE  LET now == IF tm[t][v] = "none" \/ tm[d][v] # "none" THEN tm[d][v] ELSE "member"
                 IN  m[d][v] = IF v \in req[h].primaries /\ now # "none" THEN "primary" ELSE now
      <4>1. m[d][v] = LET now == IF tm[t][v] = "none" THEN tm[d][v] ELSE AddTeamMember(tm, d, v)[d][v]
                      IN  IF v \in req[h].primaries /\ now # "none" THEN "primary" ELSE now
        BY <2>1, <3>1
      <4> QED
        BY <2>3, <4>1
    <3>5. m \in Flags
      <4>1. \A x \in Team, v \in User : m[x][v] \in {"none", "member", "primary"}
        BY <2>4, <3>2, <3>3, <3>4
      <4> QED
        BY <3>1, <4>1 DEF Flags
    <3> QED
      BY <3>2, <3>3, <3>4, <3>5
  <2> HIDE DEF m, d
  <2>6. RoleRows' /\ \A p \in Org, v \in User : Member(p, v)' <=> Member(p, v)
    BY DEF DeleteTeam, Seats, RoleRows, Member
  <2>7. DefaultsStand'
    <3>1. \A p \in Org : DefaultTeam[p] # t
      BY <1>1, TeamsBelong
    <3> QED
      BY <2>2, <3>1, TeamsBelong DEF Seats, DefaultsStand
  <2>8. \A g \in grants' : g \in grants
    BY <1>4 DEF DeleteGrantsBySubject
  <2>9. ASSUME NEW p \in Org \ {o}, NEW v \in User PROVE Seated(p, v)'
    <3>1. AsBefore(p, v)
      BY <1>1, <1>4, <2>1, <2>5, <2>6, <2>8 DEF AsBefore, OrgTeams
    <3>2. Seated(p, v)
      BY AllSeated DEF Seats
    <3>3. \A x \in PrimaryTeams(tm, p, v) : TeamLive(x) => TeamLive(x)'
      BY <1>1, <2>2 DEF PrimaryTeams, OrgTeams
    <3> QED
      BY <3>1, <3>2, <3>3, StillSeated
  <2>10. ASSUME NEW v \in User PROVE Seated(o, v)'
    <3>1. Seated(o, v)
      BY AllSeated DEF Seats
    <3>2. CASE ~Member(o, v)
      <4>1. \A x \in Team : TeamOrg[x] = o => tm[x][v] = "none"
        BY <3>1, <3>2 DEF Seated, OrgTeams
      <4>2. \A x \in Team : TeamOrg[x] = o => m[x][v] = "none"
        BY <1>1, <2>1, <2>5, <4>1
      <4> QED
        BY <1>4, <2>6, <2>8, <3>1, <3>2, <4>2 DEF Seated, OrgTeams
    <3>3. CASE Member(o, v)
      <4>1. PICK p \in Team : TeamLive(p) /\ PrimaryTeams(tm, o, v) = {p}
        BY <3>1, <3>3 DEF Seated
      <4>2. TeamOrg[p] = o /\ \A x \in Team : TeamOrg[x] = o => (tm[x][v] = "primary" <=> x = p)
        BY <4>1 DEF PrimaryTeams, OrgTeams
      <4>3. \E q \in Team : q # t /\ TeamLive(q) /\ PrimaryTeams(m, o, v) = {q}
        <5>1. CASE p = t
          <6>1. m[d][v] = "primary"
            BY <1>1, <1>2, <2>1, <2>5, <4>2, <5>1
          <6>2. PrimaryTeams(m, o, v) = {d}
            BY <1>1, <2>1, <2>5, <4>2, <5>1, <6>1 DEF PrimaryTeams, OrgTeams
          <6> QED
            BY <2>1, <6>2
        <5>2. CASE p # t
          <6>1. m[p][v] = "primary"
            BY <2>1, <2>5, <4>1, <4>2, <5>2
          <6>2. CASE m[d][v] = "primary"
            <7>1. PrimaryTeams(m, o, v) = {d, p}
              BY <1>1, <2>1, <2>5, <4>2, <5>2, <6>1, <6>2 DEF PrimaryTeams, OrgTeams
            <7>2. d = p
              BY <1>4, <7>1, AtMostOne
            <7> QED
              BY <2>1, <7>1, <7>2
          <6>3. CASE m[d][v] # "primary"
            <7>1. PrimaryTeams(m, o, v) = {p}
              BY <1>1, <2>1, <2>5, <4>2, <5>2, <6>1, <6>3 DEF PrimaryTeams, OrgTeams
            <7> QED
              BY <4>1, <5>2, <7>1
          <6> QED
            BY <6>2, <6>3
        <5> QED
          BY <5>1, <5>2
      <4> QED
        BY <1>4, <2>2, <2>6, <3>3, <4>3 DEF Seated
    <3> QED
      BY <3>2, <3>3
  <2>11. OneTeamEach'
    BY <2>9, <2>10 DEF OneTeamEach, Seated
  <2> QED
    BY <1>4, <2>5, <2>6, <2>7, <2>11 DEF Seats
<1> QED
  BY <1>1, <1>3, <1>4 DEF DeleteTeam
-----------------------------------------------------------------------------
(* The requests that join and leave *)

Sent(i) == invite[i].st # "none"
InviteFits(r) ==
  /\ r.o \in Org /\ r.role \in Role
  /\ r.team \in Team \cup {Nil} /\ (r.team # Nil => TeamOrg[r.team] = r.o)
InvitesInOrder  == InviteRows /\ \A i \in Invite : Sent(i) => InviteFits(invite[i])
InvitesStay == \A i \in Invite : Sent(i) => invite'[i].st # "none" /\ invite'[i].o = invite[i].o

(* The invitation of an acceptance, and the team it comes to.              *)
AcceptFits(h) ==
  LET r == req[h] IN
  r.op = "accept" =>
    /\ r.pc \in {"load", "resolve", "join"} => "i" \in DOMAIN r /\ r.i \in Invite
    /\ r.pc \in {"resolve", "join"} => Sent(r.i)
    /\ r.pc = "join" => {"u", "t"} \subseteq DOMAIN r /\ r.u \in User /\ r.t \in Team /\ TeamOrg[r.t] = invite[r.i].o

Offered == mix.roles \subseteq {"member", "admin"} /\ mix.teams \subseteq Team

Enrolled ==
  /\ Seats /\ InvitesInOrder /\ Offered
  /\ \A h \in Handler : MemberRequest(req[h]) /\ AcceptFits(h)

LEMMA EnrolledStep ==
  ASSUME Enrolled, NEW h \in Handler, Frame(h, {}), Seats', InvitesInOrder', InvitesStay,
         MemberRequest(req'[h]), AcceptFits(h)'
  PROVE  Enrolled'
<1>1. ASSUME NEW k \in Handler \ {h} PROVE MemberRequest(req'[k]) /\ AcceptFits(k)'
  <2>1. req'[k] = req[k] /\ MemberRequest(req[k]) /\ AcceptFits(k)
    BY DEF Frame, Enrolled
  <2> QED
    BY <2>1 DEF AcceptFits, InvitesStay, Sent
<1>2. Offered'
  BY DEF Enrolled, Offered, Frame
<1> QED
  BY <1>1, <1>2 DEF Enrolled

(* A step by which h goes on with no request of these.                     *)
LEMMA QuietEnrolled ==
  ASSUME Enrolled, NEW h \in Handler, Frame(h, MemberOp), Seats', InvitesInOrder', InvitesStay
  PROVE  Enrolled'
<1>1. Frame(h, {})
  BY DEF Frame
<1>2. CASE req'[h].op \notin MemberOp
  BY <1>1, <1>2, EnrolledStep DEF MemberOp, MemberRequest, AcceptFits
<1>3. CASE req'[h].op \in MemberOp
  <2>1. req'[h] = req[h] /\ MemberRequest(req[h]) /\ AcceptFits(h)
    BY <1>3 DEF Enrolled, Frame
  <2>2. AcceptFits(h)'
    BY <2>1 DEF AcceptFits, InvitesStay, Sent
  <2> QED
    BY <1>1, <2>1, <2>2, EnrolledStep
<1> QED
  BY <1>2, <1>3

LEMMA InvitesUnchanged == ASSUME Enrolled, UNCHANGED inviteVars PROVE InvitesInOrder' /\ InvitesStay
BY DEF Enrolled, InvitesInOrder, InviteRows, InvitesStay, Sent, InviteFits, inviteVars

LEMMA SeatsUnchanged == ASSUME Enrolled, UNCHANGED <<role, tm, grants>>, TeamsStand PROVE Seats'
<1>1. RoleRows' /\ DefaultsStand'
  BY TeamsBelong DEF Enrolled, Seats, RoleRows, DefaultsStand, TeamsStand
<1>2. OneTeamEach'
  BY SeatsKept DEF Enrolled, Seats, AsBefore, Member
<1> QED
  BY <1>1, <1>2 DEF Enrolled, Seats

LEMMA TeamsUnchanged == ASSUME UNCHANGED team PROVE TeamsStand
BY DEF TeamsStand, TeamLive

(* A request that goes on keeps what it is about.                          *)
GoesOn(q, r, to) ==
  /\ q.op = r.op /\ q.pc = to /\ DOMAIN r \ {"want"} \subseteq DOMAIN q
  /\ \A f \in {"o", "u", "t", "to", "role", "team"} \cap DOMAIN r : q[f] = r[f]

LEMMA MemberGoesOn ==
  ASSUME NEW r, NEW q, NEW to, MemberRequest(r), GoesOn(q, r, to),
         r.op = "update" => IF to \in {"team", "enrol"} THEN r.t \in Team /\ (to = "enrol" => TeamOrg[r.t] = r.o)
                            ELSE r.pc \notin {"team", "enrol"},
         r.op = "deleteteam" /\ to = "migrate" => ~IsDefault(r.t)
  PROVE  MemberRequest(q)
<1>1. r.op \in {"remove", "update"} => {"o", "u"} \subseteq DOMAIN q /\ q.o = r.o /\ q.u = r.u
  BY DEF MemberRequest, GoesOn
<1>2. r.op = "update" => {"to", "t"} \subseteq DOMAIN q /\ q.to = r.to /\ q.t = r.t
  BY DEF MemberRequest, GoesOn
<1>3. r.op \in {"putmember", "removemember", "deleteteam"} => {"o", "t"} \subseteq DOMAIN q /\ q.o = r.o /\ q.t = r.t
  BY DEF MemberRequest, GoesOn
<1>4. r.op \in {"putmember", "removemember"} => "u" \in DOMAIN q /\ q.u = r.u
  BY DEF MemberRequest, GoesOn
<1>5. r.op = "invite" => {"o", "role", "team"} \subseteq DOMAIN q /\ q.o = r.o /\ q.role = r.role /\ q.team = r.team
  BY DEF MemberRequest, GoesOn
<1>6. q.op = r.op /\ q.pc = to
  BY DEF GoesOn
<1> QED
  BY <1>1, <1>2, <1>3, <1>4, <1>5, <1>6 DEF MemberRequest

LEMMA PcGoesOn ==
  ASSUME Shape, NEW h \in Handler, req[h].op # "idle", NEW to, NEW s, DOMAIN s = {"want"}
  PROVE  /\ GoesOn([req[h] EXCEPT !.pc = to], req[h], to)
         /\ GoesOn(With([req[h] EXCEPT !.pc = to], s), req[h], to)
<1> DEFINE r == [req[h] EXCEPT !.pc = to]
           q == With(r, s)
<1>1. DOMAIN r = DOMAIN req[h] /\ r.op = req[h].op /\ r.pc = to /\ \A f \in DOMAIN r \ {"pc"} : r[f] = req[h][f]
  BY DEF Shape
<1>2. {"op", "pc"} \subseteq DOMAIN req[h]
  BY DEF Shape
<1> HIDE DEF r
<1>3. DOMAIN r \subseteq DOMAIN q /\ \A f \in DOMAIN r : q[f] = r[f]
  BY DEF With
<1> HIDE DEF q
<1>4. GoesOn(r, req[h], to) /\ GoesOn(q, req[h], to)
  BY <1>1, <1>2, <1>3 DEF GoesOn
<1> QED
  BY <1>4 DEF q, r

(* A lock taken, a column learnt or lost.                                  *)
LEMMA OntoGoesOn ==
  ASSUME Shape, NEW h \in Handler, req[h].op # "idle", NEW to, NEW s, DOMAIN s \cap {"op", "pc"} = {}
  PROVE  GoesOn(Onto(req[h], to, s), req[h], to)
<1> DEFINE r == req[h]
           q == Onto(r, to, s)
<1>1. {"op", "pc"} \subseteq DOMAIN r
  BY DEF Shape
<1>2. Carries(q, r, to, s)
  BY <1>1, OntoCarries
<1> HIDE DEF q, r
<1>3. GoesOn(q, r, to)
  BY <1>1, <1>2 DEF GoesOn, Carries
<1> QED
  BY <1>3 DEF q, r

(* The handler goes on so, and writes none of the rows here.               *)
LEMMA GoingOnEnrolled ==
  ASSUME Enrolled, NEW h \in Handler, Frame(h, {}), Seats', UNCHANGED inviteVars,
         NEW to, GoesOn(req'[h], req[h], to), req[h].op # "accept",
         req[h].op = "update" => IF to \in {"team", "enrol"} THEN req[h].t \in Team /\ (to = "enrol" => TeamOrg[req[h].t] = req[h].o)
                                 ELSE req[h].pc \notin {"team", "enrol"},
         req[h].op = "deleteteam" /\ to = "migrate" => ~IsDefault(req[h].t)
  PROVE  Enrolled'
<1> DEFINE r == req[h]
           q == req'[h]
<1>1. MemberRequest(r)
  BY DEF Enrolled
<1>2. q.op # "accept"
  BY DEF GoesOn
<1>3. MemberRequest(q)
  <2> HIDE DEF r, q
  <2>1. /\ GoesOn(q, r, to)
        /\ r.op = "update" => IF to \in {"team", "enrol"} THEN r.t \in Team /\ (to = "enrol" => TeamOrg[r.t] = r.o)
                              ELSE r.pc \notin {"team", "enrol"}
        /\ r.op = "deleteteam" /\ to = "migrate" => ~IsDefault(r.t)
    BY DEF r, q
  <2> QED
    BY <1>1, <2>1, MemberGoesOn
<1>4. AcceptFits(h)'
  BY <1>2 DEF AcceptFits
<1> QED
  BY <1>3, <1>4, InvitesUnchanged, EnrolledStep

(* It answers.                                                             *)
LEMMA EndEnrolled ==
  ASSUME Enrolled, Shape, NEW h \in Handler, End(h), Seats', UNCHANGED inviteVars
  PROVE  Enrolled'
BY FrameEnd, InvitesUnchanged, QuietEnrolled DEF MemberOp

(* A request comes.                                                        *)
LEMMA BeginEnrolled ==
  ASSUME Enrolled, Shape, NEW h \in Handler, NEW r, Busyness(r), MemberRequest(r), r.op # "accept",
         Begin(h, r), UNCHANGED <<orgVars, inviteVars>>
  PROVE  Enrolled'
<1>1. Frame(h, {}) /\ req'[h] = r
  BY FrameGo DEF Begin, Shape
<1>2. Seats'
  BY SeatsUnchanged, TeamsUnchanged DEF orgVars
<1>3. AcceptFits(h)'
  BY <1>1 DEF AcceptFits
<1> QED
  BY <1>1, <1>2, <1>3, InvitesUnchanged, EnrolledStep
-----------------------------------------------------------------------------
(* The steps *)

LEMMA LifecycleEnrolled ==
  ASSUME Enrolled, Shape, UNCHANGED inviteVars, NEW h \in Handler, NEW op, op \in Lifecycle, lifecycleAction(h, op)
  PROVE  Enrolled'
<1>1. PICK o \in Org, u \in User : \E was :
        Begin(h, [op |-> op, pc |-> "member", o |-> o, u |-> u, was |-> was]) /\ UNCHANGED orgVars
  BY DEF lifecycleAction
<1>2. PICK was : Begin(h, [op |-> op, pc |-> "member", o |-> o, u |-> u, was |-> was]) /\ UNCHANGED orgVars
  BY <1>1
<1> DEFINE r == [op |-> op, pc |-> "member", o |-> o, u |-> u, was |-> was]
<1>3. Busyness(r) /\ MemberRequest(r) /\ r.op # "accept"
  BY DEF Busyness, MemberRequest, Lifecycle
<1> QED
  BY <1>2, <1>3, BeginEnrolled

LEMMA AskedEnrolled ==
  ASSUME Enrolled, Shape, UNCHANGED inviteVars, NEW h \in Handler, UpdatePerson(h)
  PROVE  Enrolled'
<1>1. PICK o \in Org, u \in User, to \in Work.roles \cup {Nil}, t \in Work.teams \cup {Nil} :
        /\ to # Nil \/ t # Nil
        /\ Begin(h, [op |-> "update", pc |-> IF to # Nil THEN "role" ELSE "team", o |-> o, u |-> u, to |-> to, t |-> t])
        /\ UNCHANGED orgVars
  BY DEF UpdatePerson
<1> DEFINE r == [op |-> "update", pc |-> IF to # Nil THEN "role" ELSE "team", o |-> o, u |-> u, to |-> to, t |-> t]
<1>2. (to # Nil => to \in Role) /\ t \in Team \cup {Nil}
  BY DEF Enrolled, Offered, Work, Role, AdminRole
<1>3. Busyness(r) /\ MemberRequest(r) /\ r.op # "accept"
  BY <1>1, <1>2 DEF Busyness, MemberRequest
<1> QED
  BY <1>1, <1>3, BeginEnrolled

(* Reading and locking administrators.                                     *)
LEMMA LocksEnrolled ==
  ASSUME Enrolled, Shape, UNCHANGED inviteVars, NEW h \in Handler, lockAdmins(h) \/ adminsLocked(h) \/ requireOtherAdmins(h)
  PROVE  Enrolled'
<1>0. Seats' /\ MemberRequest(req[h])
  BY SeatsUnchanged, TeamsUnchanged DEF orgVars, lockAdmins, adminsLocked, requireOtherAdmins, Enrolled
<1>1. Frame(h, {})
  BY PeopleFrame DEF PeopleStep
<1>2. CASE End(h)
  BY <1>0, <1>2, EndEnrolled
<1>3. CASE ~End(h)
  <2>1. req[h].op \in {"deactivate", "remove", "update"} /\ req[h].pc \notin {"team", "enrol"}
    BY DEF lockAdmins, adminsLocked, requireOtherAdmins, At
  <2>2. \E to \in {"locking", "count", "write"} : GoesOn(req'[h], req[h], to)
    <3>1. CASE lockAdmins(h)
      <4>1. PICK w : req'[h] = With([req[h] EXCEPT !.pc = "locking"], [want |-> w])
        BY <3>1 DEF lockAdmins, Go, Shape
      <4>2. DOMAIN [want |-> w] = {"want"}
        OBVIOUS
      <4> DEFINE s == [want |-> w]
      <4> HIDE DEF s
      <4>3. GoesOn(With([req[h] EXCEPT !.pc = "locking"], s), req[h], "locking")
        BY <2>1, <4>2, PcGoesOn DEF s
      <4> QED
        BY <4>1, <4>3 DEF s
    <3>2. CASE adminsLocked(h)
      <4> DEFINE r == req[h]
                 q == [f \in DOMAIN r \ {"want"} |-> IF f = "pc" THEN "count" ELSE r[f]]
      <4>1. req'[h] = q
        BY <3>2 DEF adminsLocked, GoLocked, Shape
      <4>2. {"op", "pc"} \subseteq DOMAIN r
        BY <2>1 DEF Shape
      <4>3. GoesOn(q, r, "count")
        BY <4>2 DEF GoesOn
      <4> QED
        BY <4>1, <4>3
    <3>3. CASE requireOtherAdmins(h)
      <4>1. req'[h] = [req[h] EXCEPT !.pc = "write"]
        BY <1>3, <3>3 DEF requireOtherAdmins, Go, Shape
      <4> DEFINE s == [want |-> {}]
      <4>2. DOMAIN s = {"want"}
        OBVIOUS
      <4> HIDE DEF s
      <4>3. GoesOn([req[h] EXCEPT !.pc = "write"], req[h], "write")
        BY <2>1, <4>2, PcGoesOn
      <4> QED
        BY <4>1, <4>3
    <3> QED
      BY <3>1, <3>2, <3>3
  <2> QED
    BY <1>0, <1>1, <2>1, <2>2, GoingOnEnrolled
<1> QED
  BY <1>2, <1>3

LEMMA RoleReadEnrolled ==
  ASSUME Enrolled, Shape, UNCHANGED inviteVars, NEW h \in Handler, ChangeOrgRole(h) \/ ChangePrimaryTeam(h)
  PROVE  Enrolled'
<1>0. Seats' /\ MemberRequest(req[h]) /\ req[h].op = "update"
  BY SeatsUnchanged, TeamsUnchanged DEF orgVars, ChangeOrgRole, ChangePrimaryTeam, Enrolled, At
<1>1. Frame(h, {})
  BY PeopleFrame DEF PeopleStep
<1>2. CASE End(h)
  BY <1>0, <1>2, EndEnrolled
<1>3. CASE ~End(h)
  <2> DEFINE s == [want |-> {}]
  <2>1. DOMAIN s = {"want"}
    OBVIOUS
  <2> HIDE DEF s
  <2>2. PICK to \in {"team", "demote", "write", "enrol"} :
          /\ req'[h] = [req[h] EXCEPT !.pc = to]
          /\ to = "enrol" => req[h].pc = "team" /\ TeamOrg[req[h].t] = req[h].o
          /\ to # "enrol" => req[h].pc = "role"
          /\ to = "team" => req[h].t # Nil
    <3>1. CASE ChangeOrgRole(h)
      <4>1. PICK to \in {"team", "demote", "write"} :
              (Go(h, [req[h] EXCEPT !.pc = to]) \/ Commit(h, [req[h] EXCEPT !.pc = to])) /\ (to = "team" => req[h].t # Nil)
        BY <1>3, <3>1 DEF ChangeOrgRole, applyPersonUpdates
      <4> QED
        BY <3>1, <4>1 DEF ChangeOrgRole, At, Go, Commit, Shape
    <3>2. CASE ChangePrimaryTeam(h)
      BY <1>3, <3>2 DEF ChangePrimaryTeam, At, Go, Shape
    <3> QED
      BY <3>1, <3>2
  <2>3. GoesOn(req'[h], req[h], to)
    BY <1>0, <2>1, <2>2, PcGoesOn
  <2>4. to \in {"team", "enrol"} => req[h].t \in Team
    BY <1>0, <2>2 DEF MemberRequest
  <2> QED
    BY <1>0, <1>1, <2>2, <2>3, <2>4, GoingOnEnrolled
<1> QED
  BY <1>2, <1>3

LEMMA RoleWrittenEnrolled ==
  ASSUME Enrolled, Shape, UNCHANGED inviteVars, NEW h \in Handler, UpdateMembershipRole(h)
  PROVE  Enrolled'
<1>0. Seats' /\ MemberRequest(req[h]) /\ req[h].op = "update" /\ req[h].pc = "write"
  BY RoleSeats DEF UpdateMembershipRole, Enrolled, At
<1>1. Frame(h, {})
  BY PeopleFrame DEF PeopleStep
<1>2. CASE End(h)
  BY <1>0, <1>2, EndEnrolled
<1>3. CASE ~End(h)
  <2> DEFINE s == [want |-> {}]
  <2>1. DOMAIN s = {"want"}
    OBVIOUS
  <2> HIDE DEF s
  <2>2. req'[h] = [req[h] EXCEPT !.pc = "team"] /\ req[h].t # Nil
    BY <1>3 DEF UpdateMembershipRole, applyPersonUpdates, Commit, Shape
  <2>3. GoesOn(req'[h], req[h], "team")
    BY <1>0, <2>1, <2>2, PcGoesOn
  <2>4. req[h].t \in Team
    BY <1>0, <2>2 DEF MemberRequest
  <2> QED
    BY <1>0, <1>1, <2>3, <2>4, GoingOnEnrolled
<1> QED
  BY <1>2, <1>3

LEMMA PeopleEnrolled ==
  ASSUME Enrolled, Shape, WhatWasReadStands, UNCHANGED inviteVars, NEW h \in Handler, PeopleStep(h)
  PROVE  Enrolled'
<1>1. CASE DeactivatePerson(h) \/ ReactivatePerson(h) \/ ForceLogoutPerson(h) \/ RemovePerson(h)
  <2>1. PICK op \in Lifecycle : lifecycleAction(h, op)
    BY <1>1 DEF DeactivatePerson, ReactivatePerson, ForceLogoutPerson, RemovePerson, Lifecycle
  <2> QED
    BY <2>1, LifecycleEnrolled
<1>2. CASE lockAdmins(h) \/ adminsLocked(h) \/ requireOtherAdmins(h)
  BY <1>2, LocksEnrolled
<1>3. CASE Deactivate(h) \/ Reactivate(h) \/ ForceLogout(h)
  <2>1. End(h) /\ UNCHANGED <<role, team, tm, grants>>
    BY <1>3 DEF Deactivate, Reactivate, ForceLogout
  <2> QED
    BY <2>1, SeatsUnchanged, TeamsUnchanged, EndEnrolled
<1>4. CASE RemoveFromOrg(h)
  <2>1. End(h) /\ Seats'
    BY <1>4, RemovalSeats DEF Enrolled, RemoveFromOrg
  <2> QED
    BY <2>1, EndEnrolled
<1>5. CASE EnrolAsPrimary(h)
  <2>1. End(h) /\ Seats'
    BY <1>5, EnrolSeats DEF Enrolled, EnrolAsPrimary
  <2> QED
    BY <2>1, EndEnrolled
<1>6. CASE UpdatePerson(h) \/ UpdateMembershipRole(h) \/ ChangeOrgRole(h) \/ ChangePrimaryTeam(h)
  BY <1>6, AskedEnrolled, RoleWrittenEnrolled, RoleReadEnrolled
<1> QED
  BY <1>1, <1>2, <1>3, <1>4, <1>5, <1>6 DEF PeopleStep

(* Requests of the teams handlers that are not of these.                   *)
LEMMA TreeEnrolled ==
  ASSUME Enrolled, Shape, TeamRows, UNCHANGED inviteVars, NEW h \in Handler,
         Create(h) \/ Update(h) \/ CreateTeam(h) \/ ReparentSubtree(h) \/ LockSubtree(h) \/ lockReparentTarget(h)
  PROVE  Enrolled'
<1>1. TeamsStand
  <2>1. CASE CreateTeam(h)
    <3> DEFINE t == req[h].t
    <3>1. \A x \in Team : TeamLive(x) => team'[x] = team[x]
      BY <2>1 DEF CreateTeam, TeamRows, TeamLive
    <3> QED
      BY <3>1 DEF TeamsStand, TeamLive
  <2>2. CASE ReparentSubtree(h)
    <3>1. \A x \in Team : team'[x].st = team[x].st
      BY <2>2 DEF ReparentSubtree, TeamRows, TeamRow
    <3> QED
      BY <3>1 DEF TeamsStand, TeamLive
  <2>3. CASE UNCHANGED orgVars
    BY <2>3, TeamsUnchanged DEF orgVars
  <2> QED
    BY <2>1, <2>2, <2>3 DEF Create, Update, LockSubtree, lockReparentTarget
<1>2. Seats'
  BY <1>1, SeatsUnchanged DEF Create, Update, CreateTeam, ReparentSubtree, LockSubtree, lockReparentTarget, orgVars
<1>3. Frame(h, MemberOp)
  <2>1. CASE Create(h)
    BY <2>1, FrameGo DEF Create, Busyness, MemberOp
  <2>2. CASE Update(h)
    BY <2>2, FrameGo DEF Update, Busyness, MemberOp
  <2>3. CASE End(h)
    BY <2>3, FrameEnd DEF MemberOp
  <2>4. CASE LockSubtree(h) /\ ~End(h)
    <3>1. req[h].op \notin MemberOp
      BY <2>4 DEF LockSubtree, At, MemberOp
    <3>2. PICK rows, s : GoLocked(h, rows, With(Drop([req[h] EXCEPT !.pc = "target"], "want"), s))
      BY <2>4 DEF LockSubtree
    <3> QED
      BY <3>1, <3>2, FrameOn
  <2>5. CASE lockReparentTarget(h) /\ ~End(h)
    <3>1. req[h].op \notin MemberOp
      BY <2>5 DEF lockReparentTarget, At, MemberOp
    <3>2. PICK rows, s : GoLocked(h, rows, With(Drop([req[h] EXCEPT !.pc = "rewrite"], "want"), s))
      BY <2>5 DEF lockReparentTarget
    <3> QED
      BY <3>1, <3>2, FrameOn
  <2> QED
    BY <2>1, <2>2, <2>3, <2>4, <2>5 DEF CreateTeam, ReparentSubtree
<1> QED
  BY <1>2, <1>3, InvitesUnchanged, QuietEnrolled

(* A subtree chosen, and a team locked to be deleted.                      *)
LEMMA ChosenEnrolled ==
  ASSUME Enrolled, Shape, UNCHANGED inviteVars, NEW h \in Handler, ChooseSubtree(h)
  PROVE  Enrolled'
<1>1. Seats' /\ MemberRequest(req[h])
  BY SeatsUnchanged, TeamsUnchanged DEF orgVars, ChooseSubtree, Enrolled
<1>2. Frame(h, {})
  BY TeamsFrame DEF TeamsStep
<1>3. req[h].op \in {"reparent", "deleteteam"}
  BY DEF ChooseSubtree
<1>4. GoesOn(req'[h], req[h], "locking")
  <2>1. PICK w : req'[h] = With([req[h] EXCEPT !.pc = "locking"], [want |-> w])
    BY DEF ChooseSubtree, Go, Shape
  <2> DEFINE s == [want |-> w]
  <2>2. DOMAIN s = {"want"}
    OBVIOUS
  <2> HIDE DEF s
  <2>3. GoesOn(With([req[h] EXCEPT !.pc = "locking"], s), req[h], "locking")
    BY <1>3, <2>2, PcGoesOn
  <2> QED
    BY <2>1, <2>3 DEF s
<1> QED
  BY <1>1, <1>2, <1>3, <1>4, GoingOnEnrolled

LEMMA DoomedEnrolled ==
  ASSUME Enrolled, Shape, UNCHANGED inviteVars, NEW h \in Handler, lockTeamForDeletion(h)
  PROVE  Enrolled'
<1>1. Seats' /\ req[h].op = "deleteteam"
  BY SeatsUnchanged, TeamsUnchanged DEF orgVars, lockTeamForDeletion, At
<1>2. CASE End(h)
  BY <1>1, <1>2, EndEnrolled
<1>3. CASE ~End(h)
  <2>1. Frame(h, {})
    BY TeamsFrame DEF TeamsStep
  <2>2. PICK rows, p : GoLocked(h, rows, With(Drop([req[h] EXCEPT !.pc = "migrate"], "want"), [primaries |-> p]))
    BY <1>3 DEF lockTeamForDeletion
  <2>3. ~IsDefault(req[h].t)
    BY <1>3 DEF lockTeamForDeletion
  <2> DEFINE s == [primaries |-> p]
             q == Onto(req[h], "migrate", s)
  <2>4. DOMAIN s \cap {"op", "pc"} = {}
    OBVIOUS
  <2>5. GoLocked(h, rows, q)
    BY <2>2 DEF Onto
  <2> HIDE DEF s
  <2>6. GoesOn(q, req[h], "migrate")
    BY <1>1, <2>4, OntoGoesOn
  <2> HIDE DEF q
  <2>7. req'[h] = q
    BY <2>5 DEF GoLocked, Shape
  <2> QED
    BY <1>1, <2>1, <2>3, <2>6, <2>7, GoingOnEnrolled
<1> QED
  BY <1>2, <1>3

(* A request about a team or one of its members comes.                     *)
LEMMA TeamAskedEnrolled ==
  ASSUME Enrolled, Shape, UNCHANGED inviteVars, NEW h \in Handler, Delete(h) \/ PutMember(h) \/ RemoveMember(h)
  PROVE  Enrolled'
<1>1. CASE Delete(h)
  <2>1. PICK o \in Org, t \in Team :
          teamInOrg(o, t) /\ Begin(h, [op |-> "deleteteam", pc |-> "subtree", o |-> o, t |-> t]) /\ UNCHANGED orgVars
    BY <1>1 DEF Delete
  <2> DEFINE r == [op |-> "deleteteam", pc |-> "subtree", o |-> o, t |-> t]
  <2>2. Busyness(r) /\ MemberRequest(r) /\ r.op # "accept"
    BY <2>1 DEF Busyness, MemberRequest, teamInOrg
  <2> QED
    BY <2>1, <2>2, BeginEnrolled
<1>2. CASE PutMember(h)
  <2>1. PICK o \in Org, t \in Work.teams, u \in User, primary \in BOOLEAN :
          /\ teamInOrg(o, t)
          /\ Begin(h, [op |-> "putmember", pc |-> "get", o |-> o, t |-> t, u |-> u, primary |-> primary]) /\ UNCHANGED orgVars
    BY <1>2 DEF PutMember
  <2> DEFINE r == [op |-> "putmember", pc |-> "get", o |-> o, t |-> t, u |-> u, primary |-> primary]
  <2>2. t \in Team
    BY DEF Enrolled, Offered, Work
  <2>3. Busyness(r) /\ MemberRequest(r) /\ r.op # "accept"
    BY <2>1, <2>2 DEF Busyness, MemberRequest, teamInOrg
  <2> QED
    BY <2>1, <2>3, BeginEnrolled
<1>3. CASE RemoveMember(h)
  <2>1. PICK o \in Org, t \in Team, u \in User :
          /\ teamInOrg(o, t)
          /\ Begin(h, [op |-> "removemember", pc |-> "delete", o |-> o, t |-> t, u |-> u, wasPrimary |-> tm[t][u] = "primary"])
          /\ UNCHANGED orgVars
    BY <1>3 DEF RemoveMember
  <2> DEFINE r == [op |-> "removemember", pc |-> "delete", o |-> o, t |-> t, u |-> u, wasPrimary |-> tm[t][u] = "primary"]
  <2>2. Busyness(r) /\ MemberRequest(r) /\ r.op # "accept"
    BY <2>1 DEF Busyness, MemberRequest, teamInOrg
  <2> QED
    BY <2>1, <2>2, BeginEnrolled
<1> QED
  BY <1>1, <1>2, <1>3

(* The team is there yet; the person is put in it.                         *)
LEMMA PutEnrolled ==
  ASSUME Enrolled, Shape, WhatWasReadStands, UNCHANGED inviteVars, NEW h \in Handler, GetTeam(h) \/ AddMember(h)
  PROVE  Enrolled'
<1>1. Seats' /\ req[h].op = "putmember"
  <2>1. MemberRequest(req[h])
    BY DEF Enrolled
  <2> QED
    BY <2>1, SeatsUnchanged, TeamsUnchanged, AddedSeats DEF orgVars, GetTeam, AddMember, At, Enrolled
<1>2. CASE End(h)
  BY <1>1, <1>2, EndEnrolled
<1>3. CASE ~End(h)
  <2>1. Frame(h, {})
    BY TeamsFrame DEF TeamsStep
  <2> DEFINE s == [want |-> {}]
  <2>2. DOMAIN s = {"want"}
    OBVIOUS
  <2> HIDE DEF s
  <2>3. PICK to : req'[h] = [req[h] EXCEPT !.pc = to]
    BY <1>3 DEF GetTeam, AddMember, Go, Shape
  <2>4. GoesOn(req'[h], req[h], to)
    BY <1>1, <2>2, <2>3, PcGoesOn
  <2> QED
    BY <1>1, <2>1, <2>4, GoingOnEnrolled
<1> QED
  BY <1>2, <1>3

LEMMA EnsuredEnrolled ==
  ASSUME Enrolled, Shape, UNCHANGED inviteVars, NEW h \in Handler, EnsureDefaultMembership(h)
  PROVE  Enrolled'
<1>1. PICK o \in Org, u \in User : Member(o, u) /\ tm' = EnrolIn(tm, o, DefaultTeam[o], u)
  BY DEF EnsureDefaultMembership
<1> DEFINE t == DefaultTeam[o]
<1>2. t \in Team /\ TeamOrg[t] = o /\ TeamLive(t)
  BY TeamsBelong DEF Enrolled, Seats, DefaultsStand
<1>3. Serve /\ UNCHANGED <<role, team, grants>>
  BY DEF EnsureDefaultMembership
<1> HIDE DEF t
<1>4. Seats'
  BY <1>1, <1>2, <1>3, EnrolledSeats DEF Enrolled, t
<1>5. Frame(h, MemberOp)
  BY <1>3, FrameServe
<1> QED
  BY <1>4, <1>5, InvitesUnchanged, QuietEnrolled

LEMMA TeamsEnrolled ==
  ASSUME Enrolled, Shape, TeamRows, WhatWasReadStands, UNCHANGED inviteVars, NEW h \in Handler, TeamsStep(h)
  PROVE  Enrolled'
<1>1. CASE \/ Create(h) \/ Update(h) \/ CreateTeam(h) \/ ReparentSubtree(h) \/ LockSubtree(h) \/ lockReparentTarget(h)
  BY <1>1, TreeEnrolled
<1>2. CASE DeleteTeam(h)
  <2>1. End(h) /\ Seats'
    BY <1>2, DeletedSeats DEF Enrolled, DeleteTeam, TeamRows
  <2> QED
    BY <2>1, EndEnrolled
<1>3. CASE SetPrimary(h)
  <2>1. End(h) /\ Seats'
    BY <1>3, PrimarySeats DEF Enrolled, SetPrimary
  <2> QED
    BY <2>1, EndEnrolled
<1>4. CASE RemoveTeamMember(h)
  <2>1. End(h) /\ Seats'
    BY <1>4, LeftSeats DEF Enrolled, RemoveTeamMember
  <2> QED
    BY <2>1, EndEnrolled
<1> QED
  BY <1>1, <1>2, <1>3, <1>4, ChosenEnrolled, DoomedEnrolled, TeamAskedEnrolled, PutEnrolled, EnsuredEnrolled DEF TeamsStep

LEMMA SessionsEnrolled ==
  ASSUME Enrolled, Shape, UNCHANGED inviteVars, NEW h \in Handler, SessionsStep(h)
  PROVE  Enrolled'
<1>1. Frame(h, MemberOp)
  BY SessionsFrame DEF MemberOp, SessionOp
<1>2. UNCHANGED <<role, team, tm, grants>>
  BY DEF SessionsStep, orgVars, Login, finishLogin, Refresh, IssueTokenPair, Logout, LogoutAll,
     DeleteAllSessions, RevokeTokens, UpdateMe, UpdateProfile, serverVars
<1> QED
  BY <1>1, <1>2, SeatsUnchanged, TeamsUnchanged, InvitesUnchanged, QuietEnrolled

LEMMA GrantGiven ==
  ASSUME NEW gs, NEW sp, NEW s, NEW r, NEW g \in CreateSpaceGrant(gs, sp, s, r)
  PROVE  g \in gs \/ (g.sp = sp /\ g.s = s)
<1> DEFINE id == Min(GrantId \ {k.id : k \in gs})
<1> HIDE DEF id
<1>1. g \in gs \cup {[id |-> id, sp |-> sp, s |-> s, role |-> r]}
  BY DEF CreateSpaceGrant, id
<1> QED
  BY <1>1

LEMMA LinksEnrolled ==
  ASSUME Enrolled, Shape, UNCHANGED inviteVars, NEW h \in Handler, LinksStep(h)
  PROVE  Enrolled'
<1>1. Frame(h, MemberOp)
  BY LinksFrame DEF MemberOp, LinkOp
<1>2. Seats'
  <2>1. CASE UNCHANGED <<role, team, tm, grants>>
    BY <2>1, SeatsUnchanged, TeamsUnchanged
  <2>2. CASE CreateUserForAdmin(h) \/ runCreateUserWithLink(h)
    <3>1. PICK o \in Org, u \in User, r \in Role :
            /\ role' = [role EXCEPT ![o][u] = r] /\ tm' = EnrolIn(tm, o, DefaultTeam[o], u) /\ UNCHANGED team
            /\ grants' = grants \/ grants' \in maybeGrantDefaultSpace(o, u)
      <4>1. Work.roles \subseteq Role
        BY DEF Enrolled, Offered, Work, Role, AdminRole
      <4> QED
        BY <2>2, <4>1 DEF CreateUserForAdmin, runCreateUserWithLink, CreateUserWithSignInLink
    <3> DEFINE t == DefaultTeam[o]
    <3>2. t \in Team /\ TeamOrg[t] = o /\ TeamLive(t)
      BY TeamsBelong DEF Enrolled, Seats, DefaultsStand
    <3>3. \A g \in grants' : g \in grants \/ (g.s = u /\ SpaceOrg[g.sp] = o)
      BY <3>1, GrantGiven DEF maybeGrantDefaultSpace
    <3>4. tm' = EnrolIn(tm, o, t, u)
      BY <3>1
    <3>5. r # "none"
      BY DEF Role, AdminRole
    <3> HIDE DEF t
    <3> QED
      BY <3>1, <3>2, <3>3, <3>4, <3>5, EnrolledSeats DEF Enrolled
  <2> QED
    BY <2>1, <2>2 DEF LinksStep, orgVars, RequestReset, IssueReset, RequestEmailChange, Issue, GetUserByEmailAcrossOrgs,
       Consume, ConsumeCredentialLink, EmailTakenAtConsume, GetUserAfterConsume, signInAfterConsume,
       runResetPassword, applyConsumedEffect
<1> QED
  BY <1>1, <1>2, InvitesUnchanged, QuietEnrolled

(* The creator of a space is given a grant only as a member.               *)
LEMMA WorkflowsEnrolled ==
  ASSUME Enrolled, Shape, UNCHANGED inviteVars, NEW h \in Handler, WorkflowsStep(h)
  PROVE  Enrolled'
<1>1. Frame(h, MemberOp)
  BY WorkflowsFrame DEF MemberOp, WorkflowOp
<1>2. UNCHANGED <<role, team, tm>> /\ (UNCHANGED grants \/ CreateSpaceTx(h))
  BY DEF WorkflowsStep, orgVars, CreateWorkflowBegin, CreateWorkflow, UpdateWorkflow, UpdateWorkflowBegin,
     DeleteWorkflowBegin, CreateStateBegin, DeleteStateBegin, CreateTransitionBegin, DeleteTransitionBegin,
     OnWorkflow, OnTransition, CountSpacesUsingWorkflow, GetState, DeleteWorkflow, CreateState, DeleteState,
     CreateTransition, DeleteTransition, CreateGuardBegin, CreatePostFunctionBegin, CreateApproverBegin,
     DeleteGuardBegin, DeletePostFunctionBegin, DeleteApproverBegin, CreateGuard, CreatePostFunction,
     CreateApprover, InsertTier, DeleteGuard, DeletePostFunction, DeleteApprover, DeleteTier,
     NewSpaceStep, CreateSpaceBegin, CreateSpaceTx, GetDefaultWorkflow, AssignWorkflowToSpace
<1>3. \A g \in grants' : g \in grants \/ Member(SpaceOrg[g.sp], g.s)
  <2>1. CASE UNCHANGED grants
    BY <2>1
  <2>2. CASE CreateSpaceTx(h) /\ ~UNCHANGED grants
    <3>1. PICK r : r = req[h]
      OBVIOUS
    <3>2. grants' = CreatorGrant(grants, r) /\ (r.needsGrant => Member(SpaceOrg[r.sp], r.u))
      BY <2>2, <3>1 DEF CreateSpaceTx
    <3>3. r.needsGrant /\ grants' = CreateSpaceGrant(grants, r.sp, r.u, SpaceAdmin)
      BY <2>2, <3>2 DEF CreatorGrant
    <3> QED
      BY <3>2, <3>3, GrantGiven
  <2> QED
    BY <1>2, <2>1, <2>2
<1>4. TeamsStand /\ RoleRows' /\ DefaultsStand'
  BY <1>2 DEF TeamsStand, TeamLive, Enrolled, Seats, RoleRows, DefaultsStand
<1>5. OneTeamEach'
  BY <1>2, <1>3, <1>4, SeatsKept DEF Enrolled, Seats, AsBefore, Member
<1>6. Seats'
  BY <1>2, <1>4, <1>5 DEF Enrolled, Seats
<1> QED
  BY <1>1, <1>6, InvitesUnchanged, QuietEnrolled

(* The administrator's side of an invitation.                              *)
LEMMA OfferedEnrolled ==
  ASSUME Enrolled, Shape, NEW h \in Handler, CreateInvites(h) \/ CreateInvite(h)
  PROVE  Enrolled'
<1>1. CASE CreateInvites(h)
  <2>1. PICK o \in Org, e \in Email, r \in Work.roles, t \in Work.teams \cup {Nil} :
          /\ checkInviteTeam(o, t)
          /\ Begin(h, [op |-> "invite", pc |-> "insert", o |-> o, email |-> e, role |-> r, team |-> t])
          /\ UNCHANGED <<orgVars, linkVars, inviteVars>>
    BY <1>1 DEF CreateInvites
  <2> DEFINE q == [op |-> "invite", pc |-> "insert", o |-> o, email |-> e, role |-> r, team |-> t]
  <2>2. r \in Role /\ t \in Team \cup {Nil} /\ (t # Nil => TeamOrg[t] = o)
    BY <2>1 DEF Enrolled, Offered, Work, Role, AdminRole, checkInviteTeam
  <2>3. Busyness(q) /\ MemberRequest(q) /\ q.op # "accept"
    BY <2>2 DEF Busyness, MemberRequest
  <2> QED
    BY <2>1, <2>3, BeginEnrolled
<1>2. CASE CreateInvite(h)
  <2>1. MemberRequest(req[h]) /\ req[h].op = "invite"
    BY <1>2 DEF Enrolled, CreateInvite, At
  <2> DEFINE r == req[h]
             row == [st |-> "active", o |-> r.o, email |-> r.email, role |-> r.role,
                     team |-> r.team, tok |-> 1, expired |-> FALSE]
             i == CHOOSE k \in FreeInvite : TRUE
  <2>2. row.st = "active" /\ row.o = r.o /\ row.role = r.role /\ row.team = r.team /\ DOMAIN row = DOMAIN NoInvite
    BY InviteFields
  <2>3. i \in Invite /\ invite[i].st = "none"
    BY <1>2 DEF CreateInvite, FreeInvite
  <2>4. invite' = invite \/ invite' = [invite EXCEPT ![i] = row]
    BY <1>2 DEF CreateInvite
  <2>5. UNCHANGED <<role, team, tm, grants, joined>> /\ End(h)
    BY <1>2 DEF CreateInvite, orgVars
  <2>6. InviteFits(row)
    BY <2>1, <2>2 DEF MemberRequest, InviteFits
  <2> HIDE DEF row, i, r
  <2>7. \A k \in Invite : k # i => invite'[k] = invite[k]
    BY <2>4 DEF Enrolled, InvitesInOrder, InviteRows
  <2>8. DOMAIN invite' = Invite /\ (invite'[i] = row \/ invite'[i] = invite[i])
    BY <2>3, <2>4 DEF Enrolled, InvitesInOrder, InviteRows
  <2>9. InvitesStay
    BY <2>3, <2>7 DEF InvitesStay, Sent
  <2>10. InviteRows'
    BY <2>2, <2>5, <2>7, <2>8 DEF Enrolled, InvitesInOrder, InviteRows
  <2>11. ASSUME NEW k \in Invite, Sent(k)' PROVE InviteFits(invite'[k])
    <3>1. CASE invite'[k] = invite[k]
      BY <2>11, <3>1 DEF Enrolled, InvitesInOrder, Sent
    <3>2. CASE k = i /\ invite'[i] = row
      BY <2>6, <3>2
    <3> QED
      BY <2>7, <2>8, <3>1, <3>2
  <2>12. InvitesInOrder'
    BY <2>10, <2>11 DEF InvitesInOrder, InviteFits
  <2>13. Seats'
    BY <2>5, SeatsUnchanged, TeamsUnchanged
  <2> QED
    BY <2>5, <2>9, <2>12, <2>13, FrameEnd, QuietEnrolled DEF MemberOp
<1> QED
  BY <1>1, <1>2

(* The state, the token or the expiry of an invitation changes.            *)
LEMMA InviteTouched ==
  ASSUME Enrolled, NEW i \in Invite, Sent(i), UNCHANGED joined,
         NEW row, DOMAIN row = DOMAIN NoInvite, row.st # "none",
         row.o = invite[i].o, row.role = invite[i].role, row.team = invite[i].team,
         invite' = [invite EXCEPT ![i] = row]
  PROVE  InvitesInOrder' /\ InvitesStay
<1>1. DOMAIN invite' = Invite /\ invite'[i] = row /\ \A k \in Invite : k # i => invite'[k] = invite[k]
  BY DEF Enrolled, InvitesInOrder, InviteRows
<1>2. InviteRows'
  BY <1>1 DEF Enrolled, InvitesInOrder, InviteRows
<1>3. InvitesStay
  BY <1>1 DEF InvitesStay, Sent
<1>4. InviteFits(row)
  BY DEF Enrolled, InvitesInOrder, InviteFits
<1>5. ASSUME NEW k \in Invite, Sent(k)' PROVE InviteFits(invite'[k])
  <2>1. CASE k = i
    BY <1>1, <1>4, <2>1
  <2>2. CASE k # i
    BY <1>1, <1>5, <2>2 DEF Enrolled, InvitesInOrder, Sent
  <2> QED
    BY <2>1, <2>2
<1> QED
  BY <1>2, <1>3, <1>5 DEF InvitesInOrder, InviteFits

LEMMA AdministeredEnrolled ==
  ASSUME Enrolled, Shape, NEW h \in Handler, RevokeInvite(h) \/ RefreshInviteToken(h)
  PROVE  Enrolled'
<1>1. PICK i \in Invite :
        /\ invite[i].st = "active" /\ Serve /\ UNCHANGED <<orgVars, linkVars, joined>>
        /\ \/ invite' = [invite EXCEPT ![i].st = "revoked"]
           \/ invite' = [invite EXCEPT ![i].tok = @ + 1, ![i].expired = FALSE]
  BY DEF RevokeInvite, RefreshInviteToken
<1>2. DOMAIN invite = Invite /\ DOMAIN invite[i] = DOMAIN NoInvite
  BY DEF Enrolled, InvitesInOrder, InviteRows
<1>3. PICK row : /\ invite' = [invite EXCEPT ![i] = row] /\ DOMAIN row = DOMAIN NoInvite /\ row.st # "none"
                 /\ row.o = invite[i].o /\ row.role = invite[i].role /\ row.team = invite[i].team
  <2>1. CASE invite' = [invite EXCEPT ![i].st = "revoked"]
    <3> DEFINE row == [invite[i] EXCEPT !.st = "revoked"]
    <3>1. invite' = [invite EXCEPT ![i] = row]
      BY <2>1
    <3>2. /\ DOMAIN row = DOMAIN NoInvite /\ row.st # "none"
          /\ row.o = invite[i].o /\ row.role = invite[i].role /\ row.team = invite[i].team
      BY <1>2, InviteFields
    <3> HIDE DEF row
    <3> QED
      BY <3>1, <3>2
  <2>2. CASE invite' = [invite EXCEPT ![i].tok = @ + 1, ![i].expired = FALSE]
    <3> DEFINE row == [invite[i] EXCEPT !.tok = @ + 1, !.expired = FALSE]
    <3>1. invite' = [invite EXCEPT ![i] = row]
      BY <1>2, <2>2
    <3>2. /\ DOMAIN row = DOMAIN NoInvite /\ row.st # "none"
          /\ row.o = invite[i].o /\ row.role = invite[i].role /\ row.team = invite[i].team
      BY <1>1, <1>2, InviteFields
    <3> HIDE DEF row
    <3> QED
      BY <3>1, <3>2
  <2> QED
    BY <1>1, <2>1, <2>2
<1>4. InvitesInOrder' /\ InvitesStay
  BY <1>1, <1>3, InviteTouched DEF Sent
<1>5. Seats'
  BY <1>1, SeatsUnchanged, TeamsUnchanged DEF orgVars
<1> QED
  BY <1>1, <1>4, <1>5, FrameServe, QuietEnrolled

(* The invited person's side.                                              *)
LEMMA LoadedEnrolled ==
  ASSUME Enrolled, Shape, NEW h \in Handler, Accept(h) \/ loadAcceptableInvite(h)
  PROVE  Enrolled'
<1>1. UNCHANGED inviteVars /\ Seats'
  BY SeatsUnchanged, TeamsUnchanged DEF Accept, loadAcceptableInvite, orgVars
<1>2. CASE End(h)
  BY <1>1, <1>2, EndEnrolled
<1>3. Frame(h, {})
  BY InvitesFrame DEF InvitesStep
<1>4. CASE Accept(h)
  <2>1. PICK i \in Invite : \E k, newUser :
          Begin(h, [op |-> "accept", pc |-> "load", i |-> i, tok |-> k, newUser |-> newUser])
    BY <1>4 DEF Accept
  <2>2. PICK k, newUser : Begin(h, [op |-> "accept", pc |-> "load", i |-> i, tok |-> k, newUser |-> newUser])
    BY <2>1
  <2> DEFINE q == [op |-> "accept", pc |-> "load", i |-> i, tok |-> k, newUser |-> newUser]
  <2>3. req'[h] = q
    BY <2>2 DEF Begin, Shape
  <2>4. MemberRequest(q) /\ q.op = "accept" /\ q.pc = "load" /\ "i" \in DOMAIN q /\ q.i = i
    BY DEF MemberRequest
  <2> HIDE DEF q
  <2>5. AcceptFits(h)'
    BY <2>3, <2>4 DEF AcceptFits
  <2> QED
    BY <1>1, <1>3, <2>3, <2>4, <2>5, InvitesUnchanged, EnrolledStep
<1>5. CASE loadAcceptableInvite(h) /\ ~End(h)
  <2> DEFINE i == req[h].i
             q == [req[h] EXCEPT !.pc = "resolve"]
  <2>1. req[h].op = "accept" /\ req[h].pc = "load" /\ "i" \in DOMAIN req[h] /\ i \in Invite
    BY <1>5 DEF loadAcceptableInvite, At, Enrolled, AcceptFits
  <2>2. Sent(i)
    BY <1>5 DEF loadAcceptableInvite, inviteState, Sent
  <2>3. req'[h] = q
    BY <1>5 DEF loadAcceptableInvite, Go, Shape
  <2>4. q.op = "accept" /\ q.pc = "resolve" /\ "i" \in DOMAIN q /\ q.i = i
    BY <2>1 DEF Shape
  <2> HIDE DEF q, i
  <2>5. MemberRequest(q)
    BY <2>4 DEF MemberRequest
  <2>6. AcceptFits(h)'
    BY <1>1, <2>1, <2>2, <2>3, <2>4 DEF AcceptFits, Sent, inviteVars, i
  <2> QED
    BY <1>1, <1>3, <2>3, <2>5, <2>6, InvitesUnchanged, EnrolledStep
<1> QED
  BY <1>2, <1>4, <1>5

LEMMA ResolvedEnrolled ==
  ASSUME Enrolled, Shape, NEW h \in Handler, resolveAcceptUser(h)
  PROVE  Enrolled'
<1>1. UNCHANGED inviteVars /\ Seats'
  BY SeatsUnchanged, TeamsUnchanged DEF resolveAcceptUser, orgVars
<1>2. CASE End(h)
  BY <1>1, <1>2, EndEnrolled
<1>3. CASE ~End(h)
  <2>1. Frame(h, {})
    BY InvitesFrame DEF InvitesStep
  <2>2. req[h].op = "accept" /\ "i" \in DOMAIN req[h] /\ req[h].i \in Invite /\ Sent(req[h].i)
    BY DEF resolveAcceptUser, At, Enrolled, AcceptFits
  <2>3. PICK i \in Invite : i = req[h].i
    BY <2>2
  <2>4. PICK u \in User, new \in BOOLEAN :
          Go(h, With([u |-> u, new |-> new, t |-> resolveInviteTeam(req[h].i)], [req[h] EXCEPT !.pc = "join"]))
    BY <1>3 DEF resolveAcceptUser, GetUserByEmail
  <2>5. PICK t : t = resolveInviteTeam(i)
    OBVIOUS
  <2>6. t \in Team /\ TeamOrg[t] = invite[i].o
    <3>1. InviteFits(invite[i])
      BY <2>2, <2>3 DEF Enrolled, InvitesInOrder
    <3> QED
      BY <2>5, <3>1, TeamsBelong DEF resolveInviteTeam, InviteFits
  <2> DEFINE p == [u |-> u, new |-> new, t |-> t]
             s == [req[h] EXCEPT !.pc = "join"]
             q == With(p, s)
  <2>7. DOMAIN p = {"u", "new", "t"} /\ p.u = u /\ p.t = t
    OBVIOUS
  <2>8. /\ {"op", "pc", "i"} \subseteq DOMAIN s /\ s.op = "accept" /\ s.pc = "join" /\ s.i = i
    BY <2>2, <2>3 DEF Shape
  <2>9. req'[h] = q
    BY <2>3, <2>4, <2>5 DEF Go, Shape
  <2> HIDE DEF p, s
  <2>10. /\ {"op", "pc", "i", "u", "t"} \subseteq DOMAIN q /\ q.op = "accept" /\ q.pc = "join" /\ q.i = i
         /\ q.u = u /\ q.t = t
    BY <2>7, <2>8 DEF With
  <2> HIDE DEF q
  <2>11. MemberRequest(q)
    BY <2>10 DEF MemberRequest
  <2>12. AcceptFits(h)'
    BY <1>1, <2>2, <2>3, <2>6, <2>9, <2>10 DEF AcceptFits, Sent, inviteVars
  <2> QED
    BY <1>1, <2>1, <2>9, <2>11, <2>12, InvitesUnchanged, EnrolledStep
<1> QED
  BY <1>2, <1>3

LEMMA JoinedEnrolled ==
  ASSUME Enrolled, Shape, WhatWasReadStands, NEW h \in Handler, MarkInviteAccepted(h)
  PROVE  Enrolled'
<1>1. CASE UNCHANGED <<role, tm, invite, joined>> /\ End(h)
  BY <1>1, SeatsUnchanged, TeamsUnchanged, EndEnrolled DEF MarkInviteAccepted, inviteVars
<1>2. CASE ~(UNCHANGED <<role, tm, invite, joined>> /\ End(h))
  <2>1. PICK i \in Invite, u \in User, t \in Team : i = req[h].i /\ u = req[h].u /\ t = req[h].t /\ TeamOrg[t] = invite[i].o
    BY DEF MarkInviteAccepted, At, Enrolled, AcceptFits
  <2>2. PICK o : o = invite[i].o
    OBVIOUS
  <2>3. Sent(i) /\ o \in Org /\ invite[i].role \in Role
    BY <2>1, <2>2 DEF MarkInviteAccepted, At, Enrolled, AcceptFits, InvitesInOrder, InviteFits
  <2>4. TeamLive(t)
    BY <2>1 DEF MarkInviteAccepted, WhatWasReadStands
  <2>5. /\ role' = [role EXCEPT ![o][u] = IF @ = "none" THEN invite[i].role ELSE @]
        /\ tm' = EnrolIn(tm, o, t, u) /\ UNCHANGED <<team, grants>>
        /\ invite' = [invite EXCEPT ![i].st = "accepted"]
        /\ joined' = [joined EXCEPT ![i] = Append(@, [u |-> u, tok |-> req[h].tok])]
    BY <1>2, <2>1, <2>2 DEF MarkInviteAccepted, enrolAcceptTeam
  <2> DEFINE r == IF role[o][u] = "none" THEN invite[i].role ELSE role[o][u]
  <2>6. role' = [role EXCEPT ![o][u] = r] /\ r # "none"
    BY <2>3, <2>5 DEF Enrolled, Seats, RoleRows, Role, AdminRole
  <2> HIDE DEF r
  <2>7. Seats'
    BY <2>1, <2>2, <2>3, <2>4, <2>5, <2>6, EnrolledSeats DEF Enrolled
  <2>8. /\ DOMAIN invite' = Invite /\ DOMAIN joined' = Invite
        /\ \A k \in Invite : k # i => invite'[k] = invite[k]
        /\ DOMAIN invite'[i] = DOMAIN NoInvite /\ invite'[i].st = "accepted"
        /\ invite'[i].o = o /\ invite'[i].role = invite[i].role /\ invite'[i].team = invite[i].team
    BY <2>2, <2>5, InviteFields DEF Enrolled, InvitesInOrder, InviteRows
  <2>9. InvitesStay
    BY <2>2, <2>8 DEF InvitesStay, Sent
  <2>10. InviteRows'
    BY <2>8 DEF Enrolled, InvitesInOrder, InviteRows
  <2>11. ASSUME NEW k \in Invite, Sent(k)' PROVE InviteFits(invite'[k])
    <3>1. CASE k = i
      BY <2>2, <2>3, <2>8, <3>1 DEF Enrolled, InvitesInOrder, InviteFits
    <3>2. CASE k # i
      BY <2>8, <2>11, <3>2 DEF Enrolled, InvitesInOrder, Sent
    <3> QED
      BY <3>1, <3>2
  <2>12. InvitesInOrder'
    BY <2>10, <2>11 DEF InvitesInOrder, InviteFits
  <2>13. Frame(h, {})
    BY InvitesFrame DEF InvitesStep
  <2>14. req'[h].op = "idle" \/ (req'[h].op = "accept" /\ req'[h].pc = "session")
    <3>1. End(h) \/ \E row : Commit(h, [op |-> "accept", pc |-> "session", u |-> u, row |-> row])
      BY <2>1 DEF MarkInviteAccepted
    <3>2. ASSUME NEW row, Commit(h, [op |-> "accept", pc |-> "session", u |-> u, row |-> row])
          PROVE  req'[h].op = "accept" /\ req'[h].pc = "session"
      BY <3>2 DEF Commit, Shape
    <3>3. CASE End(h)
      <4>1. req'[h] = [op |-> "idle"]
        BY <3>3 DEF End, Shape, Idle
      <4> QED
        BY <4>1
    <3> QED
      BY <3>1, <3>2, <3>3
  <2>15. MemberRequest(req'[h]) /\ AcceptFits(h)'
    BY <2>14 DEF MemberRequest, AcceptFits
  <2> QED
    BY <2>7, <2>9, <2>12, <2>13, <2>15, EnrolledStep
<1> QED
  BY <1>1, <1>2

LEMMA InvitesEnrolled ==
  ASSUME Enrolled, Shape, WhatWasReadStands, NEW h \in Handler, InvitesStep(h)
  PROVE  Enrolled'
<1>1. CASE signInAfterAccept(h)
  <2>1. End(h) /\ UNCHANGED <<role, team, tm, grants, inviteVars>>
    BY <1>1 DEF signInAfterAccept
  <2> QED
    BY <2>1, SeatsUnchanged, TeamsUnchanged, EndEnrolled
<1> QED
  BY <1>1, OfferedEnrolled, AdministeredEnrolled, LoadedEnrolled, ResolvedEnrolled, JoinedEnrolled DEF InvitesStep

LEMMA EnrolledInit == AccountsInit => Enrolled
<1>1. SUFFICES ASSUME AccountsInit PROVE Enrolled
  OBVIOUS
<1>2. PICK m \in DOMAIN Mixes : mix = With([name |-> m], Mixes[m])
  BY <1>1 DEF AccountsInit, ServerInit
<1>3. mix.name = m /\ m \in DOMAIN Casts
  BY <1>2, WithKeeps, EveryMixHasACast
<1>4. /\ role = Casts[m].role /\ team = Casts[m].team /\ tm = Casts[m].tm /\ grants = Casts[m].grants
      /\ req = [h \in Handler |-> Idle]
      /\ invite = [i \in Invite |-> IF i \in DOMAIN Casts[m].invite THEN Casts[m].invite[i] ELSE NoInvite]
  BY <1>1, <1>3 DEF AccountsInit, ServerInit, OrgInit, InviteInit, Cast
<1>5. Offered
  <2>1. mix.roles = Mixes[m].roles /\ mix.teams = Mixes[m].teams
    BY <1>2, WorkloadsAskForARole DEF With
  <2> QED
    BY <2>1, WorkloadsAskForARole, WorkloadsNameTeams DEF Offered
<1>6. tm \in Flags /\ RoleRows
  BY <1>3, <1>4, CastsAreTyped DEF Flags, RoleRows
<1>7. OneTeamEach /\ DefaultsStand
  <2>1. /\ \A o \in Org : Casts[m].team[DefaultTeam[o]].st = "live"
        /\ \A o \in Org, u \in User :
             IF Casts[m].role[o][u] # "none"
             THEN \E t \in Team : Casts[m].team[t].st = "live" /\ {x \in OrgTeams(o) : Casts[m].tm[x][u] = "primary"} = {t}
             ELSE /\ \A t \in OrgTeams(o) : Casts[m].tm[t][u] = "none"
                  /\ \A g \in Casts[m].grants : g.s = u => SpaceOrg[g.sp] # o
    BY <1>3, CastTeamsStand
  <2> QED
    BY <1>4, <2>1 DEF OneTeamEach, DefaultsStand, Member, TeamLive, PrimaryTeams
<1>8. InvitesInOrder
  <2>1. InviteRows
    BY <1>1, JoinsInit DEF Joins
  <2>2. NoInvite.st = "none"
    BY DEF NoInvite
  <2>3. \A i \in DOMAIN Casts[m].invite : InviteFits(Casts[m].invite[i])
    BY <1>3, CastTeamsStand DEF InviteFits
  <2>4. \A i \in Invite : Sent(i) => InviteFits(invite[i])
    BY <1>4, <2>2, <2>3 DEF Sent
  <2> QED
    BY <2>1, <2>4 DEF InvitesInOrder
<1>9. \A h \in Handler : MemberRequest(req[h]) /\ AcceptFits(h)
  BY <1>4 DEF MemberRequest, AcceptFits, Idle
<1> QED
  BY <1>5, <1>6, <1>7, <1>8, <1>9 DEF Enrolled, Seats

LEMMA EnrolledNext ==
  ASSUME Enrolled, ForestInv, WhatWasReadStands, [AccountsNext]_<<accountVars, space, workflowVars>>
  PROVE  Enrolled'
<1>0. Shape /\ TeamRows
  BY DEF ForestInv
<1>1. ASSUME NEW h \in Handler, PersonsStep(h) PROVE Enrolled'
  <2>1. CASE PeopleStep(h) /\ UNCHANGED inviteVars
    BY <1>0, <2>1, PeopleEnrolled
  <2>2. CASE TeamsStep(h) /\ UNCHANGED inviteVars
    BY <1>0, <2>2, TeamsEnrolled
  <2>3. CASE SessionsStep(h) /\ UNCHANGED inviteVars
    BY <1>0, <2>3, SessionsEnrolled
  <2>4. CASE LinksStep(h) /\ UNCHANGED inviteVars
    BY <1>0, <2>4, LinksEnrolled
  <2>5. CASE InvitesStep(h)
    BY <1>0, <2>5, InvitesEnrolled
  <2>6. CASE Victim(h) /\ UNCHANGED <<orgVars, inviteVars>>
    <3>1. End(h) /\ UNCHANGED <<role, team, tm, grants, inviteVars>>
      BY <2>6 DEF Victim, orgVars
    <3> QED
      BY <1>0, <3>1, SeatsUnchanged, TeamsUnchanged, EndEnrolled
  <2> QED
    BY <1>1, <2>1, <2>2, <2>3, <2>4, <2>5, <2>6 DEF PersonsStep
<1>2. ASSUME NEW h \in Handler, WorkflowsStep(h), UNCHANGED inviteVars PROVE Enrolled'
  BY <1>0, <1>2, WorkflowsEnrolled
<1>3. ASSUME UNCHANGED <<role, team, tm, grants, req, mix>>, InvitesInOrder', InvitesStay PROVE Enrolled'
  <2>1. Seats' /\ Offered'
    BY <1>3, SeatsUnchanged, TeamsUnchanged DEF Enrolled, Offered
  <2>2. \A h \in Handler : MemberRequest(req'[h]) /\ AcceptFits(h)'
    BY <1>3 DEF Enrolled, AcceptFits, InvitesStay, Sent
  <2> QED
    BY <1>3, <2>1, <2>2 DEF Enrolled
<1>4. CASE Expiry
  <2>1. UNCHANGED <<role, team, tm, grants, req, mix>>
    BY <1>4 DEF Expiry, LinkExpires, InviteExpires, SessionExpires, orgVars, serverVars
  <2>2. CASE UNCHANGED inviteVars
    BY <1>3, <2>1, <2>2, InvitesUnchanged
  <2>3. CASE \E i \in Invite : InviteExpires(i)
    <3>1. PICK i \in Invite : InviteExpires(i)
      BY <2>3
    <3> DEFINE row == [invite[i] EXCEPT !.expired = TRUE]
    <3>2. invite' = [invite EXCEPT ![i] = row] /\ invite[i].st = "active" /\ UNCHANGED joined
      BY <3>1 DEF InviteExpires
    <3>3. DOMAIN invite[i] = DOMAIN NoInvite
      BY DEF Enrolled, InvitesInOrder, InviteRows
    <3>4. /\ DOMAIN row = DOMAIN NoInvite /\ row.st # "none"
          /\ row.o = invite[i].o /\ row.role = invite[i].role /\ row.team = invite[i].team
      BY <3>2, <3>3, InviteFields
    <3> HIDE DEF row
    <3>5. InvitesInOrder' /\ InvitesStay
      BY <3>2, <3>4, InviteTouched DEF Sent
    <3> QED
      BY <1>3, <2>1, <3>5
  <2> QED
    BY <1>4, <2>2, <2>3 DEF Expiry
<1>5. CASE UNCHANGED <<accountVars, space, workflowVars>>
  BY <1>3, <1>5, InvitesUnchanged DEF accountVars, serverVars, orgVars
<1> QED
  BY <1>1, <1>2, <1>4, <1>5 DEF AccountsNext

(* Each member has one primary team, a live one, who is no member is in no *)
(* team, and the teams are a forest (adapters/teams.go, people.go,         *)
(* teams.sql and the unique index of team_members), whatever requests are  *)
(* in flight, so long as the first statement of each still finds what the  *)
(* handler read for it: the checks of a person and of a team are made in   *)
(* statements of their own, and none of them locks the row it reads.       *)
THEOREM TeamsStaySound == AccountsSpec /\ []SubtreesSeenWhole /\ []WhatWasReadStands => []TeamsAreSound
<1>1. ForestInv /\ Enrolled => TeamsAreSound
  BY ForestHasPaths DEF ForestInv, Enrolled, Seats, TeamsAreSound
<1>2. ForestInv /\ SubtreesSeenWhole /\ [AccountsNext]_<<accountVars, space, workflowVars>> => ForestInv'
  BY ForestNext
<1>3. Enrolled /\ ForestInv /\ WhatWasReadStands /\ [AccountsNext]_<<accountVars, space, workflowVars>> => Enrolled'
  BY EnrolledNext
<1> QED
  BY ForestInit, EnrolledInit, <1>1, <1>2, <1>3, PTL DEF AccountsSpec
=============================================================================
