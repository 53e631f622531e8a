--------------------------- MODULE AccountsProofs ---------------------------
(***************************************************************************)
(* Proofs about Accounts, for any people, organizations, teams, links,     *)
(* invitations and workloads: sessions die with the credentials they were  *)
(* opened with, and a single-use token takes effect once. Only the         *)
(* requests that carry a token say anything an invariant needs; the lemmas *)
(* of the first part set all the others aside.                             *)
(***************************************************************************)
EXTENDS Accounts, TLAPS

(* The request and lock tables have a row for every handler, and a busy    *)
(* handler is at a statement.                                              *)
Shape ==
  /\ DOMAIN req = Handler /\ DOMAIN held = Handler
  /\ \A h \in Handler : "op" \in DOMAIN req[h] /\ (req[h].op # "idle" => "pc" \in DOMAIN req[h])

(* The requests that say something of a session or of a link: only of      *)
(* these does an invariant below say anything.                             *)
TokenOp == {"login", "refresh", "issue", "consume", "accept"}

(* A request that is none of them.                                         *)
Mundane(r) ==
  /\ "op" \in DOMAIN r
  /\ r.op # "idle" => "pc" \in DOMAIN r
  /\ r.op \notin TokenOp

(* A step of h that leaves the links alone and goes on with a mundane      *)
(* request, or comes and goes in one statement.                            *)
Plain(h) ==
  /\ UNCHANGED <<link, uses>>
  /\ DOMAIN req' = Handler /\ DOMAIN held' = Handler
  /\ \A k \in Handler \ {h} : req'[k] = req[k] /\ held'[k] = held[k]
  /\ Mundane(req'[h]) \/ UNCHANGED <<req, held>>

(* A request that learns more keeps what it knew.                          *)
LEMMA WithKeeps ==
  ASSUME NEW r, NEW s
  PROVE  /\ DOMAIN With(r, s) = DOMAIN r \cup DOMAIN s
         /\ \A f \in DOMAIN r : With(r, s)[f] = r[f]
BY DEF With

LEMMA MundaneWith == ASSUME NEW r, NEW s, Mundane(r) PROVE Mundane(With(r, s))
<1>1. "op" \in DOMAIN r /\ "op" \in DOMAIN With(r, s) /\ With(r, s).op = r.op
  BY WithKeeps DEF Mundane
<1>2. "pc" \in DOMAIN r => "pc" \in DOMAIN With(r, s)
  BY WithKeeps
<1> QED
  BY <1>1, <1>2 DEF Mundane

LEMMA MundaneDrop == ASSUME NEW r, NEW f, Mundane(r), f \notin {"op", "pc"} PROVE Mundane(Drop(r, f))
BY DEF Mundane, Drop

LEMMA MundaneGo ==
  ASSUME Shape, NEW h \in Handler, NEW op, NEW pc, NEW to, At(h, op, pc), op \notin TokenOp
  PROVE  Mundane([req[h] EXCEPT !.pc = to])
BY DEF Shape, At, Mundane

(* However a handler goes on with a mundane request, its step is plain.    *)
LEMMA MundaneSteps ==
  ASSUME Shape, NEW h \in Handler, UNCHANGED linkVars, NEW r, NEW rows, Mundane(r),
         Begin(h, r) \/ Go(h, r) \/ Commit(h, r) \/ GoLocked(h, rows, r)
  PROVE  Plain(h)
BY DEF Shape, Begin, Go, Commit, GoLocked, Plain, linkVars

LEMMA Ends ==
  ASSUME Shape, NEW h \in Handler, UNCHANGED linkVars, End(h)
  PROVE  Plain(h)
BY DEF Shape, End, Plain, linkVars, Idle, Mundane, TokenOp

(* The administration of people is plain.                                  *)
LEMMA PeoplePlain ==
  ASSUME Shape, NEW h \in Handler, PeopleStep(h), UNCHANGED linkVars
  PROVE  Plain(h)
<1> USE DEF Shape, linkVars, Plain, Mundane, TokenOp, At, Begin, Go, End, Commit, Serve, GoLocked, Idle
<1>1. CASE DeactivatePerson(h) \/ ReactivatePerson(h) \/ ForceLogoutPerson(h) \/ RemovePerson(h)
  BY <1>1 DEF DeactivatePerson, ReactivatePerson, ForceLogoutPerson, RemovePerson, lifecycleAction, Lifecycle
<1>2. CASE lockAdmins(h)
  BY <1>2 DEF lockAdmins, With
<1>3. CASE adminsLocked(h)
  BY <1>3 DEF adminsLocked
<1>4. CASE requireOtherAdmins(h)
  BY <1>4 DEF requireOtherAdmins
<1>5. CASE Deactivate(h) \/ Reactivate(h) \/ ForceLogout(h) \/ RemoveFromOrg(h)
  BY <1>5 DEF Deactivate, Reactivate, ForceLogout, RemoveFromOrg
<1>6. CASE UpdatePerson(h)
  BY <1>6 DEF UpdatePerson
<1>7. CASE ChangeOrgRole(h)
  BY <1>7 DEF ChangeOrgRole, applyPersonUpdates
<1>8. CASE UpdateMembershipRole(h)
  BY <1>8 DEF UpdateMembershipRole, applyPersonUpdates
<1>9. CASE ChangePrimaryTeam(h) \/ EnrolAsPrimary(h)
  BY <1>9 DEF ChangePrimaryTeam, EnrolAsPrimary
<1> QED
  BY <1>1, <1>2, <1>3, <1>4, <1>5, <1>6, <1>7, <1>8, <1>9 DEF PeopleStep

(* So is that of teams,                                                    *)
LEMMA TeamsPlain ==
  ASSUME Shape, NEW h \in Handler, TeamsStep(h), UNCHANGED linkVars
  PROVE  Plain(h)
<1> USE DEF Shape, linkVars, Plain, Mundane, TokenOp, At, Begin, Go, End, Serve, GoLocked, Idle, With, Drop
<1>1. CASE Create(h) \/ CreateTeam(h)
  BY <1>1 DEF Create, CreateTeam
<1>2. CASE Update(h) \/ ChooseSubtree(h)
  BY <1>2 DEF Update, ChooseSubtree
<1>3. CASE LockSubtree(h)
  BY <1>3 DEF LockSubtree
<1>4. CASE lockReparentTarget(h) \/ ReparentSubtree(h)
  <2>1. CASE End(h)
    BY <2>1, Ends
  <2>2. CASE lockReparentTarget(h) /\ ~End(h)
    <3> DEFINE r == Drop([req[h] EXCEPT !.pc = "rewrite"], "want")
    <3>1. Mundane(r)
      BY <2>2, MundaneGo, MundaneDrop DEF lockReparentTarget, TokenOp
    <3> DEFINE p == req[h].parent
    <3>2. GoLocked(h, req[h].want, With(r, [above |-> IF p = Nil THEN <<>> ELSE team[p].path]))
      BY <2>2 DEF lockReparentTarget
    <3> QED
      BY <3>1, <3>2, MundaneWith, MundaneSteps
  <2> QED
    BY <1>4, <2>1, <2>2 DEF ReparentSubtree
<1>5. CASE Delete(h) \/ DeleteTeam(h)
  BY <1>5 DEF Delete, DeleteTeam
<1>6. CASE lockTeamForDeletion(h)
  <2>1. CASE End(h)
    BY <2>1, Ends
  <2>2. CASE ~End(h)
    <3> DEFINE r == Drop([req[h] EXCEPT !.pc = "migrate"], "want")
    <3>1. Mundane(r)
      BY <1>6, MundaneGo, MundaneDrop DEF lockTeamForDeletion, TokenOp
    <3>2. PICK rows, s : GoLocked(h, rows, With(r, s))
      BY <1>6, <2>2 DEF lockTeamForDeletion
    <3> QED
      BY <3>1, <3>2, MundaneWith, MundaneSteps
  <2> QED
    BY <2>1, <2>2
<1>7. CASE PutMember(h) \/ GetTeam(h) \/ AddMember(h) \/ SetPrimary(h)
  BY <1>7 DEF PutMember, GetTeam, AddMember, SetPrimary
<1>8. CASE RemoveMember(h) \/ RemoveTeamMember(h) \/ EnsureDefaultMembership(h)
  BY <1>8 DEF RemoveMember, RemoveTeamMember, EnsureDefaultMembership
<1> QED
  BY <1>1, <1>2, <1>3, <1>4, <1>5, <1>6, <1>7, <1>8 DEF TeamsStep

LEMMA WorkflowRequests ==
  ASSUME Shape, NEW h \in Handler, UNCHANGED linkVars, NEW op, NEW pc, NEW more, op \notin TokenOp \cup {"idle"},
         OnWorkflow(h, op, pc, more) \/ OnTransition(h, op, pc, more)
  PROVE  Plain(h)
<1>1. CASE OnWorkflow(h, op, pc, more)
  <2>1. PICK o, w, m : Begin(h, With([op |-> op, pc |-> pc, o |-> o, w |-> w], m))
    BY <1>1 DEF OnWorkflow
  <2>2. Mundane([op |-> op, pc |-> pc, o |-> o, w |-> w])
    BY DEF Mundane
  <2> QED
    BY <2>1, <2>2, MundaneWith, MundaneSteps
<1>2. CASE OnTransition(h, op, pc, more)
  <2>1. PICK o, w, e, m : Begin(h, With([op |-> op, pc |-> pc, o |-> o, w |-> w, e |-> e], m))
    BY <1>2 DEF OnTransition
  <2>2. Mundane([op |-> op, pc |-> pc, o |-> o, w |-> w, e |-> e])
    BY DEF Mundane
  <2> QED
    BY <2>1, <2>2, MundaneWith, MundaneSteps
<1> QED
  BY <1>1, <1>2

(* that of workflows,                                                      *)
LEMMA WorkflowsPlain ==
  ASSUME Shape, NEW h \in Handler, WorkflowsStep(h), UNCHANGED linkVars
  PROVE  Plain(h)
<1>1. CASE CreateWorkflowBegin(h)
  <2>1. PICK o, b : Begin(h, With([op |-> "createflow", pc |-> "write", o |-> o], b))
    BY <1>1 DEF CreateWorkflowBegin
  <2>2. Mundane([op |-> "createflow", pc |-> "write", o |-> o])
    BY DEF Mundane, TokenOp
  <2> QED
    BY <2>1, <2>2, MundaneWith, MundaneSteps
<1>2. CASE \/ UpdateWorkflowBegin(h) \/ DeleteWorkflowBegin(h) \/ CreateStateBegin(h) \/ DeleteStateBegin(h)
           \/ CreateTransitionBegin(h) \/ DeleteTransitionBegin(h)
  BY <1>2, WorkflowRequests DEF TokenOp, UpdateWorkflowBegin, DeleteWorkflowBegin, CreateStateBegin,
     DeleteStateBegin, CreateTransitionBegin, DeleteTransitionBegin
<1>3. CASE \/ CreateGuardBegin(h) \/ CreatePostFunctionBegin(h) \/ CreateApproverBegin(h)
           \/ DeleteGuardBegin(h) \/ DeletePostFunctionBegin(h) \/ DeleteApproverBegin(h)
  BY <1>3, WorkflowRequests DEF TokenOp, CreateGuardBegin, CreatePostFunctionBegin, CreateApproverBegin,
     DeleteGuardBegin, DeletePostFunctionBegin, DeleteApproverBegin
<1>4. CASE CountSpacesUsingWorkflow(h) \/ GetState(h)
  BY <1>4, Ends, MundaneGo, MundaneSteps DEF TokenOp, CountSpacesUsingWorkflow, GetState
<1>5. CASE \/ CreateWorkflow(h) \/ UpdateWorkflow(h) \/ DeleteWorkflow(h) \/ CreateState(h) \/ DeleteState(h)
           \/ CreateTransition(h) \/ DeleteTransition(h)
  BY <1>5, Ends DEF CreateWorkflow, UpdateWorkflow, DeleteWorkflow, CreateState, DeleteState, CreateTransition,
     DeleteTransition
<1>6. CASE \/ CreateGuard(h) \/ CreatePostFunction(h) \/ CreateApprover(h)
           \/ DeleteGuard(h) \/ DeletePostFunction(h) \/ DeleteApprover(h)
  BY <1>6, Ends DEF CreateGuard, CreatePostFunction, CreateApprover, InsertTier, DeleteGuard, DeletePostFunction,
     DeleteApprover, DeleteTier
<1>7. CASE CreateSpaceBegin(h)
  <2>1. PICK r : Begin(h, r) /\ DOMAIN r = {"op", "pc", "u", "sp", "t", "vis", "key", "needsGrant"} /\ r.op = "createspace"
    BY <1>7 DEF CreateSpaceBegin
  <2> QED
    BY <2>1, MundaneSteps DEF Mundane, TokenOp
<1>8. CASE CreateSpaceTx(h)
  <2>1. CASE End(h)
    BY <2>1, Ends
  <2>2. CASE ~End(h)
    <3>1. PICK sp : Commit(h, [op |-> "createspace", pc |-> "workflow", sp |-> sp])
      BY <1>8, <2>2 DEF CreateSpaceTx
    <3> QED
      BY <3>1, MundaneSteps DEF Mundane, TokenOp
  <2> QED
    BY <2>1, <2>2
<1>9. CASE GetDefaultWorkflow(h)
  <2>1. CASE End(h)
    BY <2>1, Ends
  <2>2. CASE ~End(h)
    <3>1. PICK w : Go(h, With([req[h] EXCEPT !.pc = "assign"], [w |-> w]))
      BY <1>9, <2>2 DEF GetDefaultWorkflow
    <3> QED
      BY <1>9, <3>1, MundaneGo, MundaneWith, MundaneSteps DEF GetDefaultWorkflow, TokenOp
  <2> QED
    BY <2>1, <2>2
<1>10. CASE AssignWorkflowToSpace(h)
  BY <1>10, Ends DEF AssignWorkflowToSpace
<1> QED
  BY <1>1, <1>2, <1>3, <1>4, <1>5, <1>6, <1>7, <1>8, <1>9, <1>10 DEF WorkflowsStep, NewSpaceStep

LEMMA WorkflowsKeep ==
  ASSUME NEW h \in Handler, WorkflowsStep(h)
  PROVE  UNCHANGED <<account, sess>>
BY DEF WorkflowsStep, orgVars, CreateWorkflowBegin, CreateWorkflow, UpdateWorkflow, UpdateWorkflowBegin,
       DeleteWorkflowBegin, CreateStateBegin, DeleteStateBegin, CreateTransitionBegin, DeleteTransitionBegin,
       OnWorkflow, OnTransition, CountSpacesUsingWorkflow, GetState, DeleteWorkflow, CreateState, DeleteState,
       CreateTransition, DeleteTransition, CreateGuardBegin, CreatePostFunctionBegin, CreateApproverBegin,
       DeleteGuardBegin, DeletePostFunctionBegin, DeleteApproverBegin, CreateGuard, CreatePostFunction,
       CreateApprover, InsertTier, DeleteGuard, DeletePostFunction, DeleteApprover, DeleteTier,
       NewSpaceStep, CreateSpaceBegin, CreateSpaceTx, GetDefaultWorkflow, AssignWorkflowToSpace

(* and the administrator's side of invitations.                            *)
LEMMA InvitationsPlain ==
  ASSUME Shape, NEW h \in Handler, CreateInvites(h) \/ CreateInvite(h) \/ RevokeInvite(h) \/ RefreshInviteToken(h)
  PROVE  Plain(h) /\ UNCHANGED <<account, sess>>
<1>1. UNCHANGED linkVars /\ UNCHANGED orgVars
  BY DEF CreateInvites, CreateInvite, RevokeInvite, RefreshInviteToken
<1>2. CASE CreateInvites(h)
  <2>1. PICK o, e, r, t :
          Begin(h, [op |-> "invite", pc |-> "insert", o |-> o, email |-> e, role |-> r, team |-> t])
    BY <1>2 DEF CreateInvites
  <2> QED
    BY <1>1, <2>1, MundaneSteps DEF Mundane, TokenOp, orgVars
<1>3. CASE CreateInvite(h)
  BY <1>1, <1>3, Ends DEF CreateInvite, orgVars
<1>4. CASE RevokeInvite(h) \/ RefreshInviteToken(h)
  BY <1>1, <1>4 DEF RevokeInvite, RefreshInviteToken, Serve, Plain, Shape, linkVars, orgVars
<1> QED
  BY <1>2, <1>3, <1>4

-----------------------------------------------------------------------------

(* A users row has its columns, and its token generation is a number.      *)
Columns == {"st", "active", "gen", "pw", "email", "home"}

UsersRow(r) == DOMAIN r = Columns /\ r.gen \in Nat
Users(a) == DOMAIN a = User /\ \A u \in User : UsersRow(a[u])

(* What may become of a users row: a live one stays live, its generation   *)
(* never goes back, and while it stays the same an active account is not   *)
(* deactivated (queries/users.sql, DeactivateUserAccount, which moves it   *)
(* on).                                                                    *)
Older(r, q) ==
  r.st = "live" =>
    /\ q.st = "live"
    /\ r.gen <= q.gen
    /\ r.gen = q.gen /\ r.active => q.active
Ages(a, b) == \A u \in User : Older(a[u], b[u])

(* A write to one row ages the whole table if it ages that row.            *)
LEMMA OneRow ==
  ASSUME NEW a, NEW b, Users(a), DOMAIN b = DOMAIN a, NEW u, \A v \in User \ {u} : b[v] = a[v],
         u \in User => UsersRow(b[u]) /\ Older(a[u], b[u])
  PROVE  Users(b) /\ Ages(a, b)
<1>1. ASSUME NEW v \in User PROVE Older(a[v], a[v])
  BY DEF Older, Users, UsersRow
<1> QED
  BY <1>1 DEF Users, Ages

LEMMA DeactivationAges ==
  ASSUME NEW a, Users(a), NEW u
  PROVE Users(DeactivateUserAccount(a, u)) /\ Ages(a, DeactivateUserAccount(a, u))
<1> DEFINE b == DeactivateUserAccount(a, u)
<1>1. DOMAIN b = DOMAIN a /\ \A v \in User \ {u} : b[v] = a[v]
  BY DEF DeactivateUserAccount, Users
<1>2. ASSUME u \in User PROVE UsersRow(b[u]) /\ Older(a[u], b[u])
  <2>1. DOMAIN b[u] = Columns /\ b[u].st = a[u].st /\ b[u].gen = a[u].gen + 1 
    BY <1>2 DEF DeactivateUserAccount, Users, Columns, UsersRow
  <2> HIDE DEF b
  <2> QED
    BY <2>1, <1>2 DEF Users, UsersRow, Older
<1> QED
  BY <1>1, <1>2, OneRow

LEMMA BumpsAge ==
  ASSUME NEW a, NEW b, Users(a), NEW u, NEW e,
         b \in {BumpTokenGeneration(a, u), UpdateUserPasswordHash(a, u), UpdateUserEmail(a, u, e)}
  PROVE  Users(b) /\ Ages(a, b)
<1>1. DOMAIN b = DOMAIN a /\ \A v \in User \ {u} : b[v] = a[v]
  BY DEF BumpTokenGeneration, UpdateUserPasswordHash, UpdateUserEmail, Users
<1>2. ASSUME u \in User PROVE UsersRow(b[u]) /\ Older(a[u], b[u])
  <2>1. DOMAIN b[u] = Columns /\ b[u].st = a[u].st /\ b[u].gen = a[u].gen + 1
    BY <1>2 DEF BumpTokenGeneration, UpdateUserPasswordHash, UpdateUserEmail, Users, Columns, UsersRow
  <2> QED
    BY <2>1, <1>2 DEF Users, UsersRow, Older
<1> QED
  BY <1>1, <1>2, OneRow

LEMMA ProfileAges ==
  ASSUME NEW a, Users(a), NEW u, NEW e
  PROVE  Users(UpdateUserProfile(a, u, e)) /\ Ages(a, UpdateUserProfile(a, u, e))
<1> DEFINE b == UpdateUserProfile(a, u, e)
<1>1. DOMAIN b = DOMAIN a /\ \A v \in User \ {u} : b[v] = a[v]
  BY DEF UpdateUserProfile, Users
<1>2. ASSUME u \in User PROVE UsersRow(b[u]) /\ Older(a[u], b[u])
  <2>1. DOMAIN b[u] = Columns /\ b[u].st = a[u].st /\ b[u].gen = a[u].gen /\ b[u].active = a[u].active
    BY <1>2 DEF UpdateUserProfile, Users, Columns, UsersRow
  <2> HIDE DEF b
  <2> QED
    BY <2>1, <1>2 DEF Users, UsersRow, Older
<1> QED
  BY <1>1, <1>2, OneRow

LEMMA ReactivationAges ==
  ASSUME NEW a, Users(a), NEW u
  PROVE Users(ReactivateUserAccount(a, u)) /\ Ages(a, ReactivateUserAccount(a, u))
<1> DEFINE b == ReactivateUserAccount(a, u)
<1>1. DOMAIN b = DOMAIN a /\ \A v \in User \ {u} : b[v] = a[v]
  BY DEF ReactivateUserAccount, Users
<1>2. ASSUME u \in User PROVE UsersRow(b[u]) /\ Older(a[u], b[u])
  <2>1. DOMAIN b[u] = Columns /\ b[u].st = a[u].st /\ b[u].gen = a[u].gen 
    BY <1>2 DEF ReactivateUserAccount, Users, Columns, UsersRow
  <2>2. b[u].active
    BY <1>2 DEF ReactivateUserAccount, Users, Columns, UsersRow
  <2> HIDE DEF b
  <2> QED
    BY <2>1, <2>2, <1>2 DEF Users, UsersRow, Older
<1> QED
  BY <1>1, <1>2, OneRow

LEMMA CreationAges ==
  ASSUME NEW a, Users(a), NEW u, u \in User => a[u].st = "absent", NEW o, NEW e, NEW p
  PROVE  Users(CreateUser(a, u, o, e, p)) /\ Ages(a, CreateUser(a, u, o, e, p))
<1> DEFINE b == CreateUser(a, u, o, e, p)
<1>1. DOMAIN b = DOMAIN a /\ \A v \in User \ {u} : b[v] = a[v]
  BY DEF CreateUser, Users
<1>2. ASSUME u \in User PROVE UsersRow(b[u]) /\ Older(a[u], b[u])
  <2>1. DOMAIN b[u] = Columns /\ b[u].gen = 0
    BY <1>2 DEF CreateUser, Users, Columns
  <2>2. b[u].active
    BY <1>2 DEF CreateUser, Users
  <2> HIDE DEF b
  <2> QED
    BY <2>1, <2>2, <1>2 DEF UsersRow, Older
<1> QED
  BY <1>1, <1>2, OneRow

(* A sessions row has its columns.                                         *)
SessionsRow(r) == DOMAIN r = {"st", "u", "gen", "pw", "at", "awake"}
SessionRows(ss) == DOMAIN ss = Sid /\ \A s \in Sid : SessionsRow(ss[s])

(* What may become of a sessions row: it ends and never begins again, and  *)
(* the account, the generation and the flag it was opened with stay.       *)
Kept(r, q) == /\ q.st = r.st \/ (r.st = "live" /\ q.st # "none")
              /\ q.u = r.u /\ q.gen = r.gen /\ q.awake = r.awake

Keeps(ss, tt) == SessionRows(tt) /\ \A s \in Sid : Kept(ss[s], tt[s])

LEMMA RevocationKeeps ==
  ASSUME NEW ss, SessionRows(ss), NEW s \in Sid
  PROVE  Keeps(ss, RevokeSession(ss, s))
<1> DEFINE t == RevokeSession(ss, s)
<1>1. DOMAIN t = Sid /\ \A x \in Sid \ {s} : t[x] = ss[x]
  BY DEF RevokeSession, SessionRows
<1>2. t[s] = [ss[s] EXCEPT !.st = IF ss[s].st = "live" THEN "revoked" ELSE ss[s].st]
  BY DEF RevokeSession, SessionRows
<1>3. ASSUME NEW x \in Sid PROVE SessionsRow(t[x]) /\ Kept(ss[x], t[x])
  <2>1. CASE x = s
    <3>1. SessionsRow(t[x])
      BY <2>1, <1>2 DEF SessionRows, SessionsRow
    <3>2. t[x].u = ss[x].u /\ t[x].gen = ss[x].gen /\ t[x].awake = ss[x].awake
      BY <2>1, <1>2 DEF SessionRows, SessionsRow
    <3>3. t[x].st = IF ss[x].st = "live" THEN "revoked" ELSE ss[x].st
      BY <2>1, <1>2 DEF SessionRows, SessionsRow
    <3> QED
      BY <3>1, <3>2, <3>3 DEF Kept
  <2>2. CASE x # s
    BY <2>2, <1>1 DEF SessionRows, Kept
  <2> QED
    BY <2>1, <2>2
<1> QED
  BY <1>1, <1>3 DEF Keeps, SessionRows

LEMMA RevocationsKeep ==
  ASSUME NEW ss, SessionRows(ss), NEW u
  PROVE  Keeps(ss, RevokeAllUserSessions(ss, u))
<1> DEFINE t == RevokeAllUserSessions(ss, u)
<1>1. DOMAIN t = Sid
  BY DEF RevokeAllUserSessions
<1>2. ASSUME NEW s \in Sid PROVE SessionsRow(t[s]) /\ Kept(ss[s], t[s])
  <2>1. t[s] = ss[s] \/ t[s] = RevokeSession(ss, s)[s]
    BY DEF RevokeAllUserSessions
  <2>2. Keeps(ss, RevokeSession(ss, s))
    BY RevocationKeeps
  <2> HIDE DEF t
  <2> QED
    BY <2>1, <2>2 DEF Keeps, SessionRows, Kept
<1> QED
  BY <1>1, <1>2 DEF Keeps, SessionRows

-----------------------------------------------------------------------------

(* The generation g of a live account's token: the account has not had a   *)
(* later one, and while it still has g it is active.                       *)
Current(a, u, g) ==
  /\ u \in User
  /\ a[u].st = "live"
  /\ g \in Nat /\ g <= a[u].gen
  /\ g = a[u].gen => a[u].active

LEMMA CurrentAges ==
  ASSUME NEW a, NEW b, Users(a), Users(b), Ages(a, b), NEW u, NEW g, Current(a, u, g)
  PROVE  Current(b, u, g)
BY DEF Users, UsersRow, Ages, Older, Current

(* A session opened by an account that was active is current.              *)
Opened(a, x) == x.u \in User /\ (x.awake => Current(a, x.u, x.gen))

(* What a request that is about to open, refresh or redeem still has of    *)
(* what it read.                                                           *)
RequestSound(r, a, ss, ls) ==
  /\ r.op \in {"login", "consume", "accept"} /\ r.pc = "session" =>
       r.u \in User /\ (r.row.active => Current(a, r.u, r.row.gen))
  /\ r.op = "refresh" => r.s \in Sid /\ ss[r.s].st # "none" /\ ss[r.s].gen = r.gen
  /\ r.op = "issue" => r.u \in User
  /\ r.op = "consume" /\ r.pc \in {"burn", "apply"} => r.l \in Link /\ ls[r.l].st # "none"
  /\ r.op = "consume" /\ r.pc = "getuser" => r.u \in User
  /\ r.op = "accept" /\ r.pc = "join" => (r.new => r.u \in User)

(* A link that was sent is some account's.                                 *)
LinkRows(ls) ==
  /\ DOMAIN ls = Link
  /\ \A l \in Link : DOMAIN ls[l] = {"st", "u", "purpose", "email"} /\ (ls[l].st # "none" => ls[l].u \in User)

(* The inductive invariant of the tokens.                                  *)
Sound ==
  /\ Shape
  /\ Users(account) /\ SessionRows(sess) /\ LinkRows(link)
  /\ \A s \in Sid : sess[s].st # "none" => Opened(account, sess[s])
  /\ \A h \in Handler : RequestSound(req[h], account, sess, link)

(* The action every step of the specification is: accounts and sessions    *)
(* age, and a session that is opened is current.                           *)
TokensAge ==
  /\ Users(account') /\ Ages(account, account')
  /\ SessionRows(sess')
  /\ \A s \in Sid :
       /\ sess[s].st # "none" => Kept(sess[s], sess'[s])
       /\ sess[s].st = "none" /\ sess'[s].st # "none" => Opened(account', sess'[s])

(* A link that was sent stays sent.                                        *)
LinksAge == LinkRows(link') /\ \A l \in Link : link[l].st # "none" => link'[l].st # "none"

(* What does not change ages.                                              *)
LEMMA Unchanging ==
  ASSUME Sound
  PROVE  /\ UNCHANGED <<account, sess>> => TokensAge
         /\ UNCHANGED link => LinksAge
<1>1. ASSUME NEW u \in User PROVE Older(account[u], account[u])
  BY DEF Sound, Users, UsersRow, Older
<1>2. ASSUME NEW s \in Sid PROVE Kept(sess[s], sess[s])
  BY DEF Kept
<1> QED
  BY <1>1, <1>2 DEF Sound, TokensAge, LinksAge, Ages

LEMMA Still ==
  ASSUME Sound, UNCHANGED account
  PROVE  Users(account') /\ Ages(account, account')
BY DEF Sound, Users, UsersRow, Ages, Older

LEMMA Rewriting ==
  ASSUME Sound, Users(account'), Ages(account, account'), UNCHANGED sess \/ Keeps(sess, sess')
  PROVE  TokensAge
<1>1. SessionRows(sess') /\ \A s \in Sid : Kept(sess[s], sess'[s])
  BY DEF Sound, Keeps, Kept
<1> QED
  BY <1>1 DEF TokensAge, Kept

(* A sign-in opens a session that is current when the row it read was of   *)
(* an active account.                                                      *)
LEMMA Opening ==
  ASSUME Sound, NEW u, NEW row, CreateSession(u, row), UNCHANGED account,
         u \in User, row.active => Current(account, u, row.gen)
  PROVE  TokensAge
<1>1. PICK n \in Sid :
        /\ sess[n].st = "none"
        /\ sess' = [sess EXCEPT ![n] = [st |-> "live", u |-> u, gen |-> row.gen, pw |-> row.pw,
                                        at |-> row.email, awake |-> row.active]]
  BY DEF CreateSession, FreeSid
<1>2. Users(account') /\ Ages(account, account')
  BY Still
<1>3. /\ sess'[n].u = u /\ sess'[n].gen = row.gen /\ sess'[n].awake = row.active
      /\ DOMAIN sess'[n] = {"st", "u", "gen", "pw", "at", "awake"}
      /\ DOMAIN sess' = Sid /\ \A s \in Sid \ {n} : sess'[s] = sess[s]
  BY <1>1 DEF Sound, SessionRows
<1>4. SessionRows(sess')
  BY <1>3 DEF Sound, SessionRows, SessionsRow
<1>5. ASSUME NEW s \in Sid, sess[s].st # "none" PROVE Kept(sess[s], sess'[s])
  BY <1>1, <1>3, <1>5 DEF Kept
<1>6. ASSUME NEW s \in Sid, sess[s].st = "none", sess'[s].st # "none" PROVE Opened(account', sess'[s])
  BY <1>1, <1>3, <1>6 DEF Opened
<1> QED
  BY <1>2, <1>4, <1>5, <1>6 DEF TokensAge

(* An aging step keeps the invariant if what the handlers go on with is    *)
(* sound.                                                                  *)
LEMMA SoundStep ==
  ASSUME Sound, TokensAge, LinksAge, Shape',
         \A h \in Handler : req'[h] = req[h] \/ RequestSound(req'[h], account', sess', link')
  PROVE  Sound'
<1>1. ASSUME NEW s \in Sid, sess'[s].st # "none" PROVE Opened(account', sess'[s])
  <2>1. CASE sess[s].st = "none"
    BY <1>1, <2>1 DEF TokensAge
  <2>2. CASE sess[s].st # "none"
    <3>1. sess'[s].u = sess[s].u /\ sess'[s].gen = sess[s].gen /\ sess'[s].awake = sess[s].awake
      BY <2>2 DEF TokensAge, Kept
    <3> QED
      BY <1>1, <2>2, <3>1, CurrentAges DEF Sound, TokensAge, Opened
  <2> QED
    BY <2>1, <2>2
<1>2. ASSUME NEW r, RequestSound(r, account, sess, link) PROVE RequestSound(r, account', sess', link')
  <2>1. \A u, g : Current(account, u, g) => Current(account', u, g)
    BY CurrentAges DEF Sound, TokensAge
  <2>2. \A s \in Sid : sess[s].st # "none" => sess'[s].st # "none" /\ sess'[s].gen = sess[s].gen
    BY DEF TokensAge, Kept
  <2>3. \A l \in Link : link[l].st # "none" => link'[l].st # "none"
    BY DEF LinksAge
  <2> QED
    BY <1>2, <2>1, <2>2, <2>3 DEF RequestSound
<1>3. ASSUME NEW k \in Handler PROVE RequestSound(req'[k], account', sess', link')
  BY <1>2 DEF Sound
<1> QED
  BY <1>1, <1>3 DEF Sound, TokensAge, LinksAge

(* A plain step has nothing to show but that it ages.                      *)
LEMMA PlainStep ==
  ASSUME Sound, NEW h \in Handler, Plain(h), TokensAge
  PROVE  Sound'
<1>1. Shape'
  BY DEF Sound, Shape, Plain, Mundane
<1>2. LinksAge
  BY Unchanging DEF Plain
<1>3. req'[h] = req[h] \/ RequestSound(req'[h], account', sess', link')
  BY DEF Plain, Mundane, TokenOp, RequestSound
<1>4. \A k \in Handler \ {h} : req'[k] = req[k]
  BY DEF Plain
<1> QED
  BY <1>1, <1>2, <1>3, <1>4, SoundStep

-----------------------------------------------------------------------------

LEMMA PeopleAge ==
  ASSUME Sound, NEW h \in Handler, PeopleStep(h)
  PROVE  TokensAge
<1>1. CASE Deactivate(h)
  BY <1>1, DeactivationAges, RevocationsKeep, Unchanging, Rewriting DEF Deactivate, Sound
<1>2. CASE Reactivate(h)
  BY <1>2, ReactivationAges, Unchanging, Rewriting DEF Reactivate, Sound
<1>3. CASE ForceLogout(h)
  BY <1>3, BumpsAge, RevocationsKeep, Unchanging, Rewriting DEF ForceLogout, Sound
<1>4. CASE ~(Deactivate(h) \/ Reactivate(h) \/ ForceLogout(h))
  <2>1. UNCHANGED <<account, sess>>
    BY <1>4 DEF PeopleStep, orgVars, DeactivatePerson, ReactivatePerson, ForceLogoutPerson, RemovePerson,
       lifecycleAction, lockAdmins, adminsLocked, requireOtherAdmins, RemoveFromOrg, UpdatePerson, ChangeOrgRole,
       UpdateMembershipRole, ChangePrimaryTeam, EnrolAsPrimary
  <2> QED
    BY <2>1, Unchanging
<1> QED
  BY <1>1, <1>2, <1>3, <1>4

LEMMA TeamsAge ==
  ASSUME Sound, NEW h \in Handler, TeamsStep(h)
  PROVE  TokensAge
<1>1. UNCHANGED <<account, sess>>
  BY DEF TeamsStep, orgVars, Create, CreateTeam, Update, ChooseSubtree, LockSubtree, lockReparentTarget,
     ReparentSubtree, Delete, lockTeamForDeletion, DeleteTeam, PutMember, GetTeam, AddMember, SetPrimary,
     RemoveMember, RemoveTeamMember, EnsureDefaultMembership
<1> QED
  BY <1>1, Unchanging

(* The handler h goes on with r and the others stay.                       *)
Moves(h, r) ==
  /\ Shape'
  /\ req'[h] = r
  /\ \A k \in Handler \ {h} : req'[k] = req[k]

LEMMA Moving ==
  ASSUME Shape, NEW h \in Handler, NEW r, NEW rows, "op" \in DOMAIN r, "pc" \in DOMAIN r,
         Begin(h, r) \/ Go(h, r) \/ Commit(h, r) \/ GoLocked(h, rows, r)
  PROVE  Moves(h, r)
BY DEF Shape, Begin, Go, Commit, GoLocked, Moves

LEMMA Ending ==
  ASSUME Sound, NEW h \in Handler, End(h), TokensAge, LinksAge
  PROVE  Sound'
<1>1. Shape' /\ req'[h] = Idle /\ \A k \in Handler \ {h} : req'[k] = req[k]
  BY DEF Sound, Shape, End, Idle
<1>2. RequestSound(Idle, account', sess', link')
  BY DEF RequestSound, Idle
<1> QED
  BY <1>1, <1>2, SoundStep

LEMMA Continuing ==
  ASSUME Sound, NEW h \in Handler, NEW r, Moves(h, r), TokensAge, LinksAge,
         RequestSound(r, account', sess', link')
  PROVE  Sound'
BY SoundStep DEF Moves

(* Signing in, refreshing and signing out keep the invariant,              *)
LEMMA SessionsSound ==
  ASSUME Sound, NEW h \in Handler, SessionsStep(h), UNCHANGED linkVars
  PROVE  Sound' /\ TokensAge
<1>0. Shape /\ LinksAge /\ UNCHANGED link
  BY Unchanging DEF Sound, linkVars
<1>1. CASE Login(h)
  <2>1. PICK u \in User :
          /\ Active(u)
          /\ Begin(h, [op |-> "login", pc |-> "session", u |-> u, row |-> account[u]])
          /\ UNCHANGED <<account, sess>>
    BY <1>1 DEF Login, GetUserByEmail, orgVars
  <2> DEFINE r == [op |-> "login", pc |-> "session", u |-> u, row |-> account[u]]
  <2>2. Current(account, u, account[u].gen)
    BY <2>1 DEF Sound, Users, UsersRow, Current, Active, Live
  <2>3. RequestSound(r, account', sess', link')
    BY <2>1, <2>2 DEF RequestSound
  <2>4. Moves(h, r)
    BY <1>0, <2>1, Moving
  <2> QED
    BY <1>0, <2>1, <2>3, <2>4, Unchanging, Continuing
<1>2. CASE finishLogin(h)
  <2>1. TokensAge
    BY <1>2, Opening DEF finishLogin, At, Sound, RequestSound
  <2> QED
    BY <1>0, <1>2, <2>1, Ending DEF finishLogin
<1>3. CASE Refresh(h)
  <2>1. PICK s, g :
          /\ s \in Sid
          /\ sess[s].st # "none" /\ g = sess[s].gen
          /\ Begin(h, [op |-> "refresh", pc |-> "mint", s |-> s, gen |-> g])
          /\ UNCHANGED <<account, sess>>
    BY <1>3 DEF Refresh, liveRefreshGeneration, checkAuthState, AuthState, Claims, orgVars
  <2> DEFINE r == [op |-> "refresh", pc |-> "mint", s |-> s, gen |-> g]
  <2>2. RequestSound(r, account', sess', link')
    BY <2>1 DEF RequestSound
  <2>3. Moves(h, r)
    BY <1>0, <2>1, Moving
  <2> QED
    BY <1>0, <2>1, <2>2, <2>3, Unchanging, Continuing
<1>4. CASE IssueTokenPair(h)
  <2>1. req[h].s \in Sid /\ sess[req[h].s].gen = req[h].gen
    BY <1>4 DEF IssueTokenPair, At, Sound, RequestSound
  <2>2. \A s \in Sid : SessionsRow(sess'[s]) /\ Kept(sess[s], sess'[s])
    BY <1>4, <2>1 DEF IssueTokenPair, Sound, SessionRows, SessionsRow, Kept
  <2>3. Keeps(sess, sess')
    BY <1>4, <2>2 DEF IssueTokenPair, Sound, SessionRows, Keeps
  <2>4. TokensAge
    BY <1>4, <2>3, Still, Rewriting DEF IssueTokenPair
  <2> QED
    BY <1>0, <1>4, <2>4, Ending DEF IssueTokenPair
<1>5. CASE Logout(h)
  <2>1. PICK s \in Sid : sess' = RevokeSession(sess, s)
    BY <1>5 DEF Logout
  <2>2. UNCHANGED account /\ UNCHANGED <<req, held>>
    BY <1>5 DEF Logout, Serve
  <2>3. Users(account') /\ Ages(account, account')
    BY <2>2, Still
  <2>4. TokensAge
    BY <2>1, <2>3, RevocationKeeps, Rewriting DEF Sound
  <2> QED
    BY <1>0, <2>2, <2>4, SoundStep DEF Shape
<1>6. CASE LogoutAll(h)
  <2>1. PICK u : Begin(h, [op |-> "logoutall", pc |-> "rows", u |-> u]) /\ UNCHANGED <<account, sess>>
    BY <1>6 DEF LogoutAll, orgVars
  <2>2. Plain(h)
    BY <1>0, <2>1, MundaneSteps DEF Mundane, TokenOp
  <2> QED
    BY <2>1, <2>2, PlainStep, Unchanging
<1>7. CASE DeleteAllSessions(h)
  <2>1. Plain(h)
    BY <1>0, <1>7, MundaneGo, MundaneSteps DEF DeleteAllSessions, TokenOp
  <2>2. Users(account') /\ Ages(account, account')
    BY <1>7, Still DEF DeleteAllSessions
  <2>3. TokensAge
    BY <1>7, <2>2, RevocationsKeep, Rewriting DEF DeleteAllSessions, Sound
  <2> QED
    BY <2>1, <2>3, PlainStep
<1>8. CASE RevokeTokens(h)
  <2>1. TokensAge
    BY <1>8, BumpsAge, Rewriting DEF RevokeTokens, Sound
  <2> QED
    BY <1>0, <1>8, <2>1, Ending DEF RevokeTokens
<1>9. CASE UpdateMe(h)
  <2>1. PICK u, e : Begin(h, [op |-> "updateme", pc |-> "write", u |-> u, email |-> e]) /\ UNCHANGED <<account, sess>>
    BY <1>9 DEF UpdateMe, orgVars
  <2>2. Plain(h)
    BY <1>0, <2>1, MundaneSteps DEF Mundane, TokenOp
  <2> QED
    BY <2>1, <2>2, PlainStep, Unchanging
<1>10. CASE UpdateProfile(h)
  <2>1. TokensAge
    BY <1>10, ProfileAges, Unchanging, Rewriting DEF UpdateProfile, Sound
  <2> QED
    BY <1>0, <1>10, <2>1, Ending DEF UpdateProfile
<1> QED
  BY <1>1, <1>2, <1>3, <1>4, <1>5, <1>6, <1>7, <1>8, <1>9, <1>10 DEF SessionsStep

LEMMA Sending ==
  ASSUME Sound, NEW l \in Link, NEW u \in User, NEW p, NEW e,
         link' = [link EXCEPT ![l] = [st |-> "live", u |-> u, purpose |-> p, email |-> e]]
  PROVE  LinksAge
<1>1. /\ DOMAIN link' = Link
      /\ link'[l] = [st |-> "live", u |-> u, purpose |-> p, email |-> e]
      /\ \A x \in Link \ {l} : link'[x] = link[x]
  BY DEF Sound, LinkRows
<1> QED
  BY <1>1 DEF Sound, LinkRows, LinksAge

(* so do issuing and redeeming links,                                      *)
LEMMA LinksSound ==
  ASSUME Sound, NEW h \in Handler, LinksStep(h)
  PROVE  Sound' /\ TokensAge
<1>0. Shape
  BY DEF Sound
<1>1. CASE RequestReset(h) \/ IssueReset(h) \/ RequestEmailChange(h)
  <2>1. PICK u, p, e : u \in User /\ Begin(h, MintRequest(u, p, e)) /\ UNCHANGED <<account, sess, link>>
    <3>1. CASE RequestReset(h)
      BY <3>1 DEF RequestReset, GetUserByEmail, orgVars, linkVars
    <3>2. CASE IssueReset(h)
      BY <3>2 DEF IssueReset, GetUserByEmailAndOrg, GetUserByEmail, orgVars, linkVars
    <3>3. CASE RequestEmailChange(h)
      <4>1. PICK s, e :
              /\ s \in Sid
              /\ Accepted(s) /\ account[sess[s].u].pw > 0
              /\ Begin(h, MintRequest(sess[s].u, "email_change", e))
              /\ UNCHANGED <<orgVars, linkVars>>
        BY <3>3 DEF RequestEmailChange
      <4>2. sess[s].u \in User
        BY <4>1 DEF Sound, Accepted, Opened
      <4> QED
        BY <4>1, <4>2 DEF orgVars, linkVars
    <3> QED
      BY <1>1, <3>1, <3>2, <3>3
  <2> DEFINE r == MintRequest(u, p, e)
  <2>2. RequestSound(r, account', sess', link')
    BY <2>1 DEF RequestSound, MintRequest
  <2>3. "op" \in DOMAIN r /\ "pc" \in DOMAIN r
    BY DEF MintRequest
  <2>4. Moves(h, r)
    BY <1>0, <2>1, <2>3, Moving
  <2> QED
    BY <2>1, <2>2, <2>4, Unchanging, Continuing
<1>2. CASE Issue(h)
  <2> DEFINE r == req[h]
             n == CHOOSE l \in FreeLink : TRUE
  <2>1. n \in Link /\ link[n].st = "none" /\ r.u \in User
    BY <1>2 DEF Issue, FreeLink, At, Sound, RequestSound
  <2>2. link' = [l \in Link |->
                  CASE l = n -> [st |-> "live", u |-> r.u, purpose |-> r.purpose, email |-> r.email]
                    [] l \in r.old /\ link[l].st \in {"live", "expired"} -> [link[l] EXCEPT !.st = "invalidated"]
                    [] OTHER -> link[l]]
    BY <1>2 DEF Issue
  <2> HIDE DEF n
  <2>3. ASSUME NEW l \in Link
        PROVE  /\ DOMAIN link'[l] = {"st", "u", "purpose", "email"}
               /\ link'[l].st # "none" => link'[l].u \in User
               /\ link[l].st # "none" => link'[l].st # "none"
    BY <2>1, <2>2 DEF Sound, LinkRows
  <2>4. LinksAge
    BY <2>2, <2>3 DEF LinksAge, LinkRows
  <2> QED
    BY <1>2, <2>4, Unchanging, Ending DEF Issue, orgVars
<1>3. CASE CreateUserForAdmin(h) \/ runCreateUserWithLink(h)
  <2>0. \E u \in User : \E o, e, r : CreateUserWithSignInLink(o, u, e, r)
    <3>1. CASE CreateUserForAdmin(h)
      BY <3>1 DEF CreateUserForAdmin
    <3>2. CASE runCreateUserWithLink(h)
      BY <3>2 DEF runCreateUserWithLink
    <3> QED
      BY <1>3, <3>1, <3>2
  <2>1. PICK u, o, e, r : u \in User /\ CreateUserWithSignInLink(o, u, e, r)
    BY <2>0
  <2>2. TokensAge
    BY <2>1, CreationAges, Rewriting DEF CreateUserWithSignInLink, Sound
  <2>3. PICK l \in Link : link' = [link EXCEPT ![l] = [st |-> "live", u |-> u, purpose |-> "signin", email |-> Nil]]
    BY <2>1 DEF CreateUserWithSignInLink, FreeLink
  <2>4. LinksAge
    BY <2>1, <2>3, Sending
  <2>5. UNCHANGED <<req, held>>
    BY <2>1 DEF CreateUserWithSignInLink, Serve
  <2> QED
    BY <1>0, <2>2, <2>4, <2>5, SoundStep DEF Shape
<1>4. CASE GetUserByEmailAcrossOrgs(h)
  <2>1. PICK u : Begin(h, [op |-> "breakglass", pc |-> "write", u |-> u]) /\ UNCHANGED <<orgVars, linkVars>>
    BY <1>4 DEF GetUserByEmailAcrossOrgs
  <2>2. Plain(h)
    BY <1>0, <2>1, MundaneSteps DEF Mundane, TokenOp
  <2> QED
    BY <2>1, <2>2, PlainStep, Unchanging DEF orgVars
<1>5. CASE runResetPassword(h)
  <2>1. TokensAge
    BY <1>5, BumpsAge, Rewriting DEF runResetPassword, Sound
  <2> QED
    BY <1>5, <2>1, Ending, Unchanging DEF runResetPassword, linkVars
<1>6. CASE Consume(h)
  <2>1. PICK l, password :
          /\ l \in Link
          /\ link[l].st # "none"
          /\ Begin(h, [op |-> "consume", pc |-> "burn", l |-> l, password |-> password])
          /\ UNCHANGED <<orgVars, linkVars>>
    BY <1>6 DEF Consume
  <2> DEFINE r == [op |-> "consume", pc |-> "burn", l |-> l, password |-> password]
  <2>2. RequestSound(r, account', sess', link')
    BY <2>1 DEF RequestSound, linkVars
  <2>3. Moves(h, r)
    BY <1>0, <2>1, Moving
  <2> QED
    BY <2>1, <2>2, <2>3, Unchanging, Continuing DEF orgVars, linkVars
<1>7. CASE ConsumeCredentialLink(h)
  <2>1. UNCHANGED <<account, sess, link>>
    BY <1>7 DEF ConsumeCredentialLink, orgVars, linkVars
  <2>2. CASE End(h)
    BY <2>1, <2>2, Ending, Unchanging
  <2>3. CASE ~End(h)
    <3> DEFINE r == [req[h] EXCEPT !.pc = "apply"]
    <3>1. PICK rows : GoLocked(h, rows, r)
      BY <1>7, <2>3 DEF ConsumeCredentialLink
    <3>2. /\ "op" \in DOMAIN r /\ "pc" \in DOMAIN r
          /\ r.op = "consume" /\ r.pc = "apply"
          /\ r.l = req[h].l /\ req[h].l \in Link /\ link[req[h].l].st # "none"
      BY <1>7, <1>0 DEF ConsumeCredentialLink, At, Shape, Sound, RequestSound
    <3>3. Moves(h, r)
      BY <1>0, <3>1, <3>2, Moving
    <3> HIDE DEF r
    <3>4. RequestSound(r, account', sess', link')
      BY <2>1, <3>2 DEF RequestSound
    <3> QED
      BY <2>1, <3>3, <3>4, Unchanging, Continuing
  <2> QED
    BY <2>2, <2>3
<1>8. CASE applyConsumedEffect(h)
  <2> DEFINE l == req[h].l
             u == link[l].u
  <2>1. l \in Link /\ link[l].st # "none" /\ u \in User
    BY <1>8 DEF applyConsumedEffect, At, Sound, RequestSound, LinkRows
  <2>2. TokensAge
    <3>1. CASE link[l].purpose = "email_change"
      BY <1>8, <3>1, BumpsAge, Rewriting DEF applyConsumedEffect, applyEmailEffect, Sound
    <3>2. CASE link[l].purpose # "email_change"
      BY <1>8, <3>2, BumpsAge, RevocationsKeep, Rewriting DEF applyConsumedEffect, applyPasswordEffect, Sound
    <3> QED
      BY <3>1, <3>2
  <2>3. link' = [link EXCEPT ![l].st = "consumed"]
    BY <1>8 DEF applyConsumedEffect
  <2>4. LinksAge
    <3>1. ASSUME NEW x \in Link
          PROVE  /\ DOMAIN link'[x] = {"st", "u", "purpose", "email"}
                 /\ link'[x].u = link[x].u
                 /\ link'[x].st = IF x = l THEN "consumed" ELSE link[x].st
      BY <2>1, <2>3 DEF Sound, LinkRows
    <3>2. DOMAIN link' = Link
      BY <2>3 DEF Sound, LinkRows
    <3> QED
      BY <2>1, <3>1, <3>2 DEF Sound, LinkRows, LinksAge
  <2>5. CASE End(h)
    BY <2>2, <2>4, <2>5, Ending
  <2>6. CASE ~End(h)
    <3> DEFINE r == [op |-> "consume", pc |-> "getuser", u |-> u]
    <3>1. Commit(h, r)
      BY <1>8, <2>6 DEF applyConsumedEffect
    <3>2. Moves(h, r)
      BY <1>0, <3>1, Moving
    <3>3. RequestSound(r, account', sess', link')
      BY <2>1 DEF RequestSound
    <3> QED
      BY <2>2, <2>4, <3>2, <3>3, Continuing
  <2> QED
    BY <2>2, <2>5, <2>6
<1>9. CASE EmailTakenAtConsume(h)
  BY <1>9, Ending, Unchanging DEF EmailTakenAtConsume, orgVars, linkVars
<1>10. CASE GetUserAfterConsume(h)
  <2>1. UNCHANGED <<account, sess, link>>
    BY <1>10 DEF GetUserAfterConsume, orgVars, linkVars
  <2>2. CASE End(h)
    BY <2>1, <2>2, Ending, Unchanging
  <2>3. CASE ~End(h)
    <3> DEFINE u == req[h].u
               r == [op |-> "consume", pc |-> "session", u |-> u, row |-> account[u]]
    <3>1. Go(h, r) /\ Live(u) /\ u \in User
      BY <1>10, <2>3 DEF GetUserAfterConsume, At, Sound, RequestSound
    <3>2. account[u].active => Current(account, u, account[u].gen)
      BY <3>1 DEF Sound, Users, UsersRow, Current, Live
    <3>3. RequestSound(r, account', sess', link')
      BY <2>1, <3>1, <3>2 DEF RequestSound
    <3>4. Moves(h, r)
      BY <1>0, <3>1, Moving
    <3> QED
      BY <2>1, <3>3, <3>4, Unchanging, Continuing
  <2> QED
    BY <2>2, <2>3
<1>11. CASE signInAfterConsume(h)
  <2>1. TokensAge
    BY <1>11, Opening DEF signInAfterConsume, At, Sound, RequestSound
  <2> QED
    BY <1>11, <2>1, Ending, Unchanging DEF signInAfterConsume
<1> QED
  BY <1>1, <1>2, <1>3, <1>4, <1>5, <1>6, <1>7, <1>8, <1>9, <1>10, <1>11 DEF LinksStep

(* inviting and accepting,                                                 *)
LEMMA InvitesSound ==
  ASSUME Sound, NEW h \in Handler, InvitesStep(h)
  PROVE  Sound' /\ TokensAge
<1>0. Shape
  BY DEF Sound
<1>1. CASE CreateInvites(h) \/ CreateInvite(h) \/ RevokeInvite(h) \/ RefreshInviteToken(h)
  BY <1>0, <1>1, InvitationsPlain, PlainStep, Unchanging
<1>2. CASE Accept(h)
  <2>1. PICK i, k, new :
          /\ Begin(h, [op |-> "accept", pc |-> "load", i |-> i, tok |-> k, newUser |-> new])
          /\ UNCHANGED <<orgVars, linkVars>>
    BY <1>2 DEF Accept
  <2> DEFINE r == [op |-> "accept", pc |-> "load", i |-> i, tok |-> k, newUser |-> new]
  <2>2. Moves(h, r) /\ RequestSound(r, account', sess', link')
    BY <1>0, <2>1, Moving DEF RequestSound
  <2> QED
    BY <2>1, <2>2, Unchanging, Continuing DEF orgVars, linkVars
<1>3. CASE loadAcceptableInvite(h)
  <2>1. UNCHANGED <<account, sess, link>>
    BY <1>3 DEF loadAcceptableInvite, orgVars, linkVars
  <2>2. CASE End(h)
    BY <2>1, <2>2, Ending, Unchanging
  <2>3. CASE ~End(h)
    <3> DEFINE r == [req[h] EXCEPT !.pc = "resolve"]
    <3>1. Go(h, r)
      BY <1>3, <2>3 DEF loadAcceptableInvite
    <3>2. "op" \in DOMAIN r /\ "pc" \in DOMAIN r /\ r.op = "accept" /\ r.pc = "resolve"
      BY <1>0, <1>3 DEF loadAcceptableInvite, At, Shape
    <3>3. Moves(h, r)
      BY <1>0, <3>1, <3>2, Moving
    <3> HIDE DEF r
    <3>4. RequestSound(r, account', sess', link')
      BY <3>2 DEF RequestSound
    <3> QED
      BY <2>1, <3>3, <3>4, Unchanging, Continuing
  <2> QED
    BY <2>2, <2>3
<1>4. CASE resolveAcceptUser(h)
  <2>1. UNCHANGED <<account, sess, link>>
    BY <1>4 DEF resolveAcceptUser, orgVars, linkVars
  <2>2. CASE End(h)
    BY <2>1, <2>2, Ending, Unchanging
  <2>3. CASE ~End(h)
    <3>1. PICK u, new, t :
            u \in User /\ Go(h, With([u |-> u, new |-> new, t |-> t], [req[h] EXCEPT !.pc = "join"]))
      BY <1>4, <2>3 DEF resolveAcceptUser, GetUserByEmail
    <3> DEFINE q == [req[h] EXCEPT !.pc = "join"]
               r == With([u |-> u, new |-> new, t |-> t], q)
    <3>2. "op" \in DOMAIN q /\ "pc" \in DOMAIN q /\ q.op = "accept" /\ q.pc = "join"
      BY <1>0, <1>4 DEF resolveAcceptUser, At, Shape
    <3> HIDE DEF q
    <3>3. "op" \in DOMAIN r /\ "pc" \in DOMAIN r /\ r.op = "accept" /\ r.pc = "join"
      BY <3>2 DEF With
    <3>4. r.u \in User
      BY <3>1 DEF With
    <3> USE DEF q
    <3>5. Moves(h, r)
      BY <1>0, <3>1, <3>3, Moving
    <3> HIDE DEF r
    <3>6. RequestSound(r, account', sess', link')
      BY <3>3, <3>4 DEF RequestSound
    <3> QED
      BY <2>1, <3>5, <3>6, Unchanging, Continuing
  <2> QED
    BY <2>2, <2>3
<1>5. CASE MarkInviteAccepted(h)
  <2> DEFINE u == req[h].u
             i == req[h].i
  <2>1. UNCHANGED <<sess, link>>
    BY <1>5 DEF MarkInviteAccepted, linkVars
  <2>2. CASE UNCHANGED account /\ End(h)
    BY <2>1, <2>2, Ending, Unchanging
  <2>3. CASE ~(UNCHANGED account /\ End(h))
    <3>1. req[h].new /\ account[u].st = "absent"
      BY <1>5, <2>3 DEF MarkInviteAccepted
    <3>2. u \in User
      BY <1>5, <3>1 DEF MarkInviteAccepted, At, Sound, RequestSound
    <3>3. account' = CreateUser(account, u, invite[i].o, invite[i].email, 1)
      BY <1>5, <2>3, <3>1 DEF MarkInviteAccepted
    <3>4. TokensAge
      BY <2>1, <3>1, <3>3, CreationAges, Rewriting DEF Sound
    <3> DEFINE r == [op |-> "accept", pc |-> "session", u |-> u, row |-> account'[u]]
    <3>5. Commit(h, r)
      BY <1>5, <2>3, <3>1 DEF MarkInviteAccepted
    <3>6. Current(account', u, account'[u].gen)
      BY <3>2, <3>3 DEF Sound, Users, CreateUser, Current
    <3>7. Moves(h, r)
      BY <1>0, <3>5, Moving
    <3>8. RequestSound(r, account', sess', link')
      BY <3>2, <3>6 DEF RequestSound
    <3> QED
      BY <2>1, <3>4, <3>7, <3>8, Unchanging, Continuing
  <2> QED
    BY <2>2, <2>3
<1>6. CASE signInAfterAccept(h)
  <2>1. TokensAge
    BY <1>6, Opening DEF signInAfterAccept, At, Sound, RequestSound
  <2> QED
    BY <1>6, <2>1, Ending, Unchanging DEF signInAfterAccept, linkVars
<1> QED
  BY <1>1, <1>2, <1>3, <1>4, <1>5, <1>6 DEF InvitesStep

(* and the passing of time.                                                *)
LEMMA ExpirySound ==
  ASSUME Sound, Expiry
  PROVE  Sound' /\ TokensAge
<1>1. UNCHANGED serverVars /\ UNCHANGED account
  BY DEF Expiry, LinkExpires, InviteExpires, SessionExpires, orgVars
<1>2. Shape' /\ UNCHANGED req
  BY <1>1 DEF serverVars, Sound, Shape
<1>3. TokensAge /\ LinksAge
  <2>1. CASE \E l \in Link : LinkExpires(l)
    <3>1. PICK l \in Link : link[l].st = "live" /\ link' = [link EXCEPT ![l].st = "expired"] /\ UNCHANGED <<account, sess>>
      BY <2>1 DEF LinkExpires, Redeemable, orgVars
    <3>2. ASSUME NEW x \in Link
          PROVE  /\ DOMAIN link'[x] = {"st", "u", "purpose", "email"}
                 /\ link'[x].u = link[x].u
                 /\ link'[x].st = IF x = l THEN "expired" ELSE link[x].st
      BY <3>1 DEF Sound, LinkRows
    <3>3. DOMAIN link' = Link
      BY <3>1 DEF Sound, LinkRows
    <3> QED
      BY <3>1, <3>2, <3>3, Unchanging DEF Sound, LinkRows, LinksAge
  <2>2. CASE \E i \in Invite : InviteExpires(i)
    BY <2>2, Unchanging DEF InviteExpires, orgVars, linkVars
  <2>3. CASE \E s \in Sid : SessionExpires(s) /\ UNCHANGED <<linkVars, inviteVars>>
    <3>1. PICK s \in Sid : sess[s].st = "live" /\ sess' = [sess EXCEPT ![s].st = "expired"] /\ UNCHANGED link
      BY <2>3 DEF SessionExpires, linkVars
    <3>2. ASSUME NEW x \in Sid PROVE SessionsRow(sess'[x]) /\ Kept(sess[x], sess'[x])
      BY <3>1 DEF Sound, SessionRows, SessionsRow, Kept
    <3>3. Keeps(sess, sess')
      BY <3>1, <3>2 DEF Sound, SessionRows, Keeps
    <3> QED
      BY <1>1, <3>1, <3>3, Still, Rewriting, Unchanging
  <2> QED
    BY <2>1, <2>2, <2>3 DEF Expiry
<1> QED
  BY <1>2, <1>3, SoundStep

LEMMA SoundInit == AccountsInit => Sound
<1> SUFFICES ASSUME AccountsInit PROVE Sound
  OBVIOUS
<1>1. Shape
  BY DEF AccountsInit, ServerInit, Shape, Idle
<1>2. mix.name \in DOMAIN Casts
  <2>1. PICK n \in DOMAIN Mixes : mix = With([name |-> n], Mixes[n])
    BY DEF AccountsInit, ServerInit
  <2>2. mix.name = n
    BY <2>1 DEF With
  <2> QED
    BY <2>1, <2>2, EveryMixHasACast
<1>3. Users(account)
  <2>1. account \in [User -> Account]
    BY <1>2, CastsAreTyped DEF AccountsInit, OrgInit, Cast
  <2> QED
    BY <2>1 DEF Users, UsersRow, Columns, Account
<1>4. SessionRows(sess) /\ \A s \in Sid : sess[s].st = "none"
  BY DEF AccountsInit, OrgInit, NoSession, SessionRows, SessionsRow
<1>5. LinkRows(link)
  <2>1. ASSUME NEW l \in Link
        PROVE  DOMAIN link[l] = {"st", "u", "purpose", "email"} /\ (link[l].st # "none" => link[l].u \in User)
    <3>1. CASE l \in DOMAIN Cast.link
      <4>1. link[l] \in LinkRow /\ link[l].u \in User
        BY <1>2, <3>1, CastLinksAreSent DEF AccountsInit, LinkInit, Cast
      <4> QED
        BY <4>1 DEF LinkRow
    <3>2. CASE l \notin DOMAIN Cast.link
      BY <3>2 DEF AccountsInit, LinkInit, NoLink
    <3> QED
      BY <3>1, <3>2
  <2>2. DOMAIN link = Link
    BY DEF AccountsInit, LinkInit
  <2> QED
    BY <2>1, <2>2 DEF LinkRows
<1>6. \A h \in Handler : RequestSound(req[h], account, sess, link)
  BY DEF AccountsInit, ServerInit, Idle, RequestSound
<1> QED
  BY <1>1, <1>3, <1>4, <1>5, <1>6 DEF Sound

LEMMA SoundNext ==
  ASSUME Sound, [AccountsNext]_<<accountVars, space, workflowVars>>
  PROVE  Sound' /\ TokensAge
<1>0. Shape
  BY DEF Sound
<1>1. ASSUME NEW h \in Handler, PersonsStep(h) PROVE Sound' /\ TokensAge
  <2>1. CASE PeopleStep(h) /\ UNCHANGED <<linkVars, inviteVars>>
    BY <1>0, <2>1, PeoplePlain, PeopleAge, PlainStep
  <2>2. CASE TeamsStep(h) /\ UNCHANGED <<linkVars, inviteVars>>
    BY <1>0, <2>2, TeamsPlain, TeamsAge, PlainStep
  <2>3. CASE SessionsStep(h) /\ UNCHANGED <<linkVars, inviteVars>>
    BY <2>3, SessionsSound
  <2>4. CASE LinksStep(h)
    BY <2>4, LinksSound
  <2>5. CASE InvitesStep(h)
    BY <2>5, InvitesSound
  <2>6. CASE Victim(h) /\ UNCHANGED <<orgVars, linkVars, inviteVars>>
    BY <2>6, Ending, Unchanging DEF Victim, orgVars, linkVars
  <2> QED
    BY <1>1, <2>1, <2>2, <2>3, <2>4, <2>5, <2>6 DEF PersonsStep
<1>2. ASSUME NEW h \in Handler, WorkflowsStep(h), UNCHANGED linkVars PROVE Sound' /\ TokensAge
  BY <1>0, <1>2, WorkflowsPlain, WorkflowsKeep, Unchanging, PlainStep
<1>3. ASSUME UNCHANGED <<accountVars, space, workflowVars>> PROVE Sound' /\ TokensAge
  <2>1. UNCHANGED <<req, held, account, sess, link>>
    BY <1>3 DEF accountVars, serverVars, orgVars, linkVars
  <2> QED
    BY <1>0, <2>1, Unchanging, SoundStep DEF Shape
<1> QED
  BY <1>1, <1>2, <1>3, ExpirySound DEF AccountsNext

(* The accounts, sessions, links and requests of every reachable state are *)
(* sound: a live token of an account that was active when it was opened    *)
(* carries no later generation than the account's, and the same generation *)
(* only while it is active (core/auth, the tgen claim).                    *)
THEOREM TokensAreSound == AccountsSpec => []Sound
<1>1. Sound /\ [AccountsNext]_<<accountVars, space, workflowVars>> => Sound'
  BY SoundNext
<1> QED
  BY SoundInit, <1>1, PTL DEF AccountsSpec

(* No session was opened from the row of a deactivated account. The        *)
(* password sign-in asks for it; the sign-in that follows a redeemed link  *)
(* does not (credlinks/handler.go, GetUser), so that a link redeemed       *)
(* beside a deactivation may open a session that a reactivation would make *)
(* acceptable.                                                             *)
AllOpenedAwake == \A s \in Sid : sess[s].awake

(* A session that is refused has ended, or its account has had a later     *)
(* generation.                                                             *)
LEMMA RefusedStaysRefused ==
  ASSUME Sound, TokensAge, NEW s \in Sid, sess[s].awake, sess[s].st # "none", ~Accepted(s)
  PROVE  ~Accepted(s)'
<1>1. Current(account, sess[s].u, sess[s].gen) /\ sess[s].u \in User
  BY DEF Sound, Opened
<1>2. Kept(sess[s], sess'[s])
  BY DEF TokensAge
<1>3. CASE sess[s].st # "live"
  BY <1>2, <1>3 DEF Kept, Accepted, checkAuthState, AuthState, Claims
<1>4. CASE sess[s].st = "live"
  <2>1. sess[s].gen # account[sess[s].u].gen
    BY <1>1, <1>4 DEF Current, Accepted, checkAuthState, AuthState, Claims, Active, Live
  <2>2. sess[s].gen < account'[sess[s].u].gen
    BY <1>1, <2>1 DEF Current, TokensAge, Ages, Older, Users, UsersRow, Sound
  <2>3. sess'[s].gen # account'[sess'[s].u].gen
    BY <1>1, <1>2, <2>2 DEF Kept, Current
  <2> QED
    BY <2>3 DEF Accepted, checkAuthState, AuthState, Claims
<1> QED
  BY <1>3, <1>4

(* A token the middleware has once refused is refused for good, whatever   *)
(* is requested, provided that no session was opened for a deactivated     *)
(* account (core/auth/middleware.go, checkAuthState; queries/users.sql,    *)
(* the token generation).                                                  *)
THEOREM KillsLast == AccountsSpec /\ []AllOpenedAwake => KillIsPermanent
<1>1. Sound /\ AllOpenedAwake /\ [AccountsNext]_<<accountVars, space, workflowVars>>
      => [\A s \in Sid : sess[s].st # "none" /\ ~Accepted(s) => ~Accepted(s)']_accountVars
  BY SoundNext, RefusedStaysRefused DEF AllOpenedAwake
<1> QED
  BY TokensAreSound, <1>1, PTL DEF AccountsSpec, KillIsPermanent

-----------------------------------------------------------------------------

(* The handler has taken a link and is about to apply its effect.          *)
Burning(r) == r.op = "consume" /\ r.pc = "apply"

(* A step of h that takes no link.                                         *)
Elsewhere(h) ==
  /\ \A k \in Handler \ {h} : req'[k] = req[k] /\ held'[k] = held[k]
  /\ ~Burning(req'[h]) \/ UNCHANGED <<req, held>>

LEMMA PlainElsewhere == ASSUME NEW h \in Handler, Plain(h) PROVE Elsewhere(h)
BY DEF Plain, Mundane, TokenOp, Burning, Elsewhere

LEMMA EndElsewhere == ASSUME Shape, NEW h \in Handler, End(h) PROVE Elsewhere(h)
BY DEF Shape, End, Idle, Burning, Elsewhere

LEMMA MovesElsewhere ==
  ASSUME Shape, NEW h \in Handler, NEW r, ~Burning(r), Begin(h, r) \/ Go(h, r) \/ Commit(h, r)
  PROVE  Elsewhere(h)
BY DEF Shape, Begin, Go, Commit, Elsewhere

LEMMA ServeElsewhere == ASSUME NEW h \in Handler, Serve PROVE Elsewhere(h)
BY DEF Serve, Elsewhere

LEMMA SessionsElsewhere ==
  ASSUME Shape, NEW h \in Handler, SessionsStep(h)
  PROVE  Elsewhere(h)
<1> USE DEF Burning
<1>1. CASE Login(h)
  BY <1>1, MovesElsewhere DEF Login
<1>2. CASE Refresh(h)
  BY <1>2, MovesElsewhere DEF Refresh
<1>3. CASE LogoutAll(h) \/ UpdateMe(h)
  BY <1>3, MovesElsewhere DEF LogoutAll, UpdateMe
<1>4. CASE DeleteAllSessions(h)
  <2> DEFINE r == [req[h] EXCEPT !.pc = "bump"]
  <2>1. ~Burning(r) /\ Go(h, r)
    BY <1>4 DEF DeleteAllSessions, At, Shape
  <2> QED
    BY <2>1, MovesElsewhere
<1>5. CASE Logout(h)
  BY <1>5, ServeElsewhere DEF Logout
<1>6. CASE finishLogin(h) \/ IssueTokenPair(h) \/ RevokeTokens(h) \/ UpdateProfile(h)
  BY <1>6, EndElsewhere DEF finishLogin, IssueTokenPair, RevokeTokens, UpdateProfile
<1> QED
  BY <1>1, <1>2, <1>3, <1>4, <1>5, <1>6 DEF SessionsStep

LEMMA LinksElsewhere ==
  ASSUME Shape, NEW h \in Handler, LinksStep(h), ~ConsumeCredentialLink(h)
  PROVE  Elsewhere(h)
<1> USE DEF Burning
<1>1. CASE RequestReset(h) \/ IssueReset(h) \/ RequestEmailChange(h)
  BY <1>1, MovesElsewhere DEF RequestReset, IssueReset, RequestEmailChange, MintRequest
<1>2. CASE GetUserByEmailAcrossOrgs(h) \/ Consume(h)
  BY <1>2, MovesElsewhere DEF GetUserByEmailAcrossOrgs, Consume
<1>3. CASE CreateUserForAdmin(h) \/ runCreateUserWithLink(h)
  BY <1>3, ServeElsewhere DEF CreateUserForAdmin, runCreateUserWithLink, CreateUserWithSignInLink
<1>4. CASE Issue(h) \/ runResetPassword(h) \/ EmailTakenAtConsume(h) \/ signInAfterConsume(h)
  BY <1>4, EndElsewhere DEF Issue, runResetPassword, EmailTakenAtConsume, signInAfterConsume
<1>5. CASE applyConsumedEffect(h)
  BY <1>5, EndElsewhere, MovesElsewhere DEF applyConsumedEffect
<1>6. CASE GetUserAfterConsume(h)
  BY <1>6, EndElsewhere, MovesElsewhere DEF GetUserAfterConsume
<1> QED
  BY <1>1, <1>2, <1>3, <1>4, <1>5, <1>6 DEF LinksStep

LEMMA InvitesElsewhere ==
  ASSUME Shape, NEW h \in Handler, InvitesStep(h)
  PROVE  Elsewhere(h)
<1> USE DEF Burning
<1>1. CASE CreateInvites(h) \/ CreateInvite(h) \/ RevokeInvite(h) \/ RefreshInviteToken(h)
  BY <1>1, InvitationsPlain, PlainElsewhere
<1>2. CASE Accept(h)
  BY <1>2, MovesElsewhere DEF Accept
<1>3. CASE loadAcceptableInvite(h)
  <2> DEFINE r == [req[h] EXCEPT !.pc = "resolve"]
  <2>1. ~Burning(r) /\ (End(h) \/ Go(h, r))
    BY <1>3 DEF loadAcceptableInvite, At, Shape
  <2> QED
    BY <2>1, MovesElsewhere, EndElsewhere
<1>4. CASE resolveAcceptUser(h)
  <2> DEFINE q == [req[h] EXCEPT !.pc = "join"]
  <2>1. "op" \in DOMAIN q /\ q.op = "accept"
    BY <1>4 DEF resolveAcceptUser, At, Shape
  <2>2. \A u, new, t : ~Burning(With([u |-> u, new |-> new, t |-> t], q))
    <3> HIDE DEF q
    <3> QED
      BY <2>1 DEF With
  <2>3. End(h) \/ \E u, new, t : Go(h, With([u |-> u, new |-> new, t |-> t], q))
    BY <1>4 DEF resolveAcceptUser
  <2> QED
    BY <2>2, <2>3, MovesElsewhere, EndElsewhere
<1>5. CASE MarkInviteAccepted(h)
  BY <1>5, EndElsewhere, MovesElsewhere DEF MarkInviteAccepted
<1>6. CASE signInAfterAccept(h)
  BY <1>6, EndElsewhere DEF signInAfterAccept
<1> QED
  BY <1>1, <1>2, <1>3, <1>4, <1>5, <1>6 DEF InvitesStep

-----------------------------------------------------------------------------

(* The states of a link that is still there to be redeemed.                *)
Outstandings == {"live", "expired"}

(* A link has taken effect once if it is consumed, and otherwise never.    *)
Spent == DOMAIN uses = Link /\ \A l \in Link : uses[l] = IF link[l].st = "consumed" THEN 1 ELSE 0

(* Who burns a link holds its row locked, and it is outstanding.           *)
Held(h) ==
  Burning(req[h]) =>
    LET l == req[h].l IN l \in Link /\ <<"link", l>> \in held[h] /\ link[l].st \in Outstandings

(* Nobody else burns it.                                                   *)
Alone(h, k) == Burning(req[h]) /\ Burning(req[k]) => req[h].l # req[k].l

(* The inductive invariant of the links.                                   *)
Burns ==
  /\ Spent
  /\ \A h \in Handler : Held(h) /\ \A k \in Handler \ {h} : Alone(h, k)

LEMMA BurnsInit == AccountsInit => Burns
<1> SUFFICES ASSUME AccountsInit PROVE Burns
  OBVIOUS
<1>1. \A h \in Handler : ~Burning(req[h])
  BY DEF AccountsInit, ServerInit, Idle, Burning
<1>2. \A l \in Link : link[l].st # "consumed"
  <2>1. mix.name \in DOMAIN Casts
    <3>1. PICK n \in DOMAIN Mixes : mix = With([name |-> n], Mixes[n])
      BY DEF AccountsInit, ServerInit
    <3> QED
      BY <3>1, EveryMixHasACast DEF With
  <2> QED
    BY <2>1, CastLinksAreSent DEF AccountsInit, LinkInit, Cast, NoLink
<1>3. Spent
  BY <1>2 DEF AccountsInit, LinkInit, Spent
<1> QED
  BY <1>1, <1>3 DEF Burns, Held, Alone

(* Who is elsewhere leaves the others burning what they have, as long as   *)
(* the links they hold stay outstanding.                                   *)
LEMMA ElsewhereBurns ==
  ASSUME Burns, NEW h \in Handler, Elsewhere(h), Spent',
         \A k \in Handler \ {h} : Burning(req[k]) => link'[req[k].l].st \in Outstandings,
         UNCHANGED <<req, held>> => (Burning(req[h]) => link'[req[h].l].st \in Outstandings)
  PROVE  Burns'
<1>1. CASE UNCHANGED <<req, held>>
  BY <1>1 DEF Burns, Held, Alone
<1>2. CASE ~Burning(req'[h])
  BY <1>2 DEF Elsewhere, Burns, Held, Alone
<1> QED
  BY <1>1, <1>2 DEF Elsewhere

LEMMA QuietBurns ==
  ASSUME Burns, NEW h \in Handler, Elsewhere(h), UNCHANGED <<link, uses>>
  PROVE  Burns'
<1>1. Spent'
  BY DEF Burns, Spent
<1>2. \A k \in Handler : Burning(req[k]) => link'[req[k].l].st \in Outstandings
  BY DEF Burns, Held
<1> QED
  BY <1>1, <1>2, ElsewhereBurns

(* The guarded consume takes a live link, whose row nobody has locked.     *)
LEMMA ConsumeBurns ==
  ASSUME Shape, Burns, NEW h \in Handler, RequestSound(req[h], account, sess, link), ConsumeCredentialLink(h)
  PROVE  Burns'
<1> DEFINE l == req[h].l
           r == [req[h] EXCEPT !.pc = "apply"]
<1>1. UNCHANGED <<link, uses>>
  BY DEF ConsumeCredentialLink, linkVars
<1>2. CASE End(h)
  BY <1>1, <1>2, EndElsewhere, QuietBurns
<1>3. CASE ~End(h)
  <2>1. /\ GoLocked(h, {<<"link", l>>}, r)
        /\ Free(h, {<<"link", l>>})
        /\ link[l].st = "live" /\ l \in Link
    BY <1>3 DEF ConsumeCredentialLink, Redeemable, At, RequestSound
  <2>2. r.l = l
    BY DEF ConsumeCredentialLink, At, Shape
  <2>3. /\ req'[h] = r /\ <<"link", l>> \in held'[h]
        /\ \A k \in Handler \ {h} : req'[k] = req[k] /\ held'[k] = held[k]
    BY <2>1 DEF GoLocked, Shape
  <2>4. \A k \in Handler \ {h} : Burning(req[k]) => req[k].l # l
    BY <2>1 DEF Free, Burns, Held
  <2>5. Spent'
    BY <1>1 DEF Burns, Spent
  <2>6. ASSUME NEW k \in Handler PROVE Held(k)'
    <3>1. CASE k = h
      BY <1>1, <2>1, <2>2, <2>3, <3>1 DEF Held, Outstandings
    <3>2. CASE k # h
      <4>1. req'[k] = req[k] /\ held'[k] = held[k] /\ Held(k)
        BY <2>3, <3>2 DEF Burns
      <4> QED
        BY <1>1, <4>1 DEF Held
    <3> QED
      BY <3>1, <3>2
  <2> HIDE DEF r
  <2>7. ASSUME NEW j \in Handler, NEW k \in Handler \ {j} PROVE Alone(j, k)'
    <3>1. CASE j = h
      BY <2>2, <2>3, <2>4, <3>1 DEF Alone
    <3>2. CASE k = h
      BY <2>2, <2>3, <2>4, <3>2 DEF Alone
    <3>3. CASE j # h /\ k # h
      <4>1. Alone(j, k) /\ req'[j] = req[j] /\ req'[k] = req[k]
        BY <2>3, <3>3 DEF Burns
      <4> QED
        BY <4>1 DEF Alone
    <3> QED
      BY <3>1, <3>2, <3>3
  <2> QED
    BY <2>5, <2>6, <2>7 DEF Burns
<1> QED
  BY <1>2, <1>3

(* The effect consumes the link the handler holds.                         *)
LEMMA ApplyBurns ==
  ASSUME Shape, LinkRows(link), Burns, NEW h \in Handler, applyConsumedEffect(h), Elsewhere(h)
  PROVE  Burns'
<1> DEFINE l == req[h].l
<1>1. Burning(req[h]) /\ l \in Link /\ link[l].st # "consumed"
  BY DEF applyConsumedEffect, At, Burning, Burns, Held, Outstandings
<1>2. \A x \in Link : link'[x].st = IF x = l THEN "consumed" ELSE link[x].st
  BY <1>1 DEF applyConsumedEffect, LinkRows
<1>3. Spent'
  BY <1>1, <1>2 DEF applyConsumedEffect, Burns, Spent
<1>4. \A k \in Handler \ {h} : Burning(req[k]) => link'[req[k].l].st \in Outstandings
  BY <1>1, <1>2 DEF Burns, Held, Alone
<1>5. ~UNCHANGED req
  <2>1. req'[h].pc # "apply" \/ req'[h].op # "consume"
    BY DEF applyConsumedEffect, End, Commit, Idle, Shape
  <2> QED
    BY <1>1, <2>1 DEF Burning
<1> QED
  BY <1>3, <1>4, <1>5, ElsewhereBurns

(* Superseding links waits for their locks, so that it invalidates none    *)
(* that burns.                                                             *)
LEMMA IssueBurns ==
  ASSUME Shape, LinkRows(link), Burns, NEW h \in Handler, Issue(h), Elsewhere(h)
  PROVE  Burns'
<1> DEFINE r == req[h]
           n == CHOOSE l \in FreeLink : TRUE
<1>1. n \in Link /\ link[n].st = "none"
  BY DEF Issue, FreeLink
<1>2. link' = [l \in Link |->
                CASE l = n -> [st |-> "live", u |-> r.u, purpose |-> r.purpose, email |-> r.email]
                  [] l \in r.old /\ link[l].st \in {"live", "expired"} -> [link[l] EXCEPT !.st = "invalidated"]
                  [] OTHER -> link[l]]
  BY DEF Issue
<1> HIDE DEF n
<1>3. ASSUME NEW x \in Link
      PROVE  /\ link'[x].st = "consumed" <=> link[x].st = "consumed"
             /\ x \notin r.old /\ link[x].st \in Outstandings => link'[x].st = link[x].st
  BY <1>1, <1>2 DEF LinkRows, Outstandings
<1>4. Spent'
  BY <1>3 DEF Issue, Burns, Spent
<1>5. \A k \in Handler \ {h} : Burning(req[k]) => req[k].l \notin r.old
  <2> SUFFICES ASSUME NEW k \in Handler \ {h}, Burning(req[k]), req[k].l \in r.old PROVE FALSE
    OBVIOUS
  <2>1. <<"link", req[k].l>> \in held[k]
    BY DEF Burns, Held
  <2>2. held[k] \cap {<<"link", x>> : x \in r.old} = {}
    BY DEF Issue, Free
  <2> QED
    BY <2>1, <2>2
<1>6. \A k \in Handler \ {h} : Burning(req[k]) => link'[req[k].l].st \in Outstandings
  BY <1>3, <1>5 DEF Burns, Held
<1>7. ~Burning(req[h])
  BY DEF Issue, At, Burning
<1> QED
  BY <1>4, <1>6, <1>7, ElsewhereBurns

(* An account's first link is a new row.                                   *)
LEMMA CreationBurns ==
  ASSUME LinkRows(link), Burns, NEW h \in Handler, Elsewhere(h),
         NEW o, NEW u, NEW e, NEW r, CreateUserWithSignInLink(o, u, e, r)
  PROVE  Burns'
<1>1. PICK n \in Link : /\ link[n].st = "none" /\ UNCHANGED uses
                        /\ link' = [link EXCEPT ![n] = [st |-> "live", u |-> u, purpose |-> "signin", email |-> Nil]]
  BY DEF CreateUserWithSignInLink, FreeLink
<1>2. \A x \in Link : link'[x].st = IF x = n THEN "live" ELSE link[x].st
  BY <1>1 DEF LinkRows
<1>3. Spent'
  BY <1>1, <1>2 DEF Burns, Spent
<1>4. \A k \in Handler : Burning(req[k]) => link'[req[k].l].st \in Outstandings
  BY <1>2 DEF Burns, Held, Outstandings
<1> QED
  BY <1>3, <1>4, ElsewhereBurns

LEMMA BurnsNext ==
  ASSUME Sound, Burns, [AccountsNext]_<<accountVars, space, workflowVars>>
  PROVE  Burns'
<1>0. Shape /\ LinkRows(link)
  BY DEF Sound
<1>1. ASSUME NEW h \in Handler, PersonsStep(h) PROVE Burns'
  <2>1. CASE (PeopleStep(h) \/ TeamsStep(h)) /\ UNCHANGED linkVars
    BY <1>0, <2>1, PeoplePlain, TeamsPlain, PlainElsewhere, QuietBurns DEF linkVars
  <2>2. CASE SessionsStep(h) /\ UNCHANGED linkVars
    BY <1>0, <2>2, SessionsElsewhere, QuietBurns DEF linkVars
  <2>3. CASE LinksStep(h)
    <3>1. CASE ConsumeCredentialLink(h)
      BY <1>0, <3>1, ConsumeBurns DEF Sound
    <3>2. CASE ~ConsumeCredentialLink(h)
      <4>1. Elsewhere(h)
        BY <1>0, <2>3, <3>2, LinksElsewhere
      <4>2. CASE applyConsumedEffect(h)
        BY <1>0, <4>1, <4>2, ApplyBurns
      <4>3. CASE Issue(h)
        BY <1>0, <4>1, <4>3, IssueBurns
      <4>4. CASE CreateUserForAdmin(h)
        BY <1>0, <4>1, <4>4, CreationBurns DEF CreateUserForAdmin
      <4>5. CASE runCreateUserWithLink(h)
        BY <1>0, <4>1, <4>5, CreationBurns DEF runCreateUserWithLink
      <4>6. CASE \/ RequestReset(h) \/ IssueReset(h) \/ RequestEmailChange(h) \/ GetUserByEmailAcrossOrgs(h)
                 \/ runResetPassword(h) \/ Consume(h) \/ EmailTakenAtConsume(h) \/ GetUserAfterConsume(h)
                 \/ signInAfterConsume(h)
        <5>1. UNCHANGED <<link, uses>>
          BY <4>6 DEF linkVars, RequestReset, IssueReset, RequestEmailChange, GetUserByEmailAcrossOrgs,
             runResetPassword, Consume, EmailTakenAtConsume, GetUserAfterConsume, signInAfterConsume
        <5> QED
          BY <4>1, <5>1, QuietBurns
      <4> QED
        BY <2>3, <3>2, <4>2, <4>3, <4>4, <4>5, <4>6 DEF LinksStep
    <3> QED
      BY <3>1, <3>2
  <2>4. CASE InvitesStep(h)
    <3>1. UNCHANGED <<link, uses>>
      BY <2>4 DEF linkVars, InvitesStep, CreateInvites, CreateInvite, RevokeInvite, RefreshInviteToken, Accept,
         loadAcceptableInvite, resolveAcceptUser, MarkInviteAccepted, signInAfterAccept
    <3> QED
      BY <1>0, <2>4, <3>1, InvitesElsewhere, QuietBurns
  <2>5. CASE Victim(h) /\ UNCHANGED linkVars
    BY <1>0, <2>5, EndElsewhere, QuietBurns DEF Victim, linkVars
  <2> QED
    BY <1>1, <2>1, <2>2, <2>3, <2>4, <2>5 DEF PersonsStep
<1>2. ASSUME NEW h \in Handler, WorkflowsStep(h), UNCHANGED linkVars PROVE Burns'
  BY <1>0, <1>2, WorkflowsPlain, PlainElsewhere, QuietBurns DEF linkVars
<1>3. ASSUME Expiry PROVE Burns'
  <2>1. UNCHANGED <<req, held, uses>>
    BY <1>3 DEF Expiry, LinkExpires, InviteExpires, SessionExpires, serverVars, linkVars
  <2>2. ASSUME NEW x \in Link
        PROVE  /\ link'[x].st = "consumed" <=> link[x].st = "consumed"
               /\ link[x].st \in Outstandings => link'[x].st \in Outstandings
    <3>1. CASE UNCHANGED link
      BY <3>1
    <3>2. CASE \E l \in Link : LinkExpires(l)
      <4>1. PICK l \in Link : link[l].st = "live" /\ link' = [link EXCEPT ![l].st = "expired"]
        BY <3>2 DEF LinkExpires, Redeemable
      <4>2. link'[x].st = IF x = l THEN "expired" ELSE link[x].st
        BY <4>1, <1>0 DEF LinkRows
      <4> QED
        BY <4>1, <4>2 DEF Outstandings
    <3> QED
      BY <1>3, <3>1, <3>2 DEF Expiry, InviteExpires, SessionExpires, linkVars
  <2> QED
    BY <2>1, <2>2 DEF Burns, Spent, Held, Alone
<1>4. ASSUME UNCHANGED <<accountVars, space, workflowVars>> PROVE Burns'
  <2>1. UNCHANGED <<req, held, link, uses>>
    BY <1>4 DEF accountVars, serverVars, linkVars
  <2> QED
    BY <2>1 DEF Burns, Spent, Held, Alone
<1> QED
  BY <1>1, <1>2, <1>3, <1>4 DEF AccountsNext

(* A credential link takes effect at most once, however many requests      *)
(* redeem, supersede or expire it at a time (queries/credential_links.sql, *)
(* ConsumeCredentialLink).                                                 *)
THEOREM LinksAreSpentOnce == AccountsSpec => []LinksSpentOnce
<1>1. Sound /\ Burns /\ [AccountsNext]_<<accountVars, space, workflowVars>> => Burns'
  BY BurnsNext
<1>2. Burns => LinksSpentOnce
  BY DEF Burns, Spent, LinksSpentOnce
<1> QED
  BY TokensAreSound, BurnsInit, <1>1, <1>2, PTL DEF AccountsSpec

-----------------------------------------------------------------------------

(* An invites row has its columns.                                         *)
InviteRows ==
  /\ DOMAIN invite = Invite /\ DOMAIN joined = Invite
  /\ \A i \in Invite : DOMAIN invite[i] = DOMAIN NoInvite

(* An accepted invitation has one acceptance, any other none.              *)
JoinedOnce(i) ==
  IF invite[i].st = "accepted" THEN \E j : joined[i] = <<j>> ELSE joined[i] = <<>>

Joins == InviteRows /\ \A i \in Invite : JoinedOnce(i)

LEMMA InviteFields == DOMAIN NoInvite = {"st", "o", "email", "role", "team", "tok", "expired"}
BY DEF NoInvite

LEMMA JoinsInit == AccountsInit => Joins
<1> SUFFICES ASSUME AccountsInit PROVE Joins
  OBVIOUS
<1>1. mix.name \in DOMAIN Casts
  <2>1. PICK n \in DOMAIN Mixes : mix = With([name |-> n], Mixes[n])
    BY DEF AccountsInit, ServerInit
  <2> QED
    BY <2>1, EveryMixHasACast DEF With
<1>2. \A i \in Invite : DOMAIN invite[i] = DOMAIN NoInvite /\ invite[i].st # "accepted"
  <2>1. NoInvite.st # "accepted"
    BY DEF NoInvite
  <2> QED
    BY <1>1, <2>1, CastInvitesAreOpen DEF AccountsInit, InviteInit, Cast
<1> QED
  BY <1>2 DEF AccountsInit, InviteInit, Joins, InviteRows, JoinedOnce

(* An invitation nobody accepts in a step keeps its acceptances.           *)
LEMMA StillJoined ==
  ASSUME Joins, UNCHANGED joined, InviteRows',
         \A i \in Invite : invite'[i].st = "accepted" <=> invite[i].st = "accepted"
  PROVE  Joins'
BY DEF Joins, JoinedOnce

LEMMA RewrittenInvite ==
  ASSUME Joins, NEW i \in Invite, NEW v, invite[i].st # "accepted", v.st # "accepted",
         invite' = [invite EXCEPT ![i] = v], DOMAIN v = DOMAIN NoInvite, UNCHANGED joined
  PROVE  Joins'
<1>1. InviteRows' /\ invite'[i] = v /\ \A k \in Invite : k # i => invite'[k] = invite[k]
  BY DEF Joins, InviteRows
<1>2. \A k \in Invite : invite'[k].st = "accepted" <=> invite[k].st = "accepted"
  BY <1>1
<1> QED
  BY <1>1, <1>2, StillJoined

LEMMA JoinsNext ==
  ASSUME Joins, [AccountsNext]_<<accountVars, space, workflowVars>>
  PROVE  Joins'
<1>0. InviteRows
  BY DEF Joins
<1>1. CASE UNCHANGED inviteVars
  BY <1>1 DEF Joins, InviteRows, JoinedOnce, inviteVars
<1>2. ASSUME NEW h \in Handler, InvitesStep(h) PROVE Joins'
  <2>1. CASE CreateInvites(h) \/ Accept(h) \/ loadAcceptableInvite(h) \/ resolveAcceptUser(h) \/ signInAfterAccept(h)
    BY <1>1, <2>1 DEF CreateInvites, Accept, loadAcceptableInvite, resolveAcceptUser, signInAfterAccept
  <2>2. CASE CreateInvite(h)
    <3>1. CASE UNCHANGED invite
      BY <1>1, <2>2, <3>1 DEF CreateInvite, inviteVars
    <3>2. CASE invite' # invite
      <4>1. PICK i, v : /\ i \in Invite /\ invite[i].st = "none" /\ v.st = "active" /\ DOMAIN v = DOMAIN NoInvite
                        /\ invite' = [invite EXCEPT ![i] = v]
        BY <2>2, <3>2, InviteFields DEF CreateInvite, FreeInvite
      <4>2. UNCHANGED joined
        BY <2>2 DEF CreateInvite
      <4> QED
        BY <4>1, <4>2, RewrittenInvite
    <3> QED
      BY <3>1, <3>2
  <2>3. CASE RevokeInvite(h)
    <3>1. PICK i \in Invite : /\ invite[i].st = "active" /\ UNCHANGED joined
                              /\ invite' = [invite EXCEPT ![i] = [invite[i] EXCEPT !.st = "revoked"]]
      BY <2>3 DEF RevokeInvite
    <3> DEFINE v == [invite[i] EXCEPT !.st = "revoked"]
    <3>2. DOMAIN v = DOMAIN NoInvite /\ v.st # "accepted"
      BY <1>0, InviteFields DEF InviteRows
    <3> QED
      BY <3>1, <3>2, RewrittenInvite
  <2>5. CASE RefreshInviteToken(h)
    <3>1. PICK i \in Invite : /\ invite[i].st = "active" /\ UNCHANGED joined
                              /\ invite' = [invite EXCEPT ![i].tok = @ + 1, ![i].expired = FALSE]
      BY <2>5 DEF RefreshInviteToken
    <3> DEFINE v == [invite[i] EXCEPT !.tok = @ + 1, !.expired = FALSE]
    <3>2. DOMAIN v = DOMAIN NoInvite /\ v.st # "accepted"
      BY <1>0, <3>1, InviteFields DEF InviteRows
    <3>3. invite' = [invite EXCEPT ![i] = v]
      BY <1>0, <3>1 DEF InviteRows
    <3> QED
      BY <3>1, <3>2, <3>3, RewrittenInvite
  <2>4. CASE MarkInviteAccepted(h)
    <3> DEFINE i == req[h].i
    <3>1. CASE UNCHANGED inviteVars
      BY <1>1, <3>1
    <3>2. CASE i \in Invite /\ ~UNCHANGED inviteVars
      <4>1. PICK j : /\ inviteState(i) = "active"
                     /\ invite' = [invite EXCEPT ![i].st = "accepted"]
                     /\ joined' = [joined EXCEPT ![i] = Append(@, j)]
        BY <2>4, <3>2 DEF MarkInviteAccepted, inviteVars
      <4>2. joined[i] = <<>>
        BY <3>2, <4>1 DEF Joins, JoinedOnce, inviteState
      <4>3. joined'[i] = <<j>> /\ invite'[i].st = "accepted"
        BY <1>0, <3>2, <4>1, <4>2, InviteFields DEF InviteRows
      <4>4. InviteRows' /\ \A k \in Invite : k # i => invite'[k] = invite[k] /\ joined'[k] = joined[k]
        BY <1>0, <3>2, <4>1 DEF InviteRows
      <4> QED
        BY <4>3, <4>4 DEF Joins, JoinedOnce
    <3>3. CASE i \notin Invite
      <4>1. InviteRows' /\ \A k \in Invite : invite'[k] = invite[k] /\ joined'[k] = joined[k]
        BY <1>0, <2>4, <3>3 DEF MarkInviteAccepted, InviteRows
      <4> QED
        BY <4>1 DEF Joins, JoinedOnce
    <3> QED
      BY <3>1, <3>2, <3>3
  <2> QED
    BY <1>2, <2>1, <2>2, <2>3, <2>4, <2>5 DEF InvitesStep
<1>3. ASSUME NEW i \in Invite, InviteExpires(i) PROVE Joins'
  <2>1. /\ invite[i].st = "active" /\ UNCHANGED joined
        /\ invite' = [invite EXCEPT ![i] = [invite[i] EXCEPT !.expired = TRUE]]
    BY <1>3 DEF InviteExpires
  <2> DEFINE v == [invite[i] EXCEPT !.expired = TRUE]
  <2>2. DOMAIN v = DOMAIN NoInvite /\ v.st # "accepted"
    BY <1>0, <2>1, InviteFields DEF InviteRows
  <2> QED
    BY <2>1, <2>2, RewrittenInvite
<1> QED
  BY <1>1, <1>2, <1>3 DEF AccountsNext, PersonsStep, Expiry, accountVars

LEMMA JoinsOnce == Joins => InvitesAcceptedOnce
<1> SUFFICES ASSUME Joins, NEW i \in Invite
             PROVE  Len(joined[i]) <= 1 /\ (Len(joined[i]) = 1 <=> invite[i].st = "accepted")
  BY DEF InvitesAcceptedOnce
<1>1. CASE invite[i].st = "accepted"
  <2>1. PICK j : joined[i] = <<j>>
    BY <1>1 DEF Joins, JoinedOnce
  <2> QED
    BY <1>1, <2>1
<1>2. CASE invite[i].st # "accepted"
  <2>1. joined[i] = <<>>
    BY <1>2 DEF Joins, JoinedOnce
  <2> QED
    BY <1>2, <2>1
<1> QED
  BY <1>1, <1>2

(* An invitation is accepted by one person only, however many accept it at *)
(* a time while it is revoked, resent and expires (queries/invites.sql,    *)
(* MarkInviteAccepted).                                                    *)
THEOREM InvitesAreAcceptedOnce == AccountsSpec => []InvitesAcceptedOnce
<1>1. Joins /\ [AccountsNext]_<<accountVars, space, workflowVars>> => Joins'
  BY JoinsNext
<1> QED
  BY JoinsInit, JoinsOnce, <1>1, PTL DEF AccountsSpec

(* No invitation is resent between the two statements of an acceptance.    *)
(* The one reads it by its token and the other consumes it by its id,      *)
(* without asking for the token again (queries/invites.sql,                *)
(* MarkInviteAccepted): a resend that commits between them does not end    *)
(* the link that was read, whatever the comment on RefreshInviteToken      *)
(* says.                                                                   *)
NoResendMeanwhile == \A h \in Handler : At(h, "accept", "join") => req[h].tok = invite[req[h].i].tok

(* An invitation that is accepted is not resent.                           *)
LEMMA CurrentNext ==
  ASSUME Joins, AcceptedWithTheCurrentToken, NoResendMeanwhile, [AccountsNext]_<<accountVars, space, workflowVars>>
  PROVE  AcceptedWithTheCurrentToken'
<1>0. InviteRows
  BY DEF Joins
<1>1. CASE UNCHANGED inviteVars
  BY <1>1 DEF AcceptedWithTheCurrentToken, inviteVars
<1>2. ASSUME UNCHANGED joined,
             \A i \in Invite : invite[i].st = "accepted" => invite'[i].tok = invite[i].tok
      PROVE  AcceptedWithTheCurrentToken'
  <2> SUFFICES ASSUME NEW i \in Invite, NEW j \in Range(joined[i]) PROVE j.tok = invite'[i].tok
    BY <1>2 DEF AcceptedWithTheCurrentToken
  <2>1. invite[i].st = "accepted"
    BY DEF Joins, JoinedOnce, Range
  <2> QED
    BY <1>2, <2>1 DEF AcceptedWithTheCurrentToken
<1>3. ASSUME NEW h \in Handler, InvitesStep(h) PROVE AcceptedWithTheCurrentToken'
  <2>1. CASE CreateInvites(h) \/ Accept(h) \/ loadAcceptableInvite(h) \/ resolveAcceptUser(h) \/ signInAfterAccept(h)
    BY <1>1, <2>1 DEF CreateInvites, Accept, loadAcceptableInvite, resolveAcceptUser, signInAfterAccept
  <2>2. CASE CreateInvite(h)
    <3>1. CASE UNCHANGED invite
      BY <1>1, <2>2, <3>1 DEF CreateInvite, inviteVars
    <3>2. CASE invite' # invite
      <4>1. PICK i, v : i \in Invite /\ invite[i].st = "none" /\ invite' = [invite EXCEPT ![i] = v]
        BY <2>2, <3>2 DEF CreateInvite, FreeInvite
      <4>2. \A k \in Invite : invite[k].st = "accepted" => invite'[k].tok = invite[k].tok
        BY <1>0, <4>1 DEF InviteRows
      <4> QED
        BY <1>2, <2>2, <4>2 DEF CreateInvite
    <3> QED
      BY <3>1, <3>2
  <2>3. CASE RevokeInvite(h) \/ RefreshInviteToken(h)
    <3>1. UNCHANGED joined
      BY <2>3 DEF RevokeInvite, RefreshInviteToken
    <3>2. \A k \in Invite : invite[k].st = "accepted" => invite'[k].tok = invite[k].tok
      BY <1>0, <2>3 DEF RevokeInvite, RefreshInviteToken, InviteRows
    <3> QED
      BY <1>2, <3>1, <3>2
  <2>4. CASE MarkInviteAccepted(h)
    <3> DEFINE i == req[h].i
    <3>1. CASE UNCHANGED inviteVars
      BY <1>1, <3>1
    <3>2. CASE i \in Invite /\ ~UNCHANGED inviteVars
      <4>1. PICK u : /\ inviteState(i) = "active"
                     /\ invite' = [invite EXCEPT ![i].st = "accepted"]
                     /\ joined' = [joined EXCEPT ![i] = Append(@, [u |-> u, tok |-> req[h].tok])]
        BY <2>4, <3>2 DEF MarkInviteAccepted, inviteVars
      <4>2. joined[i] = <<>>
        BY <3>2, <4>1 DEF Joins, JoinedOnce, inviteState
      <4>3. joined'[i] = <<[u |-> u, tok |-> req[h].tok]>>
        BY <1>0, <3>2, <4>1, <4>2 DEF InviteRows
      <4>4. \A k \in Invite : invite'[k].tok = invite[k].tok /\ (k # i => joined'[k] = joined[k])
        BY <1>0, <3>2, <4>1, InviteFields DEF InviteRows
      <4>5. req[h].tok = invite[i].tok
        BY <2>4 DEF MarkInviteAccepted, NoResendMeanwhile
      <4> HIDE DEF i
      <4>6. \A j \in Range(joined'[i]) : j.tok = invite'[i].tok
        BY <3>2, <4>3, <4>4, <4>5 DEF Range
      <4> QED
        BY <4>4, <4>6 DEF AcceptedWithTheCurrentToken
    <3>3. CASE i \notin Invite
      <4>1. \A k \in Invite : invite'[k] = invite[k] /\ joined'[k] = joined[k]
        BY <1>0, <2>4, <3>3 DEF MarkInviteAccepted, InviteRows
      <4> QED
        BY <4>1 DEF AcceptedWithTheCurrentToken
    <3> QED
      BY <3>1, <3>2, <3>3
  <2> QED
    BY <1>3, <2>1, <2>2, <2>3, <2>4 DEF InvitesStep
<1>4. ASSUME NEW i \in Invite, InviteExpires(i) PROVE AcceptedWithTheCurrentToken'
  <2>1. \A k \in Invite : invite'[k].tok = invite[k].tok
    BY <1>0, <1>4, InviteFields DEF InviteExpires, InviteRows
  <2> QED
    BY <1>2, <1>4, <2>1 DEF InviteExpires
<1> QED
  BY <1>1, <1>3, <1>4 DEF AccountsNext, PersonsStep, Expiry, accountVars

(* And it was accepted with its current token, unless it was resent in the *)
(* middle of the acceptance.                                               *)
THEOREM TokensAreSpentOnce == AccountsSpec /\ []NoResendMeanwhile => []TokensSpentOnce
<1>1. /\ Joins /\ [AccountsNext]_<<accountVars, space, workflowVars>> => Joins'
      /\ Joins /\ AcceptedWithTheCurrentToken /\ NoResendMeanwhile /\ [AccountsNext]_<<accountVars, space, workflowVars>>
           => AcceptedWithTheCurrentToken'
  BY JoinsNext, CurrentNext
<1>2. AccountsInit => AcceptedWithTheCurrentToken
  BY DEF AccountsInit, InviteInit, AcceptedWithTheCurrentToken, Range
<1>3. LinksSpentOnce /\ InvitesAcceptedOnce /\ AcceptedWithTheCurrentToken => TokensSpentOnce
  BY DEF TokensSpentOnce
<1> QED
  BY LinksAreSpentOnce, InvitesAreAcceptedOnce, JoinsInit, <1>1, <1>2, <1>3, PTL DEF AccountsSpec

-----------------------------------------------------------------------------

(* A users row that keeps its generation keeps its password and its        *)
(* address.                                                                *)
Lasts(r, q) == r.st = "live" /\ r.gen = q.gen => q.pw = r.pw /\ q.email = r.email
Lasting(a, b) == \A u \in User : Lasts(a[u], b[u])

(* The password p and the address e are the account's while g is its       *)
(* generation.                                                             *)
Fits(a, u, g, p, e) == a[u].gen = g => a[u].pw = p /\ a[u].email = e
Fitting(a, x) == x.awake => Fits(a, x.u, x.gen, x.pw, x.at)
(* What a sign-in has read of its account fits it.                         *)
RowFits(a, r) ==
  r.op \in {"login", "consume", "accept"} /\ r.pc = "session" =>
    (r.row.active => Fits(a, r.u, r.row.gen, r.row.pw, r.row.email))

(* The inductive invariant of the credentials.                             *)
Fit ==
  /\ \A s \in Sid : sess[s].st # "none" => Fitting(account, sess[s])
  /\ \A h \in Handler : RowFits(account, req[h])

(* A session that goes on keeps what it was opened with.                   *)
Remembers(x, y) == y.st = "none" \/ (x.st # "none" /\ y.pw = x.pw /\ y.at = x.at)
Remembering == \A s \in Sid : Remembers(sess[s], sess'[s]) \/ Fitting(account', sess'[s])

(* What fits a generation that is not later than the account's goes on     *)
(* fitting it.                                                             *)
LEMMA FitsOn ==
  ASSUME NEW a, NEW b, Users(a), Users(b), Ages(a, b), Lasting(a, b), NEW u, NEW g, Current(a, u, g),
         NEW p, NEW e, Fits(a, u, g, p, e)
  PROVE  Fits(b, u, g, p, e)
<1>1. a[u].gen <= b[u].gen /\ a[u].gen \in Nat /\ b[u].gen \in Nat /\ g <= a[u].gen /\ g \in Nat
  BY DEF Users, UsersRow, Ages, Older, Current
<1>2. CASE b[u].gen = g
  <2>1. a[u].gen = g /\ a[u].gen = b[u].gen
    BY <1>1, <1>2
  <2> QED
    BY <2>1 DEF Fits, Lasting, Lasts, Current
<1> QED
  BY <1>2 DEF Fits

(* A lasting step keeps the invariant.                                     *)
LEMMA FitStep ==
  ASSUME Sound, Fit, TokensAge, Lasting(account, account'), Remembering,
         \A h \in Handler : req'[h] = req[h] \/ RowFits(account', req'[h])
  PROVE  Fit'
<1>0. Users(account) /\ Users(account') /\ Ages(account, account')
  BY DEF Sound, TokensAge
<1>1. ASSUME NEW s \in Sid, sess'[s].st # "none", Remembers(sess[s], sess'[s])
      PROVE  Fitting(account', sess'[s])
  <2>1. sess[s].st # "none" /\ sess'[s].pw = sess[s].pw /\ sess'[s].at = sess[s].at
    BY <1>1 DEF Remembers
  <2>2. sess'[s].u = sess[s].u /\ sess'[s].gen = sess[s].gen /\ sess'[s].awake = sess[s].awake
    BY <2>1 DEF TokensAge, Kept
  <2>3. Fitting(account, sess[s]) /\ Opened(account, sess[s])
    BY <2>1 DEF Fit, Sound
  <2> QED
    BY <1>0, <2>1, <2>2, <2>3, FitsOn DEF Fitting, Opened
<1>2. ASSUME NEW h \in Handler PROVE RowFits(account', req[h])
  BY <1>0, FitsOn DEF Fit, RowFits, Sound, RequestSound
<1> QED
  BY <1>1, <1>2 DEF Fit, Remembering

LEMMA SameLasts == UNCHANGED account => Lasting(account, account')
BY DEF Lasting, Lasts

LEMMA SameRemembered == UNCHANGED sess => Remembering
BY DEF Remembering, Remembers

LEMMA RevocationsRemember ==
  ASSUME NEW ss, SessionRows(ss), NEW u, NEW x \in Sid, NEW s \in Sid
  PROVE  Remembers(ss[x], RevokeAllUserSessions(ss, u)[x]) /\ Remembers(ss[x], RevokeSession(ss, s)[x])
<1>1. Remembers(ss[x], ss[x])
  BY DEF Remembers
<1>2. ASSUME NEW y \in Sid PROVE Remembers(ss[x], RevokeSession(ss, y)[x])
  <2>1. CASE x # y
    BY <1>1, <2>1 DEF RevokeSession, SessionRows
  <2>2. CASE x = y
    <3> DEFINE q == RevokeSession(ss, y)[x]
    <3>1. q.pw = ss[x].pw /\ q.at = ss[x].at /\ q.st = IF ss[x].st = "live" THEN "revoked" ELSE ss[x].st
      BY <2>2 DEF RevokeSession, SessionRows, SessionsRow
    <3> HIDE DEF q
    <3>2. Remembers(ss[x], q)
      BY <3>1 DEF Remembers
    <3> QED
      BY <3>2 DEF q
  <2> QED
    BY <2>1, <2>2
<1>3. RevokeAllUserSessions(ss, u)[x] \in {ss[x], RevokeSession(ss, x)[x]}
  BY DEF RevokeAllUserSessions
<1> QED
  BY <1>1, <1>2, <1>3

LEMMA RevokedRemembered ==
  ASSUME Sound, NEW u, NEW s \in Sid, sess' \in {RevokeAllUserSessions(sess, u), RevokeSession(sess, s)}
  PROVE  Remembering
BY RevocationsRemember DEF Sound, Remembering

(* A write that changes the credentials or ends sessions moves the         *)
(* generation on.                                                          *)
LEMMA BumpsLast ==
  ASSUME NEW a, NEW b, Users(a), NEW u, NEW e,
         b \in {DeactivateUserAccount(a, u), BumpTokenGeneration(a, u), UpdateUserPasswordHash(a, u), UpdateUserEmail(a, u, e)}
  PROVE  Lasting(a, b)
<1> SUFFICES ASSUME NEW v \in User PROVE Lasts(a[v], b[v])
  BY DEF Lasting
<1>1. CASE v # u
  <2>1. b[v] = a[v]
    BY <1>1 DEF DeactivateUserAccount, BumpTokenGeneration, UpdateUserPasswordHash, UpdateUserEmail, Users
  <2> QED
    BY <2>1 DEF Lasts
<1>2. CASE v = u
  <2>1. b[v].gen = a[v].gen + 1 /\ a[v].gen \in Nat
    BY <1>2 DEF DeactivateUserAccount, BumpTokenGeneration, UpdateUserPasswordHash, UpdateUserEmail, Users, UsersRow, Columns
  <2> QED
    BY <2>1 DEF Lasts
<1> QED
  BY <1>1, <1>2

LEMMA ReactivationLasts ==
  ASSUME NEW a, Users(a), NEW u
  PROVE  Lasting(a, ReactivateUserAccount(a, u))
<1> DEFINE b == ReactivateUserAccount(a, u)
<1>1. ASSUME NEW v \in User PROVE b[v].pw = a[v].pw /\ b[v].email = a[v].email
  BY DEF ReactivateUserAccount, Users, UsersRow, Columns
<1> QED
  BY <1>1 DEF Lasting, Lasts

LEMMA ProfileLasts ==
  ASSUME NEW a, Users(a), NEW u, NEW e, u \in User => e = a[u].email
  PROVE  Lasting(a, UpdateUserProfile(a, u, e))
<1> DEFINE b == UpdateUserProfile(a, u, e)
<1>1. ASSUME NEW v \in User PROVE b[v].pw = a[v].pw /\ b[v].email = a[v].email
  BY DEF UpdateUserProfile, Users, UsersRow, Columns
<1> QED
  BY <1>1 DEF Lasting, Lasts

LEMMA CreationLasts ==
  ASSUME NEW a, Users(a), NEW u, u \in User => a[u].st = "absent", NEW o, NEW e, NEW p
  PROVE  Lasting(a, CreateUser(a, u, o, e, p))
<1> SUFFICES ASSUME NEW v \in User PROVE Lasts(a[v], CreateUser(a, u, o, e, p)[v])
  BY DEF Lasting
<1>1. CASE v # u
  BY <1>1 DEF CreateUser, Users, Lasts
<1>2. CASE v = u
  BY <1>2 DEF Lasts
<1> QED
  BY <1>1, <1>2

(* A session opened from a row that fits fits.                             *)
LEMMA OpenedFits ==
  ASSUME Sound, NEW u, NEW row, CreateSession(u, row), UNCHANGED account,
         row.active => Fits(account, u, row.gen, row.pw, row.email)
  PROVE  Remembering
<1>1. PICK n \in Sid :
        sess' = [sess EXCEPT ![n] = [st |-> "live", u |-> u, gen |-> row.gen, pw |-> row.pw,
                                     at |-> row.email, awake |-> row.active]]
  BY DEF CreateSession, FreeSid
<1>2. /\ sess'[n].u = u /\ sess'[n].gen = row.gen /\ sess'[n].awake = row.active
      /\ sess'[n].pw = row.pw /\ sess'[n].at = row.email
      /\ \A s \in Sid \ {n} : sess'[s] = sess[s]
  BY <1>1 DEF Sound, SessionRows
<1>3. Fitting(account', sess'[n])
  BY <1>2 DEF Fitting
<1> QED
  BY <1>2, <1>3 DEF Remembering, Remembers

(* A profile change writes back the address that stands. It read it a      *)
(* statement earlier (core/auth/user.go, UpdateProfile) and its write      *)
(* moves no generation on, so that a change of address that is redeemed in *)
(* between is undone under the sessions opened since.                      *)
ProfilesWriteBackWhatStands ==
  \A h \in Handler : At(h, "updateme", "write") => req[h].email = account[req[h].u].email

(* What a step of h does to the other handlers and what it goes on with.   *)
Onward(h) ==
  /\ \A k \in Handler \ {h} : req'[k] = req[k]
  /\ req'[h] = req[h] \/ RowFits(account', req'[h])

LEMMA PlainOnward == ASSUME NEW h \in Handler, Plain(h) PROVE Onward(h)
BY DEF Plain, Mundane, TokenOp, RowFits, Onward

LEMMA EndOnward == ASSUME Shape, NEW h \in Handler, End(h) PROVE Onward(h)
BY DEF Shape, End, Idle, RowFits, Onward

LEMMA ServeOnward == ASSUME NEW h \in Handler, Serve PROVE Onward(h)
BY DEF Serve, Onward

LEMMA MovesOnward ==
  ASSUME NEW h \in Handler, NEW r, Moves(h, r),
         r.op \in {"login", "consume", "accept"} /\ r.pc = "session" => r.row = account'[r.u]
  PROVE  Onward(h)
BY DEF Moves, RowFits, Fits, Onward

(* The administration of people lasts,                                     *)
LEMMA PeopleFit ==
  ASSUME Sound, NEW h \in Handler, PeopleStep(h)
  PROVE  Lasting(account, account') /\ Remembering
<1>0. Users(account)
  BY DEF Sound
<1>1. CASE UNCHANGED <<account, sess>>
  BY <1>1, SameLasts, SameRemembered
<1>2. CASE Deactivate(h) \/ ForceLogout(h)
  <2>1. \/ UNCHANGED <<account, sess>>
        \/ /\ account' \in {DeactivateUserAccount(account, req[h].u), BumpTokenGeneration(account, req[h].u)}
           /\ sess' = RevokeAllUserSessions(sess, req[h].u)
    BY <1>2 DEF Deactivate, ForceLogout
  <2>2. ASSUME sess' = RevokeAllUserSessions(sess, req[h].u) PROVE Remembering
    <3>1. ASSUME NEW x \in Sid PROVE Remembers(sess[x], sess'[x])
      BY <2>2, RevocationsRemember DEF Sound
    <3> QED
      BY <3>1 DEF Remembering
  <2>3. ASSUME NEW u, account' \in {DeactivateUserAccount(account, u), BumpTokenGeneration(account, u)}
        PROVE  Lasting(account, account')
    <3>1. \A e : account' \in {DeactivateUserAccount(account, u), BumpTokenGeneration(account, u),
                               UpdateUserPasswordHash(account, u), UpdateUserEmail(account, u, e)}
      BY <2>3
    <3> QED
      BY <1>0, <3>1, BumpsLast
  <2> QED
    BY <1>1, <2>1, <2>2, <2>3
<1>3. CASE Reactivate(h)
  BY <1>0, <1>3, ReactivationLasts, SameLasts, SameRemembered DEF Reactivate
<1>4. CASE ~(Deactivate(h) \/ Reactivate(h) \/ ForceLogout(h))
  <2>1. UNCHANGED <<account, sess>>
    BY <1>4 DEF PeopleStep, orgVars, DeactivatePerson, ReactivatePerson, ForceLogoutPerson, RemovePerson,
       lifecycleAction, lockAdmins, adminsLocked, requireOtherAdmins, RemoveFromOrg, UpdatePerson, ChangeOrgRole,
       UpdateMembershipRole, ChangePrimaryTeam, EnrolAsPrimary
  <2> QED
    BY <1>1, <2>1
<1> QED
  BY <1>2, <1>3, <1>4

(* so does what a person does with his sessions and profile,               *)
LEMMA SessionsFit ==
  ASSUME Sound, Fit, ProfilesWriteBackWhatStands, NEW h \in Handler, SessionsStep(h)
  PROVE  Lasting(account, account') /\ Remembering /\ Onward(h)
<1>0. Shape /\ Users(account)
  BY DEF Sound
<1>1. CASE Login(h)
  <2>1. PICK u : Begin(h, [op |-> "login", pc |-> "session", u |-> u, row |-> account[u]]) /\ UNCHANGED <<account, sess>>
    BY <1>1 DEF Login, orgVars
  <2> DEFINE r == [op |-> "login", pc |-> "session", u |-> u, row |-> account[u]]
  <2>2. Moves(h, r)
    BY <1>0, <2>1, Moving
  <2>3. r.row = account'[r.u]
    BY <2>1
  <2> QED
    BY <2>1, <2>2, <2>3, MovesOnward, SameLasts, SameRemembered
<1>2. CASE finishLogin(h)
  <2>1. Remembering
    BY <1>2, OpenedFits DEF finishLogin, At, Fit, RowFits
  <2> QED
    BY <1>0, <1>2, <2>1, SameLasts, EndOnward DEF finishLogin
<1>3. CASE Refresh(h)
  <2>1. PICK s, g : Begin(h, [op |-> "refresh", pc |-> "mint", s |-> s, gen |-> g]) /\ UNCHANGED <<account, sess>>
    BY <1>3 DEF Refresh, orgVars
  <2> DEFINE r == [op |-> "refresh", pc |-> "mint", s |-> s, gen |-> g]
  <2>2. Moves(h, r)
    BY <1>0, <2>1, Moving
  <2> QED
    BY <2>1, <2>2, MovesOnward, SameLasts, SameRemembered
<1>4. CASE IssueTokenPair(h)
  <2>1. \A s \in Sid : sess'[s].st = sess[s].st /\ sess'[s].pw = sess[s].pw /\ sess'[s].at = sess[s].at
    BY <1>4 DEF IssueTokenPair, Sound, SessionRows, SessionsRow
  <2>2. Remembering
    BY <2>1 DEF Remembering, Remembers
  <2> QED
    BY <1>0, <1>4, <2>2, SameLasts, EndOnward DEF IssueTokenPair
<1>5. CASE Logout(h)
  <2>1. PICK s \in Sid : sess' = RevokeSession(sess, s)
    BY <1>5 DEF Logout
  <2> QED
    BY <1>5, <2>1, RevokedRemembered, SameLasts, ServeOnward DEF Logout
<1>6. CASE LogoutAll(h) \/ UpdateMe(h)
  <2>1. PICK r : Begin(h, r) /\ "op" \in DOMAIN r /\ "pc" \in DOMAIN r /\ r.pc # "session" /\ UNCHANGED <<account, sess>>
    BY <1>6 DEF LogoutAll, UpdateMe, orgVars
  <2>2. Moves(h, r)
    BY <1>0, <2>1, Moving
  <2> QED
    BY <2>1, <2>2, MovesOnward, SameLasts, SameRemembered
<1>7. CASE DeleteAllSessions(h)
  <2> DEFINE r == [req[h] EXCEPT !.pc = "bump"]
  <2>1. "op" \in DOMAIN r /\ "pc" \in DOMAIN r /\ r.pc = "bump" /\ Go(h, r)
    BY <1>0, <1>7 DEF DeleteAllSessions, At, Shape
  <2>2. Moves(h, r)
    BY <1>0, <2>1, Moving
  <2>3. Onward(h)
    BY <2>1, <2>2, MovesOnward
  <2>4. Remembering
    BY <1>7, RevocationsRemember DEF DeleteAllSessions, Sound, Remembering
  <2> QED
    BY <1>7, <2>3, <2>4, SameLasts DEF DeleteAllSessions
<1>8. CASE RevokeTokens(h)
  BY <1>0, <1>8, BumpsLast, SameRemembered, EndOnward DEF RevokeTokens
<1>9. CASE UpdateProfile(h)
  <2>1. Lasting(account, account')
    BY <1>0, <1>9, ProfileLasts, SameLasts DEF UpdateProfile, ProfilesWriteBackWhatStands
  <2> QED
    BY <1>0, <1>9, <2>1, SameRemembered, EndOnward DEF UpdateProfile
<1> QED
  BY <1>1, <1>2, <1>3, <1>4, <1>5, <1>6, <1>7, <1>8, <1>9 DEF SessionsStep

(* with links,                                                             *)
LEMMA LinksFit ==
  ASSUME Sound, Fit, NEW h \in Handler, LinksStep(h)
  PROVE  Lasting(account, account') /\ Remembering /\ Onward(h)
<1>0. Shape /\ Users(account)
  BY DEF Sound
<1>1. CASE RequestReset(h) \/ IssueReset(h) \/ RequestEmailChange(h) \/ GetUserByEmailAcrossOrgs(h) \/ Consume(h)
  <2>1. PICK r : Begin(h, r) /\ "op" \in DOMAIN r /\ "pc" \in DOMAIN r /\ r.pc # "session" /\ UNCHANGED <<account, sess>>
    BY <1>1 DEF RequestReset, IssueReset, RequestEmailChange, MintRequest, GetUserByEmailAcrossOrgs, Consume, orgVars
  <2>2. Moves(h, r)
    BY <1>0, <2>1, Moving
  <2> QED
    BY <2>1, <2>2, MovesOnward, SameLasts, SameRemembered
<1>2. CASE Issue(h) \/ EmailTakenAtConsume(h)
  BY <1>0, <1>2, EndOnward, SameLasts, SameRemembered DEF Issue, EmailTakenAtConsume, orgVars
<1>3. CASE CreateUserForAdmin(h) \/ runCreateUserWithLink(h)
  <2>1. PICK u, o, e, r : CreateUserWithSignInLink(o, u, e, r)
    <3>1. CASE CreateUserForAdmin(h)
      BY <3>1 DEF CreateUserForAdmin
    <3>2. CASE runCreateUserWithLink(h)
      BY <3>2 DEF runCreateUserWithLink
    <3> QED
      BY <1>3, <3>1, <3>2
  <2> QED
    BY <1>0, <2>1, CreationLasts, SameRemembered, ServeOnward DEF CreateUserWithSignInLink
<1>4. CASE runResetPassword(h)
  BY <1>0, <1>4, BumpsLast, SameRemembered, EndOnward DEF runResetPassword
<1>5. CASE ConsumeCredentialLink(h)
  <2>1. UNCHANGED <<account, sess>>
    BY <1>5 DEF ConsumeCredentialLink, orgVars
  <2>2. Onward(h)
    <3>1. CASE End(h)
      BY <1>0, <3>1, EndOnward
    <3>2. CASE ~End(h)
      <4> DEFINE r == [req[h] EXCEPT !.pc = "apply"]
      <4>1. PICK rows : GoLocked(h, rows, r)
        BY <1>5, <3>2 DEF ConsumeCredentialLink
      <4>2. "op" \in DOMAIN r /\ "pc" \in DOMAIN r /\ r.pc = "apply"
        BY <1>0, <1>5 DEF ConsumeCredentialLink, At, Shape
      <4>3. Moves(h, r)
        BY <1>0, <4>1, <4>2, Moving
      <4> QED
        BY <4>2, <4>3, MovesOnward
    <3> QED
      BY <3>1, <3>2
  <2> QED
    BY <2>1, <2>2, SameLasts, SameRemembered
<1>6. CASE applyConsumedEffect(h)
  <2> DEFINE l == req[h].l
             u == link[l].u
  <2>1. Onward(h)
    <3>1. CASE End(h)
      BY <1>0, <3>1, EndOnward
    <3>2. CASE ~End(h)
      <4> DEFINE r == [op |-> "consume", pc |-> "getuser", u |-> u]
      <4>1. Commit(h, r)
        BY <1>6, <3>2 DEF applyConsumedEffect
      <4>2. Moves(h, r)
        BY <1>0, <4>1, Moving
      <4> QED
        BY <4>2, MovesOnward
    <3> QED
      BY <3>1, <3>2
  <2>2. CASE link[l].purpose = "email_change"
    BY <1>0, <1>6, <2>1, <2>2, BumpsLast, SameRemembered DEF applyConsumedEffect, applyEmailEffect
  <2>3. CASE link[l].purpose # "email_change"
    <3>1. Lasting(account, account')
      BY <1>0, <1>6, <2>3, BumpsLast DEF applyConsumedEffect, applyPasswordEffect
    <3>2. sess' = sess \/ sess' = RevokeAllUserSessions(sess, u)
      BY <1>6, <2>3 DEF applyConsumedEffect, applyPasswordEffect
    <3>3. Remembering
      BY <3>2, RevocationsRemember, SameRemembered DEF Sound, Remembering
    <3> QED
      BY <2>1, <3>1, <3>3
  <2> QED
    BY <2>2, <2>3
<1>7. CASE GetUserAfterConsume(h)
  <2>1. UNCHANGED <<account, sess>>
    BY <1>7 DEF GetUserAfterConsume, orgVars
  <2>2. Onward(h)
    <3>1. CASE End(h)
      BY <1>0, <3>1, EndOnward
    <3>2. CASE ~End(h)
      <4> DEFINE r == [op |-> "consume", pc |-> "session", u |-> req[h].u, row |-> account[req[h].u]]
      <4>1. Go(h, r)
        BY <1>7, <3>2 DEF GetUserAfterConsume
      <4>2. Moves(h, r)
        BY <1>0, <4>1, Moving
      <4>3. r.row = account'[r.u]
        BY <2>1
      <4> QED
        BY <4>2, <4>3, MovesOnward
    <3> QED
      BY <3>1, <3>2
  <2> QED
    BY <2>1, <2>2, SameLasts, SameRemembered
<1>8. CASE signInAfterConsume(h)
  <2>1. Remembering
    BY <1>8, OpenedFits DEF signInAfterConsume, At, Fit, RowFits
  <2> QED
    BY <1>0, <1>8, <2>1, SameLasts, EndOnward DEF signInAfterConsume
<1> QED
  BY <1>1, <1>2, <1>3, <1>4, <1>5, <1>6, <1>7, <1>8 DEF LinksStep

(* and with invitations.                                                   *)
LEMMA InvitesFit ==
  ASSUME Sound, Fit, NEW h \in Handler, InvitesStep(h)
  PROVE  Lasting(account, account') /\ Remembering /\ Onward(h)
<1>0. Shape /\ Users(account)
  BY DEF Sound
<1>1. CASE CreateInvites(h) \/ CreateInvite(h) \/ RevokeInvite(h) \/ RefreshInviteToken(h)
  BY <1>0, <1>1, InvitationsPlain, PlainOnward, SameLasts, SameRemembered
<1>2. CASE Accept(h)
  <2>1. PICK r : Begin(h, r) /\ "op" \in DOMAIN r /\ "pc" \in DOMAIN r /\ r.pc # "session" /\ UNCHANGED <<account, sess>>
    BY <1>2 DEF Accept, orgVars
  <2>2. Moves(h, r)
    BY <1>0, <2>1, Moving
  <2> QED
    BY <2>1, <2>2, MovesOnward, SameLasts, SameRemembered
<1>3. CASE loadAcceptableInvite(h)
  <2>1. UNCHANGED <<account, sess>>
    BY <1>3 DEF loadAcceptableInvite, orgVars
  <2>2. Onward(h)
    <3>1. CASE End(h)
      BY <1>0, <3>1, EndOnward
    <3>2. CASE ~End(h)
      <4> DEFINE r == [req[h] EXCEPT !.pc = "resolve"]
      <4>1. Go(h, r)
        BY <1>3, <3>2 DEF loadAcceptableInvite
      <4>2. "op" \in DOMAIN r /\ "pc" \in DOMAIN r /\ r.pc = "resolve"
        BY <1>0, <1>3 DEF loadAcceptableInvite, At, Shape
      <4>3. Moves(h, r)
        BY <1>0, <4>1, <4>2, Moving
      <4> QED
        BY <4>2, <4>3, MovesOnward
    <3> QED
      BY <3>1, <3>2
  <2> QED
    BY <2>1, <2>2, SameLasts, SameRemembered
<1>4. CASE resolveAcceptUser(h)
  <2>1. UNCHANGED <<account, sess>>
    BY <1>4 DEF resolveAcceptUser, orgVars
  <2>2. Onward(h)
    <3>1. CASE End(h)
      BY <1>0, <3>1, EndOnward
    <3>2. CASE ~End(h)
      <4>1. PICK u, new, t : Go(h, With([u |-> u, new |-> new, t |-> t], [req[h] EXCEPT !.pc = "join"]))
        BY <1>4, <3>2 DEF resolveAcceptUser
      <4> DEFINE q == [req[h] EXCEPT !.pc = "join"]
                 r == With([u |-> u, new |-> new, t |-> t], q)
      <4>2. "op" \in DOMAIN q /\ "pc" \in DOMAIN q /\ q.pc = "join"
        BY <1>0, <1>4 DEF resolveAcceptUser, At, Shape
      <4> HIDE DEF q
      <4>3. "op" \in DOMAIN r /\ "pc" \in DOMAIN r /\ r.pc = "join"
        BY <4>2 DEF With
      <4> USE DEF q
      <4>4. Moves(h, r)
        BY <1>0, <4>1, <4>3, Moving
      <4> QED
        BY <4>3, <4>4, MovesOnward
    <3> QED
      BY <3>1, <3>2
  <2> QED
    BY <2>1, <2>2, SameLasts, SameRemembered
<1>5. CASE MarkInviteAccepted(h)
  <2> DEFINE u == req[h].u
  <2>1. UNCHANGED sess
    BY <1>5 DEF MarkInviteAccepted
  <2>2. CASE UNCHANGED account /\ End(h)
    BY <1>0, <2>1, <2>2, EndOnward, SameLasts, SameRemembered
  <2>3. CASE ~(UNCHANGED account /\ End(h))
    <3>1. req[h].new /\ account[u].st = "absent"
      BY <1>5, <2>3 DEF MarkInviteAccepted
    <3>2. PICK o, e : account' = CreateUser(account, u, o, e, 1)
      BY <1>5, <2>3, <3>1 DEF MarkInviteAccepted
    <3> DEFINE r == [op |-> "accept", pc |-> "session", u |-> u, row |-> account'[u]]
    <3>3. Commit(h, r)
      BY <1>5, <2>3, <3>1 DEF MarkInviteAccepted
    <3>4. Moves(h, r)
      BY <1>0, <3>3, Moving
    <3>5. r.row = account'[r.u]
      OBVIOUS
    <3> HIDE DEF r
    <3> QED
      BY <1>0, <2>1, <3>1, <3>2, <3>4, <3>5, MovesOnward, CreationLasts, SameRemembered
  <2> QED
    BY <2>2, <2>3
<1>6. CASE signInAfterAccept(h)
  <2>1. Remembering
    BY <1>6, OpenedFits DEF signInAfterAccept, At, Fit, RowFits
  <2> QED
    BY <1>0, <1>6, <2>1, SameLasts, EndOnward DEF signInAfterAccept
<1> QED
  BY <1>1, <1>2, <1>3, <1>4, <1>5, <1>6 DEF InvitesStep

LEMMA FitNext ==
  ASSUME Sound, Fit, ProfilesWriteBackWhatStands, [AccountsNext]_<<accountVars, space, workflowVars>>
  PROVE  Fit'
<1>0. Shape /\ TokensAge
  BY SoundNext DEF Sound
<1>1. ASSUME NEW h \in Handler, Lasting(account, account'), Remembering, Onward(h) PROVE Fit'
  BY <1>0, <1>1, FitStep DEF Onward
<1>2. ASSUME UNCHANGED <<account, sess, req>> PROVE Fit'
  BY <1>0, <1>2, FitStep, SameLasts, SameRemembered
<1>3. ASSUME NEW h \in Handler, PersonsStep(h) PROVE Fit'
  <2>1. CASE PeopleStep(h) /\ UNCHANGED linkVars
    BY <1>0, <1>1, <2>1, PeopleFit, PeoplePlain, PlainOnward
  <2>2. CASE TeamsStep(h) /\ UNCHANGED linkVars
    <3>1. UNCHANGED <<account, sess>>
      BY <2>2 DEF TeamsStep, orgVars, Create, CreateTeam, Update, ChooseSubtree, LockSubtree, lockReparentTarget,
         ReparentSubtree, Delete, lockTeamForDeletion, DeleteTeam, PutMember, GetTeam, AddMember, SetPrimary,
         RemoveMember, RemoveTeamMember, EnsureDefaultMembership
    <3> QED
      BY <1>0, <1>1, <2>2, <3>1, TeamsPlain, PlainOnward, SameLasts, SameRemembered
  <2>3. CASE SessionsStep(h)
    BY <1>1, <2>3, SessionsFit
  <2>4. CASE LinksStep(h)
    BY <1>1, <2>4, LinksFit
  <2>5. CASE InvitesStep(h)
    BY <1>1, <2>5, InvitesFit
  <2>6. CASE Victim(h) /\ UNCHANGED orgVars
    BY <1>0, <1>1, <2>6, EndOnward, SameLasts, SameRemembered DEF Victim, orgVars
  <2> QED
    BY <1>3, <2>1, <2>2, <2>3, <2>4, <2>5, <2>6 DEF PersonsStep
<1>4. ASSUME NEW h \in Handler, WorkflowsStep(h), UNCHANGED linkVars PROVE Fit'
  BY <1>0, <1>1, <1>4, WorkflowsPlain, WorkflowsKeep, PlainOnward, SameLasts, SameRemembered
<1>5. ASSUME Expiry PROVE Fit'
  <2>1. UNCHANGED <<account, req>>
    BY <1>5 DEF Expiry, LinkExpires, InviteExpires, SessionExpires, orgVars, serverVars
  <2>2. CASE UNCHANGED sess
    BY <1>2, <2>1, <2>2
  <2>3. CASE \E s \in Sid : SessionExpires(s)
    <3>1. PICK s \in Sid : sess[s].st = "live" /\ sess' = [sess EXCEPT ![s].st = "expired"]
      BY <2>3 DEF SessionExpires
    <3>2. \A x \in Sid : /\ sess'[x].pw = sess[x].pw /\ sess'[x].at = sess[x].at
                         /\ x # s => sess'[x].st = sess[x].st
      BY <3>1 DEF Sound, SessionRows, SessionsRow
    <3>3. Remembering
      BY <3>1, <3>2 DEF Remembering, Remembers
    <3> QED
      BY <1>0, <2>1, <3>3, FitStep, SameLasts
  <2> QED
    BY <1>5, <2>2, <2>3 DEF Expiry, LinkExpires, InviteExpires, orgVars
<1>6. ASSUME UNCHANGED <<accountVars, space, workflowVars>> PROVE Fit'
  BY <1>2, <1>6 DEF accountVars, serverVars, orgVars
<1> QED
  BY <1>3, <1>4, <1>5, <1>6 DEF AccountsNext

(* A session that is accepted was opened with the password and under the   *)
(* address its account has now, by an account that was active, provided    *)
(* that none is opened for a deactivated one and no profile change undoes  *)
(* a change of address: every other change of either moves the generation  *)
(* on (queries/users.sql, UpdateUserPasswordHash and UpdateUserEmail).     *)
THEOREM CredentialsEndSessions ==
  AccountsSpec /\ []AllOpenedAwake /\ []ProfilesWriteBackWhatStands => []NoSessionOutlivesItsCredentials
<1>1. AccountsInit => Fit
  BY DEF AccountsInit, ServerInit, OrgInit, Idle, NoSession, Fit, RowFits
<1>2. Sound /\ Fit /\ ProfilesWriteBackWhatStands /\ [AccountsNext]_<<accountVars, space, workflowVars>> => Fit'
  BY FitNext
<1>3. Fit /\ AllOpenedAwake => NoSessionOutlivesItsCredentials
  BY DEF Fit, Fitting, Fits, AllOpenedAwake, NoSessionOutlivesItsCredentials, Accepted, checkAuthState, AuthState, Claims
<1> QED
  BY TokensAreSound, <1>1, <1>2, <1>3, PTL DEF AccountsSpec
=============================================================================
