-------------------------- MODULE TransitionsProofs --------------------------
(***************************************************************************)
(* Proofs about Transitions, for every value of its constants.             *)
(***************************************************************************)
EXTENDS TransitionProps, SequenceTheorems, TLAPS

\* What a request carries at each step, beyond the types of its fields: the
\* ids a step dereferences are not NULL by the time it runs.
Carries(q) ==
    /\ q.pc # "idle" => q.e \in Entity
    /\ q.pc \in {"gate", "guards", "approvers", "request", "plan", "authority", "verdict"} =>
          q.actor \in User
    /\ q.pc \in {"guards", "approvers", "request", "notify", "plan", "authority"} =>
          q.edge \in EdgeId
    /\ q.pc \in {"notify", "authority", "verdict", "notifyVerdict"} =>
          q.ap \in ApprovalId
    /\ q.pc \in {"gate", "apply"} => q.ap = Nil

RequestsCarry == \A h \in Handler : Carries(req[h])

\* An approval that was asked for names its entity and its requester.
ApprovalsCarry ==
    \A a \in ApprovalId :
        approvals[a].st # "none" => approvals[a].e \in Entity /\ approvals[a].by \in User

TypeInv == TypeOK /\ RequestsCarry /\ ApprovalsCarry

-----------------------------------------------------------------------------
(* The values the actions put into the variables.                          *)

LEMMA IdleType == Idle \in Request
BY StatusAssumption DEF Idle, Request, PC, OrNil, Verdict

LEMMA NoApprovalType == NoApproval \in Approval
BY StatusAssumption DEF NoApproval, Approval, OrNil

\* The last effect of a kind on the list, when there is one, has its types.
LEMMA FoldType ==
    ASSUME NEW fns \in Seq(PostFunction), NEW u \in OrNil(User), NEW d \in BOOLEAN
    PROVE  FoldAssignee(fns, u) \in OrNil(User) /\ FoldDue(fns, d) \in BOOLEAN
<1>1. \A i \in DOMAIN fns : fns[i] \in PostFunction
  OBVIOUS
<1>2. FoldAssignee(fns, u) \in OrNil(User)
  <2>1. CASE \E i \in DOMAIN fns : LastOfKind(fns, "assign_to", i)
    <3>1. (CHOOSE i \in DOMAIN fns : LastOfKind(fns, "assign_to", i)) \in DOMAIN fns
      BY <2>1
    <3> QED BY <1>1, <2>1, <3>1 DEF FoldAssignee, PostFunction
  <2>2. CASE ~\E i \in DOMAIN fns : LastOfKind(fns, "assign_to", i)
    BY <2>2 DEF FoldAssignee
  <2> QED BY <2>1, <2>2
<1>3. FoldDue(fns, d) \in BOOLEAN
  <2>1. CASE \E i \in DOMAIN fns : LastOfKind(fns, "set_due", i)
    <3>1. (CHOOSE i \in DOMAIN fns : LastOfKind(fns, "set_due", i)) \in DOMAIN fns
      BY <2>1
    <3> QED BY <1>1, <2>1, <3>1 DEF FoldDue, PostFunction
  <2>2. CASE ~\E i \in DOMAIN fns : LastOfKind(fns, "set_due", i)
    BY <2>2 DEF FoldDue
  <2> QED BY <2>1, <2>2
<1> QED BY <1>2, <1>3

LEMMA RowUpdate ==
    ASSUME NEW x \in Row, NEW st \in Status, NEW si \in OrNil(StateId),
           NEW b \in BOOLEAN, NEW u \in OrNil(User), NEW d \in BOOLEAN
    PROVE  [x EXCEPT !.status = st, !.stateId = si, !.resolved = b,
                     !.assignee = u, !.due = d] \in Row
BY DEF Row

\* A move that lands keeps the row and the audit log well formed.
LEMMA CommitType ==
    ASSUME TypeOK, NEW r \in Request, r.e \in Entity, CommitMove(r)
    PROVE  row' \in [Entity -> Row] /\ audit' \in Seq(AuditRow)
<1>1. row[r.e] \in Row
  BY DEF TypeOK
<1>2. PICK u \in OrNil(User) : u = FoldAssignee(r.effects, row[r.e].assignee)
  BY <1>1, FoldType DEF Row, Request
<1>3. PICK d \in BOOLEAN : d = FoldDue(r.effects, row[r.e].due)
  BY <1>1, FoldType DEF Row, Request
<1>4. PICK b \in BOOLEAN : b = (r.toState \in DoneState)
  <2> WITNESS (r.toState \in DoneState) \in BOOLEAN
  <2> QED OBVIOUS
<1>5. row' = [row EXCEPT ![r.e] =
               [row[r.e] EXCEPT !.status = r.to, !.stateId = r.toState,
                                !.resolved = b, !.assignee = u, !.due = d]]
  BY <1>1, <1>2, <1>3, <1>4 DEF CommitMove, TypeOK, Row
<1>6. r.to \in Status /\ r.toState \in OrNil(StateId)
  BY DEF Request
<1>7. row' \in [Entity -> Row]
  BY <1>1, <1>5, <1>6, RowUpdate DEF TypeOK
<1>8. [e |-> r.e, from |-> r.status, to |-> r.to,
       edge |-> r.edge, ap |-> r.ap, path |-> "workflow"] \in AuditRow
  BY DEF Request, AuditRow
<1> QED BY <1>7, <1>8 DEF CommitMove, TypeOK

-----------------------------------------------------------------------------
(* One lemma per step of a handler: it keeps TypeInv.                      *)

\* A step that replaces what one handler carries.
LEMMA RequestStep ==
    ASSUME TypeInv, NEW h \in Handler, NEW q \in Request, Carries(q),
           req' = [req EXCEPT ![h] = q]
    PROVE  req' \in [Handler -> Request] /\ RequestsCarry'
BY DEF TypeInv, TypeOK, RequestsCarry

LEMMA AnswerStep ==
    ASSUME TypeInv, NEW h \in Handler, Answer(h)
    PROVE  req' \in [Handler -> Request] /\ RequestsCarry'
<1>1. Carries(Idle)
  BY DEF Idle, Carries
<1> QED BY <1>1, IdleType, RequestStep DEF Answer

LEMMA GotoStep ==
    ASSUME TypeInv, NEW h \in Handler, NEW pc \in PC, Goto(h, pc),
           Carries([req[h] EXCEPT !.pc = pc])
    PROVE  req' \in [Handler -> Request] /\ RequestsCarry'
<1>1. req[h] \in Request
  BY DEF TypeInv, TypeOK
<1>2. [req[h] EXCEPT !.pc = pc] \in Request
  BY <1>1 DEF Request
<1>3. req' = [req EXCEPT ![h] = [req[h] EXCEPT !.pc = pc]]
  BY DEF Goto, TypeInv, TypeOK
<1> QED BY <1>2, <1>3, RequestStep

\* Nothing but req has changed.
LEMMA RequestOnly ==
    ASSUME TypeInv, req' \in [Handler -> Request], RequestsCarry',
           UNCHANGED <<entityVars, configVars, approvalVars, boundVars>>
    PROVE  TypeInv'
BY DEF TypeInv, TypeOK, ApprovalsCarry, entityVars, configVars, approvalVars, boundVars

LEMMA ResolveMoveType ==
    ASSUME TypeInv, NEW h \in Handler, ResolveMove(h)
    PROVE  TypeInv'
<1> DEFINE r == req[h]
           to == Some(ByName(LiveStates, r.to))
<1>1. r \in Request /\ Carries(r) /\ r.pc = "gate"
  BY DEF TypeInv, TypeOK, RequestsCarry, ResolveMove
<1>2. to \in OrNil(StateId)
  BY DEF Some, ByName, LiveStates, OrNil
<1>3. CASE Goto(h, "legacy")
  <2>1. Carries([req[h] EXCEPT !.pc = "legacy"])
    BY <1>1 DEF Carries, Request
  <2> QED BY <1>3, <2>1, GotoStep, RequestOnly DEF PC, ResolveMove
<1>4. CASE req' = [req EXCEPT ![h].pc = "apply", ![h].toState = to]
  <2> DEFINE q == [r EXCEPT !.pc = "apply", !.toState = to]
  <2>1. q \in Request /\ Carries(q)
    BY <1>1, <1>2 DEF Request, PC, Carries
  <2>2. req' = [req EXCEPT ![h] = q]
    BY <1>4 DEF TypeInv, TypeOK
  <2> QED BY <2>1, <2>2, RequestStep, RequestOnly DEF ResolveMove
<1>5. CASE \E t \in EdgeId :
             req' = [req EXCEPT ![h].pc = "guards", ![h].edge = t, ![h].toState = to]
  <2>1. PICK t \in EdgeId :
           req' = [req EXCEPT ![h].pc = "guards", ![h].edge = t, ![h].toState = to]
    BY <1>5
  <2> DEFINE q == [r EXCEPT !.pc = "guards", !.edge = t, !.toState = to]
  <2>2. q \in Request /\ Carries(q)
    BY <1>1, <1>2 DEF Request, PC, Carries, OrNil
  <2>3. req' = [req EXCEPT ![h] = q]
    BY <2>1 DEF TypeInv, TypeOK
  <2> QED BY <2>2, <2>3, RequestStep, RequestOnly DEF ResolveMove
<1>6. CASE Answer(h)
  BY <1>6, AnswerStep, RequestOnly DEF ResolveMove
<1> QED BY <1>3, <1>4, <1>5, <1>6 DEF ResolveMove, EdgesBetween, LiveEdges

LEMMA EvaluateGuardsType ==
    ASSUME TypeInv, NEW h \in Handler, EvaluateGuards(h)
    PROVE  TypeInv'
<1>1. CASE Goto(h, "approvers")
  <2>1. Carries([req[h] EXCEPT !.pc = "approvers"])
    BY DEF TypeInv, TypeOK, RequestsCarry, Carries, EvaluateGuards, Request
  <2> QED BY <1>1, <2>1, GotoStep, RequestOnly DEF PC, EvaluateGuards
<1>2. CASE Answer(h)
  BY <1>2, AnswerStep, RequestOnly DEF EvaluateGuards
<1> QED BY <1>1, <1>2 DEF EvaluateGuards

LEMMA LoadApproversType ==
    ASSUME TypeInv, NEW h \in Handler, LoadApprovers(h)
    PROVE  TypeInv'
<1>1. ASSUME NEW pc \in {"request", "plan"}, Goto(h, pc)
      PROVE  TypeInv'
  <2>1. Carries([req[h] EXCEPT !.pc = pc])
    BY <1>1 DEF TypeInv, TypeOK, RequestsCarry, Carries, LoadApprovers, Request
  <2> QED BY <1>1, <2>1, GotoStep, RequestOnly DEF PC, LoadApprovers
<1> QED BY <1>1 DEF LoadApprovers

LEMMA RequestApprovalType ==
    ASSUME TypeInv, NEW h \in Handler, RequestApproval(h)
    PROVE  TypeInv'
<1> DEFINE r == req[h]
<1>1. r \in Request /\ Carries(r) /\ r.pc = "request"
  BY DEF TypeInv, TypeOK, RequestsCarry, RequestApproval
<1>2. r.e \in Entity /\ r.actor \in User /\ r.edge \in EdgeId
  BY <1>1 DEF Carries
<1>3. CASE Goto(h, "existing") /\ UNCHANGED approvals
  <2>1. Carries([req[h] EXCEPT !.pc = "existing"])
    BY <1>1 DEF Carries, Request
  <2> QED BY <1>3, <2>1, GotoStep, RequestOnly DEF PC, RequestApproval, approvalVars
<1>4. CASE Answer(h) /\ UNCHANGED approvals
  BY <1>4, AnswerStep, RequestOnly DEF RequestApproval, approvalVars
<1>5. ASSUME NEW a \in ApprovalId,
             approvals' = [approvals EXCEPT ![a] =
                  [st |-> "pending", e |-> r.e, edge |-> r.edge,
                   from |-> r.status, to |-> r.to, toState |-> EdgeTo[r.edge],
                   by |-> r.actor, decidedBy |-> Nil]],
             req' = [req EXCEPT ![h].pc = "notify", ![h].ap = a]
      PROVE  TypeInv'
  <2> DEFINE q == [r EXCEPT !.pc = "notify", !.ap = a]
             new == [st |-> "pending", e |-> r.e, edge |-> r.edge,
                     from |-> r.status, to |-> r.to, toState |-> EdgeTo[r.edge],
                     by |-> r.actor, decidedBy |-> Nil]
  <2>1. q \in Request /\ Carries(q)
    BY <1>1, <1>2 DEF Request, PC, Carries, OrNil
  <2>2. req' = [req EXCEPT ![h] = q]
    BY <1>5 DEF TypeInv, TypeOK
  <2>3. req' \in [Handler -> Request] /\ RequestsCarry'
    BY <2>1, <2>2, RequestStep
  <2>4. new \in Approval
    BY <1>1, <1>2, StateAssumption DEF Request, Approval, OrNil
  <2>5. approvals' \in [ApprovalId -> Approval] /\ ApprovalsCarry'
    BY <1>2, <1>5, <2>4 DEF TypeInv, TypeOK, ApprovalsCarry
  <2> QED BY <2>3, <2>5 DEF TypeInv, TypeOK, RequestApproval, entityVars, configVars, boundVars
<1> QED BY <1>3, <1>4, <1>5 DEF RequestApproval

LEMMA ReadExistingType ==
    ASSUME TypeInv, NEW h \in Handler, ReadExisting(h)
    PROVE  TypeInv'
BY AnswerStep, RequestOnly DEF ReadExisting

LEMMA NotifyApproversType ==
    ASSUME TypeInv, NEW h \in Handler, NotifyApprovers(h)
    PROVE  TypeInv'
<1> DEFINE r == req[h]
           told == ApproverRecipients(approvers[r.edge], members) \ {r.actor}
<1>1. r.edge \in EdgeId /\ r.ap \in ApprovalId
  BY DEF TypeInv, RequestsCarry, Carries, NotifyApprovers
<1>2. approvers[r.edge] \subseteq Subject /\ members \in [Team -> SUBSET User]
  BY <1>1 DEF TypeInv, TypeOK
<1>3. told \subseteq User
  BY <1>2 DEF ApproverRecipients
<1>4. PICK landed \in SUBSET told :
         notices' = notices \cup {[ap |-> r.ap, user |-> u, kind |-> "requested"] : u \in landed}
  BY DEF NotifyApprovers
<1>5. notices' \subseteq Notice
  BY <1>1, <1>3, <1>4 DEF TypeInv, TypeOK, Notice
<1>6. req' \in [Handler -> Request] /\ RequestsCarry'
  BY AnswerStep DEF NotifyApprovers
<1> QED BY <1>5, <1>6 DEF TypeInv, TypeOK, ApprovalsCarry, NotifyApprovers,
                          entityVars, configVars, boundVars

LEMMA PlanEffectsType ==
    ASSUME TypeInv, NEW h \in Handler, PlanEffects(h)
    PROVE  TypeInv'
<1> DEFINE r == req[h]
<1>1. r \in Request /\ Carries(r) /\ r.pc = "plan"
  BY DEF TypeInv, TypeOK, RequestsCarry, PlanEffects
<1>2. postFns[r.edge] \in Seq(PostFunction)
  BY <1>1 DEF TypeInv, TypeOK, Carries
<1>3. ASSUME NEW pc \in {"apply", "verdict"}, pc = "apply" <=> r.ap = Nil,
             req' = [req EXCEPT ![h].pc = pc, ![h].effects = postFns[r.edge]]
      PROVE  TypeInv'
  <2> DEFINE q == [r EXCEPT !.pc = pc, !.effects = postFns[r.edge]]
  <2>1. q \in Request /\ Carries(q)
    BY <1>1, <1>2, <1>3 DEF Request, PC, Carries, OrNil
  <2>2. req' = [req EXCEPT ![h] = q]
    BY <1>3 DEF TypeInv, TypeOK
  <2> QED BY <2>1, <2>2, RequestStep, RequestOnly DEF PlanEffects
<1>4. CASE Answer(h)
  BY <1>4, AnswerStep, RequestOnly DEF PlanEffects
<1> QED BY <1>3, <1>4 DEF PlanEffects

LEMMA ApplyTransitionType ==
    ASSUME TypeInv, NEW h \in Handler, ApplyTransition(h)
    PROVE  TypeInv'
<1>1. req[h] \in Request /\ req[h].e \in Entity
  BY DEF TypeInv, TypeOK, RequestsCarry, Carries, ApplyTransition
<1>2. row' \in [Entity -> Row] /\ audit' \in Seq(AuditRow)
  BY <1>1, CommitType DEF TypeInv, TypeOK, ApplyTransition, entityVars
<1>3. req' \in [Handler -> Request] /\ RequestsCarry'
  BY AnswerStep DEF ApplyTransition
<1> QED BY <1>2, <1>3 DEF TypeInv, TypeOK, ApprovalsCarry, ApplyTransition,
                          configVars, approvalVars, boundVars

LEMMA LegacyCheckType ==
    ASSUME TypeInv, NEW h \in Handler, LegacyCheck(h)
    PROVE  TypeInv'
<1>1. CASE Goto(h, "legacyWrite")
  <2>1. Carries([req[h] EXCEPT !.pc = "legacyWrite"])
    BY DEF TypeInv, TypeOK, RequestsCarry, Carries, LegacyCheck, Request
  <2> QED BY <1>1, <2>1, GotoStep, RequestOnly DEF PC, LegacyCheck
<1>2. CASE Answer(h)
  BY <1>2, AnswerStep, RequestOnly DEF LegacyCheck
<1> QED BY <1>1, <1>2 DEF LegacyCheck

LEMMA LegacyWriteType ==
    ASSUME TypeInv, NEW h \in Handler, LegacyWrite(h)
    PROVE  TypeInv'
<1> DEFINE r == req[h]
<1>1. r \in Request /\ r.e \in Entity
  BY DEF TypeInv, TypeOK, RequestsCarry, Carries, LegacyWrite
<1>2. CASE Answer(h) /\ UNCHANGED row
  BY <1>2, AnswerStep, RequestOnly DEF LegacyWrite, entityVars
<1>3. CASE /\ row' = [row EXCEPT ![r.e].status = r.to,
                                 ![r.e].resolved = (r.to \in DoneStatus)]
           /\ Goto(h, "legacyAudit")
  <2>1. PICK b \in BOOLEAN : b = (r.to \in DoneStatus)
    <3> WITNESS (r.to \in DoneStatus) \in BOOLEAN
    <3> QED OBVIOUS
  <2>2. row' = [row EXCEPT ![r.e] = [row[r.e] EXCEPT !.status = r.to, !.resolved = b]]
    BY <1>1, <1>3, <2>1 DEF TypeInv, TypeOK, Row
  <2>3. row[r.e] \in Row /\ r.to \in Status
    BY <1>1 DEF TypeInv, TypeOK, Request
  <2>4. [row[r.e] EXCEPT !.status = r.to, !.resolved = b] \in Row
    BY <2>3 DEF Row
  <2>5. row' \in [Entity -> Row]
    BY <2>2, <2>4 DEF TypeInv, TypeOK
  <2>6. Carries([req[h] EXCEPT !.pc = "legacyAudit"])
    BY <1>1 DEF Carries, Request
  <2>7. req' \in [Handler -> Request] /\ RequestsCarry'
    BY <1>3, <2>6, GotoStep DEF PC
  <2> QED BY <2>5, <2>7 DEF TypeInv, TypeOK, ApprovalsCarry, LegacyWrite,
                            configVars, approvalVars, boundVars
<1> QED BY <1>2, <1>3 DEF LegacyWrite

LEMMA LegacyAuditType ==
    ASSUME TypeInv, NEW h \in Handler, LegacyAudit(h)
    PROVE  TypeInv'
<1> DEFINE r == req[h]
<1>1. r \in Request /\ r.e \in Entity
  BY DEF TypeInv, TypeOK, RequestsCarry, Carries, LegacyAudit
<1>2. PICK new \in AuditRow : audit' = Append(audit, new) \/ audit' = audit
  BY <1>1 DEF AuditRow, Request, OrNil, LegacyAudit
<1>3. audit \in Seq(AuditRow) /\ Append(audit, new) \in Seq(AuditRow)
  BY AppendProperties DEF TypeInv, TypeOK
<1>4. audit' \in Seq(AuditRow)
  BY <1>2, <1>3
<1>5. req' \in [Handler -> Request] /\ RequestsCarry'
  BY AnswerStep DEF LegacyAudit
<1> QED BY <1>4, <1>5 DEF TypeInv, TypeOK, ApprovalsCarry, LegacyAudit,
                          configVars, approvalVars, boundVars

LEMMA CheckAuthorityType ==
    ASSUME TypeInv, NEW h \in Handler, CheckAuthority(h)
    PROVE  TypeInv'
<1>1. ASSUME NEW pc \in {"plan", "verdict"}, Goto(h, pc)
      PROVE  TypeInv'
  <2>1. Carries([req[h] EXCEPT !.pc = pc])
    BY <1>1 DEF TypeInv, TypeOK, RequestsCarry, Carries, CheckAuthority, Request
  <2> QED BY <1>1, <2>1, GotoStep, RequestOnly DEF PC, CheckAuthority
<1>2. CASE Answer(h)
  BY <1>2, AnswerStep, RequestOnly DEF CheckAuthority
<1> QED BY <1>1, <1>2 DEF CheckAuthority

\* What a verdict does to the approvals, when it does anything.
LEMMA VerdictType ==
    ASSUME TypeInv, NEW h \in Handler, req[h].ap \in ApprovalId,
           Decides(req[h]),
           approvals' = [approvals EXCEPT ![req[h].ap].st = req[h].verdict,
                                          ![req[h].ap].decidedBy = req[h].actor]
    PROVE  approvals' \in [ApprovalId -> Approval] /\ ApprovalsCarry'
<1> DEFINE r == req[h]
           new == [approvals[r.ap] EXCEPT !.st = r.verdict, !.decidedBy = r.actor]
<1>1. r \in Request /\ approvals[r.ap] \in Approval
  BY DEF TypeInv, TypeOK
<1>2. approvals' = [approvals EXCEPT ![r.ap] = new]
  BY <1>1 DEF TypeInv, TypeOK, Approval
<1>3. new \in Approval
  BY <1>1 DEF Request, Approval, Verdict
<1>4. new.e = approvals[r.ap].e /\ new.by = approvals[r.ap].by
  BY <1>1 DEF Approval
<1> QED BY <1>2, <1>3, <1>4 DEF TypeInv, TypeOK, ApprovalsCarry, Decides

LEMMA DecideAndApplyType ==
    ASSUME TypeInv, NEW h \in Handler, DecideAndApply(h)
    PROVE  TypeInv'
<1> DEFINE r == req[h]
<1>1. r \in Request /\ Carries(r) /\ r.pc = "verdict"
  BY DEF TypeInv, TypeOK, RequestsCarry, DecideAndApply
<1>2. r.e \in Entity /\ r.ap \in ApprovalId
  BY <1>1 DEF Carries
<1>3. CASE Decides(r)
  <2>1. approvals' \in [ApprovalId -> Approval] /\ ApprovalsCarry'
    BY <1>2, <1>3, VerdictType DEF DecideAndApply
  <2>2. row' \in [Entity -> Row] /\ audit' \in Seq(AuditRow)
    BY <1>1, <1>2, <1>3, CommitType DEF DecideAndApply, entityVars, TypeInv, TypeOK
  <2>3. Carries([req[h] EXCEPT !.pc = "notifyVerdict"])
    BY <1>1, <1>2 DEF Carries, Request
  <2>4. req' \in [Handler -> Request] /\ RequestsCarry'
    BY <1>3, <2>3, GotoStep DEF PC, DecideAndApply
  <2> QED BY <2>1, <2>2, <2>4 DEF TypeInv, TypeOK, DecideAndApply, configVars, boundVars
<1>4. CASE ~Decides(r)
  <2>1. Answer(h) /\ UNCHANGED <<approvals, entityVars>>
    BY <1>4 DEF DecideAndApply
  <2> QED BY <2>1, AnswerStep, RequestOnly DEF DecideAndApply, approvalVars
<1> QED BY <1>3, <1>4

LEMMA NotifyVerdictType ==
    ASSUME TypeInv, NEW h \in Handler, NotifyVerdict(h),
           approvals[req[h].ap].st # "none"
    PROVE  TypeInv'
<1> DEFINE a == req[h].ap
<1>1. a \in ApprovalId
  BY DEF TypeInv, RequestsCarry, Carries, NotifyVerdict
<1>2. [ap |-> a, user |-> approvals[a].by, kind |-> "decided"] \in Notice
  BY <1>1 DEF TypeInv, ApprovalsCarry, Notice
<1>3. notices' \subseteq Notice
  BY <1>2 DEF NotifyVerdict, TypeInv, TypeOK
<1>4. req' \in [Handler -> Request] /\ RequestsCarry'
  BY AnswerStep DEF NotifyVerdict
<1> QED BY <1>3, <1>4 DEF TypeInv, TypeOK, ApprovalsCarry, NotifyVerdict,
                          entityVars, configVars, boundVars

LEMMA WriteRowType ==
    ASSUME TypeInv, NEW h \in Handler, WriteRow(h)
    PROVE  TypeInv'
<1> DEFINE r == req[h]
           new == [row[r.e] EXCEPT !.status = r.status, !.assignee = r.assignee, !.due = r.due]
<1>1. r \in Request /\ r.e \in Entity
  BY DEF TypeInv, TypeOK, RequestsCarry, Carries, WriteRow
<1>2. row[r.e] \in Row
  BY <1>1 DEF TypeInv, TypeOK
<1>3. new \in Row
  BY <1>1, <1>2 DEF Row, Request
<1>4. row' = row \/ row' = [row EXCEPT ![r.e] = new]
  BY <1>1, <1>2 DEF WriteRow, TypeInv, TypeOK, Row
<1>5. row' \in [Entity -> Row]
  BY <1>3, <1>4 DEF TypeInv, TypeOK
<1>6. req' \in [Handler -> Request] /\ RequestsCarry'
  BY AnswerStep DEF WriteRow
<1> QED BY <1>5, <1>6 DEF TypeInv, TypeOK, ApprovalsCarry, WriteRow,
                          configVars, approvalVars, boundVars

LEMMA InsertRowType ==
    ASSUME TypeInv, NEW h \in Handler, InsertRow(h)
    PROVE  TypeInv'
<1> DEFINE r == req[h]
           new == [life |-> "live", status |-> r.status, stateId |-> r.stateId,
                   assignee |-> Nil, due |-> FALSE, resolved |-> FALSE]
<1>1. r \in Request /\ r.e \in Entity
  BY DEF TypeInv, TypeOK, RequestsCarry, Carries, InsertRow
<1>2. new \in Row
  BY <1>1 DEF Row, Request, OrNil, Life
<1>3. row' = row \/ row' = [row EXCEPT ![r.e] = new]
  BY DEF InsertRow
<1>4. row' \in [Entity -> Row]
  BY <1>2, <1>3 DEF TypeInv, TypeOK
<1>5. req' \in [Handler -> Request] /\ RequestsCarry'
  BY AnswerStep DEF InsertRow
<1> QED BY <1>4, <1>5 DEF TypeInv, TypeOK, ApprovalsCarry, InsertRow,
                          configVars, approvalVars, boundVars

-----------------------------------------------------------------------------
(* Requests that begin, and the administrator's edits.                     *)

LEMMA BeginStep ==
    ASSUME TypeInv, NEW h \in Handler, NEW q \in Request, Carries(q), NEW op, Begin(h, op, q),
           UNCHANGED <<entityVars, configVars, approvalVars, edits>>
    PROVE  TypeInv'
<1>1. req' \in [Handler -> Request] /\ RequestsCarry'
  BY RequestStep DEF Begin
<1>2. started' \in Nat
  BY DEF Begin, TypeInv, TypeOK
<1> QED BY <1>1, <1>2 DEF TypeInv, TypeOK, ApprovalsCarry, entityVars, configVars, approvalVars

LEMMA ReadType ==
    ASSUME TypeInv, NEW e \in Entity
    PROVE  ReadOf(e) \in Request /\ ReadOf(e).e = e /\ ReadOf(e).ap = Nil
<1>1. row[e] \in Row
  BY DEF TypeInv, TypeOK
<1>2. Idle \in Request /\ Idle.ap = Nil
  BY IdleType DEF Idle
<1> QED BY <1>1, <1>2 DEF ReadOf, Row, Request, OrNil

LEMMA StartMoveType ==
    ASSUME TypeInv, NEW h \in Handler, NEW e \in Entity, NEW u \in User, NEW to \in Status,
           StartMove(h, e, u, to)
    PROVE  TypeInv'
<1> DEFINE q == [ReadOf(e) EXCEPT !.pc = "gate", !.actor = u, !.to = to]
<1>1. ReadOf(e) \in Request /\ ReadOf(e).e = e /\ ReadOf(e).ap = Nil
  BY ReadType
<1>2. q \in Request
  <2>1. u \in OrNil(User) /\ "gate" \in PC
    BY DEF OrNil, PC
  <2> QED BY <1>1, <2>1 DEF Request
<1>3. q.pc = "gate" /\ q.actor = u /\ q.e = e /\ q.ap = Nil
  BY <1>1 DEF Request
<1>4. Carries(q)
  BY <1>3 DEF Carries
<1> QED BY <1>2, <1>4, BeginStep DEF StartMove

LEMMA StartStateMoveType ==
    ASSUME TypeInv, NEW h \in Handler, NEW e \in Entity, NEW u \in User, NEW s \in StateId,
           StartStateMove(h, e, u, s)
    PROVE  TypeInv'
<1> DEFINE q == [ReadOf(e) EXCEPT !.pc = "gate", !.actor = u, !.to = StateName[s]]
<1>1. ReadOf(e) \in Request /\ ReadOf(e).e = e /\ ReadOf(e).ap = Nil
  BY ReadType
<1>2. StateName[s] \in Status
  BY StateAssumption
<1>3. q \in Request
  <2>1. u \in OrNil(User) /\ "gate" \in PC
    BY DEF OrNil, PC
  <2> QED BY <1>1, <1>2, <2>1 DEF Request
<1>4. q.pc = "gate" /\ q.actor = u /\ q.e = e /\ q.ap = Nil
  BY <1>1 DEF Request
<1>5. Carries(q)
  BY <1>4 DEF Carries
<1> QED BY <1>3, <1>5, BeginStep DEF StartStateMove

LEMMA StartDecideType ==
    ASSUME TypeInv, NEW h \in Handler, NEW a \in ApprovalId, NEW u \in User, NEW v \in Verdict,
           StartDecide(h, a, u, v)
    PROVE  TypeInv'
<1> DEFINE q == [Idle EXCEPT !.pc = "authority", !.actor = u, !.verdict = v,
                   !.ap = a, !.e = approvals[a].e, !.edge = approvals[a].edge,
                   !.status = approvals[a].from, !.to = approvals[a].to,
                   !.toState = approvals[a].toState]
<1>1. approvals[a] \in Approval /\ approvals[a].e \in Entity /\ approvals[a].edge \in EdgeId
  BY DEF StartDecide, TypeInv, TypeOK, ApprovalsCarry, Approval, OrNil
<1>2. approvals[a].from \in Status /\ approvals[a].to \in Status
         /\ approvals[a].toState \in OrNil(StateId)
  BY <1>1 DEF Approval
<1>3. q \in Request
  BY <1>1, <1>2, IdleType DEF Request, PC, OrNil
<1>4. q.pc = "authority" /\ q.actor = u /\ q.e \in Entity /\ q.edge \in EdgeId /\ q.ap = a
  BY <1>1 DEF Idle
<1>5. Carries(q)
  BY <1>4 DEF Carries
<1> QED BY <1>3, <1>5, BeginStep DEF StartDecide

LEMMA StartRewriteType ==
    ASSUME TypeInv, NEW h \in Handler, NEW e \in Entity, NEW u \in OrNil(User), NEW d \in BOOLEAN,
           StartRewrite(h, e, u, d)
    PROVE  TypeInv'
<1> DEFINE q == [ReadOf(e) EXCEPT !.pc = "rewrite", !.assignee = u, !.due = d]
<1>1. ReadOf(e) \in Request /\ ReadOf(e).e = e
  BY ReadType
<1>2. q \in Request
  BY <1>1 DEF Request, PC
<1>3. q.pc = "rewrite" /\ q.e = e
  BY <1>1 DEF Request
<1>4. Carries(q)
  BY <1>3 DEF Carries
<1> QED BY <1>2, <1>4, BeginStep DEF StartRewrite

LEMMA StartCreateType ==
    ASSUME TypeInv, NEW h \in Handler, NEW e \in Entity, StartCreate(h, e)
    PROVE  TypeInv'
<1> DEFINE s == IF wf THEN Some(LiveStates \cap Initial) ELSE Nil
           q == [Idle EXCEPT !.pc = "insert", !.e = e, !.stateId = s,
                   !.status = IF s = Nil THEN OpenStatus ELSE StateName[s]]
<1>1. s \in OrNil(StateId)
  BY DEF Some, LiveStates, OrNil
<1>2. (IF s = Nil THEN OpenStatus ELSE StateName[s]) \in Status
  BY <1>1, StateAssumption, StatusAssumption DEF OrNil
<1>3. q \in Request
  <2>1. e \in OrNil(Entity) /\ "insert" \in PC
    BY DEF OrNil, PC
  <2> QED BY <1>1, <1>2, <2>1, IdleType DEF Request
<1>4. q.pc = "insert" /\ q.e = e
  BY DEF Idle
<1>5. Carries(q)
  BY <1>4 DEF Carries
<1> QED BY <1>3, <1>5, BeginStep DEF StartCreate

LEMMA StartType ==
    ASSUME TypeInv, NEW h \in Handler, StartStep(h)
    PROVE  TypeInv'
BY StartMoveType, StartStateMoveType, StartDecideType, StartRewriteType, StartCreateType
   DEF StartStep

\* The configuration after an edit is well formed, and so is what it leaves.
LEMMA EditType ==
    ASSUME TypeInv, NEW op, Edit(op),
           wf' \in BOOLEAN, states' \in [StateId -> Life], edges' \in [EdgeId -> Life],
           guards' \in [EdgeId -> SUBSET Guard], approvers' \in [EdgeId -> SUBSET Subject],
           postFns' \in [EdgeId -> Seq(PostFunction)], teams' \subseteq Team,
           members' \in [Team -> SUBSET User], opened' \subseteq EdgeId,
           approvals' \in [ApprovalId -> Approval],
           \A a \in ApprovalId : /\ approvals'[a].st = approvals[a].st
                                 /\ approvals'[a].e = approvals[a].e
                                 /\ approvals'[a].by = approvals[a].by
    PROVE  TypeInv'
<1>1. edits' \in Nat
  BY DEF Edit, TypeInv, TypeOK
<1> QED BY <1>1 DEF Edit, TypeInv, TypeOK, RequestsCarry, ApprovalsCarry, entityVars

LEMMA DropEdgesType ==
    ASSUME TypeInv, NEW X, DropEdges(X)
    PROVE  /\ edges' \in [EdgeId -> Life]
           /\ guards' \in [EdgeId -> SUBSET Guard]
           /\ approvers' \in [EdgeId -> SUBSET Subject]
           /\ postFns' \in [EdgeId -> Seq(PostFunction)]
BY DEF DropEdges, TypeInv, TypeOK, Life

\* The approvals lose the ids of the edges X and the states Y.
Forgets(X, Y) ==
    approvals' = [a \in ApprovalId |->
        [approvals[a] EXCEPT !.edge = IF @ \in X THEN Nil ELSE @,
                             !.toState = IF @ \in Y THEN Nil ELSE @]]

\* Clearing the ids of what was deleted leaves an approval an approval.
LEMMA ApprovalsForget ==
    ASSUME TypeInv, NEW X, NEW Y,
           Forgets(X, Y)
    PROVE  /\ approvals' \in [ApprovalId -> Approval]
           /\ \A a \in ApprovalId :
                 /\ approvals'[a].st = approvals[a].st
                 /\ approvals'[a].e = approvals[a].e
                 /\ approvals'[a].by = approvals[a].by
                 /\ approvals'[a].from = approvals[a].from
                 /\ approvals'[a].to = approvals[a].to
                 /\ approvals'[a].decidedBy = approvals[a].decidedBy
<1>1. SUFFICES ASSUME NEW a \in ApprovalId
               PROVE  /\ approvals'[a] \in Approval
                      /\ approvals'[a].st = approvals[a].st
                      /\ approvals'[a].e = approvals[a].e
                      /\ approvals'[a].by = approvals[a].by
                      /\ approvals'[a].from = approvals[a].from
                      /\ approvals'[a].to = approvals[a].to
                      /\ approvals'[a].decidedBy = approvals[a].decidedBy
  BY DEF Forgets
<1>2. approvals[a] \in Approval
  BY DEF TypeInv, TypeOK
<1>3. PICK x \in OrNil(EdgeId) : x = IF approvals[a].edge \in X THEN Nil ELSE approvals[a].edge
  BY <1>2 DEF Approval, OrNil
<1>4. PICK y \in OrNil(StateId) :
         y = IF approvals[a].toState \in Y THEN Nil ELSE approvals[a].toState
  BY <1>2 DEF Approval, OrNil
<1>5. approvals'[a] = [approvals[a] EXCEPT !.edge = x, !.toState = y]
  BY <1>2, <1>3, <1>4 DEF Approval, Forgets
<1> QED BY <1>2, <1>5 DEF Approval

\* Deleting an edge, or a state with its edges.
LEMMA ForgetStep ==
    ASSUME TypeInv, NEW X, NEW Y, NEW op, Edit(op), DropEdges(X),
           states' \in [StateId -> Life], UNCHANGED <<wf, teams, members, opened>>,
           Forgets(X, Y)
    PROVE  TypeInv'
<1>1. wf' \in BOOLEAN /\ teams' \subseteq Team /\ members' \in [Team -> SUBSET User]
      /\ opened' \subseteq EdgeId
  BY DEF TypeInv, TypeOK
<1>2. /\ edges' \in [EdgeId -> Life] /\ guards' \in [EdgeId -> SUBSET Guard]
      /\ approvers' \in [EdgeId -> SUBSET Subject]
      /\ postFns' \in [EdgeId -> Seq(PostFunction)]
  BY DropEdgesType
<1>3. /\ approvals' \in [ApprovalId -> Approval]
      /\ \A a \in ApprovalId : /\ approvals'[a].st = approvals[a].st
                               /\ approvals'[a].e = approvals[a].e
                               /\ approvals'[a].by = approvals[a].by
  BY ApprovalsForget
<1> QED BY <1>1, <1>2, <1>3, EditType

LEMMA DeleteStateForgets ==
    ASSUME TypeInv, NEW s \in StateId, DeleteState(s)
    PROVE  LET T == {t \in LiveEdges : s \in {EdgeFrom[t], EdgeTo[t]}}
           IN  Forgets(T, {s})
BY DEF DeleteState, Forgets

LEMMA DeleteTransitionForgets ==
    ASSUME TypeInv, NEW t \in EdgeId, DeleteTransition(t)
    PROVE  Forgets({t}, {})
<1>1. \A a \in ApprovalId : approvals[a] \in Approval
  BY DEF TypeInv, TypeOK
<1>2. \A a \in ApprovalId :
         [approvals[a] EXCEPT !.edge = IF @ = t THEN Nil ELSE @] =
         [approvals[a] EXCEPT !.edge = IF @ \in {t} THEN Nil ELSE @,
                              !.toState = IF @ \in {} THEN Nil ELSE @]
  BY <1>1 DEF Approval
<1> QED BY <1>2 DEF DeleteTransition, Forgets

\* A list of post-functions loses one entry and stays a list of them.
LEMMA RemoveAt ==
    ASSUME NEW fns \in Seq(PostFunction), NEW i \in DOMAIN fns
    PROVE  SubSeq(fns, 1, i - 1) \o SubSeq(fns, i + 1, Len(fns)) \in Seq(PostFunction)
<1>1. i \in 1 .. Len(fns) /\ Len(fns) \in Nat /\ \A k \in 1 .. Len(fns) : fns[k] \in PostFunction
  OBVIOUS
<1>2. SubSeq(fns, 1, i - 1) \in Seq(PostFunction)
  BY <1>1, SubSeqProperties
<1>3. SubSeq(fns, i + 1, Len(fns)) \in Seq(PostFunction)
  BY <1>1, SubSeqProperties
<1> QED BY <1>2, <1>3, ConcatProperties

LEMMA AdminType ==
    ASSUME TypeInv, AdminStep
    PROVE  TypeInv'
<1> USE DEF TypeInv, TypeOK
<1>1. CASE AssignWorkflow
  BY <1>1, EditType DEF AssignWorkflow
<1>2. ASSUME NEW e \in Entity, DeleteEntity(e) PROVE TypeInv'
  <2> DEFINE new == [row[e] EXCEPT !.life = "gone"]
  <2>1. row' = [row EXCEPT ![e] = new]
    BY <1>2 DEF DeleteEntity
  <2>2. new \in Row
    BY DEF Row, Life
  <2>3. row' \in [Entity -> Row]
    BY <2>1, <2>2
  <2> QED BY <1>2, <2>3 DEF DeleteEntity, RequestsCarry, ApprovalsCarry,
                            configVars, approvalVars
<1>3. ASSUME NEW s \in StateId, CreateState(s) PROVE TypeInv'
  BY <1>3, EditType DEF CreateState, Life
<1>4. ASSUME NEW s \in StateId, DeleteState(s) PROVE TypeInv'
  BY <1>4, DeleteStateForgets, ForgetStep DEF DeleteState, Life
<1>5. ASSUME NEW t \in EdgeId, CreateTransition(t) PROVE TypeInv'
  BY <1>5, EditType DEF CreateTransition, Life
<1>6. ASSUME NEW t \in EdgeId, DeleteTransition(t) PROVE TypeInv'
  <2>1. states' \in [StateId -> Life] /\ UNCHANGED <<wf, teams, members, opened>>
    BY <1>6 DEF DeleteTransition
  <2>2. Edit("deleteTransition") /\ DropEdges({t})
    BY <1>6 DEF DeleteTransition
  <2>3. Forgets({t}, {})
    BY <1>6, DeleteTransitionForgets
  <2> HIDE DEF TypeInv
  <2> QED BY <2>1, <2>2, <2>3, ForgetStep
<1>7. ASSUME NEW t \in EdgeId, NEW g \in Guard, CreateGuard(t, g) PROVE TypeInv'
  BY <1>7, EditType DEF CreateGuard
<1>8. ASSUME NEW t \in EdgeId, NEW g \in Guard, DeleteGuard(t, g) PROVE TypeInv'
  BY <1>8, EditType DEF DeleteGuard
<1>9. ASSUME NEW t \in EdgeId, NEW s \in Subject, CreateApprover(t, s) PROVE TypeInv'
  BY <1>9, EditType DEF CreateApprover
<1>10. ASSUME NEW t \in EdgeId, NEW s \in Subject, DeleteApprover(t, s) PROVE TypeInv'
  BY <1>10, EditType DEF DeleteApprover
<1>11. ASSUME NEW t \in EdgeId, NEW f \in PostFunction, CreatePostFunction(t, f) PROVE TypeInv'
  <2>1. Append(postFns[t], f) \in Seq(PostFunction)
    BY AppendProperties
  <2> QED BY <1>11, <2>1, EditType DEF CreatePostFunction
<1>12. ASSUME NEW t \in EdgeId, DeletePostFunction(t) PROVE TypeInv'
  <2>1. PICK i \in DOMAIN postFns[t] :
           postFns' = [postFns EXCEPT ![t] =
              SubSeq(postFns[t], 1, i - 1) \o SubSeq(postFns[t], i + 1, Len(postFns[t]))]
    BY <1>12 DEF DeletePostFunction
  <2>2. postFns' \in [EdgeId -> Seq(PostFunction)]
    BY <2>1, RemoveAt
  <2> QED BY <1>12, <2>2, EditType DEF DeletePostFunction
<1>13. ASSUME NEW t \in Team, NEW u \in User, ChangeMembership(t, u) PROVE TypeInv'
  BY <1>13, EditType DEF ChangeMembership
<1>14. ASSUME NEW t \in Team, DeleteTeam(t) PROVE TypeInv'
  BY <1>14, EditType DEF DeleteTeam
<1> QED BY <1>1, <1>2, <1>3, <1>4, <1>5, <1>6, <1>7, <1>8, <1>9, <1>10, <1>11, <1>12,
           <1>13, <1>14 DEF AdminStep

-----------------------------------------------------------------------------
(* What happens to an approval between two steps.                          *)

\* An approval that was asked for stays asked for, about the same move by
\* the same requester, and a verdict stays what it is.
Keeps(a) ==
    /\ approvals[a].st # "none" =>
         /\ approvals'[a].st # "none"
         /\ approvals'[a].e = approvals[a].e
         /\ approvals'[a].from = approvals[a].from
         /\ approvals'[a].to = approvals[a].to
         /\ approvals'[a].by = approvals[a].by
    /\ approvals[a].st \in Verdict =>
         /\ approvals'[a].st = approvals[a].st
         /\ approvals'[a].decidedBy = approvals[a].decidedBy

LEMMA RequestApprovalKeeps ==
    ASSUME TypeInv, NEW h \in Handler, RequestApproval(h), NEW a \in ApprovalId
    PROVE  Keeps(a)
BY DEF TypeInv, TypeOK, RequestApproval, Keeps, Verdict

LEMMA DecideAndApplyKeeps ==
    ASSUME TypeInv, NEW h \in Handler, DecideAndApply(h), NEW a \in ApprovalId
    PROVE  Keeps(a)
<1> DEFINE r == req[h]
<1>1. r \in Request /\ approvals[a] \in Approval
  BY DEF TypeInv, TypeOK
<1>2. CASE approvals' = approvals
  BY <1>2 DEF Keeps
<1>3. CASE /\ Decides(r)
           /\ approvals' = [approvals EXCEPT ![r.ap].st = r.verdict,
                                             ![r.ap].decidedBy = r.actor]
  <2>1. approvals \in [ApprovalId -> Approval]
    BY DEF TypeInv, TypeOK
  <2>2. CASE a # r.ap
    BY <1>3, <2>1, <2>2 DEF Keeps
  <2>3. CASE a = r.ap
    <3>1. approvals'[a] = [approvals[a] EXCEPT !.st = r.verdict, !.decidedBy = r.actor]
      BY <1>3, <2>1, <2>3 DEF Approval
    <3>2. approvals[a].st = "pending" /\ r.verdict # "none"
      BY <1>1, <1>3, <2>3 DEF Decides, Request, Verdict
    <3> QED BY <1>1, <3>1, <3>2 DEF Keeps, Approval, Verdict
  <2> QED BY <2>2, <2>3
<1> QED BY <1>2, <1>3 DEF DecideAndApply

LEMMA AdminKeeps ==
    ASSUME TypeInv, AdminStep, NEW a \in ApprovalId
    PROVE  Keeps(a)
<1>1. CASE approvals' = approvals
  BY <1>1 DEF Keeps
<1>2. ASSUME NEW s \in StateId, DeleteState(s) PROVE Keeps(a)
  BY <1>2, DeleteStateForgets, ApprovalsForget DEF Keeps
<1>3. ASSUME NEW t \in EdgeId, DeleteTransition(t) PROVE Keeps(a)
  BY <1>3, DeleteTransitionForgets, ApprovalsForget DEF Keeps
<1>4. approvals' = approvals \/ (\E s \in StateId : DeleteState(s))
                            \/ (\E t \in EdgeId : DeleteTransition(t))
  BY DEF AdminStep, AssignWorkflow, DeleteEntity, CreateState, CreateTransition, CreateGuard,
         DeleteGuard, CreateApprover, DeleteApprover, CreatePostFunction, DeletePostFunction,
         ChangeMembership, DeleteTeam, approvalVars
<1> QED BY <1>1, <1>2, <1>3, <1>4

\* Only two steps of a handler, and two edits, touch an approval.
LEMMA NextKeeps ==
    ASSUME TypeInv, [Next]_vars, NEW a \in ApprovalId
    PROVE  Keeps(a)
<1>1. CASE approvals' = approvals
  BY <1>1 DEF Keeps
<1>2. ASSUME NEW h \in Handler, HandlerStep(h) PROVE Keeps(a)
  <2>1. RequestApproval(h) \/ DecideAndApply(h) \/ approvals' = approvals
    BY <1>2 DEF HandlerStep, ResolveMove, EvaluateGuards, LoadApprovers, ReadExisting,
                NotifyApprovers, PlanEffects, ApplyTransition, LegacyCheck, LegacyWrite,
                LegacyAudit, CheckAuthority, NotifyVerdict, WriteRow, InsertRow, approvalVars
  <2> QED BY <1>1, <2>1, RequestApprovalKeeps, DecideAndApplyKeeps
<1>3. ASSUME NEW h \in Handler, StartStep(h) PROVE approvals' = approvals
  BY <1>3 DEF StartStep, StartMove, StartStateMove, StartDecide, StartRewrite, StartCreate,
              approvalVars
<1>4. Quiet \/ UNCHANGED vars => approvals' = approvals
  BY DEF Quiet, vars
<1> QED BY <1>1, <1>2, <1>3, <1>4, AdminKeeps DEF Next

-----------------------------------------------------------------------------
(* What a handler remembers of the approval it is about.                   *)

\* The approval q names is the one whose move q carries: same entity, same
\* captured status, same target.  A handler that is about to tell approvers
\* carries the requester, and one that is about to tell the requester knows
\* the approval is decided.
Remembers(q, known) ==
    q.ap # Nil =>
        /\ known[q.ap].st # "none"
        /\ known[q.ap].e = q.e
        /\ known[q.ap].from = q.status
        /\ known[q.ap].to = q.to
        /\ q.pc = "notify" => known[q.ap].by = q.actor
        /\ q.pc = "notifyVerdict" => known[q.ap].st \in Verdict

RequestsRemember == \A h \in Handler : Remembers(req[h], approvals)

\* What others do to an approval makes no memory of it wrong.
LEMMA MemoryKept ==
    ASSUME NEW q \in Request, Remembers(q, approvals), \A a \in ApprovalId : Keeps(a)
    PROVE  Remembers(q, approvals')
<1>1. CASE q.ap = Nil
  BY <1>1 DEF Remembers
<1>2. CASE q.ap # Nil
  <2>1. q.ap \in ApprovalId
    BY <1>2 DEF Request, OrNil
  <2> QED BY <2>1 DEF Remembers, Keeps
<1> QED BY <1>1, <1>2

LEMMA MemoryStep ==
    ASSUME TypeInv, RequestsRemember, \A a \in ApprovalId : Keeps(a),
           NEW h \in Handler, NEW q, req' = [req EXCEPT ![h] = q], Remembers(q, approvals')
    PROVE  RequestsRemember'
<1>1. ASSUME NEW g \in Handler PROVE Remembers(req'[g], approvals')
  <2>1. CASE g = h
    BY <2>1 DEF TypeInv, TypeOK
  <2>2. CASE g # h
    BY <2>2, MemoryKept DEF TypeInv, TypeOK, RequestsRemember
  <2> QED BY <2>1, <2>2
<1> QED BY <1>1 DEF RequestsRemember

\* The step of a handler that neither asks nor decides: it forgets the
\* approval, or goes on with the one it had.
SameAsk(h, q) ==
    /\ req' = [req EXCEPT ![h] = q]
    /\ q.ap # Nil =>
         /\ q.ap = req[h].ap /\ q.e = req[h].e
         /\ q.status = req[h].status /\ q.to = req[h].to
         /\ q.pc \notin {"notify", "notifyVerdict"}

LEMMA SameAskStep ==
    ASSUME TypeInv, RequestsRemember, \A a \in ApprovalId : Keeps(a),
           NEW h \in Handler, NEW q, SameAsk(h, q)
    PROVE  RequestsRemember'
<1>1. Remembers(req[h], approvals')
  BY MemoryKept DEF TypeInv, TypeOK, RequestsRemember
<1>2. Remembers(q, approvals')
  BY <1>1 DEF SameAsk, Remembers
<1> QED BY <1>2, MemoryStep DEF SameAsk

LEMMA AnswerForgets ==
    ASSUME NEW h \in Handler, Answer(h)
    PROVE  SameAsk(h, Idle)
BY DEF Answer, SameAsk, Idle

LEMMA GotoRemembers ==
    ASSUME TypeInv, NEW h \in Handler, NEW pc \in PC \ {"notify", "notifyVerdict"}, Goto(h, pc)
    PROVE  SameAsk(h, [req[h] EXCEPT !.pc = pc])
<1>1. req[h] \in Request
  BY DEF TypeInv, TypeOK
<1>2. req' = [req EXCEPT ![h] = [req[h] EXCEPT !.pc = pc]]
  BY DEF Goto, TypeInv, TypeOK
<1> QED BY <1>1, <1>2 DEF SameAsk, Request

LEMMA HandlerMemory ==
    ASSUME TypeInv, RequestsRemember, \A a \in ApprovalId : Keeps(a),
           NEW h \in Handler, HandlerStep(h)
    PROVE  RequestsRemember'
<1> DEFINE r == req[h]
<1>1. r \in Request /\ Carries(r) /\ Remembers(r, approvals)
  BY DEF TypeInv, TypeOK, RequestsCarry, RequestsRemember
<1>2. CASE Answer(h)
  BY <1>2, AnswerForgets, SameAskStep
<1>3. ASSUME NEW pc \in PC \ {"notify", "notifyVerdict"}, Goto(h, pc)
      PROVE  RequestsRemember'
  BY <1>3, GotoRemembers, SameAskStep
<1>4. CASE ResolveMove(h)
  <2> DEFINE to == Some(ByName(LiveStates, r.to))
  <2>1. CASE req' = [req EXCEPT ![h].pc = "apply", ![h].toState = to]
    <3> DEFINE q == [r EXCEPT !.pc = "apply", !.toState = to]
    <3>1. SameAsk(h, q)
      BY <1>1, <2>1 DEF SameAsk, Request, TypeInv, TypeOK
    <3> QED BY <3>1, SameAskStep
  <2>2. ASSUME NEW t \in EdgeId,
               req' = [req EXCEPT ![h].pc = "guards", ![h].edge = t, ![h].toState = to]
        PROVE  RequestsRemember'
    <3> DEFINE q == [r EXCEPT !.pc = "guards", !.edge = t, !.toState = to]
    <3>1. SameAsk(h, q)
      BY <1>1, <2>2 DEF SameAsk, Request, TypeInv, TypeOK
    <3> QED BY <3>1, SameAskStep
  <2> QED BY <1>2, <1>3, <1>4, <2>1, <2>2 DEF ResolveMove, EdgesBetween, LiveEdges, PC
<1>5. CASE RequestApproval(h)
  <2>1. ASSUME NEW a \in ApprovalId,
               approvals' = [approvals EXCEPT ![a] =
                  [st |-> "pending", e |-> r.e, edge |-> r.edge,
                   from |-> r.status, to |-> r.to, toState |-> EdgeTo[r.edge],
                   by |-> r.actor, decidedBy |-> Nil]],
               req' = [req EXCEPT ![h].pc = "notify", ![h].ap = a]
        PROVE  RequestsRemember'
    <3> DEFINE q == [r EXCEPT !.pc = "notify", !.ap = a]
    <3>1. req' = [req EXCEPT ![h] = q]
      BY <2>1 DEF TypeInv, TypeOK
    <3>2. q.ap = a /\ q.e = r.e /\ q.status = r.status /\ q.to = r.to /\ q.actor = r.actor
          /\ q.pc = "notify"
      BY <1>1 DEF Request
    <3>3. Remembers(q, approvals')
      BY <2>1, <3>2 DEF Remembers, TypeInv, TypeOK
    <3> QED BY <3>1, <3>3, MemoryStep
  <2> QED BY <1>2, <1>3, <1>5, <2>1 DEF RequestApproval, PC
<1>6. CASE PlanEffects(h)
  <2>1. ASSUME NEW pc \in {"apply", "verdict"},
               req' = [req EXCEPT ![h].pc = pc, ![h].effects = postFns[r.edge]]
        PROVE  RequestsRemember'
    <3> DEFINE q == [r EXCEPT !.pc = pc, !.effects = postFns[r.edge]]
    <3>1. SameAsk(h, q)
      BY <1>1, <2>1 DEF SameAsk, Request, TypeInv, TypeOK
    <3> QED BY <3>1, SameAskStep
  <2> QED BY <1>2, <1>6, <2>1 DEF PlanEffects
<1>7. CASE DecideAndApply(h)
  <2>1. CASE /\ approvals' = [approvals EXCEPT ![r.ap].st = r.verdict,
                                               ![r.ap].decidedBy = r.actor]
             /\ Goto(h, "notifyVerdict")
    <3> DEFINE q == [r EXCEPT !.pc = "notifyVerdict"]
    <3>1. req' = [req EXCEPT ![h] = q]
      BY <2>1 DEF Goto, TypeInv, TypeOK
    <3>2. Remembers(r, approvals')
      BY <1>1, MemoryKept
    <3>3. r.ap \in ApprovalId /\ r.verdict \in Verdict
      BY <1>1, <1>7 DEF Carries, Request, DecideAndApply
    <3>4. approvals'[r.ap].st = r.verdict
      BY <2>1, <3>3 DEF TypeInv, TypeOK, Approval
    <3>5. q.ap = r.ap /\ q.e = r.e /\ q.status = r.status /\ q.to = r.to /\ q.pc = "notifyVerdict"
      BY <1>1 DEF Request
    <3>6. Remembers(q, approvals')
      BY <3>2, <3>3, <3>4, <3>5 DEF Remembers
    <3> QED BY <3>1, <3>6, MemoryStep
  <2> QED BY <1>2, <1>7, <2>1 DEF DecideAndApply
<1>8. CASE LoadApprovers(h)
  BY <1>3, <1>8 DEF LoadApprovers, PC
<1>9. CASE CheckAuthority(h)
  BY <1>2, <1>3, <1>9 DEF CheckAuthority, PC
<1>10. CASE LegacyCheck(h) \/ LegacyWrite(h) \/ EvaluateGuards(h)
  BY <1>2, <1>3, <1>10 DEF LegacyCheck, LegacyWrite, EvaluateGuards, PC
<1>11. CASE \/ ReadExisting(h) \/ NotifyApprovers(h) \/ ApplyTransition(h) \/ LegacyAudit(h)
            \/ NotifyVerdict(h) \/ WriteRow(h) \/ InsertRow(h)
  BY <1>2, <1>11 DEF ReadExisting, NotifyApprovers, ApplyTransition, LegacyAudit,
                     NotifyVerdict, WriteRow, InsertRow
<1> QED BY <1>4, <1>5, <1>6, <1>7, <1>8, <1>9, <1>10, <1>11 DEF HandlerStep

LEMMA StartMemory ==
    ASSUME TypeInv, RequestsRemember, \A a \in ApprovalId : Keeps(a),
           NEW h \in Handler, StartStep(h)
    PROVE  RequestsRemember'
<1>1. ASSUME NEW q, req' = [req EXCEPT ![h] = q], q.ap = Nil
      PROVE  RequestsRemember'
  BY <1>1, MemoryStep DEF Remembers
<1>2. ASSUME NEW e \in Entity, NEW u \in User, NEW to \in Status, StartMove(h, e, u, to)
      PROVE  RequestsRemember'
  <2> DEFINE q == [ReadOf(e) EXCEPT !.pc = "gate", !.actor = u, !.to = to]
  <2>1. req' = [req EXCEPT ![h] = q]
    BY <1>2 DEF StartMove, Begin
  <2>2. q.ap = Nil
    BY DEF ReadOf, Idle
  <2> HIDE DEF q
  <2> QED BY <1>1, <2>1, <2>2
<1>3. ASSUME NEW e \in Entity, NEW u \in User, NEW s \in StateId, StartStateMove(h, e, u, s)
      PROVE  RequestsRemember'
  <2> DEFINE q == [ReadOf(e) EXCEPT !.pc = "gate", !.actor = u, !.to = StateName[s]]
  <2>1. req' = [req EXCEPT ![h] = q]
    BY <1>3 DEF StartStateMove, Begin
  <2>2. q.ap = Nil
    BY DEF ReadOf, Idle
  <2> HIDE DEF q
  <2> QED BY <1>1, <2>1, <2>2
<1>4. ASSUME NEW a \in ApprovalId, NEW u \in User, NEW v \in Verdict, StartDecide(h, a, u, v)
      PROVE  RequestsRemember'
  <2> DEFINE q == [Idle EXCEPT !.pc = "authority", !.actor = u, !.verdict = v,
                     !.ap = a, !.e = approvals[a].e, !.edge = approvals[a].edge,
                     !.status = approvals[a].from, !.to = approvals[a].to,
                     !.toState = approvals[a].toState]
  <2>1. q.ap = a /\ q.e = approvals[a].e /\ q.status = approvals[a].from
        /\ q.to = approvals[a].to /\ q.pc = "authority"
    BY DEF Idle
  <2>2. approvals' = approvals /\ approvals[a].st = "pending"
    BY <1>4 DEF StartDecide, approvalVars
  <2>3. Remembers(q, approvals')
    BY <2>1, <2>2 DEF Remembers
  <2>4. req' = [req EXCEPT ![h] = q]
    BY <1>4 DEF StartDecide, Begin
  <2> QED BY <2>3, <2>4, MemoryStep
<1>5. ASSUME NEW e \in Entity, NEW u \in OrNil(User), NEW d \in BOOLEAN, StartRewrite(h, e, u, d)
      PROVE  RequestsRemember'
  <2> DEFINE q == [ReadOf(e) EXCEPT !.pc = "rewrite", !.assignee = u, !.due = d]
  <2>1. req' = [req EXCEPT ![h] = q]
    BY <1>5 DEF StartRewrite, Begin
  <2>2. q.ap = Nil
    BY DEF ReadOf, Idle
  <2> HIDE DEF q
  <2> QED BY <1>1, <2>1, <2>2
<1>6. ASSUME NEW e \in Entity, StartCreate(h, e)
      PROVE  RequestsRemember'
  <2> DEFINE q == [Idle EXCEPT !.pc = "insert", !.e = e,
                     !.stateId = IF wf THEN Some(LiveStates \cap Initial) ELSE Nil,
                     !.status = IF (IF wf THEN Some(LiveStates \cap Initial) ELSE Nil) = Nil
                                THEN OpenStatus
                                ELSE StateName[IF wf THEN Some(LiveStates \cap Initial) ELSE Nil]]
  <2>1. req' = [req EXCEPT ![h] = q]
    BY <1>6 DEF StartCreate, Begin
  <2>2. q.ap = Nil
    BY DEF ReadOf, Idle
  <2> HIDE DEF q
  <2> QED BY <1>1, <2>1, <2>2
<1> QED BY <1>2, <1>3, <1>4, <1>5, <1>6 DEF StartStep

-----------------------------------------------------------------------------
(* The invariant, and what follows from it.                                *)

Inv == TypeInv /\ RequestsRemember

LEMMA InitInv == Init => Inv
<1> SUFFICES ASSUME Init PROVE Inv
  OBVIOUS
<1>1. \A h \in Handler : req[h] = Idle
  BY DEF Init
<1>2. \A a \in ApprovalId : approvals[a] = NoApproval
  BY DEF Init
<1>3. TypeOK
  <2>1. states \in [StateId -> Life] /\ edges \in [EdgeId -> Life]
    BY DEF Init, Life
  <2>2. req \in [Handler -> Request] /\ approvals \in [ApprovalId -> Approval]
    BY IdleType, NoApprovalType DEF Init
  <2>3. audit \in Seq(AuditRow)
    BY DEF Init
  <2> QED BY <2>1, <2>2, <2>3, InitAssumption DEF Init, TypeOK
<1>4. RequestsCarry /\ RequestsRemember
  BY <1>1 DEF RequestsCarry, RequestsRemember, Carries, Remembers, Idle
<1>5. ApprovalsCarry
  BY <1>2 DEF ApprovalsCarry, NoApproval
<1> QED BY <1>3, <1>4, <1>5 DEF Inv, TypeInv

LEMMA HandlerType ==
    ASSUME Inv, NEW h \in Handler, HandlerStep(h)
    PROVE  TypeInv'
<1>1. TypeInv
  BY DEF Inv
<1>2. CASE NotifyVerdict(h)
  <2>1. Carries(req[h]) /\ Remembers(req[h], approvals)
    BY DEF Inv, TypeInv, RequestsCarry, RequestsRemember
  <2>2. req[h].ap # Nil
    BY <1>2, <2>1, ApprovalIdAssumption DEF Carries, NotifyVerdict
  <2> QED BY <1>1, <1>2, <2>1, <2>2, NotifyVerdictType DEF Remembers
<1> QED BY <1>1, <1>2, ResolveMoveType, EvaluateGuardsType, LoadApproversType,
           RequestApprovalType, ReadExistingType, NotifyApproversType, PlanEffectsType,
           ApplyTransitionType, LegacyCheckType, LegacyWriteType, LegacyAuditType,
           CheckAuthorityType, DecideAndApplyType, WriteRowType, InsertRowType DEF HandlerStep

LEMMA NextInv == Inv /\ [Next]_vars => Inv'
<1> SUFFICES ASSUME Inv, [Next]_vars PROVE Inv'
  OBVIOUS
<1>1. TypeInv /\ RequestsRemember
  BY DEF Inv
<1>2. \A a \in ApprovalId : Keeps(a)
  BY <1>1, NextKeeps
<1>3. ASSUME NEW h \in Handler, HandlerStep(h) PROVE Inv'
  BY <1>1, <1>2, <1>3, HandlerType, HandlerMemory DEF Inv
<1>4. ASSUME NEW h \in Handler, StartStep(h) PROVE Inv'
  BY <1>1, <1>2, <1>4, StartType, StartMemory DEF Inv
<1>5. CASE AdminStep
  <2>1. req' = req
    BY <1>5 DEF AdminStep, Edit, AssignWorkflow, DeleteEntity, CreateState, DeleteState,
                CreateTransition, DeleteTransition, CreateGuard, DeleteGuard, CreateApprover,
                DeleteApprover, CreatePostFunction, DeletePostFunction, ChangeMembership,
                DeleteTeam
  <2>2. RequestsRemember'
    BY <1>1, <1>2, <2>1, MemoryKept DEF RequestsRemember, TypeInv, TypeOK
  <2> QED BY <1>1, <1>5, <2>2, AdminType DEF Inv
<1>6. CASE Quiet \/ UNCHANGED vars
  BY <1>6 DEF Quiet, vars, Inv, TypeInv, TypeOK, RequestsCarry, ApprovalsCarry,
              RequestsRemember
<1> QED BY <1>3, <1>4, <1>5, <1>6 DEF Next

LEMMA Invariant == Spec => []Inv
BY InitInv, NextInv, PTL DEF Spec

\* Every variable keeps its type: rows, approvals, audit rows and notices
\* are well formed whatever handlers and administrators do.
THEOREM TypeCorrect == Spec => []TypeOK
<1>1. Inv => TypeOK
  BY DEF Inv, TypeInv
<1> QED BY <1>1, Invariant, PTL

\* A verdict and the move it was about never change: DecideAndApply and the
\* edits that clear an approval's ids are the only writers.
THEOREM DecisionsFinal == Spec => DecisionIsFinal
<1> DEFINE Final == \A a \in ApprovalId :
         /\ approvals[a].st \in Verdict =>
              /\ approvals'[a].st = approvals[a].st
              /\ approvals'[a].decidedBy = approvals[a].decidedBy
         /\ approvals[a].st # "none" =>
              /\ approvals'[a].from = approvals[a].from
              /\ approvals'[a].to = approvals[a].to
              /\ approvals'[a].e = approvals[a].e
<1>1. Inv /\ [Next]_vars => [Final]_vars
  BY NextKeeps DEF Inv, Keeps
<1> QED BY <1>1, Invariant, PTL DEF Spec, DecisionIsFinal

\* Only an INSERT that found no pending request makes a request.
LEMMA OnlyRequestsBegin ==
    ASSUME TypeInv, [Next]_vars, NEW a \in ApprovalId,
           approvals[a].st = "none", approvals'[a].st # "none"
    PROVE  \E h \in Handler : RequestApproval(h)
<1>1. CASE approvals' = approvals
  BY <1>1
<1>2. ASSUME NEW h \in Handler, HandlerStep(h), ~RequestApproval(h) PROVE FALSE
  <2>1. approvals' = approvals \/ DecideAndApply(h)
    BY <1>2 DEF HandlerStep, ResolveMove, EvaluateGuards, LoadApprovers, ReadExisting,
                NotifyApprovers, PlanEffects, ApplyTransition, LegacyCheck, LegacyWrite,
                LegacyAudit, CheckAuthority, NotifyVerdict, WriteRow, InsertRow, approvalVars
  <2>2. CASE DecideAndApply(h)
    BY <2>2 DEF DecideAndApply, Decides, TypeInv, TypeOK
  <2> QED BY <1>1, <2>1, <2>2
<1>3. CASE AdminStep
  <2>1. approvals' = approvals \/ (\E s \in StateId : DeleteState(s))
                              \/ (\E t \in EdgeId : DeleteTransition(t))
    BY <1>3 DEF AdminStep, AssignWorkflow, DeleteEntity, CreateState, CreateTransition,
         CreateGuard, DeleteGuard, CreateApprover, DeleteApprover, CreatePostFunction,
         DeletePostFunction, ChangeMembership, DeleteTeam, approvalVars
  <2> QED BY <1>1, <2>1, DeleteStateForgets, DeleteTransitionForgets, ApprovalsForget
<1>4. ASSUME NEW h \in Handler, StartStep(h) PROVE approvals' = approvals
  BY <1>4 DEF StartStep, StartMove, StartStateMove, StartDecide, StartRewrite, StartCreate,
              approvalVars
<1>5. Quiet \/ UNCHANGED vars => approvals' = approvals
  BY DEF Quiet, vars
<1> QED BY <1>1, <1>2, <1>3, <1>4, <1>5 DEF Next

LEMMA OnePendingStep ==
    ASSUME Inv, OnePendingPerEntity, [Next]_vars
    PROVE  OnePendingPerEntity'
<1>1. TypeInv /\ \A a \in ApprovalId : Keeps(a)
  BY NextKeeps DEF Inv
<1>2. \A a \in ApprovalId : approvals[a] \in Approval
  BY <1>1 DEF TypeInv, TypeOK
\* A request that is pending after the step either was before, or is new.
<1>3. ASSUME NEW a \in ApprovalId, approvals'[a].st = "pending", approvals[a].st # "none"
      PROVE  approvals[a].st = "pending" /\ approvals'[a].e = approvals[a].e
  BY <1>1, <1>2, <1>3 DEF Keeps, Approval, Verdict
<1>4. CASE \E h \in Handler : RequestApproval(h)
  <2>1. PICK h \in Handler : RequestApproval(h)
    BY <1>4
  <2>2. CASE approvals' = approvals
    BY <2>2 DEF OnePendingPerEntity
  <2>3. ASSUME NEW n \in ApprovalId, Pending(req[h].e) = {}, approvals[n].st = "none",
               approvals' = [approvals EXCEPT ![n] =
                  [st |-> "pending", e |-> req[h].e, edge |-> req[h].edge,
                   from |-> req[h].status, to |-> req[h].to,
                   toState |-> EdgeTo[req[h].edge],
                   by |-> req[h].actor, decidedBy |-> Nil]]
        PROVE  OnePendingPerEntity'
    <3>1. approvals'[n].e = req[h].e
      BY <1>1, <2>3 DEF TypeInv, TypeOK
    <3>2. \A a \in ApprovalId : a # n => approvals'[a] = approvals[a]
      BY <1>1, <2>3 DEF TypeInv, TypeOK
    <3>3. \A a \in ApprovalId :
             approvals[a].st = "pending" => approvals[a].e # req[h].e
      BY <2>3 DEF Pending
    <3> QED BY <3>1, <3>2, <3>3 DEF OnePendingPerEntity
  <2> QED BY <2>1, <2>2, <2>3 DEF RequestApproval
<1>5. CASE ~\E h \in Handler : RequestApproval(h)
  <2>1. ASSUME NEW a \in ApprovalId, approvals'[a].st = "pending"
        PROVE  approvals[a].st = "pending" /\ approvals'[a].e = approvals[a].e
    BY <1>1, <1>3, <1>5, <2>1, OnlyRequestsBegin
  <2> QED BY <2>1 DEF OnePendingPerEntity
<1> QED BY <1>4, <1>5

\* The partial unique index at work: two people pressing the same guarded
\* button, or two buttons, never leave two requests of one entity pending.
THEOREM OnePending == Spec => []OnePendingPerEntity
<1>1. Init => OnePendingPerEntity
  BY DEF Init, OnePendingPerEntity, NoApproval
<1>2. Inv /\ OnePendingPerEntity /\ [Next]_vars => OnePendingPerEntity'
  BY OnePendingStep
<1> QED BY <1>1, <1>2, Invariant, PTL DEF Spec

-----------------------------------------------------------------------------
(* The verdict and the move.                                               *)

\* A handler that decides for an approval, and lets the move through.
Approves(h) == DecideAndApply(h) /\ Decides(req[h]) /\ req[h].verdict = "approved"

\* Every entry of the audit log that names an approval is written by the
\* step that approves it.
LEMMA AuditStep ==
    ASSUME TypeInv, [Next]_vars
    PROVE  \/ audit' = audit
           \/ \E x \in AuditRow : x.ap = Nil /\ audit' = Append(audit, x)
           \/ \E h \in Handler : Approves(h)
<1>1. ASSUME NEW h \in Handler, ApplyTransition(h)
      PROVE  audit' = audit \/ \E x \in AuditRow : x.ap = Nil /\ audit' = Append(audit, x)
  <2> DEFINE r == req[h]
             x == [e |-> r.e, from |-> r.status, to |-> r.to,
                   edge |-> r.edge, ap |-> r.ap, path |-> "workflow"]
  <2>1. r \in Request /\ r.e \in Entity /\ r.ap = Nil
    BY <1>1 DEF TypeInv, TypeOK, RequestsCarry, Carries, ApplyTransition
  <2>2. x \in AuditRow /\ x.ap = Nil
    BY <2>1 DEF AuditRow, Request
  <2>3. audit' = audit \/ audit' = Append(audit, x)
    BY <1>1 DEF ApplyTransition, CommitMove, entityVars
  <2> QED BY <2>2, <2>3
<1>2. ASSUME NEW h \in Handler, LegacyAudit(h)
      PROVE  audit' = audit \/ \E x \in AuditRow : x.ap = Nil /\ audit' = Append(audit, x)
  <2> DEFINE r == req[h]
             x == [e |-> r.e, from |-> r.status, to |-> r.to,
                   edge |-> Nil, ap |-> Nil, path |-> "legacy"]
  <2>1. r \in Request /\ r.e \in Entity
    BY <1>2 DEF TypeInv, TypeOK, RequestsCarry, Carries, LegacyAudit
  <2>2. x \in AuditRow /\ x.ap = Nil
    BY <2>1 DEF AuditRow, Request, OrNil
  <2>3. audit' = audit \/ audit' = Append(audit, x)
    BY <1>2 DEF LegacyAudit
  <2> QED BY <2>2, <2>3
<1>3. ASSUME NEW h \in Handler, DecideAndApply(h), ~Approves(h) PROVE audit' = audit
  BY <1>3 DEF DecideAndApply, Approves, entityVars
<1>4. ASSUME NEW h \in Handler, HandlerStep(h)
      PROVE  audit' = audit \/ ApplyTransition(h) \/ LegacyAudit(h) \/ DecideAndApply(h)
  BY <1>4 DEF HandlerStep, ResolveMove, EvaluateGuards, LoadApprovers, RequestApproval,
              ReadExisting, NotifyApprovers, PlanEffects, LegacyCheck, LegacyWrite,
              CheckAuthority, NotifyVerdict, WriteRow, InsertRow, entityVars
<1>5. ASSUME NEW h \in Handler, StartStep(h) PROVE audit' = audit
  BY <1>5 DEF StartStep, StartMove, StartStateMove, StartDecide, StartRewrite, StartCreate,
              entityVars
<1>6. AdminStep => audit' = audit
  BY DEF AdminStep, Edit, AssignWorkflow, DeleteEntity, CreateState, DeleteState,
         CreateTransition, DeleteTransition, CreateGuard, DeleteGuard, CreateApprover,
         DeleteApprover, CreatePostFunction, DeletePostFunction, ChangeMembership,
         DeleteTeam, entityVars
<1>7. Quiet \/ UNCHANGED vars => audit' = audit
  BY DEF Quiet, vars
<1> QED BY <1>1, <1>2, <1>3, <1>4, <1>5, <1>6, <1>7 DEF Next

\* And only that step approves anything.
LEMMA OnlyApproversApprove ==
    ASSUME TypeInv, [Next]_vars, NEW a \in ApprovalId,
           approvals[a].st # "approved", approvals'[a].st = "approved"
    PROVE  \E h \in Handler : Approves(h) /\ req[h].ap = a
<1>1. ASSUME NEW h \in Handler, RequestApproval(h) PROVE FALSE
  <2>1. approvals' # approvals
    OBVIOUS
  <2>2. PICK n \in ApprovalId, new \in {[st |-> "pending", e |-> req[h].e, edge |-> req[h].edge,
                from |-> req[h].status, to |-> req[h].to, toState |-> EdgeTo[req[h].edge],
                by |-> req[h].actor, decidedBy |-> Nil]} :
           approvals' = [approvals EXCEPT ![n] = new]
    BY <1>1, <2>1 DEF RequestApproval
  <2>3. new.st = "pending" /\ approvals \in [ApprovalId -> Approval]
    BY DEF TypeInv, TypeOK
  <2> QED BY <2>2, <2>3
<1>2. ASSUME NEW h \in Handler, DecideAndApply(h) PROVE Approves(h) /\ req[h].ap = a
  <2> DEFINE r == req[h]
  <2>1. /\ Decides(r)
        /\ approvals' = [approvals EXCEPT ![r.ap].st = r.verdict,
                                          ![r.ap].decidedBy = r.actor]
    BY <1>2 DEF DecideAndApply
  <2>2. approvals \in [ApprovalId -> Approval]
    BY DEF TypeInv, TypeOK
  <2>3. r.ap = a
    BY <2>1, <2>2
  <2>4. approvals'[a].st = r.verdict
    BY <2>1, <2>2, <2>3 DEF Approval
  <2> QED BY <1>2, <2>1, <2>3, <2>4 DEF Approves
<1>3. ASSUME NEW h \in Handler, HandlerStep(h)
      PROVE  approvals' = approvals \/ RequestApproval(h) \/ DecideAndApply(h)
  BY <1>3 DEF HandlerStep, ResolveMove, EvaluateGuards, LoadApprovers, ReadExisting,
              NotifyApprovers, PlanEffects, ApplyTransition, LegacyCheck, LegacyWrite,
              LegacyAudit, CheckAuthority, NotifyVerdict, WriteRow, InsertRow, approvalVars
<1>4. CASE AdminStep
  <2>1. approvals' = approvals \/ (\E s \in StateId : DeleteState(s))
                              \/ (\E t \in EdgeId : DeleteTransition(t))
    BY <1>4 DEF AdminStep, AssignWorkflow, DeleteEntity, CreateState, CreateTransition,
         CreateGuard, DeleteGuard, CreateApprover, DeleteApprover, CreatePostFunction,
         DeletePostFunction, ChangeMembership, DeleteTeam, approvalVars
  <2> QED BY <2>1, DeleteStateForgets, DeleteTransitionForgets, ApprovalsForget
<1>5. ASSUME NEW h \in Handler, StartStep(h) PROVE approvals' = approvals
  BY <1>5 DEF StartStep, StartMove, StartStateMove, StartDecide, StartRewrite, StartCreate,
              approvalVars
<1>6. Quiet \/ UNCHANGED vars => approvals' = approvals
  BY DEF Quiet, vars
<1> QED BY <1>1, <1>2, <1>3, <1>4, <1>5, <1>6 DEF Next

LEMMA AppendedRows ==
    ASSUME audit \in Seq(AuditRow), NEW x \in AuditRow, audit' = Append(audit, x),
           NEW a \in ApprovalId
    PROVE  /\ x.ap # a => AuditRows(a)' = AuditRows(a)
           /\ x.ap = a /\ AuditRows(a) = {} => AuditRows(a)' = {Len(audit) + 1}
           /\ \A i \in DOMAIN audit : audit'[i] = audit[i]
           /\ audit'[Len(audit) + 1] = x
<1>1. /\ DOMAIN audit = 1 .. Len(audit) /\ Len(audit) \in Nat
      /\ DOMAIN audit' = 1 .. Len(audit) + 1
      /\ \A i \in 1 .. Len(audit) : audit'[i] = audit[i]
      /\ audit'[Len(audit) + 1] = x
  BY AppendProperties
<1>2. x.ap # a => AuditRows(a)' = AuditRows(a)
  BY <1>1 DEF AuditRows
<1>3. x.ap = a /\ AuditRows(a) = {} => AuditRows(a)' = {Len(audit) + 1}
  BY <1>1 DEF AuditRows
<1> QED BY <1>1, <1>2, <1>3

\* What an approving step writes, in one transaction.
LEMMA ApprovingStep ==
    ASSUME Inv, NEW h \in Handler, Approves(h)
    PROVE  LET r == req[h]
               x == [e |-> r.e, from |-> r.status, to |-> r.to,
                     edge |-> r.edge, ap |-> r.ap, path |-> "workflow"]
           IN  /\ r.ap \in ApprovalId
               /\ x \in AuditRow
               /\ audit' = Append(audit, x)
               /\ approvals[r.ap].st = "pending"
               /\ approvals'[r.ap].st = "approved"
               /\ approvals'[r.ap].decidedBy # Nil
               /\ approvals'[r.ap].e = r.e
               /\ approvals'[r.ap].from = r.status
               /\ approvals'[r.ap].to = r.to
<1> DEFINE r == req[h]
           x == [e |-> r.e, from |-> r.status, to |-> r.to,
                 edge |-> r.edge, ap |-> r.ap, path |-> "workflow"]
<1>1. r \in Request /\ Carries(r) /\ Remembers(r, approvals) /\ r.pc = "verdict"
  BY DEF Inv, TypeInv, TypeOK, RequestsCarry, RequestsRemember, Approves, DecideAndApply
<1>2. r.ap \in ApprovalId /\ r.e \in Entity /\ r.actor # Nil
  BY <1>1, NilAssumption DEF Carries
<1>3. x \in AuditRow
  BY <1>1, <1>2 DEF AuditRow, Request
<1>4. audit' = Append(audit, x)
  BY DEF Approves, DecideAndApply, CommitMove
<1>5. approvals[r.ap] \in Approval /\ approvals[r.ap].st = "pending"
  BY <1>2 DEF Approves, Decides, Inv, TypeInv, TypeOK
<1>6. approvals'[r.ap] = [approvals[r.ap] EXCEPT !.st = "approved", !.decidedBy = r.actor]
  BY <1>2, <1>5 DEF Approves, DecideAndApply, Inv, TypeInv, TypeOK, Approval
<1>7. approvals[r.ap].e = r.e /\ approvals[r.ap].from = r.status /\ approvals[r.ap].to = r.to
  BY <1>1, <1>2, ApprovalIdAssumption DEF Remembers
<1> QED BY <1>2, <1>3, <1>4, <1>5, <1>6, <1>7 DEF Approval

LEMMA ApprovedIffMovedStep ==
    ASSUME Inv, ApprovedIffMoved, [Next]_vars
    PROVE  ApprovedIffMoved'
<1>1. TypeInv /\ audit \in Seq(AuditRow) /\ \A a \in ApprovalId : Keeps(a)
  BY NextKeeps DEF Inv, TypeInv, TypeOK
\* For an approval nobody approves in this step, neither side changes.
<1>2. ASSUME NEW a \in ApprovalId, approvals'[a].st = "approved" <=> approvals[a].st = "approved",
             AuditRows(a)' = AuditRows(a), \A i \in DOMAIN audit : audit'[i] = audit[i]
      PROVE  IF approvals'[a].st = "approved"
             THEN \E i \in AuditRows(a)' :
                     /\ AuditRows(a)' = {i}
                     /\ audit'[i].e = approvals'[a].e
                     /\ audit'[i].from = approvals'[a].from
                     /\ audit'[i].to = approvals'[a].to
                     /\ approvals'[a].decidedBy # Nil
             ELSE AuditRows(a)' = {}
  <2>1. CASE approvals[a].st = "approved"
    <3>1. PICK i \in AuditRows(a) :
             /\ AuditRows(a) = {i}
             /\ audit[i].e = approvals[a].e
             /\ audit[i].from = approvals[a].from
             /\ audit[i].to = approvals[a].to
             /\ approvals[a].decidedBy # Nil
      BY <2>1 DEF ApprovedIffMoved
    <3>2. audit'[i] = audit[i]
      BY <1>2 DEF AuditRows
    <3> QED BY <1>1, <1>2, <2>1, <3>1, <3>2 DEF Keeps, Verdict
  <2>2. CASE approvals[a].st # "approved"
    BY <1>2, <2>2 DEF ApprovedIffMoved
  <2> QED BY <2>1, <2>2
<1>3. ASSUME NEW a \in ApprovalId, approvals[a].st = "approved"
      PROVE  approvals'[a].st = "approved"
  BY <1>1, <1>3 DEF Keeps, Verdict
<1>4. CASE \E h \in Handler : Approves(h)
  <2>1. PICK h \in Handler : Approves(h)
    BY <1>4
  <2> DEFINE r == req[h]
             x == [e |-> r.e, from |-> r.status, to |-> r.to,
                   edge |-> r.edge, ap |-> r.ap, path |-> "workflow"]
  <2>2. /\ r.ap \in ApprovalId /\ x \in AuditRow /\ audit' = Append(audit, x)
        /\ approvals[r.ap].st = "pending" /\ approvals'[r.ap].st = "approved"
        /\ approvals'[r.ap].decidedBy # Nil /\ approvals'[r.ap].e = r.e
        /\ approvals'[r.ap].from = r.status /\ approvals'[r.ap].to = r.to
    BY <2>1, ApprovingStep
  <2>3. ASSUME NEW a \in ApprovalId, a # r.ap
        PROVE  approvals'[a] = approvals[a]
    BY <2>1, <2>3 DEF Approves, DecideAndApply, Inv, TypeInv, TypeOK
  <2>4. ASSUME NEW a \in ApprovalId
        PROVE  IF approvals'[a].st = "approved"
               THEN \E i \in AuditRows(a)' :
                       /\ AuditRows(a)' = {i}
                       /\ audit'[i].e = approvals'[a].e
                       /\ audit'[i].from = approvals'[a].from
                       /\ audit'[i].to = approvals'[a].to
                       /\ approvals'[a].decidedBy # Nil
               ELSE AuditRows(a)' = {}
    <3>1. CASE a # r.ap
      <4>1. AuditRows(a)' = AuditRows(a) /\ \A i \in DOMAIN audit : audit'[i] = audit[i]
        BY <1>1, <2>2, <3>1, AppendedRows
      <4> QED BY <1>2, <2>3, <3>1, <4>1
    <3>2. CASE a = r.ap
      <4>1. AuditRows(a) = {}
        BY <2>2, <3>2 DEF ApprovedIffMoved
      <4>2. AuditRows(a)' = {Len(audit) + 1} /\ audit'[Len(audit) + 1] = x
        BY <1>1, <2>2, <3>2, <4>1, AppendedRows
      <4> QED BY <2>2, <3>2, <4>2
    <3> QED BY <3>1, <3>2
  <2> QED BY <2>4 DEF ApprovedIffMoved
<1>5. CASE ~\E h \in Handler : Approves(h)
  <2>1. ASSUME NEW a \in ApprovalId
        PROVE  approvals'[a].st = "approved" <=> approvals[a].st = "approved"
    BY <1>1, <1>3, <1>5, OnlyApproversApprove
  <2>2. ASSUME NEW a \in ApprovalId
        PROVE  AuditRows(a)' = AuditRows(a) /\ \A i \in DOMAIN audit : audit'[i] = audit[i]
    <3>1. CASE audit' = audit
      BY <3>1 DEF AuditRows
    <3>2. CASE \E x \in AuditRow : x.ap = Nil /\ audit' = Append(audit, x)
      BY <1>1, <3>2, AppendedRows, ApprovalIdAssumption
    <3> QED BY <1>1, <1>5, <3>1, <3>2, AuditStep
  <2> QED BY <1>2, <2>1, <2>2 DEF ApprovedIffMoved
<1> QED BY <1>4, <1>5

\* DecideAndApply is one transaction: in every interleaving, an approval is
\* approved exactly when the one move it asked for is in the audit log.
THEOREM ApprovedExactlyWhenMoved == Spec => []ApprovedIffMoved
<1>1. Init => ApprovedIffMoved
  BY DEF Init, ApprovedIffMoved, AuditRows, NoApproval
<1>2. Inv /\ ApprovedIffMoved /\ [Next]_vars => ApprovedIffMoved'
  BY ApprovedIffMovedStep
<1> QED BY <1>1, <1>2, Invariant, PTL DEF Spec

-----------------------------------------------------------------------------
(* Who is told, and of what.                                               *)

\* A notice stays true once it was.
LEMMA NoticeKept ==
    ASSUME Inv, NoticesAreTrue, [Next]_vars, NEW n \in notices
    PROVE  /\ n.kind = "decided" =>
                approvals'[n.ap].st \in Verdict /\ n.user = approvals'[n.ap].by
           /\ n.kind = "requested" =>
                approvals'[n.ap].st # "none" /\ n.user # approvals'[n.ap].by
<1>1. n.ap \in ApprovalId
  BY DEF Inv, TypeInv, TypeOK, Notice
<1>2. Keeps(n.ap)
  BY <1>1, NextKeeps DEF Inv
<1> QED BY <1>2 DEF Keeps, NoticesAreTrue, Verdict

LEMMA NoticesStep ==
    ASSUME Inv, NoticesAreTrue, [Next]_vars
    PROVE  NoticesAreTrue'
<1>1. CASE notices' = notices
  BY <1>1, NoticeKept DEF NoticesAreTrue
<1>2. ASSUME NEW h \in Handler, NotifyApprovers(h) PROVE NoticesAreTrue'
  <2> DEFINE r == req[h]
  <2>1. Carries(r) /\ Remembers(r, approvals) /\ r.pc = "notify"
    BY <1>2 DEF Inv, TypeInv, RequestsCarry, RequestsRemember, NotifyApprovers
  <2>2. approvals[r.ap].st # "none" /\ approvals[r.ap].by = r.actor
    BY <2>1, ApprovalIdAssumption DEF Carries, Remembers
  <2>3. approvals' = approvals
    BY <1>2 DEF NotifyApprovers
  <2>4. PICK landed \in SUBSET (ApproverRecipients(approvers[r.edge], members) \ {r.actor}) :
           notices' = notices \cup
              {[ap |-> r.ap, user |-> u, kind |-> "requested"] : u \in landed}
    BY <1>2 DEF NotifyApprovers
  <2>5. ASSUME NEW n \in notices', n \notin notices
        PROVE  n.ap = r.ap /\ n.user # r.actor /\ n.kind = "requested"
    BY <2>4, <2>5
  <2> QED BY <2>2, <2>3, <2>5, NoticeKept DEF NoticesAreTrue
<1>3. ASSUME NEW h \in Handler, NotifyVerdict(h) PROVE NoticesAreTrue'
  <2> DEFINE r == req[h]
             new == [ap |-> r.ap, user |-> approvals[r.ap].by, kind |-> "decided"]
  <2>1. Carries(r) /\ Remembers(r, approvals) /\ r.pc = "notifyVerdict"
    BY <1>3 DEF Inv, TypeInv, RequestsCarry, RequestsRemember, NotifyVerdict
  <2>2. approvals[r.ap].st \in Verdict
    BY <2>1, ApprovalIdAssumption DEF Carries, Remembers
  <2>3. approvals' = approvals /\ notices' \subseteq notices \cup {new}
    BY <1>3 DEF NotifyVerdict
  <2> QED BY <2>2, <2>3, NoticeKept DEF NoticesAreTrue
<1>4. ASSUME NEW h \in Handler, HandlerStep(h)
      PROVE  notices' = notices \/ NotifyApprovers(h) \/ NotifyVerdict(h)
  BY <1>4 DEF HandlerStep, ResolveMove, EvaluateGuards, LoadApprovers, RequestApproval,
              ReadExisting, PlanEffects, ApplyTransition, LegacyCheck, LegacyWrite,
              LegacyAudit, CheckAuthority, DecideAndApply, WriteRow, InsertRow, approvalVars
<1>5. ASSUME NEW h \in Handler, StartStep(h) PROVE notices' = notices
  BY <1>5 DEF StartStep, StartMove, StartStateMove, StartDecide, StartRewrite, StartCreate,
              approvalVars
<1>6. AdminStep => notices' = notices
  BY DEF AdminStep, Edit, AssignWorkflow, DeleteEntity, CreateState, DeleteState,
         CreateTransition, DeleteTransition, CreateGuard, DeleteGuard, CreateApprover,
         DeleteApprover, CreatePostFunction, DeletePostFunction, ChangeMembership,
         DeleteTeam, approvalVars
<1>7. Quiet \/ UNCHANGED vars => notices' = notices
  BY DEF Quiet, vars
<1> QED BY <1>1, <1>2, <1>3, <1>4, <1>5, <1>6, <1>7 DEF Next

\* Nobody is told of a verdict that was not given, no approver is told to
\* decide his own request, and both stay true after the notice is sent.
THEOREM NoticesTrue == Spec => []NoticesAreTrue
<1>1. Init => NoticesAreTrue
  BY DEF Init, NoticesAreTrue
<1>2. Inv /\ NoticesAreTrue /\ [Next]_vars => NoticesAreTrue'
  BY NoticesStep
<1> QED BY <1>1, <1>2, Invariant, PTL DEF Spec

\* The fan-out of a request and the authority to decide it are two pieces of
\* code that expand teams in opposite directions, from a team to its members
\* and from a user to his teams: they name the same people.
THEOREM RecipientsMayDecide ==
    ASSUME TypeOK, NEW t \in EdgeId, NEW u \in User
    PROVE  u \in ApproverRecipients(approvers[t], members)
               <=> CanDecide(approvers[t], u, Teams(u))
<1>1. approvers[t] \subseteq User \cup Team /\ members \in [Team -> SUBSET User]
  BY DEF TypeOK, Subject
<1>2. ASSUME u \in ApproverRecipients(approvers[t], members)
      PROVE  CanDecide(approvers[t], u, Teams(u))
  <2>1. CASE u \in approvers[t]
    BY <2>1 DEF CanDecide
  <2>2. CASE u \notin approvers[t]
    <3>1. PICK m \in approvers[t] \cap Team : u \in members[m]
      BY <1>2, <2>2 DEF ApproverRecipients
    <3> QED BY <3>1 DEF CanDecide, Teams
  <2> QED BY <2>1, <2>2
<1>3. ASSUME CanDecide(approvers[t], u, Teams(u))
      PROVE  u \in ApproverRecipients(approvers[t], members)
  BY <1>1, <1>3 DEF CanDecide, Teams, ApproverRecipients
<1> QED BY <1>2, <1>3

-----------------------------------------------------------------------------
(* How a request gets on: what it carries of the move it is about.         *)

SameMove(q, r) ==
    /\ q.e = r.e /\ q.status = r.status /\ q.stateId = r.stateId
    /\ q.to = r.to /\ q.toState = r.toState /\ q.edge = r.edge

\* Once it has been through the gate, a request is about one move until it
\* is answered.
LEMMA HandlerGoesOn ==
    ASSUME TypeInv, NEW h \in Handler, HandlerStep(h)
    PROVE  /\ \A g \in Handler \ {h} : req'[g] = req[g]
           /\ \/ req'[h] = Idle
              \/ ResolveMove(h)
              \/ SameMove(req'[h], req[h]) /\ req[h].pc # "gate"
<1> USE DEF TypeInv, TypeOK
<1>1. req[h] \in Request /\ req \in [Handler -> Request]
  OBVIOUS
<1>2. ASSUME Answer(h) PROVE req'[h] = Idle
  BY <1>1, <1>2 DEF Answer
<1>3. ASSUME NEW pc, Goto(h, pc) PROVE SameMove(req'[h], req[h])
  BY <1>1, <1>3 DEF Goto, SameMove, Request
<1>4. CASE RequestApproval(h)
  <2>1. ASSUME NEW a, req' = [req EXCEPT ![h].pc = "notify", ![h].ap = a]
        PROVE  SameMove(req'[h], req[h])
    BY <1>1, <2>1 DEF SameMove, Request
  <2> QED BY <1>1, <1>2, <1>3, <1>4, <2>1 DEF RequestApproval, Goto, Answer
<1>5. CASE PlanEffects(h)
  <2>1. ASSUME NEW pc, NEW fns, req' = [req EXCEPT ![h].pc = pc, ![h].effects = fns]
        PROVE  SameMove(req'[h], req[h])
    BY <1>1, <2>1 DEF SameMove, Request
  <2> QED BY <1>1, <1>2, <1>5, <2>1 DEF PlanEffects, Answer
<1>6. CASE ResolveMove(h)
  BY <1>1, <1>6 DEF ResolveMove, Goto, Answer
<1>7. CASE \/ EvaluateGuards(h) \/ LoadApprovers(h) \/ LegacyCheck(h) \/ LegacyWrite(h)
           \/ CheckAuthority(h) \/ DecideAndApply(h)
  BY <1>1, <1>2, <1>3, <1>7 DEF EvaluateGuards, LoadApprovers, LegacyCheck, LegacyWrite,
                                CheckAuthority, DecideAndApply, Goto, Answer
<1>8. CASE \/ ReadExisting(h) \/ NotifyApprovers(h) \/ ApplyTransition(h) \/ LegacyAudit(h)
           \/ NotifyVerdict(h) \/ WriteRow(h) \/ InsertRow(h)
  BY <1>1, <1>2, <1>8 DEF ReadExisting, NotifyApprovers, ApplyTransition, LegacyAudit,
                          NotifyVerdict, WriteRow, InsertRow, Answer
<1> QED BY <1>4, <1>5, <1>6, <1>7, <1>8 DEF HandlerStep

\* What a request is about when it begins: an entity as its row reads ...
BeginsAt(q, e) ==
    /\ q.pc \in {"gate", "rewrite"} /\ (q.pc = "rewrite" => "rewrite" \in Ops)
    /\ q.e = e /\ row[e].life = "live"
    /\ q.status = row[e].status /\ q.stateId = row[e].stateId
    /\ q.edge = Nil /\ q.toState = Nil

\* ... an approval as it was asked for ...
BeginsToDecide(q, a) ==
    /\ q.pc = "authority"
    /\ approvals[a].st = "pending" /\ approvals[a].edge # Nil
    /\ q.e = approvals[a].e /\ q.edge = approvals[a].edge
    /\ q.status = approvals[a].from /\ q.to = approvals[a].to
    /\ q.toState = approvals[a].toState

\* ... or an entity that is to be, at the start of the workflow.
BeginsToInsert(q) ==
    /\ q.pc = "insert" /\ q.edge = Nil /\ q.toState = Nil
    /\ \/ q.stateId = Nil /\ q.status = OpenStatus
       \/ q.stateId \in LiveStates \cap Initial /\ q.status = StateName[q.stateId]

LEMMA HandlerBegins ==
    ASSUME TypeInv, NEW h \in Handler, StartStep(h)
    PROVE  /\ \A g \in Handler \ {h} : req'[g] = req[g]
           /\ \/ \E e \in Entity : BeginsAt(req'[h], e)
              \/ \E a \in ApprovalId : BeginsToDecide(req'[h], a)
              \/ BeginsToInsert(req'[h])
<1> USE DEF TypeInv, TypeOK
<1>1. ASSUME NEW q, NEW op, Begin(h, op, q)
      PROVE  req'[h] = q /\ \A g \in Handler \ {h} : req'[g] = req[g]
  BY <1>1 DEF Begin
<1>2. ASSUME NEW e \in Entity
      PROVE  /\ ReadOf(e).status = row[e].status /\ ReadOf(e).stateId = row[e].stateId
             /\ ReadOf(e).edge = Nil /\ ReadOf(e).toState = Nil /\ ReadOf(e).e = e
             /\ ReadOf(e) \in Request
  <2>1. ReadOf(e) \in Request
    BY ReadType
  <2> QED BY <2>1 DEF ReadOf, Idle
<1>3. ASSUME NEW e \in Entity, NEW u, NEW to, row[e].life = "live",
             req'[h] = [ReadOf(e) EXCEPT !.pc = "gate", !.actor = u, !.to = to]
      PROVE  BeginsAt(req'[h], e)
  <2> DEFINE q == [ReadOf(e) EXCEPT !.pc = "gate", !.actor = u, !.to = to]
  <2>1. q.pc = "gate" /\ q.e = e /\ q.status = row[e].status /\ q.stateId = row[e].stateId
        /\ q.edge = Nil /\ q.toState = Nil
    BY <1>2 DEF Request
  <2>2. req'[h] = q
    BY <1>3
  <2>3. row[e].life = "live"
    BY <1>3
  <2> HIDE DEF q
  <2> QED BY <2>1, <2>2, <2>3 DEF BeginsAt
<1>4. ASSUME NEW e \in Entity, NEW u \in User, NEW to \in Status, StartMove(h, e, u, to)
      PROVE  BeginsAt(req'[h], e) /\ \A g \in Handler \ {h} : req'[g] = req[g]
  <2>1. row[e].life = "live"
        /\ Begin(h, "move", [ReadOf(e) EXCEPT !.pc = "gate", !.actor = u, !.to = to])
    BY <1>4 DEF StartMove
  <2>2. /\ req'[h] = [ReadOf(e) EXCEPT !.pc = "gate", !.actor = u, !.to = to]
        /\ \A g \in Handler \ {h} : req'[g] = req[g]
    BY <1>1, <2>1
  <2> QED BY <1>3, <2>1, <2>2
<1>5. ASSUME NEW e \in Entity, NEW u \in User, NEW s \in StateId, StartStateMove(h, e, u, s)
      PROVE  BeginsAt(req'[h], e) /\ \A g \in Handler \ {h} : req'[g] = req[g]
  <2>1. row[e].life = "live"
        /\ Begin(h, "stateMove",
                 [ReadOf(e) EXCEPT !.pc = "gate", !.actor = u, !.to = StateName[s]])
    BY <1>5 DEF StartStateMove
  <2>2. /\ req'[h] = [ReadOf(e) EXCEPT !.pc = "gate", !.actor = u, !.to = StateName[s]]
        /\ \A g \in Handler \ {h} : req'[g] = req[g]
    BY <1>1, <2>1
  <2> QED BY <1>3, <2>1, <2>2
<1>6. ASSUME NEW e \in Entity, NEW u \in OrNil(User), NEW d \in BOOLEAN, StartRewrite(h, e, u, d)
      PROVE  BeginsAt(req'[h], e) /\ \A g \in Handler \ {h} : req'[g] = req[g]
  <2>1. req'[h] = [ReadOf(e) EXCEPT !.pc = "rewrite", !.assignee = u, !.due = d]
        /\ "rewrite" \in Ops /\ row[e].life = "live"
    BY <1>1, <1>6 DEF StartRewrite, Begin
  <2> QED BY <1>1, <1>2, <1>6, <2>1 DEF BeginsAt, Request, StartRewrite
<1>7. ASSUME NEW a \in ApprovalId, NEW u \in User, NEW v \in Verdict, StartDecide(h, a, u, v)
      PROVE  BeginsToDecide(req'[h], a) /\ \A g \in Handler \ {h} : req'[g] = req[g]
  <2>1. req'[h] = [Idle EXCEPT !.pc = "authority", !.actor = u, !.verdict = v,
                     !.ap = a, !.e = approvals[a].e, !.edge = approvals[a].edge,
                     !.status = approvals[a].from, !.to = approvals[a].to,
                     !.toState = approvals[a].toState]
    BY <1>1, <1>7 DEF StartDecide
  <2> QED BY <1>1, <1>7, <2>1 DEF BeginsToDecide, StartDecide, Idle
<1>8. ASSUME NEW e \in Entity, StartCreate(h, e)
      PROVE  BeginsToInsert(req'[h]) /\ \A g \in Handler \ {h} : req'[g] = req[g]
  <2> DEFINE s == IF wf THEN Some(LiveStates \cap Initial) ELSE Nil
  <2>1. s = Nil \/ s \in LiveStates \cap Initial
    BY DEF Some
  <2>2. req'[h] = [Idle EXCEPT !.pc = "insert", !.e = e, !.stateId = s,
                     !.status = IF s = Nil THEN OpenStatus ELSE StateName[s]]
    BY <1>1, <1>8 DEF StartCreate
  <2> HIDE DEF s
  <2>3. /\ req'[h].pc = "insert" /\ req'[h].stateId = s
        /\ req'[h].status = IF s = Nil THEN OpenStatus ELSE StateName[s]
        /\ req'[h].edge = Nil /\ req'[h].toState = Nil
    BY <2>2 DEF Idle
  <2> QED BY <1>1, <1>8, <2>1, <2>3 DEF BeginsToInsert, StartCreate
<1> QED BY <1>4, <1>5, <1>6, <1>7, <1>8 DEF StartStep

\* What a step does to one handler's request, and that only an edit of the
\* administrator changes the workflow underneath.
LEMMA RequestSteps ==
    ASSUME TypeInv, [Next]_vars, NEW h \in Handler
    PROVE  \/ req'[h] = req[h]
           \/ HandlerStep(h)
           \/ StartStep(h)
<1>1. AdminStep => req' = req
  BY DEF AdminStep, Edit, AssignWorkflow, DeleteEntity, CreateState, DeleteState,
         CreateTransition, DeleteTransition, CreateGuard, DeleteGuard, CreateApprover,
         DeleteApprover, CreatePostFunction, DeletePostFunction, ChangeMembership,
         DeleteTeam
<1>2. Quiet \/ UNCHANGED vars => req' = req
  BY DEF Quiet, vars
<1>3. ASSUME NEW g \in Handler, HandlerStep(g) \/ StartStep(g), g # h
      PROVE  req'[h] = req[h]
  BY <1>3, HandlerGoesOn, HandlerBegins
<1> QED BY <1>1, <1>2, <1>3 DEF Next

LEMMA WorkflowSteps ==
    ASSUME [Next]_vars
    PROVE  UNCHANGED configVars \/ AdminStep
<1>1. ASSUME NEW h \in Handler, HandlerStep(h) PROVE UNCHANGED configVars
  BY <1>1 DEF HandlerStep, ResolveMove, EvaluateGuards, LoadApprovers, RequestApproval,
              ReadExisting, NotifyApprovers, PlanEffects, ApplyTransition, LegacyCheck,
              LegacyWrite, LegacyAudit, CheckAuthority, DecideAndApply, NotifyVerdict,
              WriteRow, InsertRow
<1>2. ASSUME NEW h \in Handler, StartStep(h) PROVE UNCHANGED configVars
  BY <1>2 DEF StartStep, StartMove, StartStateMove, StartDecide, StartRewrite, StartCreate
<1>3. Quiet \/ UNCHANGED vars => UNCHANGED configVars
  BY DEF Quiet, vars, configVars
<1> QED BY <1>1, <1>2, <1>3 DEF Next

-----------------------------------------------------------------------------
(* Gated edges.                                                            *)

\* No client takes an edge away while requests are on their way along it.
EdgesStay == Ops \cap {"deleteTransition", "deleteState"} = {}

\* An edge that has no approver now is on record as one that had none.
EdgesOnRecord ==
    \A t \in EdgeId : edges[t] = "live" /\ approvers[t] = {} => t \in opened

\* A request goes on directly only along an edge that was live and had no
\* approver when it was looked at.
Opened(q) ==
    /\ q.pc = "gate" => q.edge = Nil
    /\ q.pc \in {"guards", "approvers"} => edges[q.edge] = "live"
    /\ q.pc = "plan" /\ q.ap = Nil => q.edge \in opened
    /\ q.pc = "apply" /\ q.edge # Nil => q.edge \in opened

GateInv ==
    /\ Inv
    /\ EdgesOnRecord
    /\ \A h \in Handler : Opened(req[h])
    /\ GatedMovesWereApproved

LEMMA GateInit == Init => GateInv
<1> SUFFICES ASSUME Init PROVE GateInv
  OBVIOUS
<1>1. Inv
  BY InitInv
<1>2. EdgesOnRecord
  BY DEF Init, EdgesOnRecord
<1>3. \A h \in Handler : Opened(req[h])
  BY DEF Init, Opened, Idle
<1>4. GatedMovesWereApproved
  BY DEF Init, GatedMovesWereApproved
<1> QED BY <1>1, <1>2, <1>3, <1>4 DEF GateInv

\* What has been open stays on record, and what is live stays live.
LEMMA EdgesKept ==
    ASSUME EdgesStay, GateInv, [Next]_vars
    PROVE  /\ EdgesOnRecord'
           /\ opened \subseteq opened'
           /\ \A t \in EdgeId : edges[t] = "live" => edges'[t] = "live"
<1> USE DEF GateInv, Inv, TypeInv, TypeOK
<1>1. CASE UNCHANGED configVars
  BY <1>1 DEF configVars, EdgesOnRecord
<1>2. ASSUME UNCHANGED <<edges, approvers, opened>>
      PROVE  /\ EdgesOnRecord' /\ opened \subseteq opened'
             /\ \A t \in EdgeId : edges[t] = "live" => edges'[t] = "live"
  BY <1>2 DEF EdgesOnRecord
<1>3. CASE \/ AssignWorkflow \/ (\E e \in Entity : DeleteEntity(e))
           \/ (\E s \in StateId : CreateState(s))
           \/ (\E t \in EdgeId, g \in Guard : CreateGuard(t, g) \/ DeleteGuard(t, g))
           \/ (\E t \in EdgeId, f \in PostFunction : CreatePostFunction(t, f))
           \/ (\E t \in EdgeId : DeletePostFunction(t))
           \/ (\E t \in Team, u \in User : ChangeMembership(t, u))
           \/ (\E t \in Team : DeleteTeam(t))
  BY <1>2, <1>3 DEF AssignWorkflow, DeleteEntity, CreateState, CreateGuard, DeleteGuard,
                    CreatePostFunction, DeletePostFunction, ChangeMembership, DeleteTeam,
                    configVars
<1>4. (\A s \in StateId : ~DeleteState(s)) /\ (\A t \in EdgeId : ~DeleteTransition(t))
  BY DEF EdgesStay, DeleteState, DeleteTransition, Edit
<1>5. ASSUME NEW t \in EdgeId, CreateTransition(t)
      PROVE  /\ EdgesOnRecord' /\ opened \subseteq opened'
             /\ \A x \in EdgeId : edges[x] = "live" => edges'[x] = "live"
  BY <1>5 DEF CreateTransition, EdgesOnRecord
<1>6. ASSUME NEW t \in EdgeId, NEW s \in Subject, CreateApprover(t, s)
      PROVE  /\ EdgesOnRecord' /\ opened \subseteq opened'
             /\ \A x \in EdgeId : edges[x] = "live" => edges'[x] = "live"
  BY <1>6 DEF CreateApprover, EdgesOnRecord
<1>7. ASSUME NEW t \in EdgeId, NEW s \in Subject, DeleteApprover(t, s)
      PROVE  /\ EdgesOnRecord' /\ opened \subseteq opened'
             /\ \A x \in EdgeId : edges[x] = "live" => edges'[x] = "live"
  <2>1. edges' = edges /\ opened \subseteq opened' /\ approvers' = [approvers EXCEPT ![t] = @ \ {s}]
    BY <1>7 DEF DeleteApprover
  <2>2. ASSUME NEW x \in EdgeId, edges[x] = "live", approvers'[x] = {} PROVE x \in opened'
    <3>1. CASE x = t
      <4>1. approvers[t] \subseteq {s} /\ s \in approvers[t]
        BY <1>7, <2>1, <2>2, <3>1 DEF DeleteApprover
      <4>2. approvers[t] = {s}
        BY <4>1
      <4> QED BY <1>7, <3>1, <4>2 DEF DeleteApprover
    <3>2. CASE x # t
      BY <2>1, <2>2, <3>2 DEF EdgesOnRecord
    <3> QED BY <3>1, <3>2
  <2> QED BY <2>1, <2>2 DEF EdgesOnRecord
<1> QED BY <1>1, <1>3, <1>4, <1>5, <1>6, <1>7, WorkflowSteps DEF AdminStep

\* The steps of a handler, one by one.
LEMMA HandlerOpened ==
    ASSUME GateInv, NEW h \in Handler, HandlerStep(h)
    PROVE  /\ req'[h].pc = "gate" => req'[h].edge = Nil
           /\ req'[h].pc \in {"guards", "approvers"} => edges[req'[h].edge] = "live"
           /\ req'[h].pc = "plan" /\ req'[h].ap = Nil => req'[h].edge \in opened
           /\ req'[h].pc = "apply" /\ req'[h].edge # Nil => req'[h].edge \in opened
<1> DEFINE Goal == /\ req'[h].pc = "gate" => req'[h].edge = Nil
                   /\ req'[h].pc \in {"guards", "approvers"} => edges[req'[h].edge] = "live"
                   /\ req'[h].pc = "plan" /\ req'[h].ap = Nil => req'[h].edge \in opened
                   /\ req'[h].pc = "apply" /\ req'[h].edge # Nil => req'[h].edge \in opened
<1>1. req \in [Handler -> Request] /\ req[h] \in Request /\ Carries(req[h]) /\ Opened(req[h])
  BY DEF GateInv, Inv, TypeInv, TypeOK, RequestsCarry
<1>2. ASSUME req'[h].pc \notin {"gate", "guards", "approvers", "plan", "apply"} PROVE Goal
  BY <1>2
<1>3. CASE Answer(h)
  <2>1. req'[h].pc = "idle"
    BY <1>1, <1>3 DEF Answer, Idle
  <2> QED BY <1>2, <2>1
<1>4. CASE ResolveMove(h)
  <2>1. ASSUME NEW x, req' = [req EXCEPT ![h].pc = "apply", ![h].toState = x]
        PROVE  Goal
    BY <1>1, <1>4, <2>1 DEF Opened, Request, ResolveMove
  <2>2. ASSUME NEW x, NEW t \in LiveEdges,
               req' = [req EXCEPT ![h].pc = "guards", ![h].edge = t, ![h].toState = x]
        PROVE  Goal
    BY <1>1, <2>2 DEF Request, LiveEdges
  <2>3. CASE Goto(h, "legacy")
    BY <1>1, <1>2, <2>3 DEF Goto, Request
  <2> QED BY <1>3, <1>4, <2>1, <2>2, <2>3 DEF ResolveMove, EdgesBetween
<1>5. CASE EvaluateGuards(h)
  <2>1. CASE Goto(h, "approvers")
    BY <1>1, <1>5, <2>1 DEF Goto, Request, Opened, EvaluateGuards
  <2> QED BY <1>3, <1>5, <2>1 DEF EvaluateGuards
<1>6. CASE LoadApprovers(h)
  <2>1. CASE Goto(h, "request")
    BY <1>1, <1>2, <2>1 DEF Goto, Request
  <2>2. CASE Goto(h, "plan") /\ approvers[req[h].edge] = {}
    <3>1. req[h].edge \in EdgeId /\ edges[req[h].edge] = "live"
      BY <1>1, <1>6 DEF Carries, Opened, LoadApprovers
    <3>2. req[h].edge \in opened
      BY <2>2, <3>1 DEF GateInv, EdgesOnRecord
    <3>3. req'[h].pc = "plan" /\ req'[h].edge = req[h].edge
      BY <1>1, <2>2 DEF Goto, Request
    <3> QED BY <3>2, <3>3
  <2> QED BY <1>6, <2>1, <2>2 DEF LoadApprovers, RequiresApproval
<1>7. CASE PlanEffects(h)
  <2>1. ASSUME req[h].ap = Nil,
               req' = [req EXCEPT ![h].pc = "apply", ![h].effects = postFns[req[h].edge]]
        PROVE  Goal
    BY <1>1, <1>7, <2>1 DEF Request, Opened, PlanEffects
  <2>2. ASSUME req' = [req EXCEPT ![h].pc = "verdict", ![h].effects = postFns[req[h].edge]]
        PROVE  Goal
    BY <1>1, <1>2, <2>2 DEF Request
  <2> QED BY <1>3, <1>7, <2>1, <2>2 DEF PlanEffects
<1>8. CASE CheckAuthority(h)
  <2>1. CASE Goto(h, "plan")
    <3>1. req'[h].pc = "plan" /\ req'[h].ap = req[h].ap
      BY <1>1, <2>1 DEF Goto, Request
    <3>2. req[h].ap # Nil
      BY <1>1, <1>8, ApprovalIdAssumption DEF Carries, CheckAuthority
    <3> QED BY <3>1, <3>2
  <2>2. CASE Goto(h, "verdict")
    BY <1>1, <1>2, <2>2 DEF Goto, Request
  <2> QED BY <1>3, <1>8, <2>1, <2>2 DEF CheckAuthority
<1>9. CASE RequestApproval(h)
  <2>1. ASSUME NEW a, req' = [req EXCEPT ![h].pc = "notify", ![h].ap = a]
        PROVE  Goal
    BY <1>1, <1>2, <2>1 DEF Request
  <2>2. CASE Goto(h, "existing")
    BY <1>1, <1>2, <2>2 DEF Goto, Request
  <2> QED BY <1>3, <1>9, <2>1, <2>2 DEF RequestApproval
<1>10. CASE LegacyCheck(h) \/ LegacyWrite(h) \/ DecideAndApply(h)
  <2>1. ASSUME NEW pc \in {"legacyWrite", "legacyAudit", "notifyVerdict"}, Goto(h, pc) PROVE Goal
    BY <1>1, <1>2, <2>1 DEF Goto, Request
  <2> QED BY <1>3, <1>10, <2>1 DEF LegacyCheck, LegacyWrite, DecideAndApply
<1>11. CASE \/ ReadExisting(h) \/ NotifyApprovers(h) \/ ApplyTransition(h) \/ LegacyAudit(h)
            \/ NotifyVerdict(h) \/ WriteRow(h) \/ InsertRow(h)
  BY <1>3, <1>11 DEF ReadExisting, NotifyApprovers, ApplyTransition, LegacyAudit,
                     NotifyVerdict, WriteRow, InsertRow
<1> QED BY <1>4, <1>5, <1>6, <1>7, <1>8, <1>9, <1>10, <1>11 DEF HandlerStep

\* A handler writes a move: it lands, with the audit row that tells of it.
Moves(h) ==
    /\ req[h].pc \in {"apply", "verdict"}
    /\ req[h].pc = "verdict" => approvals[req[h].ap].st = "pending"
    /\ Lands(req[h])
    /\ CommitMove(req[h])

LEMMA AuditEntries ==
    ASSUME TypeInv, [Next]_vars
    PROVE  \/ audit' = audit
           \/ \E x \in AuditRow : x.path = "legacy" /\ audit' = Append(audit, x)
           \/ \E h \in Handler : Moves(h)
<1>1. ASSUME NEW h \in Handler, ApplyTransition(h) \/ DecideAndApply(h)
      PROVE  audit' = audit \/ Moves(h)
  BY <1>1 DEF ApplyTransition, DecideAndApply, Moves, Decides, entityVars
<1>2. ASSUME NEW h \in Handler, LegacyAudit(h)
      PROVE  audit' = audit \/ \E x \in AuditRow : x.path = "legacy" /\ audit' = Append(audit, x)
  <2> DEFINE r == req[h]
             x == [e |-> r.e, from |-> r.status, to |-> r.to,
                   edge |-> Nil, ap |-> Nil, path |-> "legacy"]
  <2>1. r \in Request /\ r.e \in Entity
    BY <1>2 DEF TypeInv, TypeOK, RequestsCarry, Carries, LegacyAudit
  <2>2. x \in AuditRow /\ x.path = "legacy"
    BY <2>1 DEF AuditRow, Request, OrNil
  <2>3. audit' = audit \/ audit' = Append(audit, x)
    BY <1>2 DEF LegacyAudit
  <2> QED BY <2>2, <2>3
<1>4. ASSUME NEW h \in Handler, HandlerStep(h)
      PROVE  audit' = audit \/ ApplyTransition(h) \/ LegacyAudit(h) \/ DecideAndApply(h)
  BY <1>4 DEF HandlerStep, ResolveMove, EvaluateGuards, LoadApprovers, RequestApproval,
              ReadExisting, NotifyApprovers, PlanEffects, LegacyCheck, LegacyWrite,
              CheckAuthority, NotifyVerdict, WriteRow, InsertRow, entityVars
<1>5. ASSUME NEW h \in Handler, StartStep(h) PROVE audit' = audit
  BY <1>5 DEF StartStep, StartMove, StartStateMove, StartDecide, StartRewrite, StartCreate,
              entityVars
<1>6. AdminStep => audit' = audit
  BY DEF AdminStep, Edit, AssignWorkflow, DeleteEntity, CreateState, DeleteState,
         CreateTransition, DeleteTransition, CreateGuard, DeleteGuard, CreateApprover,
         DeleteApprover, CreatePostFunction, DeletePostFunction, ChangeMembership,
         DeleteTeam, entityVars
<1>7. Quiet \/ UNCHANGED vars => audit' = audit
  BY DEF Quiet, vars
<1> QED BY <1>1, <1>2, <1>4, <1>5, <1>6, <1>7 DEF Next

\* What is so of every entry, and of the one a step appends, stays so.
LEMMA EntryOfMove ==
    ASSUME TypeInv, NEW h \in Handler, Moves(h)
    PROVE  /\ DOMAIN audit = 1 .. Len(audit) /\ Len(audit) \in Nat
           /\ DOMAIN audit' = 1 .. Len(audit) + 1 /\ Len(audit') = Len(audit) + 1
           /\ \A i \in DOMAIN audit : audit'[i] = audit[i]
           /\ audit'[Len(audit) + 1] =
                 [e |-> req[h].e, from |-> req[h].status, to |-> req[h].to,
                  edge |-> req[h].edge, ap |-> req[h].ap, path |-> "workflow"]
<1> DEFINE r == req[h]
           x == [e |-> r.e, from |-> r.status, to |-> r.to,
                 edge |-> r.edge, ap |-> r.ap, path |-> "workflow"]
<1>1. r \in Request /\ r.e \in Entity
  BY DEF TypeInv, TypeOK, RequestsCarry, Carries, Moves
<1>2. x \in AuditRow
  BY <1>1 DEF AuditRow, Request
<1>3. audit \in Seq(AuditRow) /\ audit' = Append(audit, x)
  BY DEF TypeInv, TypeOK, Moves, CommitMove
<1> HIDE DEF x
<1>4. /\ DOMAIN audit = 1 .. Len(audit) /\ Len(audit) \in Nat
      /\ DOMAIN audit' = 1 .. Len(audit) + 1 /\ Len(audit') = Len(audit) + 1
      /\ \A i \in 1 .. Len(audit) : audit'[i] = audit[i]
      /\ audit'[Len(audit) + 1] = x
  BY <1>2, <1>3, AppendProperties
<1> QED BY <1>4 DEF x

LEMMA EntryOfLegacy ==
    ASSUME TypeInv, NEW x \in AuditRow, audit' = Append(audit, x)
    PROVE  /\ DOMAIN audit = 1 .. Len(audit) /\ Len(audit) \in Nat
           /\ DOMAIN audit' = 1 .. Len(audit) + 1
           /\ \A i \in DOMAIN audit : audit'[i] = audit[i]
           /\ audit'[Len(audit) + 1] = x
<1>1. audit \in Seq(AuditRow)
  BY DEF TypeInv, TypeOK
<1> QED BY <1>1, AppendProperties

LEMMA GatedEntries ==
    ASSUME EdgesStay, GateInv, [Next]_vars
    PROVE  GatedMovesWereApproved'
<1> USE DEF GateInv, Inv
<1>1. opened \subseteq opened'
  BY EdgesKept
<1> DEFINE Fine(x) == /\ x.path = "workflow"
                      /\ x.edge # Nil
                      /\ x.edge \notin opened'
                      => x.ap # Nil
<1>2. \A i \in DOMAIN audit : Fine(audit[i])
  BY <1>1 DEF GatedMovesWereApproved
<1>3. CASE audit' = audit
  BY <1>2, <1>3 DEF GatedMovesWereApproved
<1>4. ASSUME NEW x \in AuditRow, x.path = "legacy", audit' = Append(audit, x)
      PROVE  GatedMovesWereApproved'
  <2>1. Fine(x)
    BY <1>4
  <2> HIDE DEF Fine
  <2>2. \A i \in DOMAIN audit' : Fine(audit'[i])
    BY <1>2, <1>4, <2>1, EntryOfLegacy
  <2> QED BY <2>2 DEF GatedMovesWereApproved, Fine
<1>5. ASSUME NEW h \in Handler, Moves(h) PROVE GatedMovesWereApproved'
  <2>1. Carries(req[h]) /\ Opened(req[h])
    BY DEF TypeInv, RequestsCarry
  <2>2. req[h].ap = Nil /\ req[h].edge # Nil => req[h].edge \in opened
    BY <1>5, <2>1, ApprovalIdAssumption DEF Carries, Opened, Moves
  <2>3. Fine(audit'[Len(audit) + 1])
    <3>1. audit'[Len(audit) + 1] =
            [e |-> req[h].e, from |-> req[h].status, to |-> req[h].to,
             edge |-> req[h].edge, ap |-> req[h].ap, path |-> "workflow"]
      BY <1>5, EntryOfMove
    <3> QED BY <1>1, <2>2, <3>1
  <2> HIDE DEF Fine
  <2>4. \A i \in DOMAIN audit' : Fine(audit'[i])
    <3>1. /\ DOMAIN audit = 1 .. Len(audit) /\ Len(audit) \in Nat
          /\ DOMAIN audit' = 1 .. Len(audit) + 1
          /\ \A i \in DOMAIN audit : audit'[i] = audit[i]
      BY <1>5, EntryOfMove
    <3> QED BY <1>2, <2>3, <3>1
  <2> QED BY <2>4 DEF GatedMovesWereApproved, Fine
<1> QED BY <1>3, <1>4, <1>5, AuditEntries

LEMMA GateNext ==
    ASSUME EdgesStay, GateInv, [Next]_vars
    PROVE  GateInv'
<1>1. Inv'
  BY NextInv DEF GateInv
<1>2. EdgesOnRecord' /\ opened \subseteq opened'
  BY EdgesKept
<1>3. ASSUME NEW h \in Handler PROVE Opened(req[h])'
  <2>0. TypeInv /\ req[h] \in Request /\ Carries(req[h]) /\ Opened(req[h])
    BY DEF GateInv, Inv, TypeInv, TypeOK, RequestsCarry
  <2>1. CASE req'[h] = req[h]
    <3>1. opened \subseteq opened' /\ \A t \in EdgeId : edges[t] = "live" => edges'[t] = "live"
      BY EdgesKept
    <3> QED BY <2>0, <2>1, <3>1 DEF Opened, Carries
  <2>2. CASE HandlerStep(h)
    <3>1. UNCHANGED <<edges, opened>>
      BY <2>2 DEF HandlerStep, ResolveMove, EvaluateGuards, LoadApprovers, RequestApproval,
              ReadExisting, NotifyApprovers, PlanEffects, ApplyTransition, LegacyCheck,
              LegacyWrite, LegacyAudit, CheckAuthority, DecideAndApply, NotifyVerdict,
              WriteRow, InsertRow, configVars
    <3> QED BY <2>2, <3>1, HandlerOpened DEF Opened
  <2>3. CASE StartStep(h)
    <3>1. req'[h].pc \notin {"guards", "approvers", "plan", "apply"}
          /\ (req'[h].pc = "gate" => req'[h].edge = Nil)
      BY <2>0, <2>3, HandlerBegins DEF BeginsAt, BeginsToDecide, BeginsToInsert
    <3> QED BY <3>1 DEF Opened
  <2> QED BY <2>0, <2>1, <2>2, <2>3, RequestSteps
<1> QED BY <1>1, <1>2, <1>3, GatedEntries DEF GateInv

\* As long as nobody deletes edges, an edge that has always had an approver
\* is crossed only by an approval, however the gate, the moves and the edits
\* of its approvers interleave.
THEOREM GatedEdgesNeedVerdicts == EdgesStay => (Spec => []GatedMovesWereApproved)
<1> SUFFICES ASSUME EdgesStay PROVE Spec => []GatedMovesWereApproved
  OBVIOUS
<1>1. Init => GateInv
  BY GateInit
<1>2. GateInv /\ [Next]_vars => GateInv'
  BY GateNext
<1>3. GateInv => GatedMovesWereApproved
  BY DEF GateInv
<1> QED BY <1>1, <1>2, <1>3, PTL DEF Spec

-----------------------------------------------------------------------------
(* The two columns of a position.                                          *)

\* A state and a status agree, and so do resolved_at and the status.
Agrees(x, live) ==
    /\ x.life # "unborn" /\ x.stateId # Nil =>
          x.stateId \in live /\ x.status = StateName[x.stateId]
    /\ x.resolved => \E s \in DoneState : StateName[s] = x.status

\* The engine writes every status: the space has its workflow, no client
\* rewrites a whole row, and the rows it starts from are in step.
EngineWrites ==
    /\ InitWorkflow
    /\ "rewrite" \notin Ops
    /\ \A e \in Entity : Agrees(InitRows[e], InitStates)

\* What a request or an approval aims at is where its edge ends, by name.
Aimed(x) ==
    /\ x.edge # Nil => StateName[EdgeTo[x.edge]] = x.to
    /\ x.toState # Nil => StateName[x.toState] = x.to

\* A request is served by the engine, and knows the name of its state.
Served(q) ==
    /\ q.pc \notin {"legacy", "legacyWrite", "legacyAudit", "rewrite"}
    /\ q.pc = "insert" /\ q.stateId # Nil => q.status = StateName[q.stateId]

StepInv ==
    /\ Inv
    /\ wf
    /\ \A h \in Handler : Aimed(req[h]) /\ Served(req[h])
    /\ \A a \in ApprovalId : Aimed(approvals[a])
    /\ \A e \in Entity : Agrees(row[e], LiveStates)

LEMMA StepInit == EngineWrites /\ Init => StepInv
<1> SUFFICES ASSUME EngineWrites, Init PROVE StepInv
  OBVIOUS
<1>1. Inv
  BY InitInv
<1>2. LiveStates = InitStates
  BY InitAssumption DEF Init, LiveStates
<1>3. \A e \in Entity : Agrees(row[e], LiveStates)
  BY <1>2 DEF Init, EngineWrites
<1>4. \A h \in Handler : Aimed(req[h]) /\ Served(req[h])
  BY DEF Init, Aimed, Served, Idle
<1>5. \A a \in ApprovalId : Aimed(approvals[a])
  BY DEF Init, Aimed, NoApproval
<1> QED BY <1>1, <1>3, <1>4, <1>5 DEF StepInv, EngineWrites, Init

LEMMA SomeMember == \A S : S # {} => Some(S) \in S
BY DEF Some

\* Through the gate with the state the target names, along an edge to it.
LEMMA GateAims ==
    ASSUME TypeInv, NEW h \in Handler, ResolveMove(h), wf
    PROVE  LET r == req[h]
               q == req'[h]
               from == ResolveFromState(LiveStates, r.status, r.stateId)
           IN  \/ q = Idle
               \/ /\ q.pc \in {"apply", "guards"} /\ q.e = r.e /\ q.status = r.status
                  /\ q.to = r.to /\ q.toState \in LiveStates /\ StateName[q.toState] = r.to
                  /\ \/ q.pc = "apply" /\ q.edge = r.edge /\ q.toState = from
                     \/ /\ q.pc = "guards" /\ q.edge \in LiveEdges
                        /\ EdgeFrom[q.edge] = from /\ EdgeTo[q.edge] = q.toState
<1> DEFINE r == req[h]
           from == ResolveFromState(LiveStates, r.status, r.stateId)
           to == Some(ByName(LiveStates, r.to))
<1>1. req \in [Handler -> Request] /\ r \in Request
  BY DEF TypeInv, TypeOK
<1>2. Nil \notin LiveStates /\ LiveStates \subseteq StateId
  BY NilAssumption DEF LiveStates
<1>3. to # Nil => to \in LiveStates /\ StateName[to] = r.to
  <2>1. CASE ByName(LiveStates, r.to) = {}
    BY <2>1 DEF Some
  <2>2. CASE ByName(LiveStates, r.to) # {}
    <3>1. to \in ByName(LiveStates, r.to)
      BY <2>2, SomeMember
    <3> QED BY <3>1 DEF ByName
  <2> QED BY <2>1, <2>2
<1>4. \/ Answer(h)
      \/ /\ from # Nil /\ to = from
         /\ req' = [req EXCEPT ![h].pc = "apply", ![h].toState = to]
      \/ /\ to # Nil
         /\ \E t \in EdgesBetween(from, to) :
               req' = [req EXCEPT ![h].pc = "guards", ![h].edge = t, ![h].toState = to]
  BY DEF ResolveMove
<1> HIDE DEF from, to
<1>5. CASE Answer(h)
  BY <1>1, <1>5 DEF Answer
<1>6. CASE /\ from # Nil /\ to = from
           /\ req' = [req EXCEPT ![h].pc = "apply", ![h].toState = to]
  <2>1. /\ req'[h].pc = "apply" /\ req'[h].toState = to /\ req'[h].e = r.e
        /\ req'[h].status = r.status /\ req'[h].to = r.to /\ req'[h].edge = r.edge
    BY <1>1, <1>6 DEF Request
  <2> QED BY <1>3, <1>6, <2>1 DEF from
<1>7. ASSUME to # Nil, NEW t \in EdgesBetween(from, to),
             req' = [req EXCEPT ![h].pc = "guards", ![h].edge = t, ![h].toState = to]
      PROVE  /\ req'[h].pc = "guards" /\ req'[h].toState = to /\ req'[h].e = r.e
             /\ req'[h].status = r.status /\ req'[h].to = r.to /\ req'[h].edge = t
             /\ t \in LiveEdges /\ EdgeFrom[t] = from /\ EdgeTo[t] = to
  BY <1>1, <1>7 DEF Request, EdgesBetween
<1> QED BY <1>3, <1>4, <1>5, <1>6, <1>7 DEF from

\* How a row changes.
LEMMA RowSteps ==
    ASSUME [Next]_vars
    PROVE  \/ row' = row
           \/ \E h \in Handler : Moves(h) \/ InsertRow(h) \/ LegacyWrite(h) \/ WriteRow(h)
           \/ \E e \in Entity : DeleteEntity(e)
<1>1. ASSUME NEW h \in Handler, ApplyTransition(h) \/ DecideAndApply(h)
      PROVE  row' = row \/ Moves(h)
  BY <1>1 DEF ApplyTransition, DecideAndApply, Moves, Decides, entityVars
<1>2. ASSUME NEW h \in Handler, HandlerStep(h)
      PROVE  \/ row' = row \/ ApplyTransition(h) \/ DecideAndApply(h)
             \/ InsertRow(h) \/ LegacyWrite(h) \/ WriteRow(h)
  BY <1>2 DEF HandlerStep, ResolveMove, EvaluateGuards, LoadApprovers, RequestApproval,
              ReadExisting, NotifyApprovers, PlanEffects, LegacyCheck, LegacyAudit,
              CheckAuthority, NotifyVerdict, entityVars
<1>3. ASSUME NEW h \in Handler, StartStep(h) PROVE row' = row
  BY <1>3 DEF StartStep, StartMove, StartStateMove, StartDecide, StartRewrite, StartCreate,
              entityVars
<1>4. AdminStep => row' = row \/ \E e \in Entity : DeleteEntity(e)
  BY DEF AdminStep, Edit, AssignWorkflow, CreateState, DeleteState, CreateTransition,
         DeleteTransition, CreateGuard, DeleteGuard, CreateApprover, DeleteApprover,
         CreatePostFunction, DeletePostFunction, ChangeMembership, DeleteTeam, entityVars
<1>5. Quiet \/ UNCHANGED vars => row' = row
  BY DEF Quiet, vars
<1> QED BY <1>1, <1>2, <1>3, <1>4, <1>5 DEF Next

\* How the states of the workflow change, and what they keep: the foreign key
\* of the rows that are placed in one of them.
LEMMA StateSteps ==
    ASSUME TypeInv, [Next]_vars
    PROVE  /\ wf => wf'
           /\ \A s \in StateId :
                 /\ states[s] = "live" /\ states'[s] # "live" =>
                       /\ states'[s] = "gone" /\ row' = row
                       /\ \A e \in Entity : row[e].life # "unborn" => row[e].stateId # s
                 /\ states[s] = "gone" => states'[s] = "gone"
<1> USE DEF TypeInv, TypeOK
<1>2. ASSUME NEW s \in StateId, DeleteState(s)
      PROVE  /\ wf' = wf /\ row' = row /\ states' = [states EXCEPT ![s] = "gone"]
             /\ \A e \in Entity : row[e].life # "unborn" => row[e].stateId # s
  BY <1>2 DEF DeleteState, Edit, entityVars
<1>3. ASSUME NEW s \in StateId, CreateState(s)
      PROVE  wf' = wf /\ states[s] = "unborn" /\ states' = [states EXCEPT ![s] = "live"]
  BY <1>3 DEF CreateState
<1>4. AdminStep => \/ wf' = wf /\ states' = states
                   \/ AssignWorkflow
                   \/ \E s \in StateId : CreateState(s) \/ DeleteState(s)
  BY DEF AdminStep, DeleteEntity, CreateTransition, DeleteTransition, CreateGuard,
         DeleteGuard, CreateApprover, DeleteApprover, CreatePostFunction, DeletePostFunction,
         ChangeMembership, DeleteTeam, configVars
<1>5. AssignWorkflow => wf' = TRUE /\ states' = states
  BY DEF AssignWorkflow
<1>6. CASE wf' = wf /\ states' = states
  BY <1>6
<1>7. CASE wf' = TRUE /\ states' = states
  BY <1>7
<1>8. ASSUME NEW s \in StateId, CreateState(s) \/ DeleteState(s)
      PROVE  /\ wf => wf'
             /\ \A t \in StateId :
                 /\ states[t] = "live" /\ states'[t] # "live" =>
                       /\ states'[t] = "gone" /\ row' = row
                       /\ \A e \in Entity : row[e].life # "unborn" => row[e].stateId # t
                 /\ states[t] = "gone" => states'[t] = "gone"
  <2>1. CASE CreateState(s)
    BY <1>3, <2>1
  <2>2. CASE DeleteState(s)
    BY <1>2, <2>2
  <2> QED BY <1>8, <2>1, <2>2
<1>9. UNCHANGED configVars => wf' = wf /\ states' = states
  BY DEF configVars
<1> HIDE DEF TypeInv, TypeOK
<1> QED BY <1>4, <1>5, <1>6, <1>7, <1>8, <1>9, WorkflowSteps

\* The rows a step writes are in step, and no state goes from under a row.
LEMMA RowsAgree ==
    ASSUME StepInv, [Next]_vars, NEW e \in Entity
    PROVE  Agrees(row'[e], LiveStates')
<1>1. TypeInv /\ row[e] \in Row /\ states \in [StateId -> Life] /\ row \in [Entity -> Row]
  BY DEF StepInv, Inv, TypeInv, TypeOK
<1>2. ASSUME NEW x \in Row, Agrees(x, LiveStates), row' # row \/ x = row[e]
      PROVE  Agrees(x, LiveStates')
  <2>1. SUFFICES ASSUME x.life # "unborn", x.stateId \in LiveStates, x.status = StateName[x.stateId]
                 PROVE  x.stateId \in LiveStates'
    BY <1>2 DEF Agrees
  <2>2. x.stateId \in StateId /\ states[x.stateId] = "live"
    BY <2>1 DEF LiveStates
  <2>3. states'[x.stateId] = "live"
    BY <1>1, <1>2, <2>1, <2>2, StateSteps
  <2> QED BY <2>2, <2>3 DEF LiveStates
<1>3. CASE row'[e] = row[e]
  BY <1>1, <1>2, <1>3 DEF StepInv
<1>4. ASSUME NEW h \in Handler, Moves(h), req[h].e = e PROVE Agrees(row'[e], LiveStates')
  <2> DEFINE r == req[h]
             y == row'[e]
  <2>1. r \in Request /\ Aimed(r) /\ r.toState \in OrNil(LiveStates)
    BY <1>4 DEF StepInv, Inv, TypeInv, TypeOK, Moves, Lands
  <2>2. y.status = r.to /\ y.stateId = r.toState /\ y.resolved = (r.toState \in DoneState)
    BY <1>1, <1>4 DEF Moves, CommitMove, Row
  <2>3. row' \in [Entity -> Row]
    <3>1. r.e \in Entity
      BY <1>4
    <3> QED BY <2>1, <3>1, <1>1, <1>4, CommitType DEF Moves, TypeInv
  <2>4. y \in Row
    BY <2>3
  <2> HIDE DEF r, y
  <2>5. y.resolved => y.stateId \in DoneState
    BY <2>2
  <2>6. y.stateId # Nil => y.stateId \in LiveStates /\ y.status = StateName[y.stateId]
    BY <2>1, <2>2 DEF Aimed, OrNil
  <2>7. y.resolved => \E s \in DoneState : StateName[s] = y.status
    BY <2>5, <2>6, StateAssumption, NilAssumption
  <2>8. Agrees(y, LiveStates)
    BY <2>6, <2>7 DEF Agrees
  <2>9. row' # row \/ y = row[e]
    BY DEF y
  <2> QED BY <1>2, <2>4, <2>8, <2>9 DEF y
<1>5. ASSUME NEW h \in Handler, InsertRow(h), req[h].e = e, row'[e] # row[e]
      PROVE  Agrees(row'[e], LiveStates')
  <2> DEFINE r == req[h]
             y == [life |-> "live", status |-> r.status, stateId |-> r.stateId,
                   assignee |-> Nil, due |-> FALSE, resolved |-> FALSE]
  <2>1. r \in Request /\ Served(r) /\ r.pc = "insert" /\ r.stateId \in OrNil(LiveStates) /\ row'[e] = y
    BY <1>1, <1>5 DEF StepInv, Inv, TypeInv, TypeOK, InsertRow
  <2>2. y \in Row
    BY <2>1 DEF Row, Request, Life, OrNil
  <2>3. Agrees(y, LiveStates)
    BY <2>1 DEF Agrees, Served, OrNil
  <2> HIDE DEF y
  <2> QED BY <1>2, <1>5, <2>1, <2>2, <2>3
<1>6. ASSUME NEW h \in Handler PROVE ~LegacyWrite(h) /\ ~WriteRow(h)
  BY <1>6 DEF StepInv, Served, LegacyWrite, WriteRow
<1>7. ASSUME DeleteEntity(e) PROVE Agrees(row'[e], LiveStates')
  <2> DEFINE y == row'[e]
  <2>1. /\ y.status = row[e].status /\ y.stateId = row[e].stateId /\ y.resolved = row[e].resolved
        /\ y \in Row /\ row[e].life = "live"
    BY <1>1, <1>7 DEF DeleteEntity, Row, Life
  <2>2. Agrees(row[e], LiveStates)
    BY DEF StepInv
  <2>3. Agrees(y, LiveStates)
    BY <2>1, <2>2 DEF Agrees
  <2>4. row' # row \/ y = row[e]
    OBVIOUS
  <2> HIDE DEF y
  <2>5. Agrees(y, LiveStates')
    BY <1>2, <2>1, <2>3, <2>4
  <2> QED BY <2>5 DEF y
<1>8. ASSUME NEW h \in Handler, Moves(h) \/ InsertRow(h), req[h].e # e PROVE row'[e] = row[e]
  BY <1>1, <1>8 DEF Moves, CommitMove, InsertRow
<1>9. ASSUME NEW d \in Entity, DeleteEntity(d), d # e PROVE row'[e] = row[e]
  BY <1>1, <1>9 DEF DeleteEntity
<1> QED BY <1>3, <1>4, <1>5, <1>6, <1>7, <1>8, <1>9, RowSteps

\* How an approval changes: it is made of what its request aims at, it is
\* decided, or it forgets the edge and the state that were deleted.
LEMMA ApprovalSteps ==
    ASSUME TypeInv, [Next]_vars, NEW a \in ApprovalId
    PROVE  \/ approvals'[a] = approvals[a]
           \/ \E h \in Handler :
                 /\ req[h].pc = "request" /\ edges[req[h].edge] = "live"
                 /\ approvals'[a].st = "pending" /\ approvals'[a].e = req[h].e
                 /\ approvals'[a].edge = req[h].edge /\ approvals'[a].from = req[h].status
                 /\ approvals'[a].to = req[h].to /\ approvals'[a].toState = EdgeTo[req[h].edge]
           \/ /\ approvals'[a].edge \in {approvals[a].edge, Nil}
              /\ approvals'[a].toState \in {approvals[a].toState, Nil}
              /\ approvals'[a].from = approvals[a].from /\ approvals'[a].to = approvals[a].to
              /\ approvals'[a].edge # Nil /\ approvals[a].toState = EdgeTo[approvals[a].edge] =>
                    approvals'[a].toState = approvals[a].toState \/ edges[approvals[a].edge] # "live"
<1> USE DEF TypeInv, TypeOK
<1>1. approvals \in [ApprovalId -> Approval] /\ approvals[a] \in Approval
  OBVIOUS
<1>2. ASSUME NEW h \in Handler, RequestApproval(h)
      PROVE  \/ approvals'[a] = approvals[a]
             \/ /\ req[h].pc = "request" /\ edges[req[h].edge] = "live"
                /\ approvals'[a].st = "pending" /\ approvals'[a].e = req[h].e
                /\ approvals'[a].edge = req[h].edge /\ approvals'[a].from = req[h].status
                /\ approvals'[a].to = req[h].to /\ approvals'[a].toState = EdgeTo[req[h].edge]
  BY <1>1, <1>2 DEF RequestApproval
<1>3. ASSUME NEW h \in Handler, DecideAndApply(h)
      PROVE  /\ approvals'[a].edge = approvals[a].edge /\ approvals'[a].toState = approvals[a].toState
             /\ approvals'[a].from = approvals[a].from /\ approvals'[a].to = approvals[a].to
  <2> DEFINE r == req[h]
  <2>1. CASE approvals' = approvals
    BY <2>1
  <2>2. CASE approvals' = [approvals EXCEPT ![r.ap].st = r.verdict, ![r.ap].decidedBy = r.actor]
    <3>1. CASE a # r.ap
      BY <1>1, <2>2, <3>1
    <3>2. CASE a = r.ap
      <4>1. approvals'[a] = [approvals[a] EXCEPT !.st = r.verdict, !.decidedBy = r.actor]
        BY <1>1, <2>2, <3>2 DEF Approval
      <4> QED BY <1>1, <4>1 DEF Approval
    <3> QED BY <3>1, <3>2
  <2> QED BY <1>3, <2>1, <2>2 DEF DecideAndApply
<1>4. ASSUME NEW X, NEW Y, Forgets(X, Y)
      PROVE  /\ approvals'[a].edge = IF approvals[a].edge \in X THEN Nil ELSE approvals[a].edge
             /\ approvals'[a].toState = IF approvals[a].toState \in Y THEN Nil ELSE approvals[a].toState
             /\ approvals'[a].from = approvals[a].from /\ approvals'[a].to = approvals[a].to
  BY <1>1, <1>4 DEF Forgets, Approval
<1>5. ASSUME NEW t \in EdgeId, DeleteTransition(t)
      PROVE  /\ approvals'[a].edge \in {approvals[a].edge, Nil}
             /\ approvals'[a].toState = approvals[a].toState
             /\ approvals'[a].from = approvals[a].from /\ approvals'[a].to = approvals[a].to
  <2>1. Forgets({t}, {})
    BY <1>5, DeleteTransitionForgets
  <2>2. /\ approvals'[a].edge = IF approvals[a].edge \in {t} THEN Nil ELSE approvals[a].edge
        /\ approvals'[a].toState = IF approvals[a].toState \in {} THEN Nil ELSE approvals[a].toState
        /\ approvals'[a].from = approvals[a].from /\ approvals'[a].to = approvals[a].to
    BY <1>4, <2>1
  <2> QED BY <2>2
<1>6. ASSUME NEW s \in StateId, DeleteState(s)
      PROVE  /\ approvals'[a].edge \in {approvals[a].edge, Nil}
             /\ approvals'[a].toState \in {approvals[a].toState, Nil}
             /\ approvals'[a].from = approvals[a].from /\ approvals'[a].to = approvals[a].to
             /\ approvals'[a].edge # Nil /\ approvals[a].toState = EdgeTo[approvals[a].edge] =>
                   approvals'[a].toState = approvals[a].toState \/ edges[approvals[a].edge] # "live"
  <2> DEFINE T == {t \in LiveEdges : s \in {EdgeFrom[t], EdgeTo[t]}}
  <2>1. Forgets(T, {s})
    BY <1>6, DeleteStateForgets
  <2>2. /\ approvals'[a].edge = IF approvals[a].edge \in T THEN Nil ELSE approvals[a].edge
        /\ approvals'[a].toState = IF approvals[a].toState \in {s} THEN Nil ELSE approvals[a].toState
        /\ approvals'[a].from = approvals[a].from /\ approvals'[a].to = approvals[a].to
    BY <1>4, <2>1
  <2>3. approvals[a].edge \in OrNil(EdgeId)
    BY <1>1 DEF Approval
  <2> QED BY <2>2, <2>3 DEF LiveEdges, OrNil
<1>7. ASSUME NEW h \in Handler, HandlerStep(h)
      PROVE  approvals' = approvals \/ RequestApproval(h) \/ DecideAndApply(h)
  BY <1>7 DEF HandlerStep, ResolveMove, EvaluateGuards, LoadApprovers, ReadExisting,
              NotifyApprovers, PlanEffects, ApplyTransition, LegacyCheck, LegacyWrite,
              LegacyAudit, CheckAuthority, NotifyVerdict, WriteRow, InsertRow, approvalVars
<1>8. AdminStep => \/ approvals' = approvals \/ (\E s \in StateId : DeleteState(s))
                   \/ (\E t \in EdgeId : DeleteTransition(t))
  BY DEF AdminStep, AssignWorkflow, DeleteEntity, CreateState, CreateTransition,
       CreateGuard, DeleteGuard, CreateApprover, DeleteApprover, CreatePostFunction,
       DeletePostFunction, ChangeMembership, DeleteTeam, approvalVars
<1>9. ASSUME NEW h \in Handler, StartStep(h) PROVE approvals' = approvals
  BY <1>9 DEF StartStep, StartMove, StartStateMove, StartDecide, StartRewrite, StartCreate,
              approvalVars
<1>10. Quiet \/ UNCHANGED vars => approvals' = approvals
  BY DEF Quiet, vars
<1> HIDE DEF TypeInv, TypeOK
<1> QED BY <1>2, <1>3, <1>5, <1>6, <1>7, <1>8, <1>9, <1>10 DEF Next

LEMMA ApprovalsAim ==
    ASSUME StepInv, [Next]_vars, NEW a \in ApprovalId
    PROVE  Aimed(approvals'[a])
<1>1. TypeInv /\ Aimed(approvals[a])
  BY DEF StepInv, Inv
<1>2. ASSUME NEW h \in Handler, req[h].pc = "request",
             approvals'[a].edge = req[h].edge, approvals'[a].to = req[h].to,
             approvals'[a].toState = EdgeTo[req[h].edge]
      PROVE  Aimed(approvals'[a])
  <2>1. Aimed(req[h]) /\ req[h].edge \in EdgeId
    BY <1>2 DEF StepInv, Inv, TypeInv, RequestsCarry, Carries
  <2>2. req[h].edge # Nil
    BY <2>1, NilAssumption
  <2> QED BY <1>2, <2>1, <2>2 DEF Aimed
<1> QED BY <1>1, <1>2, ApprovalSteps DEF Aimed

LEMMA RequestsAim ==
    ASSUME StepInv, [Next]_vars, NEW h \in Handler
    PROVE  Aimed(req'[h])
<1>1. TypeInv /\ Aimed(req[h]) /\ wf
  BY DEF StepInv, Inv
<1>2. CASE req'[h] = req[h]
  BY <1>1, <1>2
<1>3. Aimed(Idle)
  BY DEF Aimed, Idle
<1>4. CASE HandlerStep(h)
  <2>1. CASE ResolveMove(h)
    <3>1. \/ req'[h] = Idle
          \/ /\ req'[h].to = req[h].to /\ StateName[req'[h].toState] = req[h].to
             /\ req'[h].edge \in {req[h].edge} \/ EdgeTo[req'[h].edge] = req'[h].toState
      BY <1>1, <2>1, GateAims
    <3> QED BY <1>1, <1>3, <3>1 DEF Aimed
  <2>2. CASE SameMove(req'[h], req[h])
    BY <1>1, <2>2 DEF SameMove, Aimed
  <2> QED BY <1>1, <1>3, <1>4, <2>1, <2>2, HandlerGoesOn
<1>5. CASE StartStep(h)
  <2>1. ASSUME NEW a \in ApprovalId, BeginsToDecide(req'[h], a) PROVE Aimed(req'[h])
    BY <2>1 DEF BeginsToDecide, StepInv, Aimed
  <2>2. CASE req'[h].edge = Nil /\ req'[h].toState = Nil
    BY <2>2 DEF Aimed
  <2> QED BY <1>1, <1>5, <2>1, <2>2, HandlerBegins DEF BeginsAt, BeginsToInsert
<1> QED BY <1>1, <1>2, <1>4, <1>5, RequestSteps

\* Nobody leaves the engine in a space with its workflow.
LEMMA RequestsServed ==
    ASSUME "rewrite" \notin Ops, StepInv, [Next]_vars, NEW h \in Handler
    PROVE  Served(req'[h])
<1>1. TypeInv /\ Served(req[h]) /\ wf /\ req[h] \in Request /\ req \in [Handler -> Request]
  BY DEF StepInv, Inv, TypeInv, TypeOK
<1>2. CASE req'[h] = req[h]
  BY <1>1, <1>2
<1>3. ASSUME req'[h].pc \notin {"legacy", "legacyWrite", "legacyAudit", "rewrite", "insert"}
      PROVE  Served(req'[h])
  BY <1>3 DEF Served
<1>4. CASE HandlerStep(h)
  <2>1. CASE ResolveMove(h)
    <3>1. req'[h].pc \in {"idle", "apply", "guards"}
      BY <1>1, <2>1, GateAims DEF Idle
    <3> QED BY <1>3, <3>1
  <2>2. CASE LegacyCheck(h) \/ LegacyWrite(h) \/ LegacyAudit(h)
    BY <1>1, <2>2 DEF LegacyCheck, LegacyWrite, LegacyAudit, Served
  <2>3. CASE Answer(h)
    BY <1>1, <1>3, <2>3 DEF Answer, Idle
  <2>4. ASSUME NEW pc \in {"approvers", "request", "plan", "existing", "verdict", "notifyVerdict"},
               Goto(h, pc)
        PROVE  Served(req'[h])
    BY <1>1, <1>3, <2>4 DEF Goto, Request
  <2>5. CASE RequestApproval(h)
    <3>1. ASSUME NEW a, req' = [req EXCEPT ![h].pc = "notify", ![h].ap = a]
          PROVE  Served(req'[h])
      BY <1>1, <1>3, <3>1 DEF Request
    <3> QED BY <2>3, <2>4, <2>5, <3>1 DEF RequestApproval
  <2>6. CASE PlanEffects(h)
    <3>1. ASSUME NEW pc \in {"apply", "verdict"}, NEW fns,
                 req' = [req EXCEPT ![h].pc = pc, ![h].effects = fns]
          PROVE  Served(req'[h])
      BY <1>1, <1>3, <3>1 DEF Request
    <3> QED BY <2>3, <2>6, <3>1 DEF PlanEffects
  <2>7. CASE EvaluateGuards(h) \/ LoadApprovers(h) \/ CheckAuthority(h) \/ DecideAndApply(h)
    BY <2>3, <2>4, <2>7 DEF EvaluateGuards, LoadApprovers, CheckAuthority, DecideAndApply
  <2>8. CASE \/ ReadExisting(h) \/ NotifyApprovers(h) \/ ApplyTransition(h)
             \/ NotifyVerdict(h) \/ WriteRow(h) \/ InsertRow(h)
    BY <2>3, <2>8 DEF ReadExisting, NotifyApprovers, ApplyTransition, NotifyVerdict, WriteRow,
                      InsertRow
  <2> QED BY <1>4, <2>1, <2>2, <2>5, <2>6, <2>7, <2>8 DEF HandlerStep
<1>5. CASE StartStep(h)
  <2>1. ASSUME NEW e \in Entity, BeginsAt(req'[h], e) PROVE Served(req'[h])
    BY <1>3, <2>1 DEF BeginsAt
  <2>2. ASSUME NEW a \in ApprovalId, BeginsToDecide(req'[h], a) PROVE Served(req'[h])
    BY <1>3, <2>2 DEF BeginsToDecide
  <2>3. CASE BeginsToInsert(req'[h])
    BY <2>3 DEF BeginsToInsert, Served
  <2> QED BY <1>1, <1>5, <2>1, <2>2, <2>3, HandlerBegins
<1> QED BY <1>1, <1>2, <1>4, <1>5, RequestSteps

LEMMA StepNext ==
    ASSUME EngineWrites, StepInv, [Next]_vars
    PROVE  StepInv'
<1>1. Inv'
  BY NextInv DEF StepInv
<1>2. wf'
  BY StateSteps DEF StepInv, Inv
<1>3. \A e \in Entity : Agrees(row[e], LiveStates)'
  BY RowsAgree DEF Agrees
<1>4. \A h \in Handler : Aimed(req[h])' /\ Served(req[h])'
  BY RequestsAim, RequestsServed DEF EngineWrites, Aimed, Served
<1>5. \A a \in ApprovalId : Aimed(approvals[a])'
  BY ApprovalsAim DEF Aimed
<1> QED BY <1>1, <1>2, <1>3, <1>4, <1>5 DEF StepInv

\* In a space whose workflow writes every status, the state an entity is in,
\* the status text and resolved_at agree, whatever is moved, decided, created
\* and deleted at once.
THEOREM PositionsAgree == EngineWrites => (Spec => []PositionInStep)
<1> SUFFICES ASSUME EngineWrites PROVE Spec => []PositionInStep
  OBVIOUS
<1>1. Init => StepInv
  BY StepInit
<1>2. StepInv /\ [Next]_vars => StepInv'
  BY StepNext
<1>3. StepInv => PositionInStep
  BY DEF StepInv, PositionInStep, Agrees, LiveStates
<1> QED BY <1>1, <1>2, <1>3, PTL DEF Spec

-----------------------------------------------------------------------------
(* Every move is one of the machine's.                                     *)

\* A name stands for one state for ever, a workflow starts at the status a
\* row gets without one, and every row stands somewhere.
NamesStand ==
    /\ EngineWrites
    /\ \A s, t \in StateId : StateName[s] = StateName[t] => s = t
    /\ \A s \in Initial : StateName[s] = OpenStatus
    /\ \A e \in Entity : InitRows[e].life = "live" /\ InitRows[e].stateId = Nil =>
          InitRows[e].status = OpenStatus

\* A row or a request whose position is not stored is at the start.
AtStart(x) == x.stateId = Nil => x.status = OpenStatus

\* No row can have this status any more.
NoLonger(status) ==
    status # OpenStatus /\ \A s \in StateId : StateName[s] = status => states[s] = "gone"

\* The edge starts at the status, unless nothing can be there any more.
Departs(x, status) == x.edge # Nil => StateName[EdgeFrom[x.edge]] = status \/ NoLonger(status)

\* A request at the gate knows a state that has existed; from there on it has
\* a target, and stays where it is if it has no edge.
OnItsWay(q) ==
    /\ q.pc = "gate" =>
          /\ q.edge = Nil
          /\ AtStart(q)
          /\ q.stateId # Nil => StateName[q.stateId] = q.status /\ states[q.stateId] # "unborn"
    /\ q.pc \in {"guards", "approvers", "request", "plan", "apply", "authority", "verdict"} =>
          q.toState # Nil
    /\ q.pc = "verdict" => q.edge # Nil
    /\ q.pc = "apply" /\ q.edge = Nil => q.status = q.to \/ NoLonger(q.status)
    /\ q.pc = "insert" => AtStart(q)
    /\ Departs(q, q.status)

\* An approval keeps its target as long as its edge.
Waits(x) ==
    /\ x.edge # Nil => edges[x.edge] = "live" /\ x.toState = EdgeTo[x.edge]
    /\ Departs(x, x.from)

FollowInv ==
    /\ StepInv
    /\ \A e \in Entity : row[e].life = "live" => AtStart(row[e])
    /\ \A h \in Handler : OnItsWay(req[h])
    /\ \A a \in ApprovalId : Waits(approvals[a])
    /\ MovesFollowEdges

LEMMA FollowInit == NamesStand /\ Init => FollowInv
<1> SUFFICES ASSUME NamesStand, Init PROVE FollowInv
  OBVIOUS
<1>1. StepInv
  BY StepInit DEF NamesStand
<1>2. \A e \in Entity : row[e].life = "live" => AtStart(row[e])
  BY DEF Init, NamesStand, AtStart
<1>3. \A h \in Handler : OnItsWay(req[h])
  BY DEF Init, OnItsWay, Departs, Idle
<1>4. \A a \in ApprovalId : Waits(approvals[a])
  BY DEF Init, Waits, Departs, NoApproval
<1>5. MovesFollowEdges
  BY DEF Init, MovesFollowEdges
<1> QED BY <1>1, <1>2, <1>3, <1>4, <1>5 DEF FollowInv

\* Where the gate places a request: where its row stood when it was read,
\* unless nothing stands there any more.
LEMMA PlacedWhereItStood ==
    ASSUME NamesStand, NEW q \in Request, OnItsWay(q), q.pc = "gate", states \in [StateId -> Life],
           NEW from, from = ResolveFromState(LiveStates, q.status, q.stateId), from # Nil
    PROVE  StateName[from] = q.status \/ NoLonger(q.status)
<1>1. CASE ByName(LiveStates, q.status) # {}
  <2>1. from \in ByName(LiveStates, q.status)
    BY <1>1, SomeMember DEF ResolveFromState
  <2> QED BY <2>1 DEF ByName
<1>2. CASE ByName(LiveStates, q.status) = {}
  <2>1. \A s \in StateId : StateName[s] = q.status => states[s] # "live"
    BY <1>2 DEF ByName, LiveStates
  <2>2. q.stateId \notin LiveStates
    <3>1. q.stateId \in LiveStates => q.stateId \in StateId /\ q.stateId # Nil /\ states[q.stateId] = "live"
      BY NilAssumption DEF LiveStates
    <3> QED BY <2>1, <3>1 DEF OnItsWay
  <2>3. from = Some(LiveStates \cap Initial)
    BY <1>2, <2>2 DEF ResolveFromState
  <2>4. from \in LiveStates \cap Initial
    <3>1. LiveStates \cap Initial # {}
      BY <2>3 DEF Some
    <3> QED BY <2>3, <3>1, SomeMember
  <2>5. q.status # OpenStatus
    BY <2>1, <2>4 DEF NamesStand, LiveStates
  <2>6. q.stateId \in StateId /\ StateName[q.stateId] = q.status /\ states[q.stateId] # "unborn"
    BY <2>5 DEF OnItsWay, AtStart, Request, OrNil
  <2>7. states[q.stateId] = "gone"
    BY <2>1, <2>6 DEF Life
  <2> QED BY <2>5, <2>6, <2>7 DEF NoLonger, NamesStand
<1> QED BY <1>1, <1>2

\* What is gone stays gone, and what is there is not forgotten.
LEMMA PastKept ==
    ASSUME TypeInv, [Next]_vars
    PROVE  /\ \A status : NoLonger(status) => NoLonger(status)'
           /\ \A s \in StateId : states[s] # "unborn" => states'[s] # "unborn"
<1>1. states \in [StateId -> Life] /\ states' \in [StateId -> Life]
  <2>1. CASE UNCHANGED configVars
    BY <2>1 DEF configVars, TypeInv, TypeOK
  <2>2. CASE AdminStep
    BY <2>2, AdminType DEF TypeInv, TypeOK
  <2> QED BY <2>1, <2>2, WorkflowSteps DEF TypeInv, TypeOK
<1>2. \A s \in StateId : /\ states[s] = "gone" => states'[s] = "gone"
                         /\ states[s] = "live" => states'[s] \in {"live", "gone"}
  BY StateSteps
<1> QED BY <1>1, <1>2 DEF NoLonger, Life

LEMMA RequestsDepart ==
    ASSUME NamesStand, FollowInv, [Next]_vars, NEW h \in Handler
    PROVE  OnItsWay(req[h])'
<1>1. /\ TypeInv /\ wf /\ req[h] \in Request /\ req \in [Handler -> Request]
      /\ states \in [StateId -> Life] /\ OnItsWay(req[h]) /\ Carries(req[h])
  BY DEF FollowInv, StepInv, Inv, TypeInv, TypeOK, RequestsCarry
<1>2. /\ \A status : NoLonger(status) => NoLonger(status)'
      /\ \A s \in StateId : states[s] # "unborn" => states'[s] # "unborn"
  BY <1>1, PastKept
\* What held of the request as the step left it, before the step, holds after.
<1>3. ASSUME NEW q \in Request, OnItsWay(q), req'[h] = q PROVE OnItsWay(req[h])'
  <2>1. q.stateId # Nil => q.stateId \in StateId
    BY DEF Request, OrNil
  <2>2. Departs(q, q.status) => (q.edge # Nil => StateName[EdgeFrom[q.edge]] = q.status \/ NoLonger(q.status)')
    BY <1>2 DEF Departs
  <2>3. NoLonger(q.status) => NoLonger(q.status)'
    BY <1>2
  <2> QED BY <1>2, <1>3, <2>1, <2>2, <2>3 DEF OnItsWay, Departs, AtStart
<1>4. req'[h] \in Request
  BY NextInv DEF FollowInv, StepInv, Inv, TypeInv, TypeOK
<1>5. CASE req'[h] = req[h]
  BY <1>1, <1>3, <1>5
<1>6. CASE HandlerStep(h)
  <2>1. OnItsWay(Idle)
    BY DEF OnItsWay, Idle, Departs
  <2>2. CASE req'[h] = Idle
    BY <1>3, <1>4, <2>1, <2>2
  <2>3. CASE ResolveMove(h) /\ req'[h] # Idle
    <3> DEFINE r == req[h]
               q == req'[h]
               from == ResolveFromState(LiveStates, r.status, r.stateId)
    <3>1. /\ q.pc \in {"apply", "guards"} /\ q.e = r.e /\ q.status = r.status
          /\ q.to = r.to /\ q.toState \in LiveStates /\ StateName[q.toState] = r.to
          /\ \/ q.pc = "apply" /\ q.edge = r.edge /\ q.toState = from
             \/ /\ q.pc = "guards" /\ q.edge \in LiveEdges
                /\ EdgeFrom[q.edge] = from /\ EdgeTo[q.edge] = q.toState
      BY <1>1, <2>3, GateAims
    <3>2. r.pc = "gate" /\ r.edge = Nil
      BY <1>1, <2>3 DEF ResolveMove, OnItsWay
    <3>3. from # Nil
      <4>1. Nil \notin LiveStates
        BY NilAssumption DEF LiveStates
      <4>2. \A t \in LiveEdges : EdgeFrom[t] # Nil
        BY StateAssumption, NilAssumption DEF LiveEdges
      <4> HIDE DEF from
      <4> QED BY <3>1, <4>1, <4>2
    <3>4. StateName[from] = r.status \/ NoLonger(r.status)
      BY <1>1, <3>2, <3>3, PlacedWhereItStood
    <3>5. q.toState # Nil
      BY <3>1, NilAssumption DEF LiveStates
    <3> HIDE DEF from, q
    <3>6. OnItsWay(q)
      BY <3>1, <3>2, <3>4, <3>5 DEF OnItsWay, Departs
    <3> QED BY <1>3, <1>4, <3>6 DEF q
  <2>4. CASE SameMove(req'[h], req[h]) /\ req[h].pc # "gate" /\ req'[h] # Idle
    <3> DEFINE q == req'[h]
               r == req[h]
    <3>1. /\ q.pc \notin {"gate", "insert"}
          /\ q.pc \in {"guards", "approvers", "request", "plan", "apply", "authority", "verdict"} =>
                r.pc \in {"guards", "approvers", "request", "plan", "apply", "authority", "verdict"}
          /\ q.pc = "verdict" => r.pc \in {"plan", "authority"}
          /\ q.pc = "apply" => r.pc = "plan"
      <4>1. CASE Answer(h)
        BY <1>1, <2>4, <4>1 DEF Answer
      <4>2. CASE ResolveMove(h)
        BY <2>4, <4>2 DEF ResolveMove
      <4>3. CASE EvaluateGuards(h) \/ LoadApprovers(h) \/ CheckAuthority(h)
        BY <1>1, <2>4, <4>3 DEF EvaluateGuards, LoadApprovers, CheckAuthority, Goto, Answer, Request
      <4>4. CASE LegacyCheck(h) \/ LegacyWrite(h) \/ DecideAndApply(h)
        BY <1>1, <2>4, <4>4 DEF LegacyCheck, LegacyWrite, DecideAndApply, Goto, Answer, Request
      <4>5. CASE RequestApproval(h)
        <5>1. ASSUME NEW a, req' = [req EXCEPT ![h].pc = "notify", ![h].ap = a]
              PROVE  q.pc = "notify"
          BY <1>1, <5>1 DEF Request
        <5>2. CASE Goto(h, "existing")
          BY <1>1, <5>2 DEF Goto, Request
        <5> QED BY <4>1, <4>5, <5>1, <5>2 DEF RequestApproval
      <4>6. CASE PlanEffects(h)
        <5>1. ASSUME NEW pc \in {"apply", "verdict"}, NEW fns,
                     req' = [req EXCEPT ![h].pc = pc, ![h].effects = fns]
              PROVE  q.pc = pc
          BY <1>1, <5>1 DEF Request
        <5> QED BY <4>1, <4>6, <5>1 DEF PlanEffects
      <4>7. CASE \/ ReadExisting(h) \/ NotifyApprovers(h) \/ ApplyTransition(h) \/ LegacyAudit(h)
                 \/ NotifyVerdict(h) \/ WriteRow(h) \/ InsertRow(h)
        BY <4>1, <4>7 DEF ReadExisting, NotifyApprovers, ApplyTransition, LegacyAudit,
                          NotifyVerdict, WriteRow, InsertRow
      <4> QED BY <1>6, <4>2, <4>3, <4>4, <4>5, <4>6, <4>7 DEF HandlerStep
    <3>2. r.pc \in {"plan", "authority"} => r.edge # Nil
      BY <1>1, NilAssumption DEF Carries
    <3> HIDE DEF q, r
    <3>3. OnItsWay(q)
      BY <1>1, <2>4, <3>1, <3>2 DEF OnItsWay, Departs, SameMove, q, r
    <3> QED BY <1>3, <1>4, <3>3 DEF q
  <2> QED BY <1>1, <1>6, <2>2, <2>3, <2>4, HandlerGoesOn
<1>7. CASE StartStep(h)
  <2> DEFINE q == req'[h]
  <2>1. ASSUME NEW e \in Entity, BeginsAt(q, e) PROVE OnItsWay(q)
    <3>1. row[e] \in Row /\ AtStart(row[e]) /\ Agrees(row[e], LiveStates)
      BY <1>1, <2>1 DEF FollowInv, StepInv, BeginsAt, TypeInv, TypeOK
    <3>2. q.stateId # Nil => StateName[q.stateId] = q.status /\ states[q.stateId] = "live"
      BY <2>1, <3>1 DEF BeginsAt, Agrees, LiveStates
    <3> QED BY <2>1, <3>1, <3>2 DEF BeginsAt, OnItsWay, AtStart, Departs
  <2>2. ASSUME NEW a \in ApprovalId, BeginsToDecide(q, a) PROVE OnItsWay(q)
    <3>1. Waits(approvals[a]) /\ approvals[a].edge \in EdgeId
      BY <1>1, <2>2 DEF FollowInv, BeginsToDecide, TypeInv, TypeOK, Approval, OrNil
    <3>2. approvals[a].toState # Nil
      BY <2>2, <3>1, StateAssumption, NilAssumption DEF Waits, BeginsToDecide
    <3> QED BY <2>2, <3>1, <3>2 DEF BeginsToDecide, OnItsWay, Waits, Departs
  <2>3. ASSUME BeginsToInsert(q) PROVE OnItsWay(q)
    <3>1. Nil \notin LiveStates
      BY NilAssumption DEF LiveStates
    <3> QED BY <2>3, <3>1 DEF BeginsToInsert, OnItsWay, AtStart, Departs
  <2> HIDE DEF q
  <2>4. OnItsWay(q)
    BY <1>1, <1>7, <2>1, <2>2, <2>3, HandlerBegins DEF q
  <2> QED BY <1>3, <1>4, <2>4 DEF q
<1> QED BY <1>1, <1>5, <1>6, <1>7, RequestSteps

LEMMA ApprovalsWait ==
    ASSUME FollowInv, [Next]_vars, NEW a \in ApprovalId
    PROVE  Waits(approvals[a])'
<1> DEFINE x == approvals[a]
           y == approvals'[a]
           Over(status) == /\ status # OpenStatus
                           /\ \A s \in StateId : StateName[s] = status => states'[s] = "gone"
           Kept == y.edge # Nil =>
                      /\ edges'[y.edge] = "live" /\ y.toState = EdgeTo[y.edge]
                      /\ StateName[EdgeFrom[y.edge]] = y.from \/ Over(y.from)
<1>0. SUFFICES Kept
  BY DEF Waits, Departs, NoLonger
<1>1. /\ TypeInv /\ Waits(x) /\ x.edge \in OrNil(EdgeId) /\ x.toState \in OrNil(StateId)
      /\ approvals \in [ApprovalId -> Approval] /\ approvals' \in [ApprovalId -> Approval]
  <2>1. TypeInv /\ TypeInv'
    BY NextInv DEF FollowInv, StepInv, Inv
  <2> QED BY <2>1 DEF FollowInv, TypeInv, TypeOK, Approval
<1>2. \A status : NoLonger(status) => Over(status)
  BY <1>1, PastKept DEF NoLonger
\* The edges that go are the ones the approvals forget.
<1>3. ASSUME NEW t \in EdgeId, edges[t] = "live", edges'[t] # "live" PROVE y.edge # t
  <2>1. ASSUME NEW X, NEW Y, DropEdges(X), Forgets(X, Y) PROVE y.edge # t
    <3>1. t \in X
      BY <1>3, <2>1 DEF DropEdges
    <3>2. y.edge = IF x.edge \in X THEN Nil ELSE x.edge
      BY <1>1, <2>1 DEF Forgets, Approval
    <3> QED BY <3>1, <3>2, NilAssumption
  <2>2. ASSUME NEW s \in StateId, DeleteState(s) PROVE y.edge # t
    <3> DEFINE T == {u \in LiveEdges : s \in {EdgeFrom[u], EdgeTo[u]}}
    <3>1. DropEdges(T)
      BY <2>2 DEF DeleteState
    <3>2. Forgets(T, {s})
      BY <1>1, <2>2, DeleteStateForgets
    <3> HIDE DEF T
    <3> QED BY <2>1, <3>1, <3>2
  <2>3. ASSUME NEW u \in EdgeId, DeleteTransition(u) PROVE y.edge # t
    <3>1. DropEdges({u}) /\ Forgets({u}, {})
      BY <1>1, <2>3, DeleteTransitionForgets DEF DeleteTransition
    <3> QED BY <2>1, <3>1
  <2>4. AdminStep => \/ edges' = edges
                     \/ \E u \in EdgeId : CreateTransition(u)
                     \/ \E s \in StateId : DeleteState(s)
                     \/ \E u \in EdgeId : DeleteTransition(u)
    BY DEF AdminStep, AssignWorkflow, DeleteEntity, CreateState, CreateGuard, DeleteGuard,
           CreateApprover, DeleteApprover, CreatePostFunction, DeletePostFunction,
           ChangeMembership, DeleteTeam, configVars
  <2>5. ASSUME NEW u \in EdgeId, CreateTransition(u) PROVE FALSE
    BY <1>1, <1>3, <2>5 DEF CreateTransition, TypeInv, TypeOK
  <2>6. UNCHANGED configVars => edges' = edges
    BY DEF configVars
  <2> QED BY <1>3, <2>2, <2>3, <2>4, <2>5, <2>6, WorkflowSteps
<1>4. CASE y = x
  <2>1. y.edge # Nil => y.edge \in EdgeId /\ edges[y.edge] = "live"
    BY <1>1, <1>4 DEF Waits, OrNil
  <2>2. y.edge # Nil => edges'[y.edge] = "live"
    BY <1>3, <2>1
  <2> HIDE DEF x, y, Over
  <2>3. y.edge # Nil => StateName[EdgeFrom[y.edge]] = y.from \/ Over(y.from)
    BY <1>1, <1>2, <1>4 DEF Waits, Departs
  <2> QED BY <1>1, <1>4, <2>2, <2>3 DEF Waits
<1>5. ASSUME NEW h \in Handler, req[h].pc = "request", edges[req[h].edge] = "live",
             y.edge = req[h].edge, y.from = req[h].status, y.toState = EdgeTo[req[h].edge]
      PROVE  Kept
  <2>1. req[h].edge \in EdgeId /\ Departs(req[h], req[h].status)
    BY <1>1, <1>5 DEF FollowInv, OnItsWay, TypeInv, RequestsCarry, Carries
  <2>2. edges'[y.edge] = "live"
    BY <1>3, <1>5, <2>1
  <2> HIDE DEF y, Over
  <2>3. y.edge # Nil => StateName[EdgeFrom[y.edge]] = y.from \/ Over(y.from)
    BY <1>2, <1>5, <2>1 DEF Departs
  <2> QED BY <1>5, <2>2, <2>3
<1>6. CASE /\ y.edge \in {x.edge, Nil} /\ y.toState \in {x.toState, Nil} /\ y.from = x.from
           /\ y.edge # Nil /\ x.toState = EdgeTo[x.edge] => y.toState = x.toState \/ edges[x.edge] # "live"
  <2>1. CASE y.edge = Nil
    BY <2>1
  <2>2. CASE y.edge # Nil
    <3>1. y.edge = x.edge /\ y.edge \in EdgeId /\ edges[y.edge] = "live" /\ x.toState = EdgeTo[x.edge]
      BY <1>1, <1>6, <2>2 DEF Waits, OrNil
    <3>2. edges'[y.edge] = "live" /\ y.toState = EdgeTo[y.edge]
      BY <1>3, <1>6, <2>2, <3>1
    <3> HIDE DEF x, y, Over
    <3>3. StateName[EdgeFrom[y.edge]] = y.from \/ Over(y.from)
      BY <1>1, <1>2, <1>6, <2>2, <3>1 DEF Waits, Departs
    <3> QED BY <3>2, <3>3
  <2> QED BY <2>1, <2>2
<1> QED BY <1>1, <1>4, <1>5, <1>6, ApprovalSteps

\* A row that is written gets a state, or is born at the start.
LEMMA RowsStand ==
    ASSUME FollowInv, [Next]_vars, NEW e \in Entity, row'[e].life = "live"
    PROVE  AtStart(row'[e])
<1>1. TypeInv /\ row \in [Entity -> Row] /\ row[e] \in Row
  BY DEF FollowInv, StepInv, Inv, TypeInv, TypeOK
<1>2. CASE row'[e] = row[e]
  BY <1>2 DEF FollowInv
<1>3. ASSUME NEW h \in Handler, Moves(h), req[h].e = e PROVE AtStart(row'[e])
  <2>1. req[h].toState # Nil
    BY <1>3 DEF FollowInv, OnItsWay, Moves
  <2>2. row'[e].stateId = req[h].toState
    BY <1>1, <1>3 DEF Moves, CommitMove, Row
  <2> QED BY <2>1, <2>2 DEF AtStart
<1>4. ASSUME NEW h \in Handler, InsertRow(h), req[h].e = e, row'[e] # row[e] PROVE AtStart(row'[e])
  <2>1. AtStart(req[h])
    BY <1>4 DEF FollowInv, OnItsWay, InsertRow
  <2>2. row'[e].stateId = req[h].stateId /\ row'[e].status = req[h].status
    BY <1>1, <1>4 DEF InsertRow
  <2> QED BY <2>1, <2>2 DEF AtStart
<1>5. ASSUME NEW h \in Handler PROVE ~LegacyWrite(h) /\ ~WriteRow(h)
  BY <1>5 DEF FollowInv, StepInv, Served, LegacyWrite, WriteRow
<1>6. ASSUME NEW d \in Entity, DeleteEntity(d) PROVE row'[e] = row[e]
  <2>1. CASE d = e
    BY <1>1, <1>6, <2>1 DEF DeleteEntity, Row
  <2>2. CASE d # e
    BY <1>1, <1>6, <2>2 DEF DeleteEntity
  <2> QED BY <2>1, <2>2
<1>7. ASSUME NEW h \in Handler, Moves(h) \/ InsertRow(h), req[h].e # e PROVE row'[e] = row[e]
  BY <1>1, <1>7 DEF Moves, CommitMove, InsertRow
<1> QED BY <1>2, <1>3, <1>4, <1>5, <1>6, <1>7, RowSteps

LEMMA MovesFollow ==
    ASSUME FollowInv, [Next]_vars
    PROVE  MovesFollowEdges'
<1> DEFINE Follows(x) == x.path = "workflow" =>
               IF x.edge = Nil
               THEN x.from = x.to
               ELSE /\ x.from = StateName[EdgeFrom[x.edge]]
                    /\ x.to = StateName[EdgeTo[x.edge]]
<1>1. TypeInv /\ \A i \in DOMAIN audit : Follows(audit[i])
  BY DEF FollowInv, StepInv, Inv, MovesFollowEdges
<1>2. CASE audit' = audit
  BY <1>2 DEF FollowInv, MovesFollowEdges
<1>3. ASSUME NEW x \in AuditRow, x.path = "legacy", audit' = Append(audit, x)
      PROVE  MovesFollowEdges'
  <2>1. Follows(x)
    BY <1>3
  <2> HIDE DEF Follows
  <2>2. \A i \in DOMAIN audit' : Follows(audit'[i])
    BY <1>1, <1>3, <2>1, EntryOfLegacy
  <2> QED BY <2>2 DEF MovesFollowEdges, Follows
<1>4. ASSUME NEW h \in Handler, Moves(h) PROVE MovesFollowEdges'
  <2> DEFINE r == req[h]
  <2>1. /\ r.pc \in {"apply", "verdict"} /\ OnItsWay(r) /\ Aimed(r) /\ r.e \in Entity
        /\ row[r.e].life = "live" /\ row[r.e].status = r.status
    BY <1>1, <1>4 DEF FollowInv, StepInv, Moves, Lands, TypeInv, RequestsCarry, Carries
  <2>2. ~NoLonger(r.status)
    <3>1. AtStart(row[r.e]) /\ Agrees(row[r.e], LiveStates)
      BY <2>1 DEF FollowInv, StepInv
    <3>2. CASE row[r.e].stateId = Nil
      BY <2>1, <3>1, <3>2 DEF AtStart, NoLonger
    <3>3. CASE row[r.e].stateId # Nil
      <4>1. row[r.e].stateId \in LiveStates /\ StateName[row[r.e].stateId] = r.status
        BY <2>1, <3>1, <3>3 DEF Agrees
      <4> QED BY <4>1 DEF LiveStates, NoLonger
    <3> QED BY <3>2, <3>3
  <2>3. r.edge = Nil => r.pc = "apply" /\ r.status = r.to
    BY <2>1, <2>2 DEF OnItsWay
  <2>4. r.edge # Nil => r.status = StateName[EdgeFrom[r.edge]] /\ r.to = StateName[EdgeTo[r.edge]]
    BY <2>1, <2>2 DEF OnItsWay, Departs, Aimed
  <2>5. Follows(audit'[Len(audit) + 1])
    <3>1. audit'[Len(audit) + 1] =
            [e |-> r.e, from |-> r.status, to |-> r.to,
             edge |-> r.edge, ap |-> r.ap, path |-> "workflow"]
      BY <1>1, <1>4, EntryOfMove
    <3> QED BY <2>3, <2>4, <3>1
  <2> HIDE DEF Follows
  <2>6. \A i \in DOMAIN audit' : Follows(audit'[i])
    <3>1. /\ DOMAIN audit = 1 .. Len(audit) /\ Len(audit) \in Nat
          /\ DOMAIN audit' = 1 .. Len(audit) + 1
          /\ \A i \in DOMAIN audit : audit'[i] = audit[i]
      BY <1>1, <1>4, EntryOfMove
    <3> QED BY <1>1, <2>5, <3>1
  <2> QED BY <2>6 DEF MovesFollowEdges, Follows
<1> QED BY <1>1, <1>2, <1>3, <1>4, AuditEntries

LEMMA FollowNext ==
    ASSUME NamesStand, FollowInv, [Next]_vars
    PROVE  FollowInv'
<1>1. StepInv'
  BY StepNext DEF FollowInv, NamesStand
<1>2. \A e \in Entity : row'[e].life = "live" => AtStart(row'[e])
  BY RowsStand
<1>3. \A h \in Handler : OnItsWay(req[h])'
  BY RequestsDepart
<1>4. \A a \in ApprovalId : Waits(approvals[a])'
  BY ApprovalsWait
<1>5. MovesFollowEdges'
  BY MovesFollow
<1> QED BY <1>1, <1>2, <1>3, <1>4, <1>5 DEF FollowInv, AtStart

\* Whatever is created and deleted between the gate's reads and the write, a
\* move that lands is along an edge from where the row was to where it goes,
\* if the name of a deleted state is not given to another one.
THEOREM MovesAreEdges == NamesStand => (Spec => []MovesFollowEdges)
<1> SUFFICES ASSUME NamesStand PROVE Spec => []MovesFollowEdges
  OBVIOUS
<1>1. Init => FollowInv
  BY FollowInit
<1>2. FollowInv /\ [Next]_vars => FollowInv'
  BY FollowNext
<1>3. FollowInv => MovesFollowEdges
  BY DEF FollowInv
<1> QED BY <1>1, <1>2, <1>3, PTL DEF Spec

-----------------------------------------------------------------------------
(* Births and effects.                                                     *)

\* Without an edge a request has no post-functions to run; an entity that is
\* being created is not there yet, and nobody else creates it.
Planned(q) == q.edge = Nil => q.effects = <<>>

Births ==
    \A h \in Handler : req[h].pc = "insert" =>
        /\ row[req[h].e].life = "unborn"
        /\ \A g \in Handler \ {h} : req[g].pc = "insert" => req[g].e # req[h].e

EffectInv ==
    /\ Inv
    /\ \A h \in Handler : Planned(req[h])
    /\ Births

LEMMA EffectInit == Init => EffectInv
<1> SUFFICES ASSUME Init PROVE EffectInv
  OBVIOUS
<1>1. Inv
  BY InitInv
<1>2. \A h \in Handler : Planned(req[h]) /\ req[h].pc # "insert"
  BY DEF Init, Planned, Idle
<1> QED BY <1>1, <1>2 DEF EffectInv, Births

\* Post-functions are planned along an edge only.
LEMMA RequestsPlan ==
    ASSUME EffectInv, [Next]_vars, NEW h \in Handler
    PROVE  Planned(req'[h])
<1>1. /\ TypeInv /\ Planned(req[h]) /\ Carries(req[h]) /\ req[h] \in Request
      /\ req \in [Handler -> Request]
  BY DEF EffectInv, Inv, TypeInv, TypeOK, RequestsCarry
<1>2. Planned(Idle)
  BY DEF Planned, Idle
<1>3. ASSUME Answer(h) PROVE Planned(req'[h])
  BY <1>1, <1>2, <1>3 DEF Answer
<1>4. ASSUME NEW pc, Goto(h, pc) PROVE Planned(req'[h])
  BY <1>1, <1>4 DEF Goto, Planned, Request
<1>5. CASE HandlerStep(h)
  <2>1. CASE ResolveMove(h)
    <3>1. ASSUME NEW to, req' = [req EXCEPT ![h].pc = "apply", ![h].toState = to]
          PROVE  Planned(req'[h])
      BY <1>1, <3>1 DEF Planned, Request
    <3>2. ASSUME NEW t \in EdgeId, NEW to,
                 req' = [req EXCEPT ![h].pc = "guards", ![h].edge = t, ![h].toState = to]
          PROVE  Planned(req'[h])
      <4>1. req'[h].edge = t
        BY <1>1, <3>2 DEF Request
      <4> QED BY <4>1, NilAssumption DEF Planned
    <3> QED BY <1>3, <1>4, <2>1, <3>1, <3>2 DEF ResolveMove, EdgesBetween, LiveEdges
  <2>2. CASE RequestApproval(h)
    <3>1. ASSUME NEW a, req' = [req EXCEPT ![h].pc = "notify", ![h].ap = a]
          PROVE  Planned(req'[h])
      BY <1>1, <3>1 DEF Planned, Request
    <3> QED BY <1>3, <1>4, <2>2, <3>1 DEF RequestApproval
  <2>3. CASE PlanEffects(h)
    <3>1. req[h].edge # Nil
      BY <1>1, <2>3, NilAssumption DEF PlanEffects, Carries
    <3>2. ASSUME NEW pc, NEW fns, req' = [req EXCEPT ![h].pc = pc, ![h].effects = fns]
          PROVE  Planned(req'[h])
      BY <1>1, <3>1, <3>2 DEF Planned, Request
    <3> QED BY <1>3, <2>3, <3>2 DEF PlanEffects
  <2>4. CASE \/ EvaluateGuards(h) \/ LoadApprovers(h) \/ LegacyCheck(h) \/ LegacyWrite(h)
             \/ CheckAuthority(h) \/ DecideAndApply(h)
    BY <1>3, <1>4, <2>4 DEF EvaluateGuards, LoadApprovers, LegacyCheck, LegacyWrite,
                            CheckAuthority, DecideAndApply
  <2>5. CASE \/ ReadExisting(h) \/ NotifyApprovers(h) \/ ApplyTransition(h) \/ LegacyAudit(h)
             \/ NotifyVerdict(h) \/ WriteRow(h) \/ InsertRow(h)
    BY <1>3, <2>5 DEF ReadExisting, NotifyApprovers, ApplyTransition, LegacyAudit,
                      NotifyVerdict, WriteRow, InsertRow
  <2> QED BY <1>5, <2>1, <2>2, <2>3, <2>4, <2>5 DEF HandlerStep
<1>6. CASE StartStep(h)
  <2>1. ASSUME NEW op, NEW q, Begin(h, op, q), q.effects = <<>> PROVE Planned(req'[h])
    BY <1>1, <2>1 DEF Begin, Planned
  <2>2. \A e \in Entity : ReadOf(e).effects = <<>> /\ ReadOf(e) \in Request
    <3>1. ASSUME NEW e \in Entity PROVE ReadOf(e).effects = <<>> /\ ReadOf(e) \in Request
      BY <1>1, ReadType DEF ReadOf, Idle, TypeInv
    <3> QED BY <3>1
  <2>3. ASSUME NEW e \in Entity, NEW u \in User, NEW to \in Status, StartMove(h, e, u, to)
        PROVE  Planned(req'[h])
    <3> DEFINE q == [ReadOf(e) EXCEPT !.pc = "gate", !.actor = u, !.to = to]
    <3>1. q.effects = <<>>
      BY <2>2 DEF Request
    <3> HIDE DEF q
    <3> QED BY <2>1, <2>3, <3>1 DEF StartMove, q
  <2>4. ASSUME NEW e \in Entity, NEW u \in User, NEW s \in StateId, StartStateMove(h, e, u, s)
        PROVE  Planned(req'[h])
    <3> DEFINE q == [ReadOf(e) EXCEPT !.pc = "gate", !.actor = u, !.to = StateName[s]]
    <3>1. q.effects = <<>>
      BY <2>2 DEF Request
    <3> HIDE DEF q
    <3> QED BY <2>1, <2>4, <3>1 DEF StartStateMove, q
  <2>5. ASSUME NEW e \in Entity, NEW u \in OrNil(User), NEW d \in BOOLEAN, StartRewrite(h, e, u, d)
        PROVE  Planned(req'[h])
    <3> DEFINE q == [ReadOf(e) EXCEPT !.pc = "rewrite", !.assignee = u, !.due = d]
    <3>1. q.effects = <<>>
      BY <2>2 DEF Request
    <3> HIDE DEF q
    <3> QED BY <2>1, <2>5, <3>1 DEF StartRewrite, q
  <2>6. ASSUME NEW a \in ApprovalId, NEW u \in User, NEW v \in Verdict, StartDecide(h, a, u, v)
        PROVE  Planned(req'[h])
    <3> DEFINE q == [Idle EXCEPT !.pc = "authority", !.actor = u, !.verdict = v,
                          !.ap = a, !.e = approvals[a].e, !.edge = approvals[a].edge,
                          !.status = approvals[a].from, !.to = approvals[a].to,
                          !.toState = approvals[a].toState]
    <3>1. q.effects = <<>>
      BY DEF Idle
    <3> HIDE DEF q
    <3> QED BY <2>1, <2>6, <3>1 DEF StartDecide, q
  <2>7. ASSUME NEW e \in Entity, StartCreate(h, e) PROVE Planned(req'[h])
    <3> DEFINE s == IF wf THEN Some(LiveStates \cap Initial) ELSE Nil
               q == [Idle EXCEPT !.pc = "insert", !.e = e, !.stateId = s,
                    !.status = IF s = Nil THEN OpenStatus ELSE StateName[s]]
    <3>1. q.effects = <<>>
      BY DEF Idle
    <3> HIDE DEF q
    <3> QED BY <2>1, <2>7, <3>1 DEF StartCreate, q
  <2> QED BY <1>6, <2>3, <2>4, <2>5, <2>6, <2>7 DEF StartStep
<1> QED BY <1>1, <1>5, <1>6, RequestSteps

\* An id is minted for one creation.
LEMMA BirthsStep ==
    ASSUME EffectInv, [Next]_vars
    PROVE  Births'
<1>1. TypeInv /\ Births /\ row \in [Entity -> Row] /\ req \in [Handler -> Request] /\ TypeOK
  BY DEF EffectInv, Inv, TypeInv, TypeOK
\* Who is creating an entity was already, or has just found it unborn.
<1>2. ASSUME NEW h \in Handler, req'[h].pc = "insert"
      PROVE  \/ req'[h] = req[h]
             \/ \E e \in Entity : StartCreate(h, e) /\ req'[h].e = e
  <2>1. CASE HandlerStep(h)
    <3>1. ASSUME NEW pc \in PC \ {"insert"}, Goto(h, pc) PROVE FALSE
      BY <1>1, <1>2, <3>1 DEF Goto, Request
    <3>2. ASSUME Answer(h) PROVE FALSE
      BY <1>1, <1>2, <3>2 DEF Answer, Idle
    <3>3. ~ResolveMove(h)
      BY <1>1, <1>2, <3>1, <3>2 DEF ResolveMove, PC, Request
    <3>4. ~RequestApproval(h) /\ ~PlanEffects(h)
      BY <1>1, <1>2, <3>1, <3>2 DEF RequestApproval, PlanEffects, PC, Request
    <3>5. ~(\/ EvaluateGuards(h) \/ LoadApprovers(h) \/ LegacyCheck(h) \/ LegacyWrite(h)
            \/ CheckAuthority(h) \/ DecideAndApply(h))
      BY <3>1, <3>2 DEF EvaluateGuards, LoadApprovers, LegacyCheck, LegacyWrite,
                        CheckAuthority, DecideAndApply, PC
    <3>6. ~(\/ ReadExisting(h) \/ NotifyApprovers(h) \/ ApplyTransition(h) \/ LegacyAudit(h)
            \/ NotifyVerdict(h) \/ WriteRow(h) \/ InsertRow(h))
      BY <3>2 DEF ReadExisting, NotifyApprovers, ApplyTransition, LegacyAudit,
                  NotifyVerdict, WriteRow, InsertRow
    <3> QED BY <2>1, <3>3, <3>4, <3>5, <3>6 DEF HandlerStep
  <2>2. CASE StartStep(h)
    <3>1. ASSUME NEW e \in Entity, StartCreate(h, e) PROVE req'[h].e = e
      BY <1>1, <3>1 DEF StartCreate, Begin, Idle
    <3>2. ASSUME NEW e \in Entity, NEW u \in User, NEW to \in Status, StartMove(h, e, u, to) PROVE FALSE
      BY <1>1, <1>2, <3>2, ReadType DEF StartMove, Begin, Request
    <3>3. ASSUME NEW e \in Entity, NEW u \in User, NEW s \in StateId, StartStateMove(h, e, u, s) PROVE FALSE
      BY <1>1, <1>2, <3>3, ReadType DEF StartStateMove, Begin, Request
    <3>4. ASSUME NEW e \in Entity, NEW u \in OrNil(User), NEW d \in BOOLEAN, StartRewrite(h, e, u, d) PROVE FALSE
      BY <1>1, <1>2, <3>4, ReadType DEF StartRewrite, Begin, Request
    <3>5. ASSUME NEW a \in ApprovalId, NEW u \in User, NEW v \in Verdict, StartDecide(h, a, u, v) PROVE FALSE
      BY <1>1, <1>2, <3>5 DEF StartDecide, Begin, Idle
    <3> QED BY <2>2, <3>1, <3>2, <3>3, <3>4, <3>5 DEF StartStep
  <2> QED BY <1>1, <2>1, <2>2, RequestSteps
\* What one creation finds unborn is born by that creation only.
<1>3. ASSUME NEW e \in Entity, row[e].life = "unborn", row'[e].life # "unborn"
      PROVE  \E h \in Handler : InsertRow(h) /\ req[h].e = e
  <2>1. ASSUME NEW h \in Handler, Moves(h) PROVE row'[e].life = row[e].life
    <3>1. req[h].e \in Entity /\ row[e] \in Row
      BY <1>1, <2>1 DEF Moves, TypeInv, RequestsCarry, Carries
    <3> QED BY <1>1, <2>1, <3>1 DEF Moves, CommitMove, Row
  <2>2. ASSUME NEW h \in Handler, LegacyWrite(h) \/ WriteRow(h) PROVE row'[e].life = row[e].life
    BY <1>1, <2>2 DEF LegacyWrite, WriteRow, Row
  <2>3. ASSUME NEW d \in Entity, DeleteEntity(d) PROVE row'[e].life = row[e].life
    BY <1>1, <1>3, <2>3 DEF DeleteEntity
  <2>4. ASSUME NEW h \in Handler, InsertRow(h) PROVE req[h].e = e
    BY <1>1, <1>3, <2>4 DEF InsertRow
  <2> QED BY <1>3, <2>1, <2>2, <2>3, <2>4, RowSteps
<1>4. ASSUME NEW h \in Handler, req'[h].pc = "insert"
      PROVE  row'[req'[h].e].life = "unborn"
  <2>1. CASE req'[h] = req[h]
    <3>1. req[h].e \in Entity /\ req[h].pc = "insert"
      BY <1>1, <1>4, <2>1 DEF TypeInv, RequestsCarry, Carries
    <3>2. ASSUME NEW g \in Handler, InsertRow(g), req[g].e = req[h].e PROVE FALSE
      <4>1. CASE g = h
        BY <1>1, <1>4, <2>1, <3>2, <4>1 DEF InsertRow, Answer, Idle
      <4>2. CASE g # h
        BY <1>1, <3>1, <3>2, <4>2 DEF InsertRow, Births
      <4> QED BY <4>1, <4>2
    <3> QED BY <1>1, <1>3, <2>1, <3>1, <3>2 DEF Births
  <2>2. ASSUME NEW e \in Entity, StartCreate(h, e), req'[h].e = e PROVE row'[req'[h].e].life = "unborn"
    BY <2>2 DEF StartCreate, entityVars
  <2> QED BY <1>2, <1>4, <2>1, <2>2
<1>5. ASSUME NEW h \in Handler, NEW g \in Handler \ {h}, req'[h].pc = "insert", req'[g].pc = "insert",
             req'[g].e = req'[h].e
      PROVE  FALSE
  <2>1. ASSUME NEW j \in Handler, NEW k \in Handler \ {j}, NEW e \in Entity, StartCreate(j, e),
               req'[j].e = e, req'[k].pc = "insert", req'[k].e = e
        PROVE  FALSE
    <3>1. req'[k] = req[k]
      BY <1>1, <2>1 DEF StartCreate, Begin
    <3> QED BY <2>1, <3>1 DEF StartCreate
  <2>2. CASE req'[h] = req[h] /\ req'[g] = req[g]
    BY <1>1, <1>5, <2>2 DEF Births
  <2> QED BY <1>2, <1>5, <2>1, <2>2
<1> QED BY <1>4, <1>5 DEF Births

LEMMA EffectNext ==
    ASSUME EffectInv, [Next]_vars
    PROVE  EffectInv'
<1>1. Inv'
  BY NextInv DEF EffectInv
<1> QED BY <1>1, RequestsPlan, BirthsStep DEF EffectInv, Planned

\* A move without an edge leaves the assignee and the due date alone.
LEMMA MoveChangesItsRow ==
    ASSUME EffectInv, NEW h \in Handler, Moves(h), NEW e \in Entity,
           <<row'[e].assignee, row'[e].due>> # <<row[e].assignee, row[e].due>>
    PROVE  req[h].e = e /\ req[h].edge # Nil
<1>1. /\ row \in [Entity -> Row] /\ req[h] \in Request /\ req[h].e \in Entity /\ Planned(req[h])
  BY DEF EffectInv, Inv, TypeInv, TypeOK, RequestsCarry, Carries, Moves
<1>2. req[h].e = e
  BY <1>1 DEF Moves, CommitMove
<1>3. /\ row'[e].assignee = FoldAssignee(req[h].effects, row[e].assignee)
      /\ row'[e].due = FoldDue(req[h].effects, row[e].due)
  BY <1>1, <1>2 DEF Moves, CommitMove, Row
<1>4. ASSUME req[h].effects = <<>> PROVE FALSE
  BY <1>3, <1>4 DEF FoldAssignee, FoldDue, LastOfKind
<1> QED BY <1>1, <1>2, <1>4 DEF Planned

\* Only a move, and a client's own rewrite, changes the columns that
\* post-functions write, and the audit log says so in the same transaction.
THEOREM EffectsRide == Spec => EffectsRideTheMove
<1> DEFINE Rides(e) ==
             /\ <<row'[e].assignee, row'[e].due>> # <<row[e].assignee, row[e].due>>
             /\ row[e].life = "live"
             => \/ \E h \in Handler : req[h].pc = "rewrite" /\ req[h].e = e
                                      /\ req'[h].pc = "idle"
                \/ /\ Len(audit') = Len(audit) + 1
                   /\ audit'[Len(audit')].e = e
                   /\ audit'[Len(audit')].edge # Nil
<1>1. ASSUME EffectInv, [Next]_vars, NEW e \in Entity PROVE Rides(e)
  <2> SUFFICES ASSUME <<row'[e].assignee, row'[e].due>> # <<row[e].assignee, row[e].due>>,
                      row[e].life = "live"
               PROVE  \/ \E h \in Handler : req[h].pc = "rewrite" /\ req[h].e = e
                                            /\ req'[h].pc = "idle"
                      \/ /\ Len(audit') = Len(audit) + 1
                         /\ audit'[Len(audit')].e = e
                         /\ audit'[Len(audit')].edge # Nil
    OBVIOUS
  <2>1. row \in [Entity -> Row] /\ req \in [Handler -> Request] /\ TypeInv /\ Births
    BY <1>1 DEF EffectInv, Inv, TypeInv, TypeOK
  <2>2. ASSUME NEW h \in Handler, Moves(h)
        PROVE  /\ Len(audit') = Len(audit) + 1
               /\ audit'[Len(audit')].e = e /\ audit'[Len(audit')].edge # Nil
    <3>1. req[h].e = e /\ req[h].edge # Nil
      BY <1>1, <2>2, MoveChangesItsRow
    <3>2. /\ Len(audit') = Len(audit) + 1
          /\ audit'[Len(audit) + 1] = [e |-> req[h].e, from |-> req[h].status, to |-> req[h].to,
                  edge |-> req[h].edge, ap |-> req[h].ap, path |-> "workflow"]
      BY <2>1, <2>2, EntryOfMove
    <3> QED BY <3>1, <3>2
  <2>3. ASSUME NEW h \in Handler, WriteRow(h)
        PROVE  req[h].pc = "rewrite" /\ req[h].e = e /\ req'[h].pc = "idle"
    BY <2>1, <2>3 DEF WriteRow, Answer, Idle
  <2>4. ASSUME NEW h \in Handler, InsertRow(h) PROVE FALSE
    BY <2>1, <2>4 DEF InsertRow, Births
  <2>5. ASSUME NEW h \in Handler, LegacyWrite(h) PROVE FALSE
    BY <2>1, <2>5 DEF LegacyWrite, Row
  <2>6. ASSUME NEW d \in Entity, DeleteEntity(d) PROVE FALSE
    BY <2>1, <2>6 DEF DeleteEntity, Row
  <2> QED BY <1>1, <2>2, <2>3, <2>4, <2>5, <2>6, RowSteps
<1>2. EffectInv /\ [Next]_vars => [\A e \in Entity : Rides(e)]_vars
  BY <1>1
<1> QED BY <1>2, EffectInit, EffectNext, PTL DEF Spec, EffectsRideTheMove

-----------------------------------------------------------------------------
(* The refinement of the ledger.                                           *)

\* The refinement mapping, by the names of StatusLedger.
Things == {e \in Entity : row[e].life # "unborn"}
Texts == [e \in Entity |-> row[e].status]
EntryOf(x) == [e |-> x.e, from |-> x.from, to |-> x.to, grant |-> x.ap]
Entries == [i \in DOMAIN audit |-> EntryOf(audit[i])]
Grants == {a \in ApprovalId : approvals[a].st = "approved"}

Entry == [e : Entity, from : Status, to : Status, grant : OrNil(ApprovalId)]

\* The ledger of the mapping grows as the audit log does.
LEMMA EntriesGrow ==
    ASSUME audit \in Seq(AuditRow), NEW x \in AuditRow, audit' = Append(audit, x)
    PROVE  Entries' = Append(Entries, EntryOf(x))
<1>1. /\ DOMAIN audit = 1 .. Len(audit) /\ Len(audit) \in Nat
      /\ audit' \in Seq(AuditRow) /\ Len(audit') = Len(audit) + 1
      /\ DOMAIN audit' = 1 .. Len(audit) + 1
      /\ \A i \in 1 .. Len(audit) : audit'[i] = audit[i]
      /\ audit'[Len(audit) + 1] = x
  BY AppendProperties
<1>2. \A y \in AuditRow : EntryOf(y) \in Entry
  BY DEF AuditRow, EntryOf, Entry
<1>3. /\ \A i \in 1 .. Len(audit) : audit[i] \in AuditRow
      /\ \A i \in 1 .. Len(audit) + 1 : audit'[i] \in AuditRow
  BY <1>1
<1>4. Entries \in Seq(Entry) /\ Len(Entries) = Len(audit)
  BY <1>1, <1>2, <1>3, IsASeq DEF Entries
<1>5. Entries' \in Seq(Entry) /\ Len(Entries') = Len(audit) + 1
  BY <1>1, <1>2, <1>3, IsASeq DEF Entries
<1>6. EntryOf(x) \in Entry
  BY <1>2
<1>7. /\ Append(Entries, EntryOf(x)) \in Seq(Entry)
      /\ Len(Append(Entries, EntryOf(x))) = Len(audit) + 1
      /\ \A i \in 1 .. Len(audit) : Append(Entries, EntryOf(x))[i] = Entries[i]
      /\ Append(Entries, EntryOf(x))[Len(audit) + 1] = EntryOf(x)
  BY <1>4, <1>6, AppendProperties
<1>8. ASSUME NEW i \in 1 .. Len(audit) + 1 PROVE Entries'[i] = Append(Entries, EntryOf(x))[i]
  <2>1. CASE i = Len(audit) + 1
    BY <1>1, <1>7, <2>1 DEF Entries
  <2>2. CASE i \in 1 .. Len(audit)
    BY <1>1, <1>7, <2>2 DEF Entries
  <2>3. i = Len(audit) + 1 \/ i \in 1 .. Len(audit)
    BY <1>1
  <2> QED BY <2>1, <2>2, <2>3
<1> QED BY <1>5, <1>7, <1>8, SeqEqual

\* A move is the ledger's, along the approval that released it if there is
\* one.
LEMMA MovesRefine ==
    ASSUME StepInv, NEW h \in Handler, Moves(h),
           Grants' = Grants \cup ({req[h].ap} \ {Nil}), req[h].ap \notin Grants
    PROVE  Ledger!LedgerNext
<1> DEFINE r == req[h]
           x == [e |-> r.e, from |-> r.status, to |-> r.to,
                 edge |-> r.edge, ap |-> r.ap, path |-> "workflow"]
<1>1. /\ r \in Request /\ r.e \in Entity /\ row \in [Entity -> Row] /\ audit \in Seq(AuditRow)
  BY DEF StepInv, Inv, TypeInv, TypeOK, RequestsCarry, Carries, Moves
<1>2. r.to \in Status /\ r.ap \in ApprovalId \cup {Nil} /\ x \in AuditRow
  BY <1>1 DEF Request, AuditRow, OrNil
<1>3. row[r.e].life = "live" /\ row[r.e].status = r.status
  BY DEF Moves, Lands
<1>4. Things' = Things /\ Texts' = [Texts EXCEPT ![r.e] = r.to]
  BY <1>1 DEF Moves, CommitMove, Things, Texts, Row
<1>5. Entries' = Append(Entries, [e |-> r.e, from |-> Texts[r.e], to |-> r.to, grant |-> r.ap])
  <2>1. Entries' = Append(Entries, EntryOf(x))
    BY <1>1, <1>2, EntriesGrow DEF Moves, CommitMove
  <2>2. Texts[r.e] = r.status
    BY <1>1, <1>3 DEF Texts
  <2> QED BY <2>1, <2>2 DEF EntryOf
<1>6. r.e \in Things
  BY <1>1, <1>3 DEF Things
<1>7. PICK e \in Entity, to \in Status, g \in ApprovalId \cup {Nil} : e = r.e /\ to = r.to /\ g = r.ap
  BY <1>1, <1>2
<1>8. Ledger!Move(e, to, g)
  BY <1>4, <1>5, <1>6, <1>7 DEF Ledger!Move, Things, Texts, Entries, EntryOf, Grants
<1> QED BY <1>8 DEF Ledger!LedgerNext

\* A row that is inserted is the ledger's creation of it.
LEMMA InsertsRefine ==
    ASSUME EffectInv, NEW h \in Handler, InsertRow(h), Grants' = Grants
    PROVE  Ledger!LedgerNext \/ UNCHANGED Ledger!ledgerVars
<1> DEFINE r == req[h]
<1>1. /\ r \in Request /\ r.e \in Entity /\ row \in [Entity -> Row] /\ row[r.e].life = "unborn"
  BY DEF EffectInv, Births, Inv, TypeInv, TypeOK, RequestsCarry, Carries, InsertRow
<1>2. Entries' = Entries
  BY DEF InsertRow, Entries
<1>3. CASE row' = row
  BY <1>2, <1>3 DEF Ledger!ledgerVars, Things, Texts, Entries, EntryOf, Grants
<1>4. CASE row' = [row EXCEPT ![r.e] = [life |-> "live", status |-> r.status, stateId |-> r.stateId,
                     assignee |-> Nil, due |-> FALSE, resolved |-> FALSE]]
  <2>1. r.e \notin Things /\ Things' = Things \cup {r.e}
    BY <1>1, <1>4 DEF Things
  <2>2. Texts' = [Texts EXCEPT ![r.e] = r.status]
    BY <1>1, <1>4 DEF Texts
  <2>3. PICK e \in Entity, s \in Status : e = r.e /\ s = r.status
    BY <1>1 DEF Request
  <2>4. Ledger!Create(e, s)
    BY <1>2, <2>1, <2>2, <2>3 DEF Ledger!Create, Things, Texts, Entries, EntryOf, Grants
  <2> QED BY <2>4 DEF Ledger!LedgerNext
<1> QED BY <1>3, <1>4 DEF InsertRow

\* Every step of the engine is one of the ledger's, or none.
LEMMA StepsRefine ==
    ASSUME StepInv, EffectInv, [Next]_vars
    PROVE  [Ledger!LedgerNext]_(Ledger!ledgerVars)
<1>1. /\ TypeInv /\ Inv /\ row \in [Entity -> Row] /\ \A a \in ApprovalId : Keeps(a)
  BY NextKeeps DEF EffectInv, Inv, TypeInv, TypeOK
<1>2. ASSUME NEW h \in Handler, Approves(h) PROVE Ledger!LedgerNext
  <2>1. Moves(h)
    BY <1>2 DEF Approves, DecideAndApply, Decides, Moves
  <2>2. /\ req[h].ap \in ApprovalId /\ approvals[req[h].ap].st = "pending"
        /\ approvals'[req[h].ap].st = "approved"
    BY <1>1, <1>2, ApprovingStep
  <2>3. \A a \in ApprovalId : a # req[h].ap => approvals'[a] = approvals[a]
    BY <1>1, <1>2 DEF Approves, DecideAndApply, TypeInv, TypeOK
  <2>4. Grants' = Grants \cup ({req[h].ap} \ {Nil}) /\ req[h].ap \notin Grants
    BY <2>2, <2>3, ApprovalIdAssumption DEF Grants
  <2> QED BY <2>1, <2>4, MovesRefine
<1>3. ASSUME NEW h \in Handler, ApplyTransition(h), Moves(h) PROVE Ledger!LedgerNext
  <2>1. approvals' = approvals /\ req[h].ap = Nil
    BY <1>1, <1>3 DEF ApplyTransition, approvalVars, TypeInv, RequestsCarry, Carries
  <2>2. Grants' = Grants \cup ({req[h].ap} \ {Nil}) /\ req[h].ap \notin Grants
    BY <2>1, ApprovalIdAssumption DEF Grants
  <2> QED BY <1>3, <2>2, MovesRefine
\* Any other step approves nothing and moves nothing.
<1>4. ASSUME \A h \in Handler : ~Approves(h) PROVE Grants' = Grants
  <2>1. ASSUME NEW a \in ApprovalId PROVE approvals'[a].st = "approved" <=> approvals[a].st = "approved"
    BY <1>1, <1>4, <2>1, OnlyApproversApprove DEF Keeps, Verdict
  <2> QED BY <2>1 DEF Grants
<1>5. ASSUME Grants' = Grants, audit' = audit, row' = row PROVE UNCHANGED Ledger!ledgerVars
  BY <1>5 DEF Ledger!ledgerVars, Grants
<1>6. ASSUME Grants' = Grants, audit' = audit, NEW d \in Entity, DeleteEntity(d)
      PROVE  UNCHANGED Ledger!ledgerVars
  <2>1. Things' = Things /\ Texts' = Texts
    BY <1>1, <1>6 DEF DeleteEntity, Things, Texts, Row
  <2>2. Entries' = Entries
    BY <1>6 DEF Entries
  <2> QED BY <1>6, <2>1, <2>2 DEF Ledger!ledgerVars, Things, Texts, Entries, EntryOf, Grants
<1>7. \/ \E h \in Handler : Approves(h) \/ (ApplyTransition(h) /\ Moves(h)) \/ InsertRow(h)
      \/ audit' = audit /\ (row' = row \/ \E d \in Entity : DeleteEntity(d))
  <2>1. ASSUME NEW h \in Handler PROVE ~LegacyWrite(h) /\ ~LegacyAudit(h) /\ ~WriteRow(h)
    BY <2>1 DEF StepInv, Served, LegacyWrite, LegacyAudit, WriteRow
  <2>2. ASSUME NEW h \in Handler, ApplyTransition(h) \/ DecideAndApply(h)
        PROVE  Approves(h) \/ (ApplyTransition(h) /\ Moves(h)) \/ (audit' = audit /\ row' = row)
    BY <2>2 DEF ApplyTransition, DecideAndApply, Approves, Decides, Moves, entityVars
  <2>3. ASSUME NEW h \in Handler, HandlerStep(h)
        PROVE  \/ audit' = audit /\ row' = row
               \/ ApplyTransition(h) \/ DecideAndApply(h) \/ InsertRow(h)
               \/ LegacyWrite(h) \/ LegacyAudit(h) \/ WriteRow(h)
    BY <2>3 DEF HandlerStep, ResolveMove, EvaluateGuards, LoadApprovers, RequestApproval,
                ReadExisting, NotifyApprovers, PlanEffects, LegacyCheck,
                CheckAuthority, NotifyVerdict, entityVars
  <2>4. ASSUME NEW h \in Handler, StartStep(h) PROVE audit' = audit /\ row' = row
    BY <2>4 DEF StartStep, StartMove, StartStateMove, StartDecide, StartRewrite, StartCreate,
                entityVars
  <2>5. AdminStep => audit' = audit /\ (row' = row \/ \E d \in Entity : DeleteEntity(d))
    BY DEF AdminStep, Edit, AssignWorkflow, DeleteEntity, CreateState, DeleteState, CreateTransition,
           DeleteTransition, CreateGuard, DeleteGuard, CreateApprover, DeleteApprover,
           CreatePostFunction, DeletePostFunction, ChangeMembership, DeleteTeam, entityVars
  <2>6. Quiet \/ UNCHANGED vars => audit' = audit /\ row' = row
    BY DEF Quiet, vars
  <2> QED BY <2>1, <2>2, <2>3, <2>4, <2>5, <2>6 DEF Next
<1>8. ASSUME NEW h \in Handler, InsertRow(h), \A g \in Handler : ~Approves(g)
      PROVE  Ledger!LedgerNext \/ UNCHANGED Ledger!ledgerVars
  BY <1>4, <1>8, InsertsRefine
<1> QED BY <1>2, <1>3, <1>4, <1>5, <1>6, <1>7, <1>8

LEMMA InitRefines == Init => Ledger!LedgerInit
<1> SUFFICES ASSUME Init PROVE Ledger!LedgerInit
  OBVIOUS
<1>1. row \in [Entity -> Row] /\ Grants = {}
  BY InitAssumption DEF Init, Grants, NoApproval
<1>2. Things \subseteq Entity /\ Texts \in [Entity -> Status]
  BY <1>1 DEF Things, Texts, Row
<1>3. Entries = <<>>
  <2>1. audit = <<>>
    BY DEF Init
  <2> QED BY <2>1 DEF Entries
<1> QED BY <1>1, <1>2, <1>3 DEF Ledger!LedgerInit, Things, Texts, Entries, EntryOf, Grants

\* Where the engine writes every status, it implements the ledger: a status
\* changes only by an entry that leaves the status there was, and an approval
\* makes one move.
THEOREM EngineKeepsALedger == EngineWrites => (Spec => LedgerRefined)
<1> SUFFICES ASSUME EngineWrites PROVE Spec => LedgerRefined
  OBVIOUS
<1>1. Init => StepInv /\ EffectInv
  BY StepInit, EffectInit
<1>2. StepInv /\ EffectInv /\ [Next]_vars => StepInv' /\ EffectInv'
  BY StepNext, EffectNext
<1>3. StepInv /\ EffectInv /\ [Next]_vars => [Ledger!LedgerNext]_(Ledger!ledgerVars)
  BY StepsRefine
<1> QED BY <1>1, <1>2, <1>3, InitRefines, PTL DEF Spec, LedgerRefined, Ledger!LedgerSpec
=============================================================================
