----------------------------- MODULE Transitions -----------------------------
(***************************************************************************)
(* Status changes in one space: the HTTP handlers that ask for a move, the *)
(* workflow engine that permits, parks or refuses it, the approvals it is  *)
(* parked in, and the administrator's edits of the workflow underneath.    *)
(*                                                                         *)
(* A Handler is a goroutine serving one request.  Each of its steps is one *)
(* database statement, or one transaction, or a run of reads whose last    *)
(* decides; between two steps any other handler or administrator may run.  *)
(* What a handler has read lives in req[h] until it uses it, stale or not. *)
(***************************************************************************)
EXTENDS TierRules

CONSTANTS
    Entity,         \* tickets and project items of the space
    Ticket,         \* the entities that are tickets
    Handler,        \* concurrent request handlers
    ApprovalId,     \* approval ids the database may mint
    Ops,            \* the operations this instance's clients call
    MaxRequests,    \* bound: requests ever started
    MaxEdits,       \* bound: administrative edits ever made
    InitWorkflow,   \* whether the space has its workflow at the start
    InitStates, InitEdges, InitGuards, InitApprovers, InitPostFns, InitMembers,
    InitRows        \* the configuration and the rows a run starts from

ASSUME EntityAssumption == Ticket \subseteq Entity /\ Nil \notin Entity
ASSUME ApprovalIdAssumption == Nil \notin ApprovalId
ASSUME BoundAssumption == MaxRequests \in Nat /\ MaxEdits \in Nat

Life == {"unborn", "live", "gone"}

\* One row of tickets or project_items. `resolved' is "resolved_at is set".
Row == [life : Life, status : Status, stateId : OrNil(StateId),
        assignee : OrNil(User), due : BOOLEAN, resolved : BOOLEAN]

\* A row is born with resolved_at NULL and, placed or not, a status.
ASSUME InitAssumption ==
    /\ InitWorkflow \in BOOLEAN
    /\ InitStates \subseteq StateId
    /\ InitEdges \subseteq EdgeId
    /\ \A t \in InitEdges : {EdgeFrom[t], EdgeTo[t]} \subseteq InitStates
    /\ InitGuards \in [EdgeId -> SUBSET Guard]
    /\ InitApprovers \in [EdgeId -> SUBSET Subject]
    /\ InitPostFns \in [EdgeId -> Seq(PostFunction)]
    /\ InitMembers \in [Team -> SUBSET User]
    /\ InitRows \in [Entity -> Row]

VARIABLES
    row,        \* tickets and project_items
    wf,         \* spaces.workflow_id is set
    states,     \* workflow_states
    edges,      \* workflow_transitions
    guards,     \* workflow_transition_guards, by edge
    approvers,  \* workflow_transition_approvers, by edge
    postFns,    \* workflow_transition_post_functions, by edge, in order
    teams,      \* the teams that exist
    members,    \* effective team membership
    approvals,  \* workflow_approvals
    audit,      \* the status-change rows of audit_log, in commit order
    notices,    \* notification jobs enqueued
    req,        \* what each handler is doing and has read
    started, edits,     \* counters for the two bounds
    opened      \* history: edges that have ever been live with no approver

entityVars == <<row, audit>>
configVars == <<wf, states, edges, guards, approvers, postFns, teams, members, opened>>
approvalVars == <<approvals, notices>>
boundVars == <<started, edits>>
vars == <<row, wf, states, edges, guards, approvers, postFns, teams, members,
          approvals, audit, notices, req, started, edits, opened>>

LiveStates == {s \in StateId : states[s] = "live"}
LiveEdges == {t \in EdgeId : edges[t] = "live"}
Teams(u) == {t \in Team : u \in members[t]}

\* Mutant: no unique index sees the request that is already there.
PendingUnindexed(e) == {}

Pending(e) == {a \in ApprovalId : approvals[a].st = "pending" /\ approvals[a].e = e}

-----------------------------------------------------------------------------
(* Requests.                                                               *)

PC == {"idle",
       "gate", "guards", "approvers", "request", "existing", "notify",
       "plan", "apply",
       "legacy", "legacyWrite", "legacyAudit",
       "authority", "verdict", "notifyVerdict",
       "rewrite", "insert"}

Verdict == {"approved", "declined"}

Request == [pc : PC,
            e : OrNil(Entity), actor : OrNil(User),
            status : Status, stateId : OrNil(StateId),   \* the row as read
            assignee : OrNil(User), due : BOOLEAN,
            to : Status, toState : OrNil(StateId), edge : OrNil(EdgeId),
            effects : Seq(PostFunction),
            ap : OrNil(ApprovalId), verdict : Verdict]

Idle == [pc |-> "idle", e |-> Nil, actor |-> Nil,
         status |-> OpenStatus, stateId |-> Nil, assignee |-> Nil, due |-> FALSE,
         to |-> OpenStatus, toState |-> Nil, edge |-> Nil, effects |-> <<>>,
         ap |-> Nil, verdict |-> "declined"]

Approval == [st : {"none", "pending", "approved", "declined"},
             e : OrNil(Entity), edge : OrNil(EdgeId),
             from : Status, to : Status, toState : OrNil(StateId),
             by : OrNil(User), decidedBy : OrNil(User)]

NoApproval == [st |-> "none", e |-> Nil, edge |-> Nil,
               from |-> OpenStatus, to |-> OpenStatus, toState |-> Nil,
               by |-> Nil, decidedBy |-> Nil]

\* `edge' and `ap' are the transition and approval ids in the row's metadata.
AuditRow == [e : Entity, from : Status, to : Status, edge : OrNil(EdgeId),
             ap : OrNil(ApprovalId), path : {"workflow", "legacy"}]

Notice == [ap : ApprovalId, user : User, kind : {"requested", "decided"}]

TypeOK ==
    /\ row \in [Entity -> Row]
    /\ wf \in BOOLEAN
    /\ states \in [StateId -> Life]
    /\ edges \in [EdgeId -> Life]
    /\ guards \in [EdgeId -> SUBSET Guard]
    /\ approvers \in [EdgeId -> SUBSET Subject]
    /\ postFns \in [EdgeId -> Seq(PostFunction)]
    /\ teams \subseteq Team
    /\ members \in [Team -> SUBSET User]
    /\ approvals \in [ApprovalId -> Approval]
    /\ audit \in Seq(AuditRow)
    /\ notices \subseteq Notice
    /\ req \in [Handler -> Request]
    /\ started \in Nat /\ edits \in Nat
    /\ opened \subseteq EdgeId

Init ==
    /\ row = InitRows
    /\ wf = InitWorkflow
    /\ states = [s \in StateId |-> IF s \in InitStates THEN "live" ELSE "unborn"]
    /\ edges = [t \in EdgeId |-> IF t \in InitEdges THEN "live" ELSE "unborn"]
    /\ guards = InitGuards
    /\ approvers = InitApprovers
    /\ postFns = InitPostFns
    /\ teams = Team
    /\ members = InitMembers
    /\ approvals = [a \in ApprovalId |-> NoApproval]
    /\ audit = <<>>
    /\ notices = {}
    /\ req = [h \in Handler |-> Idle]
    /\ started = 0 /\ edits = 0
    /\ opened = {t \in InitEdges : InitApprovers[t] = {}}

\* A handler takes a request of kind `op'; r is what it has read so far.
Begin(h, op, r) ==
    /\ op \in Ops
    /\ req[h].pc = "idle"
    /\ started < MaxRequests
    /\ started' = started + 1
    /\ req' = [req EXCEPT ![h] = r]

Goto(h, pc) == req' = [req EXCEPT ![h].pc = pc]

\* The handler answers, whatever the answer is, and forgets what it read.
Answer(h) == req' = [req EXCEPT ![h] = Idle]

-----------------------------------------------------------------------------
(* Asking for a move: POST .../status and POST .../workflow-state.         *)

\* The row as GetInSpace returns it.
ReadOf(e) == [Idle EXCEPT !.e = e, !.status = row[e].status,
                          !.stateId = row[e].stateId,
                          !.assignee = row[e].assignee, !.due = row[e].due]

\* The /status routes: any status text, any live entity.
StartMove(h, e, u, to) ==
    /\ row[e].life = "live"
    /\ Begin(h, "move", [ReadOf(e) EXCEPT !.pc = "gate", !.actor = u, !.to = to])
    /\ UNCHANGED <<entityVars, configVars, approvalVars, edits>>

\* The /workflow-state routes: the target is a live state of the space's
\* workflow (targetStateInSpace), and its name is what the gate is asked.
StartStateMove(h, e, u, s) ==
    /\ row[e].life = "live"
    /\ wf /\ states[s] = "live"
    /\ Begin(h, "stateMove",
             [ReadOf(e) EXCEPT !.pc = "gate", !.actor = u, !.to = StateName[s]])
    /\ UNCHANGED <<entityVars, configVars, approvalVars, edits>>

\* Mutant: the edge is looked up by where it ends.
EdgesInto(s, d) == {t \in LiveEdges : EdgeTo[t] = d}

\* The live edges between two states: at most one, by the unique index.
EdgesBetween(s, d) == {t \in LiveEdges : EdgeFrom[t] = s /\ EdgeTo[t] = d}

\* Gate.Evaluate and TierService.resolveMove: no workflow hands the request
\* to the caller's own rule; a state asked of itself is applied ungated; a
\* current or target state that does not resolve, or a missing edge, refuses.
ResolveMove(h) ==
    /\ req[h].pc = "gate"
    /\ LET r == req[h]
           from == ResolveFromState(LiveStates, r.status, r.stateId)
           to == Some(ByName(LiveStates, r.to))
       IN  \/ /\ ~wf
              /\ Goto(h, "legacy")
           \/ /\ wf /\ from # Nil /\ to = from
              /\ req' = [req EXCEPT ![h].pc = "apply", ![h].toState = to]
           \/ /\ wf /\ from # Nil /\ to # Nil /\ to # from
              /\ \E t \in EdgesBetween(from, to) :
                   req' = [req EXCEPT ![h].pc = "guards", ![h].edge = t,
                                      ![h].toState = to]
           \/ /\ wf
              /\ \/ from = Nil
                 \/ to = Nil
                 \/ to # from /\ EdgesBetween(from, to) = {}
              /\ Answer(h)
    /\ UNCHANGED <<entityVars, configVars, approvalVars, boundVars>>

\* Mutant: conditions only hide an edge from the picker.
EvaluateValidatorsOnly(h) ==
    /\ req[h].pc = "guards"
    /\ LET r == req[h]
       IN  IF Evaluate(guards[r.edge], "validator", r.actor, Teams(r.actor), r)
           THEN Goto(h, "approvers")
           ELSE Answer(h)
    /\ UNCHANGED <<entityVars, configVars, approvalVars, boundVars>>

\* evaluateTiers, the guards: conditions, then validators. The actor's teams
\* are read now; the entity snapshot is the one read when the request began.
EvaluateGuards(h) ==
    /\ req[h].pc = "guards"
    /\ LET r == req[h]
           Passes(class) == Evaluate(guards[r.edge], class, r.actor, Teams(r.actor), r)
       IN  IF Passes("condition") /\ Passes("validator")
           THEN Goto(h, "approvers")
           ELSE Answer(h)
    /\ UNCHANGED <<entityVars, configVars, approvalVars, boundVars>>

\* TierService.OfferedTransitions, the read-only picker: the edges that leave
\* the state the entity is placed in and whose conditions the user meets.
Offered(e, u) ==
    LET from == ResolveFromState(LiveStates, row[e].status, row[e].stateId)
    IN  {t \in LiveEdges : /\ wf
                           /\ EdgeFrom[t] = from
                           /\ Evaluate(guards[t], "condition", u, Teams(u), row[e])}

\* The picker of an entity's page, which asks of the row as it is then.
ListAvailableTransitions(e, u) == IF row[e].life = "live" THEN Offered(e, u) ELSE {}

\* evaluateTiers, the approvers: a gated edge asks, any other one goes on.
LoadApprovers(h) ==
    /\ req[h].pc = "approvers"
    /\ Goto(h, IF RequiresApproval(approvers[req[h].edge]) THEN "request" ELSE "plan")
    /\ UNCHANGED <<entityVars, configVars, approvalVars, boundVars>>

\* requestApproval's INSERT. The partial unique index refuses a second
\* pending request of the entity, whichever edge it asks for; the foreign
\* keys refuse an edge that has been deleted since it was resolved.
RequestApproval(h) ==
    /\ req[h].pc = "request"
    /\ LET r == req[h]
       IN  \/ /\ Pending(r.e) # {}
              /\ Goto(h, "existing")
              /\ UNCHANGED approvals
           \/ /\ Pending(r.e) = {}
              /\ edges[r.edge] = "live"
              /\ \E a \in ApprovalId :
                   /\ approvals[a].st = "none"
                   /\ approvals' = [approvals EXCEPT ![a] =
                        [st |-> "pending", e |-> r.e, edge |-> r.edge,
                         from |-> r.status, to |-> r.to,
                         toState |-> EdgeTo[r.edge],
                         by |-> r.actor, decidedBy |-> Nil]]
                   /\ req' = [req EXCEPT ![h].pc = "notify", ![h].ap = a]
           \/ /\ Pending(r.e) = {}
              /\ edges[r.edge] # "live"
              /\ Answer(h)
              /\ UNCHANGED approvals
    /\ UNCHANGED <<entityVars, configVars, boundVars, notices>>

\* PendingApprovalForEntity: the request that is already outstanding is the
\* answer, or an error when it has been decided in between; nobody is told.
ReadExisting(h) ==
    /\ req[h].pc = "existing"
    /\ Answer(h)
    /\ UNCHANGED <<entityVars, configVars, approvalVars, boundVars>>

\* Mutant: the requester is told too when he is an approver.
NotifyEveryApprover(h) ==
    /\ req[h].pc = "notify"
    /\ LET r == req[h]
       IN  notices' = notices \cup
              {[ap |-> r.ap, user |-> u, kind |-> "requested"] :
                  u \in ApproverRecipients(approvers[r.edge], members)}
    /\ Answer(h)
    /\ UNCHANGED <<entityVars, configVars, boundVars, approvals>>

\* notifyApprovers: everyone who may decide, but not the requester. Each
\* enqueue is best effort, so any subset of them may land.
NotifyApprovers(h) ==
    /\ req[h].pc = "notify"
    /\ LET r == req[h]
           told == ApproverRecipients(approvers[r.edge], members) \ {r.actor}
       IN  \E landed \in SUBSET told :
             notices' = notices \cup
                {[ap |-> r.ap, user |-> u, kind |-> "requested"] : u \in landed}
    /\ Answer(h)
    /\ UNCHANGED <<entityVars, configVars, boundVars, approvals>>

\* planEffects: one post-function this build cannot perform aborts the move,
\* and the verdict that would have released it.
PlanEffects(h) ==
    /\ req[h].pc = "plan"
    /\ LET r == req[h]
       IN  IF Plannable(postFns[r.edge])
           THEN req' = [req EXCEPT ![h].pc = IF r.ap = Nil THEN "apply" ELSE "verdict",
                                   ![h].effects = postFns[r.edge]]
           ELSE Answer(h)
    /\ UNCHANGED <<entityVars, configVars, approvalVars, boundVars>>

-----------------------------------------------------------------------------
(* The transaction that writes a move.                                     *)

\* Mutant: the UPDATE names the row by id alone.
LandsUnswapped(r) ==
    /\ row[r.e].life = "live"
    /\ r.toState \in OrNil(LiveStates)

\* Mutant: workflow_state_id carries no foreign key.
LandsInAnyState(r) ==
    /\ row[r.e].life = "live"
    /\ row[r.e].status = r.status

\* writeStatus matches a row: the compare-and-swap on the status text, and
\* the foreign key on workflow_state_id.
Lands(r) ==
    /\ row[r.e].life = "live"
    /\ row[r.e].status = r.status
    /\ r.toState \in OrNil(LiveStates)

\* writeStatus, writeEffects and writeTransitionAuditTx, committed together.
CommitMove(r) ==
    /\ row' = [row EXCEPT
                 ![r.e].status = r.to,
                 ![r.e].stateId = r.toState,
                 ![r.e].resolved = (r.toState \in DoneState),
                 ![r.e].assignee = FoldAssignee(r.effects, @),
                 ![r.e].due = FoldDue(r.effects, @)]
    /\ audit' = Append(audit, [e |-> r.e, from |-> r.status, to |-> r.to,
                               edge |-> r.edge, ap |-> r.ap, path |-> "workflow"])

\* Mutant: the post-functions run outside the transaction of the move.
ApplyEffectsAnyway(h) ==
    /\ req[h].pc = "apply"
    /\ LET r == req[h]
       IN  \/ Lands(r) /\ CommitMove(r)
           \/ /\ ~Lands(r)
              /\ row' = [row EXCEPT ![r.e].assignee = FoldAssignee(r.effects, @),
                                    ![r.e].due = FoldDue(r.effects, @)]
              /\ UNCHANGED audit
    /\ Answer(h)
    /\ UNCHANGED <<configVars, approvalVars, boundVars>>

\* Mutant: a miss is retried with the status read when the request began.
ApplyUntilItLands(h) ==
    /\ req[h].pc = "apply"
    /\ \/ Lands(req[h]) /\ CommitMove(req[h]) /\ Answer(h)
       \/ ~Lands(req[h]) /\ UNCHANGED <<entityVars, req>>
    /\ UNCHANGED <<configVars, approvalVars, boundVars>>

\* ApplyTransition: a miss rolls everything back and answers a conflict.
ApplyTransition(h) ==
    /\ req[h].pc = "apply"
    /\ \/ Lands(req[h]) /\ CommitMove(req[h])
       \/ ~Lands(req[h]) /\ UNCHANGED entityVars
    /\ Answer(h)
    /\ UNCHANGED <<configVars, approvalVars, boundVars>>

-----------------------------------------------------------------------------
(* The same routes in a space with no workflow.                            *)

\* tickets: the handler checks the move against the status it read, and
\* TicketService.TransitionStatus reads the row again and checks once more.
\* Project items have no rule at all.
LegacyCheck(h) ==
    /\ req[h].pc = "legacy"
    /\ LET r == req[h]
       IN  IF r.e \in Ticket =>
                /\ ValidateTransition(r.status, r.to)
                /\ row[r.e].life = "live"
                /\ ValidateTransition(row[r.e].status, r.to)
           THEN Goto(h, "legacyWrite")
           ELSE Answer(h)
    /\ UNCHANGED <<entityVars, configVars, approvalVars, boundVars>>

\* UpdateTicketStatus and UpdateProjectItemStatus: one UPDATE by id alone.
LegacyWrite(h) ==
    /\ req[h].pc = "legacyWrite"
    /\ LET r == req[h]
       IN  \/ /\ row[r.e].life = "live"
              /\ row' = [row EXCEPT ![r.e].status = r.to,
                                    ![r.e].resolved = (r.to \in DoneStatus)]
              /\ Goto(h, "legacyAudit")
           \/ /\ row[r.e].life # "live"
              /\ Answer(h)
              /\ UNCHANGED row
    /\ UNCHANGED <<audit, configVars, approvalVars, boundVars>>

\* The audit row of that path, after the write and best effort: its `from'
\* is the status the handler read when the request began.
LegacyAudit(h) ==
    /\ req[h].pc = "legacyAudit"
    /\ LET r == req[h]
       IN  \/ audit' = Append(audit, [e |-> r.e, from |-> r.status, to |-> r.to,
                                      edge |-> Nil, ap |-> Nil, path |-> "legacy"])
           \/ UNCHANGED audit
    /\ Answer(h)
    /\ UNCHANGED <<row, configVars, approvalVars, boundVars>>

-----------------------------------------------------------------------------
(* Deciding an approval.                                                   *)

\* GetApprovalInSpace: an approval that is decided, or whose edge has been
\* deleted, cannot be decided; any other is carried as it is now.
StartDecide(h, a, u, verdict) ==
    /\ approvals[a].st = "pending"
    /\ approvals[a].edge # Nil
    /\ Begin(h, "decide",
             [Idle EXCEPT !.pc = "authority", !.actor = u, !.verdict = verdict,
                          !.ap = a, !.e = approvals[a].e, !.edge = approvals[a].edge,
                          !.status = approvals[a].from, !.to = approvals[a].to,
                          !.toState = approvals[a].toState])
    /\ UNCHANGED <<entityVars, configVars, approvalVars, edits>>

\* The approvals a space and an entity list; an entity's keep their verdicts.
ListPendingApprovalsForSpace == {a \in ApprovalId : approvals[a].st = "pending"}
ListApprovalsForEntity(e) == {a \in ApprovalId : approvals[a].st # "none" /\ approvals[a].e = e}

\* MarkDecidable: those of the list that u gets the buttons on. A request
\* whose edge is gone has no approvers left to be one of.
MarkDecidable(listed, u) ==
    {a \in listed : /\ approvals[a].edge # Nil
                    /\ CanDecide(approvers[approvals[a].edge], u, Teams(u))}

ListPendingApprovals(u) == MarkDecidable(ListPendingApprovalsForSpace, u)
ListEntityApprovals(e, u) == MarkDecidable(ListApprovalsForEntity(e), u)

checkDecideAuthority(r) == CanDecide(approvers[r.edge], r.actor, Teams(r.actor))

\* TierService.Decide, outside the deciding transaction: the authority, then
\* the plan. A decline plans no post-functions and goes straight to the
\* verdict.
CheckAuthority(h) ==
    /\ req[h].pc = "authority"
    /\ LET r == req[h]
       IN  IF checkDecideAuthority(r)
           THEN Goto(h, IF r.verdict = "approved" THEN "plan" ELSE "verdict")
           ELSE Answer(h)
    /\ UNCHANGED <<entityVars, configVars, approvalVars, boundVars>>

\* Mutant: the UPDATE that records a verdict does not ask for `pending'.
DecidesAgain(r) == r.verdict = "approved" => Lands(r)

\* workflow_approvals is updated where it is still pending, and an approval
\* stands only if the move it releases lands.
Decides(r) ==
    /\ approvals[r.ap].st = "pending"
    /\ r.verdict = "approved" => Lands(r)

\* Mutant: the verdict is committed before the move is attempted.
DecideThenApply(h) ==
    /\ req[h].pc = "verdict"
    /\ LET r == req[h]
       IN  \/ /\ approvals[r.ap].st = "pending"
              /\ approvals' = [approvals EXCEPT ![r.ap].st = r.verdict,
                                                ![r.ap].decidedBy = r.actor]
              /\ IF r.verdict = "approved" /\ Lands(r)
                 THEN CommitMove(r)
                 ELSE UNCHANGED entityVars
              /\ Goto(h, "notifyVerdict")
           \/ /\ approvals[r.ap].st # "pending"
              /\ Answer(h)
              /\ UNCHANGED <<approvals, entityVars>>
    /\ UNCHANGED <<configVars, boundVars, notices>>

\* DecideAndApply: the verdict and the move it releases, in one transaction.
\* Somebody decided first, or the move cannot land: nothing is written.
DecideAndApply(h) ==
    /\ req[h].pc = "verdict"
    /\ LET r == req[h]
       IN  \/ /\ Decides(r)
              /\ approvals' = [approvals EXCEPT ![r.ap].st = r.verdict,
                                                ![r.ap].decidedBy = r.actor]
              /\ \/ r.verdict = "approved" /\ CommitMove(r)
                 \/ r.verdict = "declined" /\ UNCHANGED entityVars
              /\ Goto(h, "notifyVerdict")
           \/ /\ ~Decides(r)
              /\ Answer(h)
              /\ UNCHANGED <<approvals, entityVars>>
    /\ UNCHANGED <<configVars, boundVars, notices>>

\* notifyDecision: the requester is told, best effort.
NotifyVerdict(h) ==
    /\ req[h].pc = "notifyVerdict"
    /\ LET a == req[h].ap
       IN  \/ notices' = notices \cup
                {[ap |-> a, user |-> approvals[a].by, kind |-> "decided"]}
           \/ UNCHANGED notices
    /\ Answer(h)
    /\ UNCHANGED <<entityVars, configVars, boundVars, approvals>>

-----------------------------------------------------------------------------
(* Editing, creating and deleting an entity.                               *)

\* PATCH of a ticket or an item, assign and unassign, and RankItemRelative on
\* every item of the backlog: the row is read, some of its fields are replaced
\* in memory ...
StartRewrite(h, e, assignee, due) ==
    /\ row[e].life = "live"
    /\ Begin(h, "rewrite", [ReadOf(e) EXCEPT !.pc = "rewrite",
                                             !.assignee = assignee, !.due = due])
    /\ UNCHANGED <<entityVars, configVars, approvalVars, edits>>

\* ... and UpdateTicket or UpdateProjectItem writes the whole row back by
\* id: the status and the other fields as they were read, but neither
\* workflow_state_id nor resolved_at.
WriteRow(h) ==
    /\ req[h].pc = "rewrite"
    /\ LET r == req[h]
       IN  \/ /\ row[r.e].life = "live"
              /\ row' = [row EXCEPT ![r.e].status = r.status,
                                    ![r.e].assignee = r.assignee,
                                    ![r.e].due = r.due]
           \/ /\ row[r.e].life # "live"
              /\ UNCHANGED row
    /\ Answer(h)
    /\ UNCHANGED <<audit, configVars, approvalVars, boundVars>>

\* Create reads InitialPosition: the workflow's initial state, or `open' and
\* no state id when the space has no workflow or the workflow no start ...
StartCreate(h, e) ==
    /\ row[e].life = "unborn"
    /\ \A g \in Handler : req[g].pc = "insert" => req[g].e # e
    /\ LET s == IF wf THEN Some(LiveStates \cap Initial) ELSE Nil
       IN  Begin(h, "create",
                 [Idle EXCEPT !.pc = "insert", !.e = e, !.stateId = s,
                    !.status = IF s = Nil THEN OpenStatus ELSE StateName[s]])
    /\ UNCHANGED <<entityVars, configVars, approvalVars, edits>>

\* ... and inserts the row, unless the state has been deleted meanwhile.
InsertRow(h) ==
    /\ req[h].pc = "insert"
    /\ LET r == req[h]
       IN  \/ /\ r.stateId \in OrNil(LiveStates)
              /\ row' = [row EXCEPT ![r.e] =
                           [life |-> "live", status |-> r.status, stateId |-> r.stateId,
                            assignee |-> Nil, due |-> FALSE, resolved |-> FALSE]]
           \/ /\ r.stateId \notin OrNil(LiveStates)
              /\ UNCHANGED row
    /\ Answer(h)
    /\ UNCHANGED <<audit, configVars, approvalVars, boundVars>>

\* The soft delete: the row, its status and its state id stay.
DeleteEntity(e) ==
    /\ "delete" \in Ops
    /\ edits < MaxEdits /\ edits' = edits + 1
    /\ row[e].life = "live"
    /\ row' = [row EXCEPT ![e].life = "gone"]
    /\ UNCHANGED <<audit, configVars, approvalVars, req, started>>

-----------------------------------------------------------------------------
(* The administrator's edits of the workflow.                              *)

Edit(op) ==
    /\ op \in Ops
    /\ edits < MaxEdits
    /\ edits' = edits + 1
    /\ UNCHANGED <<entityVars, req, started, notices>>

\* The tail of creating the space: AssignDefaultWorkflowToSpace.
AssignWorkflow ==
    /\ Edit("assignWorkflow")
    /\ ~wf
    /\ wf' = TRUE
    /\ UNCHANGED <<states, edges, guards, approvers, postFns, teams, members, opened, approvals>>

\* Names are unique in a workflow, and at most one state is initial.
CreateState(s) ==
    /\ Edit("createState")
    /\ states[s] = "unborn"
    /\ ByName(LiveStates, StateName[s]) = {}
    /\ s \in Initial => LiveStates \cap Initial = {}
    /\ states' = [states EXCEPT ![s] = "live"]
    /\ UNCHANGED <<wf, edges, guards, approvers, postFns, teams, members, opened, approvals>>

\* Deleting edges takes their guards, approvers and post-functions along and
\* leaves NULL in the approvals that asked for them, decided or pending.
DropEdges(T) ==
    /\ edges' = [t \in EdgeId |-> IF t \in T THEN "gone" ELSE edges[t]]
    /\ guards' = [t \in EdgeId |-> IF t \in T THEN {} ELSE guards[t]]
    /\ approvers' = [t \in EdgeId |-> IF t \in T THEN {} ELSE approvers[t]]
    /\ postFns' = [t \in EdgeId |-> IF t \in T THEN <<>> ELSE postFns[t]]

\* The foreign key refuses a state some row, deleted ones too, still holds.
DeleteState(s) ==
    /\ Edit("deleteState")
    /\ states[s] = "live"
    /\ \A e \in Entity : row[e].life # "unborn" => row[e].stateId # s
    /\ states' = [states EXCEPT ![s] = "gone"]
    /\ LET T == {t \in LiveEdges : s \in {EdgeFrom[t], EdgeTo[t]}}
       IN  /\ DropEdges(T)
           /\ approvals' = [a \in ApprovalId |->
                 [approvals[a] EXCEPT
                    !.edge = IF @ \in T THEN Nil ELSE @,
                    !.toState = IF @ = s THEN Nil ELSE @]]
    /\ UNCHANGED <<wf, teams, members, opened>>

CreateTransition(t) ==
    /\ Edit("createTransition")
    /\ edges[t] = "unborn"
    /\ {EdgeFrom[t], EdgeTo[t]} \subseteq LiveStates
    /\ EdgesBetween(EdgeFrom[t], EdgeTo[t]) = {}
    /\ edges' = [edges EXCEPT ![t] = "live"]
    /\ opened' = opened \cup {t}
    /\ UNCHANGED <<wf, states, guards, approvers, postFns, teams, members, approvals>>

DeleteTransition(t) ==
    /\ Edit("deleteTransition")
    /\ edges[t] = "live"
    /\ DropEdges({t})
    /\ approvals' = [a \in ApprovalId |->
                       [approvals[a] EXCEPT !.edge = IF @ = t THEN Nil ELSE @]]
    /\ UNCHANGED <<wf, states, teams, members, opened>>

\* A second identical guard changes no decision and is left out; the team
\* may be a deleted one, for the foreign key sees the row of a soft delete.
CreateGuard(t, g) ==
    /\ Edit("createGuard")
    /\ edges[t] = "live"
    /\ ValidGuard(g)
    /\ g \notin guards[t]
    /\ guards' = [guards EXCEPT ![t] = @ \cup {g}]
    /\ UNCHANGED <<wf, states, edges, approvers, postFns, teams, members, opened, approvals>>

DeleteGuard(t, g) ==
    /\ Edit("deleteGuard")
    /\ g \in guards[t]
    /\ guards' = [guards EXCEPT ![t] = @ \ {g}]
    /\ UNCHANGED <<wf, states, edges, approvers, postFns, teams, members, opened, approvals>>

CreateApprover(t, s) ==
    /\ Edit("createApprover")
    /\ edges[t] = "live"
    /\ s \in User \cup teams
    /\ s \notin approvers[t]
    /\ approvers' = [approvers EXCEPT ![t] = @ \cup {s}]
    /\ UNCHANGED <<wf, states, edges, guards, postFns, teams, members, opened, approvals>>

DeleteApprover(t, s) ==
    /\ Edit("deleteApprover")
    /\ s \in approvers[t]
    /\ approvers' = [approvers EXCEPT ![t] = @ \ {s}]
    /\ opened' = IF approvers[t] = {s} THEN opened \cup {t} ELSE opened
    /\ UNCHANGED <<wf, states, edges, guards, postFns, teams, members, approvals>>

CreatePostFunction(t, f) ==
    /\ Edit("createPostFunction")
    /\ f.kind # "unsupported"
    /\ edges[t] = "live"
    /\ postFns' = [postFns EXCEPT ![t] = Append(@, f)]
    /\ UNCHANGED <<wf, states, edges, guards, approvers, teams, members, opened, approvals>>

DeletePostFunction(t) ==
    /\ Edit("deletePostFunction")
    /\ \E i \in DOMAIN postFns[t] :
         postFns' = [postFns EXCEPT ![t] =
                       SubSeq(@, 1, i - 1) \o SubSeq(@, i + 1, Len(@))]
    /\ UNCHANGED <<wf, states, edges, guards, approvers, teams, members, opened, approvals>>

\* TeamAdapter.AddMember and RemoveMember, from the teams page.
ChangeMembership(t, u) ==
    /\ Edit("changeMembership")
    /\ t \in teams
    /\ members' = [members EXCEPT ![t] = IF u \in @ THEN @ \ {u} ELSE @ \cup {u}]
    /\ UNCHANGED <<wf, states, edges, guards, approvers, postFns, teams, opened, approvals>>

\* TeamAdapter.Delete, from the teams page: a soft delete of a leaf team that
\* removes its memberships. Guards and approver rows keep the dangling id.
DeleteTeam(t) ==
    /\ Edit("deleteTeam")
    /\ t \in teams
    /\ teams' = teams \ {t}
    /\ members' = [members EXCEPT ![t] = {}]
    /\ UNCHANGED <<wf, states, edges, guards, approvers, postFns, opened, approvals>>

-----------------------------------------------------------------------------

\* No request is being served: the server may stay so for ever. A step that
\* is missing here is a handler that can get stuck half way.
Quiet ==
    /\ \A h \in Handler : req[h].pc = "idle"
    /\ UNCHANGED vars

HandlerStep(h) ==
    \/ ResolveMove(h)
    \/ EvaluateGuards(h)
    \/ LoadApprovers(h)
    \/ RequestApproval(h)
    \/ ReadExisting(h)
    \/ NotifyApprovers(h)
    \/ PlanEffects(h)
    \/ ApplyTransition(h)
    \/ LegacyCheck(h)
    \/ LegacyWrite(h)
    \/ LegacyAudit(h)
    \/ CheckAuthority(h)
    \/ DecideAndApply(h)
    \/ NotifyVerdict(h)
    \/ WriteRow(h)
    \/ InsertRow(h)

StartStep(h) ==
    \/ \E e \in Entity, u \in User, to \in Status : StartMove(h, e, u, to)
    \/ \E e \in Entity, u \in User, s \in StateId : StartStateMove(h, e, u, s)
    \/ \E a \in ApprovalId, u \in User, v \in Verdict : StartDecide(h, a, u, v)
    \/ \E e \in Entity, u \in OrNil(User), d \in BOOLEAN : StartRewrite(h, e, u, d)
    \/ \E e \in Entity : StartCreate(h, e)

AdminStep ==
    \/ AssignWorkflow
    \/ \E e \in Entity : DeleteEntity(e)
    \/ \E s \in StateId : CreateState(s) \/ DeleteState(s)
    \/ \E t \in EdgeId : CreateTransition(t) \/ DeleteTransition(t)
    \/ \E t \in EdgeId, g \in Guard : CreateGuard(t, g) \/ DeleteGuard(t, g)
    \/ \E t \in EdgeId, s \in Subject : CreateApprover(t, s) \/ DeleteApprover(t, s)
    \/ \E t \in EdgeId, f \in PostFunction : CreatePostFunction(t, f)
    \/ \E t \in EdgeId : DeletePostFunction(t)
    \/ \E t \in Team, u \in User : ChangeMembership(t, u)
    \/ \E t \in Team : DeleteTeam(t)

Next ==
    \/ \E h \in Handler : HandlerStep(h) \/ StartStep(h)
    \/ AdminStep
    \/ Quiet

\* A handler that has started runs to its answer: nothing in it waits for
\* another request, and the server neither retries nor abandons it.
Fairness == \A h \in Handler : WF_vars(HandlerStep(h))

Spec == Init /\ [][Next]_vars
FairSpec == Spec /\ Fairness
=============================================================================
