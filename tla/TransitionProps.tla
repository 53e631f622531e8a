--------------------------- MODULE TransitionProps ---------------------------
(***************************************************************************)
(* What is claimed of Transitions.  Properties that need every writer of a *)
(* status to go through the engine are checked where no client rewrites a  *)
(* row and the space has its workflow; the README says which run is which. *)
(***************************************************************************)
EXTENDS Transitions

AuditRows(a) == {i \in DOMAIN audit : audit[i].ap = a}

\* Migration 047's partial unique index: an entity has at most one request
\* awaiting a decision, however many people press the guarded button at once.
OnePendingPerEntity ==
    \A a, b \in ApprovalId :
        /\ approvals[a].st = "pending"
        /\ approvals[b].st = "pending"
        /\ approvals[a].e = approvals[b].e
        => a = b

\* DecideAndApply is one transaction (D91): an approval is approved exactly
\* when the move it was asked for is in the audit log, once, from the status
\* it captured to the status it captured, with somebody's name on it.
ApprovedIffMoved ==
    \A a \in ApprovalId :
        IF approvals[a].st = "approved"
        THEN \E i \in AuditRows(a) :
                /\ AuditRows(a) = {i}
                /\ audit[i].e = approvals[a].e
                /\ audit[i].from = approvals[a].from
                /\ audit[i].to = approvals[a].to
                /\ approvals[a].decidedBy # Nil
        ELSE AuditRows(a) = {}

\* The columns that record a position agree (D71): the state an entity holds
\* exists and its name is the status text, which keeps a state from being
\* deleted under the entities whose status it names; and resolved_at is set
\* only while the status is one a done state names, through every
\* interleaving of moves into done and reopens.
PositionInStep ==
    \A e \in Entity :
        /\ row[e].life # "unborn" /\ row[e].stateId # Nil =>
              /\ states[row[e].stateId] = "live"
              /\ row[e].status = StateName[row[e].stateId]
        /\ row[e].resolved => \E s \in DoneState : StateName[s] = row[e].status

\* A move follows an edge of the machine, in both the direct and the
\* approved path: its target is where the edge ends and the status it left
\* is where the edge starts; without an edge it changed nothing.
MovesFollowEdges ==
    \A i \in DOMAIN audit :
        audit[i].path = "workflow" =>
            IF audit[i].edge = Nil
            THEN audit[i].from = audit[i].to
            ELSE /\ audit[i].from = StateName[EdgeFrom[audit[i].edge]]
                 /\ audit[i].to = StateName[EdgeTo[audit[i].edge]]

\* An edge that has had an approver at every moment of its life is never
\* traversed but by an approval: no interleaving of gate, approver edits and
\* applies lets a direct move through it.
GatedMovesWereApproved ==
    \A i \in DOMAIN audit :
        /\ audit[i].path = "workflow"
        /\ audit[i].edge # Nil
        /\ audit[i].edge \notin opened
        => audit[i].ap # Nil

\* The decision of an approval never changes, and neither does what it was a
\* decision about: two approvers cannot both decide it, in either order.
DecisionIsFinal ==
    [][\A a \in ApprovalId :
         /\ approvals[a].st \in Verdict =>
              /\ approvals'[a].st = approvals[a].st
              /\ approvals'[a].decidedBy = approvals[a].decidedBy
         /\ approvals[a].st # "none" =>
              /\ approvals'[a].from = approvals[a].from
              /\ approvals'[a].to = approvals[a].to
              /\ approvals'[a].e = approvals[a].e]_vars

\* Post-functions land with the move that caused them or not at all: a
\* handler that is not rewriting the row changes the assignee or the due
\* date only in the step that also writes a status and its audit row.
EffectsRideTheMove ==
    [][\A e \in Entity :
         /\ <<row'[e].assignee, row'[e].due>> # <<row[e].assignee, row[e].due>>
         /\ row[e].life = "live"
         => \/ \E h \in Handler : req[h].pc = "rewrite" /\ req[h].e = e
                                  /\ req'[h].pc = "idle"
            \/ /\ Len(audit') = Len(audit) + 1
               /\ audit'[Len(audit')].e = e
               /\ audit'[Len(audit')].edge # Nil]_vars

\* A requester is told of a verdict only when there is one, and an approver
\* is never told to wait on himself; the notices of the two handlers and the
\* decision race freely.
NoticesAreTrue ==
    \A n \in notices :
        /\ n.kind = "decided" =>
             approvals[n.ap].st \in Verdict /\ n.user = approvals[n.ap].by
        /\ n.kind = "requested" =>
             approvals[n.ap].st # "none" /\ n.user # approvals[n.ap].by

\* What handler h has read of its entity is still so.
Fresh(h) ==
    LET r == req[h]
    IN  r.e # Nil /\ row[r.e].life = "live" /\ ReadOf(r.e) =
          [Idle EXCEPT !.e = r.e, !.status = r.status, !.stateId = r.stateId,
                       !.assignee = r.assignee, !.due = r.due]

\* The pages and the mutation routes agree, in both directions: a move that
\* is offered is put to the guards of the edge it was offered for, and a
\* move the guards let through is one the picker would have offered; a
\* verdict is let through exactly from one whose page has the buttons for it,
\* and whoever is asked to decide finds them on the space's list, as long as
\* nobody has decided first.
OffersMatchTheGate ==
    [][/\ \A h \in Handler :
           /\ Fresh(h) /\ req[h].pc = "gate" /\ req'[h].pc # "gate" =>
                \A t \in ListAvailableTransitions(req[h].e, req[h].actor) :
                    StateName[EdgeTo[t]] = req[h].to =>
                        req'[h].pc = "guards" /\ req'[h].edge = t
           /\ Fresh(h) /\ req[h].pc = "guards" /\ req'[h].pc = "approvers"
              /\ edges[req[h].edge] = "live" =>
                req[h].edge \in ListAvailableTransitions(req[h].e, req[h].actor)
           /\ req[h].pc = "authority" /\ req'[h].pc # "authority" =>
                (req'[h].pc # "idle" <=> req[h].ap \in ListEntityApprovals(req[h].e, req[h].actor))
       /\ \A n \in notices' \ notices :
           n.kind = "requested" /\ approvals[n.ap].st = "pending" =>
               n.ap \in ListPendingApprovals(n.user)]_vars

\* Statuses behave as the abstract ledger says.
Ledger == INSTANCE StatusLedger WITH
    Thing <- Entity, Text <- Status, Grant <- ApprovalId, NoGrant <- Nil,
    exists <- {e \in Entity : row[e].life # "unborn"},
    status <- [e \in Entity |-> row[e].status],
    ledger <- [i \in DOMAIN audit |->
                 [e |-> audit[i].e, from |-> audit[i].from,
                  to |-> audit[i].to, grant |-> audit[i].ap]],
    spent <- {a \in ApprovalId : approvals[a].st = "approved"}

LedgerRefined == Ledger!LedgerSpec

\* Every request is answered: under fair scheduling of the handlers none of
\* them waits for another, whatever the others and the administrator do.
EveryRequestAnswered ==
    \A h \in Handler : (req[h].pc # "idle") ~> (req[h].pc = "idle")
===============================================================================
