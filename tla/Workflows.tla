------------------------------ MODULE Workflows ------------------------------
(***************************************************************************)
(* The administration of workflows across organizations:                   *)
(* internal/core/api/workflows (handler.go, tiers.go) with                 *)
(* internal/db/adapters (workflows.go, workflow_tiers.go).  A request      *)
(* names an organization, a workflow and rows of it by their ids; it is    *)
(* the administrator's of that organization, and the ids may be anyone's.  *)
(*                                                                         *)
(* What a move along the edges does is the module Transitions; the states  *)
(* that rows are in are fixed here.  The colours, categories, positions    *)
(* and names of the rows are left out.                                     *)
(***************************************************************************)
EXTENDS Spaces

CONSTANTS Workflow, WfState, WfEdge, TierRow,
          AppliesTo   \* what a space asks of the catalogue: the kind of its module, "none" for a wiki

VARIABLES flow,     \* workflows
          wstate,   \* workflow_states
          wedge,    \* workflow_transitions
          tier,     \* guards, post-functions and approvers of transitions
          assigned  \* spaces.workflow_id

workflowVars == <<flow, wstate, wedge, tier, assigned>>

NoFlow == [st |-> "none", o |-> Nil, name |-> Nil, default |-> FALSE, kind |-> Nil]
NoState == [st |-> "none", w |-> Nil, init |-> FALSE]
NoEdge == [st |-> "none", w |-> Nil, from |-> Nil, to |-> Nil]
NoTier == [st |-> "none", e |-> Nil, table |-> Nil, s |-> Nil]

(* The foreign keys and unique indexes hold of the rows there are at first. *)
ASSUME CastGraphsAreWhole ==
  /\ Nil \notin Workflow
  /\ \A m \in DOMAIN Casts :
       LET c == Casts[m] IN
       /\ \A w \in DOMAIN c.flows : DOMAIN c.flows[w] = DOMAIN NoFlow /\ c.flows[w].st = "live"
       /\ \A s \in DOMAIN c.states : /\ DOMAIN c.states[s] = DOMAIN NoState /\ c.states[s].st = "live"
                                     /\ c.states[s].w \in Workflow \cap DOMAIN c.flows
       /\ \A s, t \in DOMAIN c.states : c.states[s].w = c.states[t].w /\ c.states[s].init /\ c.states[t].init => s = t
       /\ \A e \in DOMAIN c.edges : /\ DOMAIN c.edges[e] = DOMAIN NoEdge /\ c.edges[e].st = "live"
                                    /\ \A s \in {c.edges[e].from, c.edges[e].to} :
                                         s \in WfState \cap DOMAIN c.states /\ c.states[s].w = c.edges[e].w
       /\ \A t \in DOMAIN c.tiers : /\ DOMAIN c.tiers[t] = DOMAIN NoTier /\ c.tiers[t].st = "live"
                                    /\ c.tiers[t].e \in WfEdge \cap DOMAIN c.edges
       /\ \A sp \in DOMAIN c.assigned : /\ c.assigned[sp] \in Workflow \cap DOMAIN c.flows
                                        /\ c.flows[c.assigned[sp]].o = SpaceOrg[sp]
       /\ \A sp \in Space : /\ c.space[sp].wf <=> sp \in DOMAIN c.assigned
                            /\ c.space[sp].st = "absent" => sp \notin DOMAIN c.assigned

WorkflowInit ==
  /\ flow = [w \in Workflow |-> IF w \in DOMAIN Cast.flows THEN Cast.flows[w] ELSE NoFlow]
  /\ wstate = [s \in WfState |-> IF s \in DOMAIN Cast.states THEN Cast.states[s] ELSE NoState]
  /\ wedge = [e \in WfEdge |-> IF e \in DOMAIN Cast.edges THEN Cast.edges[e] ELSE NoEdge]
  /\ tier = [t \in TierRow |-> IF t \in DOMAIN Cast.tiers THEN Cast.tiers[t] ELSE NoTier]
  /\ assigned = [sp \in Space |-> IF sp \in DOMAIN Cast.assigned THEN Cast.assigned[sp] ELSE Nil]

Gone(none) == [none EXCEPT !.st = "deleted"]
FlowLive(w)  == flow[w].st = "live"
StateLive(s) == wstate[s].st = "live"
EdgeLive(e)  == wedge[e].st = "live"
TierLive(t)  == tier[t].st = "live"

-----------------------------------------------------------------------------
(* Reading *)

ListStates(w)      == {s \in WfState : StateLive(s) /\ wstate[s].w = w}
ListTransitions(w) == {e \in WfEdge : EdgeLive(e) /\ wedge[e].w = w}
ListAvailableTransitions(w, s) == {e \in ListTransitions(w) : wedge[e].from = s}

TierRows(table, e) == {t \in TierRow : TierLive(t) /\ tier[t].table = table /\ tier[t].e = e}
ListGuards(e)        == TierRows("guard", e)
ListPostFunctions(e) == TierRows("postfn", e)
ListApprovers(e)     == TierRows("approver", e)

ValidateSubjectInOrg(o, s) == IF s \in Team THEN TeamLive(s) /\ TeamOrg[s] = o ELSE Member(o, s) /\ Live(s)

FlowInAnyOrg(o, w) == FlowLive(w)   \* mutant: GetWorkflow by its id
workflowInOrg(o, w) == FlowLive(w) /\ flow[w].o = o
resolveTransition(o, w, e) == workflowInOrg(o, w) /\ EdgeLive(e) /\ wedge[e].w = w

-----------------------------------------------------------------------------
(* What the foreign keys take along when a row is deleted *)

WithoutEdges(es) ==
  /\ wedge' = [e \in WfEdge |-> IF e \in es THEN Gone(NoEdge) ELSE wedge[e]]
  /\ tier' = [t \in TierRow |-> IF TierLive(t) /\ tier[t].e \in es THEN Gone(NoTier) ELSE tier[t]]

WithoutStates(ss) ==
  /\ wstate' = [s \in WfState |-> IF s \in ss THEN Gone(NoState) ELSE wstate[s]]
  /\ WithoutEdges({e \in WfEdge : EdgeLive(e) /\ {wedge[e].from, wedge[e].to} \cap ss # {}})

(* tickets and project_items refer to workflow_states with NO ACTION.      *)
Occupied(ss) == ss \cap Cast.occupied # {}

-----------------------------------------------------------------------------
(* A request: its operation, its organization and workflow, and what the   *)
(* path and the body say besides.                                          *)

WorkflowOp == {"createflow", "updateflow", "deleteflow", "createstate", "deletestate", "createedge", "deleteedge",
               "createtier", "deletetier"}

OnWorkflow(h, op, pc, more) ==
  /\ Ready(h, op)
  /\ \E o \in Org, w \in Workflow : \E m \in more :
       /\ AdminGate(o)
       /\ workflowInOrg(o, w)
       /\ Begin(h, With([op |-> op, pc |-> pc, o |-> o, w |-> w], m))
  /\ UNCHANGED <<orgVars, space, workflowVars>>

OnTransition(h, op, pc, more) ==
  /\ Ready(h, op)
  /\ \E o \in Org, w \in Workflow, e \in WfEdge : \E m \in more :
       /\ AdminGate(o)
       /\ resolveTransition(o, w, e)
       /\ "s" \in DOMAIN m /\ m.table = "approver" => ValidateSubjectInOrg(o, m.s)
       /\ Begin(h, With([op |-> op, pc |-> pc, o |-> o, w |-> w, e |-> e], m))
  /\ UNCHANGED <<orgVars, space, workflowVars>>

(* workflows is UNIQUE (org_id, name); nothing keeps the defaults of a     *)
(* kind to one.                                                            *)
FlowNameFree(w, o, n) == \A x \in Workflow \ {w} : FlowLive(x) /\ flow[x].o = o => flow[x].name # n

FlowBodies == [name : Work.names, default : BOOLEAN, kind : Work.kinds]

CreateWorkflowBegin(h) ==
  /\ Ready(h, "createflow")
  /\ \E o \in Org : \E b \in FlowBodies :
       AdminGate(o) /\ Begin(h, With([op |-> "createflow", pc |-> "write", o |-> o], b))
  /\ UNCHANGED <<orgVars, space, workflowVars>>

CreateWorkflow(h) ==
  LET r == req[h] IN
  /\ At(h, "createflow", "write")
  /\ \E w \in {x \in Workflow : flow[x].st = "none"} :
       flow' = IF FlowNameFree(w, r.o, r.name)
               THEN [flow EXCEPT ![w] = [st |-> "live", o |-> r.o, name |-> r.name, default |-> r.default, kind |-> r.kind]]
               ELSE flow
  /\ End(h)
  /\ UNCHANGED <<orgVars, space, wstate, wedge, tier, assigned>>

UpdateWorkflowBegin(h) == OnWorkflow(h, "updateflow", "write", FlowBodies)

UpdateWorkflow(h) ==
  LET r == req[h] IN
  /\ At(h, "updateflow", "write")
  /\ flow' = IF FlowLive(r.w) /\ FlowNameFree(r.w, flow[r.w].o, r.name)
             THEN [flow EXCEPT ![r.w].name = r.name, ![r.w].default = r.default, ![r.w].kind = r.kind]
             ELSE flow
  /\ End(h)
  /\ UNCHANGED <<orgVars, space, wstate, wedge, tier, assigned>>

(* Refused while a live space has it.  A space that gets it after the      *)
(* count loses it again (spaces.workflow_id, ON DELETE SET NULL).          *)
DeleteWorkflowBegin(h) == OnWorkflow(h, "deleteflow", "count", {<<>>})

CountSpacesUsingWorkflow(h) ==
  /\ At(h, "deleteflow", "count")
  /\ IF \E sp \in Space : SpaceLive(sp) /\ assigned[sp] = req[h].w THEN End(h) ELSE Go(h, [req[h] EXCEPT !.pc = "delete"])
  /\ UNCHANGED <<orgVars, space, workflowVars>>

DeleteWorkflow(h) ==
  LET w == req[h].w IN
  /\ At(h, "deleteflow", "delete")
  /\ IF FlowLive(w) /\ ~Occupied(ListStates(w))
     THEN /\ flow' = [flow EXCEPT ![w] = Gone(NoFlow)]
          /\ WithoutStates(ListStates(w))
          /\ assigned' = [sp \in Space |-> IF assigned[sp] = w THEN Nil ELSE assigned[sp]]
          /\ space' = [sp \in Space |-> [space[sp] EXCEPT !.wf = @ /\ assigned[sp] # w]]
     ELSE UNCHANGED <<space, workflowVars>>
  /\ End(h)
  /\ UNCHANGED orgVars

-----------------------------------------------------------------------------
(* States and transitions *)

CreateStateBegin(h) == OnWorkflow(h, "createstate", "insert", [init : BOOLEAN])

(* idx_workflow_initial: one initial state of a workflow.                  *)
InitialFree(w) == \A s \in ListStates(w) : ~wstate[s].init

CreateState(h) ==
  LET r == req[h]
      fresh == {s \in WfState : wstate[s].st = "none"}
  IN
  /\ At(h, "createstate", "insert")
  /\ fresh # {}
  /\ wstate' = IF FlowLive(r.w) /\ (r.init => InitialFree(r.w))
               THEN [wstate EXCEPT ![CHOOSE s \in fresh : TRUE] = [st |-> "live", w |-> r.w, init |-> r.init]]
               ELSE wstate
  /\ End(h)
  /\ UNCHANGED <<orgVars, space, flow, wedge, tier, assigned>>

DeleteStateBegin(h) == OnWorkflow(h, "deletestate", "load", [s : WfState])

(* The state is read by its id and its workflow compared.                  *)
GetState(h) ==
  LET r == req[h] IN
  /\ At(h, "deletestate", "load")
  /\ IF StateLive(r.s) /\ wstate[r.s].w = r.w THEN Go(h, [r EXCEPT !.pc = "delete"]) ELSE End(h)
  /\ UNCHANGED <<orgVars, space, workflowVars>>

DeleteState(h) ==
  LET s == req[h].s IN
  /\ At(h, "deletestate", "delete")
  /\ IF StateLive(s) /\ ~Occupied({s})
     THEN WithoutStates({s}) /\ UNCHANGED <<flow, assigned>>
     ELSE UNCHANGED workflowVars
  /\ End(h)
  /\ UNCHANGED <<orgVars, space>>

CreateTransitionBegin(h) == OnWorkflow(h, "createedge", "insert", [from : WfState, to : WfState])

StatesThereAnywhere(w, ss) == \A s \in ss : StateLive(s)   \* mutant: the foreign keys alone
StatesExist(w, ss) == ss \subseteq ListStates(w)

(* The statement inserts only when both states are the workflow's; and     *)
(* (workflow_id, from_state_id, to_state_id) is unique.                    *)
CreateTransition(h) ==
  LET r == req[h]
      fresh == {e \in WfEdge : wedge[e].st = "none"}
  IN
  /\ At(h, "createedge", "insert")
  /\ fresh # {}
  /\ wedge' = IF StatesExist(r.w, {r.from, r.to}) /\ \A e \in ListAvailableTransitions(r.w, r.from) : wedge[e].to # r.to
              THEN [wedge EXCEPT ![CHOOSE e \in fresh : TRUE] = [st |-> "live", w |-> r.w, from |-> r.from, to |-> r.to]]
              ELSE wedge
  /\ End(h)
  /\ UNCHANGED <<orgVars, space, flow, wstate, tier, assigned>>

DeleteTransitionBegin(h) == OnWorkflow(h, "deleteedge", "delete", [e : WfEdge])

DeleteTransition(h) ==
  LET r == req[h] IN
  /\ At(h, "deleteedge", "delete")
  /\ WithoutEdges({r.e} \cap ListTransitions(r.w))
  /\ End(h)
  /\ UNCHANGED <<orgVars, space, flow, wstate, assigned>>

-----------------------------------------------------------------------------
(* The rows that hang from a transition *)

CreateGuardBegin(h)        == OnTransition(h, "createtier", "insert", {[table |-> "guard", s |-> Nil]})
CreatePostFunctionBegin(h) == OnTransition(h, "createtier", "insert", {[table |-> "postfn", s |-> Nil]})
CreateApproverBegin(h)     == OnTransition(h, "createtier", "insert", [table : {"approver"}, s : Work.subjects])

InsertTier(h, table, ok) ==
  LET r == req[h]
      fresh == {t \in TierRow : tier[t].st = "none"}
  IN
  /\ At(h, "createtier", "insert") /\ r.table = table
  /\ fresh # {}
  /\ tier' = IF EdgeLive(r.e) /\ ok
             THEN [tier EXCEPT ![CHOOSE t \in fresh : TRUE] = [st |-> "live", e |-> r.e, table |-> table, s |-> r.s]]
             ELSE tier
  /\ End(h)
  /\ UNCHANGED <<orgVars, space, flow, wstate, wedge, assigned>>

CreateGuard(h)        == InsertTier(h, "guard", TRUE)
CreatePostFunction(h) == InsertTier(h, "postfn", TRUE)

(* UNIQUE (transition_id, subject_type, subject_id).                       *)
CreateApprover(h) == InsertTier(h, "approver", \A t \in ListApprovers(req[h].e) : tier[t].s # req[h].s)

DeleteGuardBegin(h)        == OnTransition(h, "deletetier", "delete", [table : {"guard"}, t : TierRow])
DeletePostFunctionBegin(h) == OnTransition(h, "deletetier", "delete", [table : {"postfn"}, t : TierRow])
DeleteApproverBegin(h)     == OnTransition(h, "deletetier", "delete", [table : {"approver"}, t : TierRow])

DeleteOfEdge(r) == {r.t} \cap TierRows(r.table, r.e)

DeleteTier(h, table) ==
  /\ At(h, "deletetier", "delete") /\ req[h].table = table
  /\ tier' = [t \in TierRow |-> IF t \in DeleteOfEdge(req[h]) THEN Gone(NoTier) ELSE tier[t]]
  /\ End(h)
  /\ UNCHANGED <<orgVars, space, flow, wstate, wedge, assigned>>

DeleteGuard(h)        == DeleteTier(h, "guard")
DeletePostFunction(h) == DeleteTier(h, "postfn")
DeleteApprover(h)     == DeleteTier(h, "approver")

-----------------------------------------------------------------------------
(* A space that is created gets the default of its kind, best effort: the  *)
(* default is read, and then the row of the space updated.                 *)

DefaultWorkflows(sp) == {w \in Workflow : FlowLive(w) /\ flow[w].o = SpaceOrg[sp] /\ flow[w].default /\ flow[w].kind = AppliesTo[sp]}

GetDefaultWorkflow(h) ==
  LET r == req[h] IN
  /\ At(h, "createspace", "workflow")
  /\ IF DefaultWorkflows(r.sp) = {} THEN End(h)
     ELSE \E w \in DefaultWorkflows(r.sp) : Go(h, With([r EXCEPT !.pc = "assign"], [w |-> w]))
  /\ UNCHANGED <<orgVars, space, workflowVars>>

AssignWorkflowToSpace(h) ==
  LET r == req[h] IN
  /\ At(h, "createspace", "assign")
  /\ IF FlowLive(r.w)
     THEN assigned' = [assigned EXCEPT ![r.sp] = r.w] /\ space' = [space EXCEPT ![r.sp].wf = TRUE]
     ELSE UNCHANGED <<assigned, space>>
  /\ End(h)
  /\ UNCHANGED <<orgVars, flow, wstate, wedge, tier>>

NewSpaceStep(h) ==
  \/ (CreateSpaceBegin(h) \/ CreateSpaceTx(h)) /\ UNCHANGED workflowVars
  \/ GetDefaultWorkflow(h) \/ AssignWorkflowToSpace(h)

WorkflowsStep(h) ==
  \/ CreateWorkflowBegin(h) \/ CreateWorkflow(h) \/ UpdateWorkflowBegin(h) \/ UpdateWorkflow(h)
  \/ DeleteWorkflowBegin(h) \/ CountSpacesUsingWorkflow(h) \/ DeleteWorkflow(h)
  \/ CreateStateBegin(h) \/ CreateState(h) \/ DeleteStateBegin(h) \/ GetState(h) \/ DeleteState(h)
  \/ CreateTransitionBegin(h) \/ CreateTransition(h) \/ DeleteTransitionBegin(h) \/ DeleteTransition(h)
  \/ CreateGuardBegin(h) \/ CreateGuard(h) \/ CreatePostFunctionBegin(h) \/ CreatePostFunction(h)
  \/ CreateApproverBegin(h) \/ CreateApprover(h)
  \/ DeleteGuardBegin(h) \/ DeletePostFunctionBegin(h) \/ DeleteApproverBegin(h)
  \/ DeleteGuard(h) \/ DeletePostFunction(h) \/ DeleteApprover(h)
  \/ NewSpaceStep(h)
=============================================================================
