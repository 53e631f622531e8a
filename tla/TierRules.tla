------------------------------ MODULE TierRules ------------------------------
(***************************************************************************)
(* The decision rules of internal/core/workflow, without any state: where  *)
(* an entity stands in its workflow, whether a guard is satisfied, who may *)
(* decide an approval, and what a list of post-functions does to a row.    *)
(*                                                                         *)
(* A workflow's states and edges are identified by database ids that are   *)
(* never reused, so an edge that is deleted and created again is a new     *)
(* EdgeId.  What an id stands for (its name, its end points) is therefore  *)
(* a constant; which ids exist at a moment is state, kept by Transitions.  *)
(***************************************************************************)
EXTENDS Naturals, Sequences

CONSTANTS
    User,           \* everyone who may call the transition routes
    Team,           \* team ids an approver row or a guard may name
    Capable,        \* the users holding the capability a guard may ask for
    Status,         \* the status texts entities and requests carry
    StateId,        \* every workflow_states id that may ever exist
    EdgeId,         \* every workflow_transitions id that may ever exist
    StateName,      \* StateName[s]: the status text the state s names
    Initial,        \* the states created with is_initial
    DoneState,      \* the states whose category is 'done'
    EdgeFrom,       \* EdgeFrom[t], EdgeTo[t]: the states the edge t joins
    EdgeTo,
    OpenStatus,     \* the status a new entity gets when no workflow places it
    DoneStatus,     \* the done statuses of a space with no workflow
    LegalMove,      \* the hard-coded ticket moves (tickets.validTransitions)
    Nil             \* SQL NULL, and Go's nil id

ASSUME StateAssumption ==
    /\ StateName \in [StateId -> Status]
    /\ Initial \subseteq StateId
    /\ DoneState \subseteq StateId
    /\ EdgeFrom \in [EdgeId -> StateId]
    /\ EdgeTo \in [EdgeId -> StateId]

ASSUME StatusAssumption ==
    /\ OpenStatus \in Status
    /\ DoneStatus \subseteq Status
    /\ LegalMove \subseteq Status \X Status

ASSUME NilAssumption ==
    /\ Nil \notin User
    /\ Nil \notin Team
    /\ Nil \notin StateId
    /\ Nil \notin EdgeId

ASSUME SubjectAssumption == User \cap Team = {}

\* An approver row names a user or a team.
Subject == User \cup Team

OrNil(S) == S \cup {Nil}

-----------------------------------------------------------------------------
(* Placing an entity in its workflow. `live' is the set of states that     *)
(* exist when the lookup runs.                                             *)

\* The states a status text names: at most one, by the unique index.
ByName(live, status) == {s \in live : StateName[s] = status}

Some(S) == IF S = {} THEN Nil ELSE CHOOSE s \in S : TRUE

\* TierService.ResolveFromState: the status text first, then the stored
\* state id, then the initial state; Nil when none of the three resolves.
ResolveFromState(live, status, stateId) ==
    IF ByName(live, status) # {} THEN Some(ByName(live, status))
    ELSE IF stateId \in live THEN stateId
    ELSE Some(live \cap Initial)

-----------------------------------------------------------------------------
(* Guards.                                                                 *)

GuardClass == {"condition", "validator"}

\* "unknown" stands for a row a newer build wrote; field_required is
\* modelled on the due date, which like tags a post-function can set.
GuardKind == {"actor_is_assignee", "actor_in_team", "actor_has_capability",
              "field_required", "unknown"}

Guard == [class : GuardClass, kind : GuardKind, team : OrNil(Team)]

\* ValidateGuard: a kind this build names, with the parameter it takes.
ValidGuard(g) ==
    /\ g.kind # "unknown"
    /\ (g.team # Nil) <=> (g.kind = "actor_in_team")

\* evaluateOne: the four kinds; a kind that is not one of them, and a team
\* guard with no team (the column is ON DELETE SET NULL), is never satisfied.
Satisfied(g, actor, teams, snapshot) ==
    \/ g.kind = "actor_is_assignee" /\ snapshot.assignee = actor
    \/ g.kind = "actor_in_team" /\ g.team \in teams
    \/ g.kind = "actor_has_capability" /\ actor \in Capable
    \/ g.kind = "field_required" /\ snapshot.due

\* Evaluate: no guard of the class refuses.
Evaluate(guards, class, actor, teams, snapshot) ==
    \A g \in guards : g.class = class => Satisfied(g, actor, teams, snapshot)

-----------------------------------------------------------------------------
(* Approvals.                                                              *)

\* Mutant: only the approvers named as users gate the edge.
RequiresApprovalOfUsers(approvers) == approvers \cap User # {}

RequiresApproval(approvers) == approvers # {}

\* CanDecide: named directly, or in a named team; an empty list names nobody.
CanDecide(approvers, actor, teams) ==
    \E s \in approvers : s = actor \/ s \in teams

\* ApproverRecipients: the expansion the notification fan-out uses.
ApproverRecipients(approvers, members) ==
    (approvers \cap User) \cup UNION {members[t] : t \in approvers \cap Team}

-----------------------------------------------------------------------------
(* Post-functions.                                                         *)

PostFunction == [kind : {"assign_to", "set_due", "unsupported"},
                 assignee : OrNil(User), due : BOOLEAN]

\* PlanPostFunctions: one entry this build cannot perform aborts the plan.
Plannable(fns) == \A i \in DOMAIN fns : fns[i].kind # "unsupported"

LastOfKind(fns, kind, i) ==
    /\ i \in DOMAIN fns
    /\ fns[i].kind = kind
    /\ \A j \in DOMAIN fns : fns[j].kind = kind => j <= i

\* foldEffects: of several effects on one column the last one wins, and a
\* column no effect names is left alone.
FoldAssignee(fns, current) ==
    IF \E i \in DOMAIN fns : LastOfKind(fns, "assign_to", i)
    THEN fns[CHOOSE i \in DOMAIN fns : LastOfKind(fns, "assign_to", i)].assignee
    ELSE current

FoldDue(fns, current) ==
    IF \E i \in DOMAIN fns : LastOfKind(fns, "set_due", i)
    THEN fns[CHOOSE i \in DOMAIN fns : LastOfKind(fns, "set_due", i)].due
    ELSE current

-----------------------------------------------------------------------------
(* Spaces with no workflow.                                                *)

\* tickets.ValidateTransition, the hard-coded ticket state machine.
ValidateTransition(from, to) == <<from, to>> \in LegalMove
=============================================================================
