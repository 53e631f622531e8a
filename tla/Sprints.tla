------------------------------- MODULE Sprints -------------------------------
(***************************************************************************)
(* Sprints of project spaces: starting one, completing one and disposing   *)
(* of the items it leaves unfinished, and planning items onto them.        *)
(*                                                                         *)
(* Starting and completing take several statements, so each is a request   *)
(* that a Handler carries from one statement to the next.  Planning is one *)
(* statement: what MoveToSprint reads before it, that the sprint exists in *)
(* the space, never changes once true, for no sprint is ever deleted and   *)
(* none changes space.                                                     *)
(***************************************************************************)
EXTENDS Naturals, TLC

CONSTANTS
    Nil,            \* NULL
    Space, Sprint, Item,
    HomeOf,         \* sprints.space_id, by sprint
    SpaceOf,        \* project_items.space_id, by item
    Nameable,       \* the sprints clients name when they create an item
    Handler,        \* concurrent request handlers
    InitSprints, InitItems,     \* the rows a run starts from
    Ops,            \* the operations this instance's clients call
    MaxRequests,    \* bound: starts and completions ever requested
    MaxEdits        \* bound: single-statement operations ever made

ASSUME SprintAssumption ==
    /\ Nil \notin Sprint
    /\ HomeOf \in [Sprint -> Space]
    /\ SpaceOf \in [Item -> Space]
    /\ Nameable \in [Item -> SUBSET Sprint]
ASSUME SprintBoundAssumption == MaxRequests \in Nat /\ MaxEdits \in Nat

Target == Sprint \cup {Nil}
SprintStatus == {"absent", "planned", "active", "completed"}

\* `done' is membership of the status in DoneStatuses.
ItemRow == [life : {"unborn", "live", "gone"}, done : BOOLEAN, sprint : Target]

\* The rows migration 034's index and the statements below can have left.
ASSUME SprintInitAssumption ==
    /\ InitSprints \in [Sprint -> SprintStatus]
    /\ InitItems \in [Item -> ItemRow]
    /\ \A s, t \in Sprint :
          InitSprints[s] = "active" /\ InitSprints[t] = "active" /\ HomeOf[s] = HomeOf[t] => s = t
    /\ \A i \in Item : InitItems[i].sprint # Nil =>
          /\ InitSprints[InitItems[i].sprint] # "absent"
          /\ HomeOf[InitItems[i].sprint] = SpaceOf[i]

VARIABLES
    sprints,        \* sprints.status, or "absent"
    items,          \* project_items: is it live, is it done, on which sprint
    req,            \* the start or completion each handler is carrying out
    started, edits  \* counters for the two bounds

vars == <<sprints, items, req, started, edits>>

PC == {"idle", "activeCheck", "activate", "nextCheck", "complete"}
Request == [pc : PC, s : Target, next : Target]
Idle == [pc |-> "idle", s |-> Nil, next |-> Nil]

TypeOK ==
    /\ sprints \in [Sprint -> SprintStatus]
    /\ items \in [Item -> ItemRow]
    /\ req \in [Handler -> Request]
    /\ started \in Nat /\ edits \in Nat

Init ==
    /\ sprints = InitSprints
    /\ items = InitItems
    /\ req = [h \in Handler |-> Idle]
    /\ started = 0 /\ edits = 0

Exists(s) == sprints[s] # "absent"
ActiveBeside(s) ==
    {t \in Sprint : t # s /\ HomeOf[t] = HomeOf[s] /\ sprints[t] = "active"}

-----------------------------------------------------------------------------
(* Starting and completing.                                                *)

\* validSprintTransitions: planned -> active -> completed.
Lifecycle == {<<"planned", "active">>, <<"active", "completed">>}
MayBecome(from, to) == <<from, to>> \in Lifecycle

Begin(h, op, r) ==
    /\ op \in Ops
    /\ req[h].pc = "idle"
    /\ started < MaxRequests
    /\ started' = started + 1
    /\ req' = [req EXCEPT ![h] = r]
    /\ UNCHANGED <<sprints, items, edits>>

Goto(h, pc) == req' = [req EXCEPT ![h].pc = pc]
Answer(h) == req' = [req EXCEPT ![h] = Idle]

\* A sprint of another space, an absent one and an illegal change are refused
\* by the first read, and change nothing.
RequestStart(h, s) ==
    /\ MayBecome(sprints[s], "active")
    /\ Begin(h, "start", [pc |-> "activeCheck", s |-> s, next |-> Nil])

\* GetActiveBySpace finds at most one row; finding this sprint is no refusal.
CheckActive(h) ==
    /\ req[h].pc = "activeCheck"
    /\ IF ActiveBeside(req[h].s) = {} THEN Goto(h, "activate") ELSE Answer(h)
    /\ UNCHANGED <<sprints, items, started, edits>>

\* Mutant: the database before migration 034.
NoIndexConflicts(s) == {}

\* What the unique index finds in the way of s becoming active.
IndexConflicts(s) == ActiveBeside(s)

\* UPDATE sprints SET status by bare id, whatever the status now is.
Activate(h) ==
    /\ req[h].pc = "activate"
    /\ sprints' = IF IndexConflicts(req[h].s) = {}
                  THEN [sprints EXCEPT ![req[h].s] = "active"] ELSE sprints
    /\ Answer(h)
    /\ UNCHANGED <<items, started, edits>>

\* The sprint itself is refused as its own successor before any read of it.
RequestComplete(h, s, next) ==
    /\ MayBecome(sprints[s], "completed")
    /\ next # s
    /\ Begin(h, IF next = Nil THEN "complete" ELSE "carry",
             [pc |-> IF next = Nil THEN "complete" ELSE "nextCheck", s |-> s, next |-> next])

\* Mutant: any existing sprint will do.
ValidNextAnywhere(s, next) == Exists(next) /\ sprints[next] # "completed"

\* Mutant: a completed sprint will do.
ValidNextCompleted(s, next) == Exists(next) /\ HomeOf[next] = HomeOf[s]

ValidNext(s, next) ==
    /\ Exists(next)
    /\ HomeOf[next] = HomeOf[s]
    /\ sprints[next] # "completed"

CheckNext(h) ==
    /\ req[h].pc = "nextCheck"
    /\ IF ValidNext(req[h].s, req[h].next) THEN Goto(h, "complete") ELSE Answer(h)
    /\ UNCHANGED <<sprints, items, started, edits>>

\* Mutant: the statement that empties the sprint is not run.
NothingIncomplete(s) == {}

\* ReassignIncompleteSprintItems, by sprint alone.
Incomplete(s) == {i \in Item : items[i].life = "live" /\ items[i].sprint = s /\ ~items[i].done}

\* One transaction.  Its two statements see different snapshots, but what
\* slips between them is what could as well have come after it.
CompleteWithDisposition(h) ==
    LET s == req[h].s IN
    /\ req[h].pc = "complete"
    /\ items' = [i \in Item |->
            IF i \in Incomplete(s) THEN [items[i] EXCEPT !.sprint = req[h].next] ELSE items[i]]
    /\ sprints' = [sprints EXCEPT ![s] = "completed"]
    /\ Answer(h)
    /\ UNCHANGED <<started, edits>>

-----------------------------------------------------------------------------
(* Single statements.                                                      *)

Edit(op) ==
    /\ op \in Ops
    /\ edits < MaxEdits
    /\ edits' = edits + 1
    /\ UNCHANGED <<req, started>>

CreateSprint(s) ==
    /\ Edit("createSprint")
    /\ sprints[s] = "absent"
    /\ sprints' = [sprints EXCEPT ![s] = "planned"]
    /\ UNCHANGED items

\* The foreign key asks of the sprint in the body only that it exists.
CreateItem(i, s) ==
    /\ Edit("createItem")
    /\ items[i].life = "unborn"
    /\ s # Nil => Exists(s)
    /\ items' = [items EXCEPT ![i] = [life |-> "live", done |-> FALSE, sprint |-> s]]
    /\ UNCHANGED sprints

\* AssignProjectItemToSprintInSpace, from MoveToSprint and AssignToSprint.
InSpace(sp, i, s) == SpaceOf[i] = sp /\ HomeOf[s] = sp

AssignToSprint(sp, i, s) ==
    /\ Edit("assign")
    /\ items[i].life = "live"
    /\ Exists(s)
    /\ InSpace(sp, i, s)
    /\ items' = [items EXCEPT ![i].sprint = s]
    /\ UNCHANGED sprints

\* ClearProjectItemSprintInSpace, from MoveToBacklog and AssignToSprint.
MoveToBacklog(sp, i) ==
    /\ Edit("clear")
    /\ items[i].life = "live"
    /\ SpaceOf[i] = sp
    /\ items' = [items EXCEPT ![i].sprint = Nil]
    /\ UNCHANGED sprints

\* A status change, by whichever path, into DoneStatuses or out of it.
Finish(i) ==
    /\ Edit("finish")
    /\ items[i].life = "live" /\ ~items[i].done
    /\ items' = [items EXCEPT ![i].done = TRUE]
    /\ UNCHANGED sprints

Reopen(i) ==
    /\ Edit("reopen")
    /\ items[i].life = "live" /\ items[i].done
    /\ items' = [items EXCEPT ![i].done = FALSE]
    /\ UNCHANGED sprints

\* A soft delete keeps sprint_id.
DeleteItem(i) ==
    /\ Edit("deleteItem")
    /\ items[i].life = "live"
    /\ items' = [items EXCEPT ![i].life = "gone"]
    /\ UNCHANGED sprints

-----------------------------------------------------------------------------
HandlerStep(h) == CheckActive(h) \/ Activate(h) \/ CheckNext(h) \/ CompleteWithDisposition(h)

RequestStep(h) ==
    \/ \E s \in Sprint : RequestStart(h, s)
    \/ \E s \in Sprint, n \in Target : RequestComplete(h, s, n)

ItemStep(i) ==
    \/ \E s \in Nameable[i] \cup {Nil} : CreateItem(i, s)
    \/ \E sp \in Space, s \in Sprint : AssignToSprint(sp, i, s)
    \/ \E sp \in Space : MoveToBacklog(sp, i)
    \/ Finish(i)
    \/ Reopen(i)
    \/ DeleteItem(i)

\* The clients have nothing more to ask.
Quiet == (\A h \in Handler : req[h].pc = "idle") /\ UNCHANGED vars

Next ==
    \/ \E h \in Handler : HandlerStep(h) \/ RequestStep(h)
    \/ \E s \in Sprint : CreateSprint(s)
    \/ \E i \in Item : ItemStep(i)
    \/ Quiet

Spec == Init /\ [][Next]_vars

-----------------------------------------------------------------------------
(* Properties.                                                             *)

\* A space has at most one active sprint, which the board and the roadmap
\* assume, however many starts race past StartSprint's own check.
OneActivePerSpace ==
    \A s, t \in Sprint :
        sprints[s] = "active" /\ sprints[t] = "active" /\ HomeOf[s] = HomeOf[t] => s = t

\* An item is only ever on a sprint of its own space, through any series of
\* assignments and carry-overs: on another it would vanish from its own board.
ItemsStayInTheirSpace ==
    \A i \in Item : items[i].sprint # Nil => HomeOf[items[i].sprint] = SpaceOf[i]

\* validSprintTransitions: a sprint goes from planned to active to completed
\* and never back, so what was reported about a completed sprint stays true.
SprintLifecycle ==
    [][\A s \in Sprint :
         sprints'[s] # sprints[s] /\ Exists(s) => <<sprints[s], sprints'[s]>> \in Lifecycle]_vars

\* CompleteSprint refuses a next sprint that is already completed: no
\* completion carries unfinished work onto a sprint that is over.
CarriedWorkLandsOnAnOpenSprint ==
    [][\A h \in Handler :
         /\ req[h].pc = "complete" /\ req'[h].pc = "idle"
         /\ req[h].next # Nil
         /\ items' # items
         => sprints[req[h].next] # "completed"]_vars

\* Where nobody plans onto a sprint or reopens an item after the fact, a
\* completed sprint holds finished items only, whichever completions race.
NoWorkOnACompletedSprint ==
    \A i \in Item :
        /\ items[i].life = "live"
        /\ items[i].sprint # Nil
        /\ sprints[items[i].sprint] = "completed"
        => items[i].done

-----------------------------------------------------------------------------
(* What the runs start from: two sprints of one space and one of another,  *)
(* whose handlers are told apart by what they do only.                     *)

InterchangeableHandlers == Permutations(Handler)

TwoSpaces == [s \in Sprint |-> IF s = "far" THEN "there" ELSE "here"]
ItemsHere == [i \in Item |-> "here"]
SprintsHere == [i \in Item |-> Sprint \ {"far"}]

\* `near' is running, `next' is planned, and so is the other space's sprint.
Running == [s \in Sprint |-> IF s = "near" THEN "active" ELSE "planned"]
Fresh == [s \in Sprint |-> IF s = "near" THEN "planned" ELSE "absent"]

On(s) == [life |-> "live", done |-> FALSE, sprint |-> s]
NoItems == [i \in Item |-> [On(Nil) EXCEPT !.life = "unborn"]]
Spread == [i \in Item |-> IF i = "i1" THEN On("near") ELSE On("next")]
=============================================================================
