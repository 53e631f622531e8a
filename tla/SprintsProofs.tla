---------------------------- MODULE SprintsProofs ----------------------------
(***************************************************************************)
(* Proofs about Sprints, for every value of its constants.                 *)
(***************************************************************************)
EXTENDS Sprints, TLAPS

USE DEF Target, SprintStatus, PC, Request, ItemRow

\* A busy handler names a sprint, and one that reads a successor names it.
RequestsName ==
    \A h \in Handler :
        /\ req[h].pc # "idle" => req[h].s \in Sprint
        /\ req[h].pc = "nextCheck" => req[h].next \in Sprint

Typed == TypeOK /\ RequestsName

-----------------------------------------------------------------------------
(* Types.                                                                  *)

LEMMA IdleTyped == Idle \in Request
BY DEF Idle

LEMMA InitTyped == Init => Typed
BY SprintInitAssumption, IdleTyped DEF Init, Typed, TypeOK, RequestsName, Idle

LEMMA BeginTyped ==
    ASSUME Typed, NEW h \in Handler, NEW op, NEW r \in Request,
           r.s \in Sprint, r.pc = "nextCheck" => r.next \in Sprint, Begin(h, op, r)
    PROVE  Typed'
BY DEF Typed, TypeOK, RequestsName, Begin

LEMMA GotoTyped ==
    ASSUME Typed, NEW h \in Handler, NEW pc \in {"activate", "complete"},
           req[h].pc # "idle", Goto(h, pc), UNCHANGED <<sprints, items, started, edits>>
    PROVE  Typed'
BY DEF Typed, TypeOK, RequestsName, Goto

LEMMA AnswerTyped ==
    ASSUME Typed, NEW h \in Handler, Answer(h), UNCHANGED <<started, edits>>,
           sprints' \in [Sprint -> SprintStatus], items' \in [Item -> ItemRow]
    PROVE  Typed'
BY IdleTyped DEF Typed, TypeOK, RequestsName, Answer, Idle

LEMMA EditTyped ==
    ASSUME Typed, NEW op, Edit(op),
           sprints' \in [Sprint -> SprintStatus], items' \in [Item -> ItemRow]
    PROVE  Typed'
BY DEF Typed, TypeOK, RequestsName, Edit

LEMMA ItemStepKeepsSprints ==
    ASSUME NEW i \in Item, ItemStep(i)
    PROVE  sprints' = sprints /\ req' = req
BY DEF ItemStep, CreateItem, AssignToSprint, MoveToBacklog, Finish, Reopen, DeleteItem, Edit

LEMMA ItemStepTyped ==
    ASSUME Typed, NEW i \in Item, ItemStep(i)
    PROVE  Typed'
<1> USE DEF Typed, TypeOK
\* Each operation of an item replaces its row by a row.
<1>1. ASSUME NEW op, NEW r \in ItemRow, Edit(op), sprints' = sprints,
             items' = [items EXCEPT ![i] = r]
      PROVE  Typed'
  <2>1. items' \in [Item -> ItemRow] /\ sprints' \in [Sprint -> SprintStatus]
    BY <1>1
  <2> QED BY <1>1, <2>1, EditTyped
<1>2. items[i] \in ItemRow
  OBVIOUS
<1>3. ASSUME NEW s \in Nameable[i] \cup {Nil}, CreateItem(i, s) PROVE Typed'
  <2>1. s \in Target
    BY SprintAssumption
  <2> QED BY <1>1, <1>3, <2>1 DEF CreateItem
<1>4. ASSUME NEW sp \in Space, NEW s \in Sprint, AssignToSprint(sp, i, s) PROVE Typed'
  <2>1. [items[i] EXCEPT !.sprint = s] \in ItemRow
    BY <1>2
  <2> QED BY <1>1, <1>4, <2>1 DEF AssignToSprint
<1>5. ASSUME NEW sp \in Space, MoveToBacklog(sp, i) PROVE Typed'
  <2>1. [items[i] EXCEPT !.sprint = Nil] \in ItemRow
    BY <1>2
  <2> QED BY <1>1, <1>5, <2>1 DEF MoveToBacklog
<1>6. CASE Finish(i)
  <2>1. [items[i] EXCEPT !.done = TRUE] \in ItemRow
    BY <1>2
  <2> QED BY <1>1, <1>6, <2>1 DEF Finish
<1>7. CASE Reopen(i)
  <2>1. [items[i] EXCEPT !.done = FALSE] \in ItemRow
    BY <1>2
  <2> QED BY <1>1, <1>7, <2>1 DEF Reopen
<1>8. CASE DeleteItem(i)
  <2>1. [items[i] EXCEPT !.life = "gone"] \in ItemRow
    BY <1>2
  <2> QED BY <1>1, <1>8, <2>1 DEF DeleteItem
<1> QED BY <1>3, <1>4, <1>5, <1>6, <1>7, <1>8 DEF ItemStep

LEMMA HandlerStepTyped ==
    ASSUME Typed, NEW h \in Handler, HandlerStep(h)
    PROVE  Typed'
<1> USE DEF Typed, TypeOK
<1>1. CASE CheckActive(h)
  BY <1>1, GotoTyped, AnswerTyped DEF CheckActive
<1>2. CASE Activate(h)
  BY <1>2, AnswerTyped DEF Activate
<1>3. CASE CheckNext(h)
  BY <1>3, GotoTyped, AnswerTyped DEF CheckNext
<1>4. CASE CompleteWithDisposition(h)
  <2>1. items' \in [Item -> ItemRow]
    BY <1>4 DEF CompleteWithDisposition
  <2>2. sprints' \in [Sprint -> SprintStatus]
    BY <1>4 DEF CompleteWithDisposition
  <2> QED BY <1>4, <2>1, <2>2, AnswerTyped DEF CompleteWithDisposition
<1> QED BY <1>1, <1>2, <1>3, <1>4 DEF HandlerStep

LEMMA RequestStepTyped ==
    ASSUME Typed, NEW h \in Handler, RequestStep(h)
    PROVE  Typed'
<1>1. ASSUME NEW s \in Sprint, RequestStart(h, s) PROVE Typed'
  BY <1>1, BeginTyped DEF RequestStart
<1>2. ASSUME NEW s \in Sprint, NEW n \in Target, RequestComplete(h, s, n) PROVE Typed'
  <2> DEFINE r == [pc |-> IF n = Nil THEN "complete" ELSE "nextCheck", s |-> s, next |-> n]
  <2>1. r \in Request /\ r.s \in Sprint /\ (r.pc = "nextCheck" => r.next \in Sprint)
    OBVIOUS
  <2>2. Begin(h, IF n = Nil THEN "complete" ELSE "carry", r)
    BY <1>2 DEF RequestComplete
  <2> QED BY <2>1, <2>2, BeginTyped
<1> QED BY <1>1, <1>2 DEF RequestStep

LEMMA NextTyped == Typed /\ [Next]_vars => Typed'
<1> SUFFICES ASSUME Typed, [Next]_vars PROVE Typed'
  OBVIOUS
<1>1. ASSUME NEW s \in Sprint, CreateSprint(s) PROVE Typed'
  BY <1>1, EditTyped DEF CreateSprint, Typed, TypeOK
<1>2. CASE UNCHANGED vars
  BY <1>2 DEF vars, Typed, TypeOK, RequestsName
<1> QED BY <1>1, <1>2, HandlerStepTyped, RequestStepTyped, ItemStepTyped DEF Next, Quiet

\* Every request and row has its type.
THEOREM SprintsTypeCorrect == Spec => []TypeOK
<1>1. Typed => TypeOK
  BY DEF Typed
<1> QED BY <1>1, InitTyped, NextTyped, PTL DEF Spec

-----------------------------------------------------------------------------
(* How a step can change the status of a sprint.                           *)

\* A status that a step changes was absent and is planned, is completed, or
\* became active past the index.
LEMMA StatusChanges ==
    ASSUME Typed, [Next]_vars, NEW s \in Sprint, sprints'[s] # sprints[s]
    PROVE  /\ \A t \in Sprint \ {s} : sprints'[t] = sprints[t]
           /\ \/ sprints[s] = "absent" /\ sprints'[s] = "planned"
              \/ \E h \in Handler :
                    /\ req[h].s = s
                    /\ \/ /\ req[h].pc = "activate"
                          /\ sprints'[s] = "active"
                          /\ ActiveBeside(s) = {}
                       \/ req[h].pc = "complete" /\ sprints'[s] = "completed"
<1> USE DEF Typed, TypeOK
<1>1. ASSUME NEW h \in Handler, Activate(h)
      PROVE  /\ \A t \in Sprint \ {s} : sprints'[t] = sprints[t]
             /\ req[h].s = s /\ req[h].pc = "activate" /\ sprints'[s] = "active"
             /\ ActiveBeside(s) = {}
  BY <1>1 DEF Activate, IndexConflicts
<1>2. ASSUME NEW h \in Handler, CompleteWithDisposition(h)
      PROVE  /\ \A t \in Sprint \ {s} : sprints'[t] = sprints[t]
             /\ req[h].s = s /\ req[h].pc = "complete" /\ sprints'[s] = "completed"
  BY <1>2 DEF CompleteWithDisposition
<1>3. ASSUME NEW t \in Sprint, CreateSprint(t)
      PROVE  /\ \A u \in Sprint \ {s} : sprints'[u] = sprints[u]
             /\ sprints[s] = "absent" /\ sprints'[s] = "planned"
  BY <1>3 DEF CreateSprint
<1>4. ASSUME NEW h \in Handler, CheckActive(h) \/ CheckNext(h) \/ RequestStep(h) PROVE FALSE
  BY <1>4 DEF CheckActive, CheckNext, RequestStep, RequestStart, RequestComplete, Begin
<1>5. ASSUME NEW i \in Item, ItemStep(i) PROVE FALSE
  BY <1>5, ItemStepKeepsSprints
<1>6. ~UNCHANGED vars
  BY DEF vars
<1> QED BY <1>1, <1>2, <1>3, <1>4, <1>5, <1>6 DEF Next, HandlerStep, Quiet

LEMMA OneActiveNext ==
    ASSUME Typed, OneActivePerSpace, [Next]_vars
    PROVE  OneActivePerSpace'
<1> SUFFICES ASSUME NEW s \in Sprint, NEW t \in Sprint, HomeOf[s] = HomeOf[t],
                    sprints'[s] = "active", sprints'[t] = "active", s # t
             PROVE  FALSE
  BY DEF OneActivePerSpace
<1>1. ASSUME NEW u \in Sprint, NEW v \in Sprint, u # v, HomeOf[u] = HomeOf[v],
             sprints'[u] = "active", sprints'[v] = "active", sprints'[u] # sprints[u]
      PROVE  FALSE
  <2>1. sprints[v] = "active" /\ ActiveBeside(u) = {}
    BY <1>1, StatusChanges
  <2> QED BY <1>1, <2>1 DEF ActiveBeside
<1>2. sprints'[s] = sprints[s] /\ sprints'[t] = sprints[t]
  BY <1>1
<1> QED BY <1>2 DEF OneActivePerSpace

\* The partial unique index keeps a second sprint of a space from becoming
\* active, whatever the starts that race for it have read.
THEOREM OneActive == Spec => []OneActivePerSpace
<1>1. Init => OneActivePerSpace
  BY SprintInitAssumption DEF Init, OneActivePerSpace
<1> QED BY <1>1, InitTyped, NextTyped, OneActiveNext, PTL DEF Spec

-----------------------------------------------------------------------------
(* Items and spaces.                                                       *)

\* Clients create items on sprints of the space they create them in.
NamedAtHome == \A i \in Item : \A s \in Nameable[i] : HomeOf[s] = SpaceOf[i]

\* A successor that was accepted is a sprint of the space of the sprint it
\* succeeds.
SuccessorsAtHome ==
    \A h \in Handler :
        req[h].pc = "complete" /\ req[h].next # Nil => HomeOf[req[h].next] = HomeOf[req[h].s]

AtHome == Typed /\ SuccessorsAtHome /\ ItemsStayInTheirSpace

LEMMA ItemStepAtHome ==
    ASSUME NamedAtHome, AtHome, NEW i \in Item, ItemStep(i)
    PROVE  ItemsStayInTheirSpace'
<1> USE SprintAssumption DEF AtHome, Typed, TypeOK, ItemsStayInTheirSpace
<1>1. ASSUME NEW s \in Nameable[i] \cup {Nil}, CreateItem(i, s) PROVE ItemsStayInTheirSpace'
  BY <1>1 DEF CreateItem, NamedAtHome
<1>2. ASSUME NEW sp \in Space, NEW s \in Sprint, AssignToSprint(sp, i, s)
      PROVE  ItemsStayInTheirSpace'
  BY <1>2 DEF AssignToSprint, InSpace
<1>3. ASSUME NEW sp \in Space, MoveToBacklog(sp, i) PROVE ItemsStayInTheirSpace'
  BY <1>3 DEF MoveToBacklog
<1>4. CASE Finish(i)
  BY <1>4 DEF Finish
<1>5. CASE Reopen(i)
  BY <1>5 DEF Reopen
<1>6. CASE DeleteItem(i)
  BY <1>6 DEF DeleteItem
<1> QED BY <1>1, <1>2, <1>3, <1>4, <1>5, <1>6 DEF ItemStep

\* Completion moves items to a successor of the space they are in.
LEMMA CompletionAtHome ==
    ASSUME AtHome, NEW h \in Handler, CompleteWithDisposition(h)
    PROVE  ItemsStayInTheirSpace'
<1> SUFFICES ASSUME NEW i \in Item, items'[i].sprint # Nil
             PROVE  HomeOf[items'[i].sprint] = SpaceOf[i]
  BY DEF ItemsStayInTheirSpace
<1>1. CASE i \in Incomplete(req[h].s)
  <2>1. items'[i].sprint = req[h].next /\ items[i].sprint = req[h].s
    BY <1>1 DEF CompleteWithDisposition, Incomplete, AtHome, Typed, TypeOK
  <2>2. req[h].s \in Sprint /\ req[h].pc = "complete"
    BY DEF CompleteWithDisposition, AtHome, Typed, RequestsName
  <2>3. HomeOf[req[h].s] = SpaceOf[i]
    BY <2>1, <2>2, SprintAssumption DEF AtHome, ItemsStayInTheirSpace
  <2> QED BY <2>1, <2>2, <2>3 DEF AtHome, SuccessorsAtHome
<1>2. CASE i \notin Incomplete(req[h].s)
  BY <1>2 DEF CompleteWithDisposition, AtHome, ItemsStayInTheirSpace, Typed, TypeOK
<1> QED BY <1>1, <1>2

LEMMA SuccessorsHome ==
    ASSUME Typed, SuccessorsAtHome, [Next]_vars
    PROVE  SuccessorsAtHome'
<1> USE DEF Typed, TypeOK, SuccessorsAtHome
<1>1. ASSUME NEW h \in Handler, HandlerStep(h) PROVE SuccessorsAtHome'
  BY <1>1 DEF HandlerStep, CheckActive, Activate, CheckNext, CompleteWithDisposition, Goto, Answer, Idle, ValidNext
<1>2. ASSUME NEW h \in Handler, RequestStep(h) PROVE SuccessorsAtHome'
  BY <1>2 DEF RequestStep, RequestStart, RequestComplete, Begin
<1>3. ASSUME req' = req PROVE SuccessorsAtHome'
  BY <1>3
<1>4. ASSUME NEW s \in Sprint, CreateSprint(s) PROVE req' = req
  BY <1>4 DEF CreateSprint, Edit
<1> QED BY <1>1, <1>2, <1>3, <1>4, ItemStepKeepsSprints DEF Next, Quiet, vars

\* Where clients create items on sprints of their own space only, no series
\* of assignments and carry-overs puts an item on another space's sprint.
THEOREM ItemsStayHome == NamedAtHome => (Spec => []ItemsStayInTheirSpace)
<1> SUFFICES ASSUME NamedAtHome PROVE Spec => []ItemsStayInTheirSpace
  OBVIOUS
<1>1. Init => AtHome
  <2>1. Init => ItemsStayInTheirSpace
    BY SprintInitAssumption DEF Init, ItemsStayInTheirSpace
  <2>2. Init => SuccessorsAtHome
    BY DEF Init, SuccessorsAtHome, Idle
  <2> QED BY <2>1, <2>2, InitTyped DEF AtHome
<1>2. AtHome /\ [Next]_vars => AtHome'
  <2> SUFFICES ASSUME AtHome, [Next]_vars PROVE ItemsStayInTheirSpace'
    BY NextTyped, SuccessorsHome DEF AtHome
  <2>1. ASSUME items' = items PROVE ItemsStayInTheirSpace'
    BY <2>1 DEF AtHome, ItemsStayInTheirSpace
  <2>2. ASSUME NEW h \in Handler,
               CheckActive(h) \/ Activate(h) \/ CheckNext(h) \/ RequestStep(h)
        PROVE  items' = items
    BY <2>2 DEF CheckActive, Activate, CheckNext,
                RequestStep, RequestStart, RequestComplete, Begin
  <2>3. ASSUME NEW s \in Sprint, CreateSprint(s) PROVE items' = items
    BY <2>3 DEF CreateSprint
  <2> QED BY <2>1, <2>2, <2>3, CompletionAtHome, ItemStepAtHome
          DEF Next, HandlerStep, Quiet, vars
<1>3. AtHome => ItemsStayInTheirSpace
  BY DEF AtHome
<1> QED BY <1>1, <1>2, <1>3, PTL DEF Spec

-----------------------------------------------------------------------------
(* The lifecycle, when requests do not overlap.                            *)

\* What a handler has read of the status of its sprint.
ReadStatus(h) == IF req[h].pc \in {"activeCheck", "activate"} THEN "planned" ELSE "active"

ReadsAreCurrent ==
    \A h \in Handler : req[h].pc # "idle" => sprints[req[h].s] = ReadStatus(h)

OneAtATime == \A g, h \in Handler : g = h

LEMMA StepFollowsLifecycle ==
    ASSUME Typed, ReadsAreCurrent, [Next]_vars, NEW s \in Sprint, sprints'[s] # sprints[s]
    PROVE  Exists(s) => <<sprints[s], sprints'[s]>> \in Lifecycle
BY StatusChanges DEF ReadsAreCurrent, ReadStatus, Exists, Lifecycle

LEMMA ReadsStayCurrent ==
    ASSUME OneAtATime, Typed, ReadsAreCurrent, [Next]_vars
    PROVE  ReadsAreCurrent'
<1> USE DEF Typed, TypeOK, ReadsAreCurrent, ReadStatus
<1>1. ASSUME NEW h \in Handler, HandlerStep(h) PROVE ReadsAreCurrent'
  <2>1. CASE CheckActive(h)
    BY <2>1 DEF CheckActive, Goto, Answer, Idle
  <2>2. CASE CheckNext(h)
    BY <2>2 DEF CheckNext, Goto, Answer, Idle
  <2>3. CASE Activate(h) \/ CompleteWithDisposition(h)
    BY <2>3 DEF Activate, CompleteWithDisposition, Answer, Idle, OneAtATime
  <2> QED BY <1>1, <2>1, <2>2, <2>3 DEF HandlerStep
<1>2. ASSUME NEW h \in Handler, RequestStep(h) PROVE ReadsAreCurrent'
  BY <1>2 DEF RequestStep, RequestStart, RequestComplete, Begin, MayBecome, Lifecycle
<1>3. ASSUME NEW s \in Sprint, CreateSprint(s) PROVE ReadsAreCurrent'
  BY <1>3 DEF CreateSprint, Edit, RequestsName
<1>4. ASSUME NEW i \in Item, ItemStep(i) PROVE ReadsAreCurrent'
  BY <1>4, ItemStepKeepsSprints
<1>5. CASE UNCHANGED vars
  BY <1>5 DEF vars
<1> QED BY <1>1, <1>2, <1>3, <1>4, <1>5 DEF Next, Quiet

\* A sprint leaves its lifecycle only when requests overlap: where they are
\* served one at a time it goes from planned to active to completed.
THEOREM LifecycleInTurn == OneAtATime => (Spec => SprintLifecycle)
<1> SUFFICES ASSUME OneAtATime PROVE Spec => SprintLifecycle
  OBVIOUS
<1>1. Init => ReadsAreCurrent
  BY DEF Init, ReadsAreCurrent, Idle
<1>2. Typed /\ ReadsAreCurrent /\ [Next]_vars =>
        [\A s \in Sprint : sprints'[s] # sprints[s] /\ Exists(s) =>
            <<sprints[s], sprints'[s]>> \in Lifecycle]_vars
  BY StepFollowsLifecycle
<1>3. Typed /\ ReadsAreCurrent /\ [Next]_vars => ReadsAreCurrent'
  BY ReadsStayCurrent
<1> QED BY <1>1, <1>2, <1>3, InitTyped, NextTyped, PTL DEF Spec, SprintLifecycle

-----------------------------------------------------------------------------
(* What completions leave behind.                                          *)

\* Clients neither plan onto a sprint nor reopen an item, and at first no
\* unfinished item is on a completed sprint.
NobodyPlans ==
    /\ Ops \cap {"assign", "reopen", "createItem"} = {}
    /\ \A i \in Item :
          InitItems[i].life = "live" /\ InitItems[i].sprint # Nil
             /\ InitSprints[InitItems[i].sprint] = "completed" => InitItems[i].done

\* A completion was requested of an active sprint, to another; and the
\* successor it was let carry on to starts only when nothing is left to carry.
CompletionsInTurn ==
    \A h \in Handler : req[h].pc \in {"nextCheck", "complete"} =>
        /\ req[h].next # req[h].s
        /\ sprints[req[h].s] \in {"active", "completed"}
        /\ req[h].pc = "complete" /\ req[h].next # Nil /\ sprints[req[h].next] \in {"active", "completed"}
              => Incomplete(req[h].s) = {}

Drained ==
    Typed /\ OneActivePerSpace /\ SuccessorsAtHome /\ CompletionsInTurn /\ NoWorkOnACompletedSprint

\* How a handler comes to be at the end of a completion.
LEMMA CompletionComes ==
    ASSUME Typed, [Next]_vars, NEW h \in Handler, req'[h].pc \in {"nextCheck", "complete"}
    PROVE  \/ req'[h] = req[h]
           \/ \E s \in Sprint, n \in Target : RequestComplete(h, s, n) /\ sprints' = sprints
                 /\ req'[h] = [pc |-> IF n = Nil THEN "complete" ELSE "nextCheck", s |-> s, next |-> n]
           \/ /\ req[h].pc = "nextCheck" /\ req'[h].pc = "complete" /\ sprints' = sprints
              /\ req'[h].s = req[h].s /\ req'[h].next = req[h].next /\ ValidNext(req[h].s, req[h].next)
              /\ items' = items
<1> USE DEF Typed, TypeOK
<1>1. ASSUME NEW g \in Handler, HandlerStep(g)
      PROVE  \/ req'[h] = req[h]
             \/ /\ req[h].pc = "nextCheck" /\ req'[h].pc = "complete" /\ sprints' = sprints
                /\ req'[h].s = req[h].s /\ req'[h].next = req[h].next /\ ValidNext(req[h].s, req[h].next)
                /\ items' = items
  BY <1>1 DEF HandlerStep, CheckActive, Activate, CheckNext, CompleteWithDisposition, Goto, Answer, Idle
<1>2. ASSUME NEW g \in Handler, NEW s \in Sprint, RequestStart(g, s) PROVE req'[h] = req[h]
  BY <1>2 DEF RequestStart, Begin
<1>3. ASSUME NEW g \in Handler, NEW s \in Sprint, NEW n \in Target, RequestComplete(g, s, n)
      PROVE  \/ req'[h] = req[h]
             \/ RequestComplete(h, s, n) /\ sprints' = sprints
                 /\ req'[h] = [pc |-> IF n = Nil THEN "complete" ELSE "nextCheck", s |-> s, next |-> n]
  BY <1>3 DEF RequestComplete, Begin
<1>4. ASSUME NEW s \in Sprint, CreateSprint(s) PROVE req' = req
  BY <1>4 DEF CreateSprint, Edit
<1>5. ASSUME NEW g \in Handler, RequestStep(g)
      PROVE  \/ req'[h] = req[h]
             \/ \E s \in Sprint, n \in Target : RequestComplete(h, s, n) /\ sprints' = sprints
                 /\ req'[h] = [pc |-> IF n = Nil THEN "complete" ELSE "nextCheck", s |-> s, next |-> n]
  <2>1. CASE \E s \in Sprint : RequestStart(g, s)
    BY <1>2, <2>1
  <2>2. CASE \E s \in Sprint, n \in Target : RequestComplete(g, s, n)
    <3>1. PICK s \in Sprint, n \in Target : RequestComplete(g, s, n)
      BY <2>2
    <3>2. CASE req'[h] = req[h]
      BY <3>2
    <3>3. CASE /\ RequestComplete(h, s, n) /\ sprints' = sprints
               /\ req'[h] = [pc |-> IF n = Nil THEN "complete" ELSE "nextCheck", s |-> s, next |-> n]
      BY <3>3, Zenon
    <3> QED BY <1>3, <3>1, <3>2, <3>3
  <2> QED BY <1>5, <2>1, <2>2 DEF RequestStep
<1>6. CASE req' = req
  BY <1>6
<1> QED BY <1>1, <1>4, <1>5, <1>6, ItemStepKeepsSprints DEF Next, Quiet, vars

\* An item is put on a sprint only by a completion that had work to carry.
LEMMA ItemsComeByCompletion ==
    ASSUME NobodyPlans, Typed, [Next]_vars, NEW i \in Item, NEW s \in Sprint,
           items'[i].life = "live", items'[i].sprint = s, ~items'[i].done
    PROVE  \/ i \in Incomplete(s)
           \/ \E h \in Handler : req[h].pc = "complete" /\ req[h].next = s /\ Incomplete(req[h].s) # {}
<1> USE DEF Typed, TypeOK
<1>1. ASSUME NEW h \in Handler, CompleteWithDisposition(h)
      PROVE  i \in Incomplete(s) \/ (req[h].pc = "complete" /\ req[h].next = s /\ Incomplete(req[h].s) # {})
  <2>1. CASE i \in Incomplete(req[h].s)
    BY <1>1, <2>1 DEF CompleteWithDisposition
  <2>2. CASE i \notin Incomplete(req[h].s)
    BY <1>1, <2>2 DEF CompleteWithDisposition, Incomplete
  <2> QED BY <2>1, <2>2
<1>2. CASE items' = items
  BY <1>2 DEF Incomplete
<1>3. ASSUME NEW j \in Item, ItemStep(j) PROVE i \in Incomplete(s)
  <2>1. PICK sp : MoveToBacklog(sp, j) \/ Finish(j) \/ DeleteItem(j)
    BY <1>3 DEF ItemStep, NobodyPlans, CreateItem, AssignToSprint, Reopen, Edit
  <2>2. /\ \A k \in Item \ {j} : items'[k] = items[k]
        /\ items'[j].sprint \in {items[j].sprint, Nil} /\ (items'[j].life = "live" => items[j].life = "live")
        /\ items[j].done => items'[j].done
    BY <2>1 DEF MoveToBacklog, Finish, DeleteItem
  <2> QED BY <2>2, SprintAssumption DEF Incomplete
<1>4. ASSUME NEW h \in Handler, CheckActive(h) \/ Activate(h) \/ CheckNext(h) \/ RequestStep(h)
      PROVE  items' = items
  BY <1>4 DEF CheckActive, Activate, CheckNext, RequestStep, RequestStart, RequestComplete, Begin
<1>5. ASSUME NEW t \in Sprint, CreateSprint(t) PROVE items' = items
  BY <1>5 DEF CreateSprint
<1> QED BY <1>1, <1>2, <1>3, <1>4, <1>5 DEF Next, HandlerStep, Quiet, vars

\* A start changes no item.
LEMMA StartsMoveNothing ==
    ASSUME Typed, [Next]_vars, NEW s \in Sprint, sprints'[s] # sprints[s], sprints'[s] = "active"
    PROVE  items' = items
<1> USE DEF Typed, TypeOK
<1>1. ASSUME NEW h \in Handler, CompleteWithDisposition(h) PROVE FALSE
  BY <1>1 DEF CompleteWithDisposition
<1>2. ASSUME NEW h \in Handler, CheckActive(h) \/ Activate(h) \/ CheckNext(h) \/ RequestStep(h)
      PROVE  items' = items
  BY <1>2 DEF CheckActive, Activate, CheckNext, RequestStep, RequestStart, RequestComplete, Begin
<1>3. ASSUME NEW t \in Sprint, CreateSprint(t) PROVE items' = items
  BY <1>3 DEF CreateSprint
<1>4. ASSUME NEW i \in Item, ItemStep(i) PROVE FALSE
  BY <1>4, ItemStepKeepsSprints
<1> QED BY <1>1, <1>2, <1>3, <1>4 DEF Next, HandlerStep, Quiet, vars

\* The rows of a sprint's items hold no unfinished one.
Finished(s, rows) == \A i \in Item : rows[i].life = "live" /\ rows[i].sprint = s => rows[i].done

LEMMA OverIsFinished ==
    ASSUME Drained, NEW s \in Sprint, sprints[s] = "completed"
    PROVE  Finished(s, items)
BY SprintAssumption DEF Drained, NoWorkOnACompletedSprint, Finished

LEMMA CompletionsStayInTurn ==
    ASSUME NobodyPlans, Drained, [Next]_vars
    PROVE  CompletionsInTurn'
<1> USE SprintAssumption DEF Drained, Typed, TypeOK
<1> SUFFICES ASSUME NEW h \in Handler, req'[h].pc \in {"nextCheck", "complete"}
             PROVE  /\ req'[h].next # req'[h].s
                    /\ sprints'[req'[h].s] \in {"active", "completed"}
                    /\ req'[h].pc = "complete" /\ req'[h].next # Nil
                          /\ sprints'[req'[h].next] \in {"active", "completed"}
                          => Finished(req'[h].s, items')
  BY DEF CompletionsInTurn, Finished, Incomplete
<1>1. CASE req'[h] = req[h]
  <2> DEFINE s == req[h].s
             n == req[h].next
  <2>1. /\ s \in Sprint /\ n # s /\ sprints[s] \in {"active", "completed"}
        /\ req[h].pc = "complete" /\ n # Nil /\ sprints[n] \in {"active", "completed"} => Incomplete(s) = {}
    BY <1>1 DEF CompletionsInTurn, RequestsName
  <2>2. sprints'[s] \in {"active", "completed"}
    BY <2>1, StatusChanges
  <2>3. ASSUME req[h].pc = "complete", n # Nil, sprints'[n] \in {"active", "completed"}
        PROVE  Finished(s, items')
    <3>1. n \in Sprint /\ HomeOf[n] = HomeOf[s]
      BY <2>3 DEF SuccessorsAtHome
    <3>2. CASE sprints[n] \in {"active", "completed"}
      <4>1. ASSUME NEW i \in Item, items'[i].life = "live", items'[i].sprint = s, ~items'[i].done PROVE FALSE
        <5>1. i \notin Incomplete(s)
          BY <2>1, <2>3, <3>2
        <5>2. PICK k \in Handler : req[k].pc = "complete" /\ req[k].next = s /\ Incomplete(req[k].s) # {}
          BY <2>1, <4>1, <5>1, ItemsComeByCompletion
        <5> QED BY <2>1, <5>2 DEF CompletionsInTurn
      <4> QED BY <4>1 DEF Finished
    <3>3. CASE sprints[n] \notin {"active", "completed"}
      <4>1. sprints'[n] = "active" /\ ActiveBeside(n) = {}
        BY <2>3, <3>1, <3>3, StatusChanges DEF CompletionsInTurn
      <4>2. sprints[s] = "completed"
        BY <2>1, <3>1, <4>1 DEF ActiveBeside
      <4>3. items' = items
        BY <3>1, <3>3, <4>1, StartsMoveNothing
      <4> QED BY <2>1, <4>2, <4>3, OverIsFinished
    <3> QED BY <3>2, <3>3
  <2> QED BY <1>1, <2>1, <2>2, <2>3
<1>2. ASSUME NEW s \in Sprint, NEW n \in Target, RequestComplete(h, s, n), sprints' = sprints,
             req'[h] = [pc |-> IF n = Nil THEN "complete" ELSE "nextCheck", s |-> s, next |-> n]
      PROVE  /\ req'[h].next # req'[h].s
             /\ sprints'[req'[h].s] \in {"active", "completed"}
             /\ req'[h].pc = "complete" => req'[h].next = Nil
  BY <1>2 DEF RequestComplete, MayBecome, Lifecycle
<1>3. CASE /\ req[h].pc = "nextCheck" /\ req'[h].pc = "complete" /\ sprints' = sprints
           /\ req'[h].s = req[h].s /\ req'[h].next = req[h].next /\ ValidNext(req[h].s, req[h].next)
           /\ items' = items
  <2> DEFINE s == req[h].s
             n == req[h].next
  <2>1. s \in Sprint /\ n \in Sprint /\ n # s /\ sprints[s] \in {"active", "completed"}
    BY <1>3 DEF CompletionsInTurn, RequestsName
  <2>2. ASSUME sprints[n] \in {"active", "completed"} PROVE Finished(s, items')
    <3>1. sprints[n] = "active" /\ HomeOf[n] = HomeOf[s]
      BY <1>3, <2>2 DEF ValidNext
    <3>2. sprints[s] = "completed"
      BY <2>1, <3>1 DEF OneActivePerSpace
    <3> QED BY <1>3, <2>1, <3>2, OverIsFinished
  <2> QED BY <1>3, <2>1, <2>2
<1> QED BY <1>1, <1>2, <1>3, CompletionComes

\* A completion that is under way has nothing to carry onto a completed
\* sprint.
LEMMA NothingCarried ==
    ASSUME Drained, NEW h \in Handler, req[h].pc = "complete", req[h].next # Nil, sprints[req[h].next] = "completed"
    PROVE  Incomplete(req[h].s) = {}
BY DEF Drained, CompletionsInTurn

LEMMA WorkStaysOff ==
    ASSUME NobodyPlans, Drained, [Next]_vars
    PROVE  NoWorkOnACompletedSprint'
<1> USE SprintAssumption DEF Drained, Typed, TypeOK
<1>1. ASSUME NEW h \in Handler, CompleteWithDisposition(h) PROVE NoWorkOnACompletedSprint'
  <2> DEFINE s == req[h].s
             n == req[h].next
  <2>1. /\ s \in Sprint /\ n # s /\ n \in Target
        /\ sprints' = [sprints EXCEPT ![s] = "completed"]
        /\ items' = [i \in Item |-> IF i \in Incomplete(s) THEN [items[i] EXCEPT !.sprint = n] ELSE items[i]]
    BY <1>1 DEF CompleteWithDisposition, CompletionsInTurn, RequestsName
  <2>2. n # Nil /\ sprints[n] = "completed" => Incomplete(s) = {}
    BY <1>1, NothingCarried DEF CompleteWithDisposition
  <2> HIDE DEF s, n
  <2> SUFFICES ASSUME NEW i \in Item, items'[i].life = "live", items'[i].sprint # Nil,
                      sprints'[items'[i].sprint] = "completed"
               PROVE  items'[i].done
    BY DEF NoWorkOnACompletedSprint
  <2>3. CASE i \in Incomplete(s)
    <3>1. items'[i].sprint = n
      BY <2>1, <2>3
    <3>2. sprints'[n] = sprints[n]
      BY <2>1, <3>1
    <3> QED BY <2>2, <2>3, <3>1, <3>2
  <2>4. CASE i \notin Incomplete(s)
    <3>1. items'[i] = items[i]
      BY <2>1, <2>4
    <3>2. CASE items[i].sprint = s
      BY <2>4, <3>1, <3>2 DEF Incomplete
    <3>3. CASE items[i].sprint # s
      <4>1. sprints[items[i].sprint] = "completed"
        BY <2>1, <3>1, <3>3
      <4> QED BY <3>1, <4>1 DEF NoWorkOnACompletedSprint
    <3> QED BY <3>2, <3>3
  <2> QED BY <2>3, <2>4
<1>2. ASSUME items' = items, \A s \in Sprint : sprints'[s] = "completed" => sprints[s] = "completed"
      PROVE  NoWorkOnACompletedSprint'
  BY <1>2 DEF NoWorkOnACompletedSprint
<1>3. ASSUME NEW i \in Item, ItemStep(i) PROVE NoWorkOnACompletedSprint'
  <2>1. sprints' = sprints
    BY <1>3, ItemStepKeepsSprints
  <2>2. PICK sp : MoveToBacklog(sp, i) \/ Finish(i) \/ DeleteItem(i)
    BY <1>3 DEF ItemStep, NobodyPlans, CreateItem, AssignToSprint, Reopen, Edit
  <2>3. /\ \A j \in Item \ {i} : items'[j] = items[j]
        /\ items'[i].sprint \in {items[i].sprint, Nil} /\ (items'[i].life = "live" => items[i].life = "live")
        /\ items[i].done => items'[i].done
    BY <2>2 DEF MoveToBacklog, Finish, DeleteItem
  <2> QED BY <2>1, <2>3 DEF NoWorkOnACompletedSprint
<1>4. ASSUME NEW h \in Handler, CheckActive(h) \/ Activate(h) \/ CheckNext(h) \/ RequestStep(h)
      PROVE  items' = items /\ \A s \in Sprint : sprints'[s] = "completed" => sprints[s] = "completed"
  BY <1>4 DEF CheckActive, Activate, CheckNext, RequestStep, RequestStart, RequestComplete, Begin
<1>5. ASSUME NEW s \in Sprint, CreateSprint(s)
      PROVE  items' = items /\ \A t \in Sprint : sprints'[t] = "completed" => sprints[t] = "completed"
  BY <1>5 DEF CreateSprint
<1> QED BY <1>1, <1>2, <1>3, <1>4, <1>5 DEF Next, HandlerStep, Quiet, vars

LEMMA DrainedInit == NobodyPlans /\ Init => Drained
<1> SUFFICES ASSUME NobodyPlans, Init PROVE Drained
  OBVIOUS
<1>1. Typed
  BY InitTyped
<1>2. OneActivePerSpace
  BY SprintInitAssumption DEF Init, OneActivePerSpace
<1>3. SuccessorsAtHome /\ CompletionsInTurn
  BY DEF Init, SuccessorsAtHome, CompletionsInTurn, Idle
<1>4. NoWorkOnACompletedSprint
  BY DEF Init, NoWorkOnACompletedSprint, NobodyPlans
<1> QED BY <1>1, <1>2, <1>3, <1>4 DEF Drained

LEMMA DrainedNext ==
    ASSUME NobodyPlans, Drained, [Next]_vars
    PROVE  Drained'
<1>1. Typed' /\ OneActivePerSpace'
  BY NextTyped, OneActiveNext DEF Drained
<1>2. SuccessorsAtHome'
  BY SuccessorsHome DEF Drained
<1> QED BY <1>1, <1>2, CompletionsStayInTurn, WorkStaysOff DEF Drained

LEMMA LeavesComplete ==
    ASSUME Typed, [Next]_vars, NEW h \in Handler, req[h].pc = "complete", req'[h].pc = "idle"
    PROVE  CompleteWithDisposition(h)
<1> USE DEF Typed, TypeOK
<1>1. ASSUME NEW g \in Handler, HandlerStep(g) PROVE CompleteWithDisposition(h)
  BY <1>1 DEF HandlerStep, CheckActive, Activate, CheckNext, CompleteWithDisposition, Goto, Answer, Idle
<1>2. ASSUME NEW g \in Handler, RequestStep(g) PROVE FALSE
  BY <1>2 DEF RequestStep, RequestStart, RequestComplete, Begin
<1>3. ASSUME NEW s \in Sprint, CreateSprint(s) PROVE FALSE
  BY <1>3 DEF CreateSprint, Edit
<1>4. ASSUME NEW i \in Item, ItemStep(i) PROVE FALSE
  BY <1>4, ItemStepKeepsSprints
<1> QED BY <1>1, <1>2, <1>3, <1>4 DEF Next, Quiet, vars

\* Unfinished work is never on a completed sprint, whichever completions
\* race and whatever starts bring back a sprint that is over, as long as
\* nobody plans onto a sprint or reopens an item.
THEOREM CompletedSprintsAreEmptied == NobodyPlans => (Spec => []NoWorkOnACompletedSprint)
<1> SUFFICES ASSUME NobodyPlans PROVE Spec => []NoWorkOnACompletedSprint
  OBVIOUS
<1>1. Init => Drained
  BY DrainedInit
<1>2. Drained /\ [Next]_vars => Drained'
  BY DrainedNext
<1>3. Drained => NoWorkOnACompletedSprint
  BY DEF Drained
<1> QED BY <1>1, <1>2, <1>3, PTL DEF Spec

\* Under the same premise no completion carries work onto a sprint that is
\* over, though the successor was read in an earlier statement.
THEOREM CarriedWorkLandsOpen == NobodyPlans => (Spec => CarriedWorkLandsOnAnOpenSprint)
<1> SUFFICES ASSUME NobodyPlans PROVE Spec => CarriedWorkLandsOnAnOpenSprint
  OBVIOUS
<1> DEFINE Open == \A h \in Handler :
         /\ req[h].pc = "complete" /\ req'[h].pc = "idle"
         /\ req[h].next # Nil
         /\ items' # items
         => sprints[req[h].next] # "completed"
<1>1. Init => Drained
  BY DrainedInit
<1>2. Drained /\ [Next]_vars => Drained'
  BY DrainedNext
<1>3. Drained /\ [Next]_vars => [Open]_vars
  <2> SUFFICES ASSUME Drained, [Next]_vars, NEW h \in Handler, req[h].pc = "complete", req'[h].pc = "idle",
                      req[h].next # Nil, items' # items, sprints[req[h].next] = "completed"
               PROVE  FALSE
    OBVIOUS
  <2>1. CompleteWithDisposition(h)
    BY LeavesComplete DEF Drained
  <2>2. Incomplete(req[h].s) = {}
    BY NothingCarried
  <2> QED BY <2>1, <2>2 DEF CompleteWithDisposition, Drained, Typed, TypeOK
<1> QED BY <1>1, <1>2, <1>3, PTL DEF Spec, CarriedWorkLandsOnAnOpenSprint
=============================================================================
