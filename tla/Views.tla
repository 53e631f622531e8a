-------------------------------- MODULE Views --------------------------------
(***************************************************************************)
(* Saved views: internal/core/views (filter, view, audience, resolve,      *)
(* aggregate), internal/db/adapters/saved_views.go and                     *)
(* internal/core/api/views.  A view is a stored query and who may see it;  *)
(* its results are read for whoever asks, from the spaces he can read and  *)
(* the tickets and items shared with him.                                  *)
(*                                                                         *)
(* Of the filter the modules, spaces, assignees and kinds are here, and of *)
(* the sort all six fields; the statuses, priorities, sprints, text and    *)
(* dates are clauses of the same shape on other columns of the rows.       *)
(***************************************************************************)
EXTENDS Items

CONSTANTS View, PageSize, MaxBuckets

VARIABLES view   \* saved_views rows, by id

NoView == [st |-> "absent", org |-> Nil, owner |-> Nil, vis |-> Nil, team |-> Nil, query |-> Nil,
           sp |-> Nil, pos |-> Nil, name |-> Nil]

ViewInit == view = [x \in View |-> IF x \in DOMAIN Cast.views THEN Cast.views[x] ELSE NoView]

ViewLive(x) == view[x].st = "live"
FreshView == {x \in View : view[x].st = "absent"}

-----------------------------------------------------------------------------
(* The filter *)

Beacon == "ticket"   \* the module of a row is the table it is in
Vector == "item"
Me == "me"
Unassigned == "unassigned"

HasModule(q, m) == m \in q.modules

(* not is the set of the fields that are negated.                          *)
validateNegation(q) ==
  /\ "spaces" \in q.not => q.spaces # {}
  /\ "assignees" \in q.not => q.assignees # {}
  /\ "kinds" \in q.not => q.kinds # {}

validSortFields == {"updated_at", "created_at", "due_at", "resolved_at", "priority", "title"}

validate(q) ==
  /\ q.modules # {} /\ q.modules \subseteq {Beacon, Vector}
  /\ q.kinds # {} => ~HasModule(q, Beacon)
  /\ q.sort \in validSortFields
  /\ validateNegation(q)

(* Me is resolved for the one who reads, on every read.                    *)
buildAssignees(q, u) == (q.assignees \cap User) \cup (IF Me \in q.assignees THEN {u} ELSE {})

-----------------------------------------------------------------------------
(* The reader: resolved when his request comes in *)

DirectIDs(o, u, et) == {i \in Item : item[i].et = et /\ \E s \in ResolveShareRows(o, u) : share[s].p = i}

viewerFrom(o, u) ==
  [u |-> u, org |-> o, readable |-> {sp \in Space : SpaceOrg[sp] = o /\ CanReadSpace(u, sp)},
   shared |-> [m \in {Beacon, Vector} |-> DirectIDs(o, u, m)]]

canReachModule(v, m) == v.readable # {} \/ v.shared[m] # {}

(* A clause of the WHERE: no values is no filter.                          *)
Clause(q, field, values, in) == values = {} \/ (in # (field \in q.not))

Accessible(i, v, m) == item[i].sp \in v.readable \/ i \in v.shared[m]

AssigneeClause(i, q, v) ==
  Clause(q, "assignees", q.assignees,
         \/ item[i].assignee \in buildAssignees(q, v.u)
         \/ Unassigned \in q.assignees /\ item[i].assignee = Nil)

RowsOf(q, v, m) ==
  {i \in Item : /\ ItemLive(i) /\ item[i].et = m /\ SpaceLive(item[i].sp) /\ SpaceOrg[item[i].sp] = v.org
                /\ Accessible(i, v, m)
                /\ Clause(q, "spaces", q.spaces, item[i].sp \in q.spaces)
                /\ AssigneeClause(i, q, v)}

TicketRows(q, v) == RowsOf(q, v, Beacon)
ItemRows(q, v) == {i \in RowsOf(q, v, Vector) : Clause(q, "kinds", q.kinds, item[i].kind \in q.kinds)}

-----------------------------------------------------------------------------
(* The order, and a place in it, which a row holds until the column of the *)
(* sort is written; ids are given in the order of creation.  A sort key of *)
(* 0 is the empty string, which is also what the first page is asked with. *)

SortKey(q, i) == IF q.sort = "created_at" THEN i ELSE item[i][q.sort]

cursorPos(q, i) == [key |-> SortKey(q, i), id |-> i]
NoCursor == [key |-> 0, id |-> 0]

Less(a, b) == a.key < b.key \/ (a.key = b.key /\ a.id < b.id)
sortedBefore(q, a, b) == IF q.desc THEN Less(b, a) ELSE Less(a, b)

AfterKey(q, c, a) == c.key = 0 \/ IF q.desc THEN a.key < c.key ELSE a.key > c.key   \* mutant: ties are lost
AfterCursor(q, c, a) == c.key = 0 \/ sortedBefore(q, c, a)

InOrder(q, places) == SetToSortSeq(places, LAMBDA a, b : sortedBefore(q, a, b))
FirstOf(s, n) == SubSeq(s, 1, Min({n, Len(s)}))

(* What a statement returns of a row: its place as it is when it is read.  *)
Places(q, rows) == {cursorPos(q, i) : i \in rows}
Fanout(q, c, rows) == Range(FirstOf(InOrder(q, {a \in Places(q, rows) : AfterCursor(q, c, a)}), PageSize + 1))

ListViewTickets(q, v, c) ==
  IF HasModule(q, Beacon) /\ canReachModule(v, Beacon) THEN Fanout(q, c, TicketRows(q, v)) ELSE {}
ListViewProjectItems(q, v, c) ==
  IF HasModule(q, Vector) /\ canReachModule(v, Vector) THEN Fanout(q, c, ItemRows(q, v)) ELSE {}

(* A row reached by a share only is shown without the space it is in.      *)
redactSharedContainers(a, v) ==
  [key |-> a.key, id |-> a.id, sp |-> IF item[a.id].sp \in v.readable THEN item[a.id].sp ELSE Nil]

-----------------------------------------------------------------------------
(* Counts *)

GroupField == {"assignee", "kind"}
AllowedFor(g, q) == g = "kind" => ~HasModule(q, Beacon)
bucketKey(g, i) == IF g = "assignee" THEN item[i].assignee ELSE item[i].kind

CountViewTickets(q, v) == Cardinality(TicketRows(q, v))
CountViewProjectItems(q, v) == Cardinality(ItemRows(q, v))

GroupBy(g, rows) == [k \in {bucketKey(g, i) : i \in rows} |-> Cardinality({i \in rows : bucketKey(g, i) = k})]
BreakdownViewTickets(g, q, v) == GroupBy(g, TicketRows(q, v))
BreakdownViewProjectItems(g, q, v) == GroupBy(g, ItemRows(q, v))

mergeBuckets(a, b) ==
  [k \in DOMAIN a \cup DOMAIN b |-> (IF k \in DOMAIN a THEN a[k] ELSE 0) + (IF k \in DOMAIN b THEN b[k] ELSE 0)]

Total(bs) == FoldFunction(LAMBDA n, acc : n + acc, 0, bs)

(* The largest MaxBuckets of them, and one that holds the rest: which of   *)
(* equal ones is kept is settled by their keys.                            *)
capBuckets(merged) ==
  IF Cardinality(DOMAIN merged) <= MaxBuckets THEN [kept |-> merged, other |-> 0]
  ELSE LET keep == CHOOSE ks \in kSubset(MaxBuckets, DOMAIN merged) :
                     \A k \in ks, l \in DOMAIN merged \ ks : merged[k] >= merged[l]
       IN  [kept |-> [k \in keep |-> merged[k]], other |-> Total([k \in DOMAIN merged \ keep |-> merged[k]])]

(* The same modules are asked as for the list.                             *)
Asked(q, v, m) == HasModule(q, m) /\ canReachModule(v, m)
aggregateTotal(q, v) ==
  (IF Asked(q, v, Beacon) THEN CountViewTickets(q, v) ELSE 0) +
  (IF Asked(q, v, Vector) THEN CountViewProjectItems(q, v) ELSE 0)
Aggregate(g, q, v) ==
  capBuckets(mergeBuckets(IF Asked(q, v, Beacon) THEN BreakdownViewTickets(g, q, v) ELSE <<>>,
                          IF Asked(q, v, Vector) THEN BreakdownViewProjectItems(g, q, v) ELSE <<>>))

-----------------------------------------------------------------------------
(* Who sees a view, and whose it is *)

inTeam(o, u, t) == t \in EffectiveTeams(o, u)
OwnedBy(row, u) == IsOrgAdmin(u, row.org) \/ row.owner = u
Reaches(row, u) ==
  \/ OwnedBy(row, u)
  \/ row.vis = "org"
  \/ row.vis = "team" /\ row.team # Nil /\ inTeam(row.org, u, row.team)

(* What a request may name: a team only with the visibility of a team, and *)
(* then one the caller is in; the empty set is a refusal.                  *)
Normalise(o, u, vis, t) ==
  CASE vis \in {"private", "org"} -> {[vis |-> vis, team |-> Nil]}
    [] vis = "team" /\ t # Nil /\ (IsOrgAdmin(u, o) \/ inTeam(o, u, t)) -> {[vis |-> vis, team |-> t]}
    [] OTHER -> {}

CanSeeView(x, u)  == ViewLive(x) /\ Member(view[x].org, u) /\ Reaches(view[x], u)
CanEditView(x, u) == CanSeeView(x, u) /\ OwnedBy(view[x], u)

\* mutant: the team of a team view is not compared
ListEveryTeamView(o, u) ==
  {x \in View : ViewLive(x) /\ view[x].org = o /\ view[x].sp = Nil /\ (view[x].owner = u \/ view[x].vis \in {"org", "team"})}

(* The list, whose audience is a WHERE clause; and the lookup by ids of a  *)
(* dashboard, which has none.  Queues are in neither.                      *)
ListSavedViewsForViewer(o, u) ==
  {x \in View : /\ ViewLive(x) /\ view[x].org = o /\ view[x].sp = Nil
                /\ \/ view[x].owner = u
                   \/ view[x].vis = "org"
                   \/ view[x].vis = "team" /\ view[x].team # Nil /\ view[x].team \in EffectiveTeams(o, u)}

GetSavedViewsByIDs(o, ids) == {x \in ids : ViewLive(x) /\ view[x].org = o /\ view[x].sp = Nil}

ListLiveSpaceIDs(o, sps) == {sp \in sps : SpaceLive(sp) /\ SpaceOrg[sp] = o}
markValidity(row) ==
  \/ row.vis = "team" /\ row.team = Nil
  \/ row.query.spaces # {} /\ ListLiveSpaceIDs(row.org, row.query.spaces) = {}

-----------------------------------------------------------------------------
(* Views are created, replaced whole, and deleted. *)

Audiences == {"private", "org", "team"} \X (Work.teams \cup {Nil})

CreateViewBegin(h) ==
  /\ Ready(h, "createview")
  /\ \E o \in Org, u \in Work.callers, q \in Work.queries, a \in Audiences :
       /\ Member(o, u) /\ validate(q)
       /\ \E aud \in Normalise(o, u, a[1], a[2]) :
            Begin(h, [op |-> "createview", pc |-> "insert",
                      vrow |-> [NoView EXCEPT !.st = "live", !.org = o, !.owner = u, !.query = q, !.vis = aud.vis, !.team = aud.team]])
       /\ UNCHANGED <<groundVars, itemVars, view>>

CreateSavedView(h) ==
  /\ At(h, "createview", "insert")
  /\ FreshView # {}
  /\ view' = [view EXCEPT ![Min(FreshView)] = req[h].vrow]
  /\ End(h)
  /\ UNCHANGED <<groundVars, itemVars>>

(* What the request leaves out it takes from the row that was read: the    *)
(* audience, and its team while the visibility stays.                      *)
Inherited(row, a) ==
  LET vis == IF a[1] = Nil THEN row.vis ELSE a[1]
  IN  <<vis, IF a[2] = Nil /\ vis = row.vis THEN row.team ELSE a[2]>>

UpdateViewBegin(h) ==
  /\ Ready(h, "updateview")
  /\ \E x \in View, u \in Work.callers, q \in Work.queries, a \in Audiences \cup {<<Nil, Nil>>} :
       LET to == Inherited(view[x], a) IN
       /\ CanEditView(x, u) /\ validate(q)
       /\ \E aud \in Normalise(view[x].org, u, to[1], to[2]) :
            Begin(h, [op |-> "updateview", pc |-> "write", vid |-> x,
                      vrow |-> [view[x] EXCEPT !.query = q, !.vis = aud.vis, !.team = aud.team]])
       /\ UNCHANGED <<groundVars, itemVars, view>>

(* saved_views_queue_shape refuses a queue any other visibility.           *)
UpdateSavedView(h) ==
  LET r == req[h]
      now == view[r.vid]
  IN
  /\ At(h, "updateview", "write")
  /\ view' = IF ViewLive(r.vid) /\ now.sp = Nil
             THEN [view EXCEPT ![r.vid] = [now EXCEPT !.query = r.vrow.query, !.vis = r.vrow.vis, !.team = r.vrow.team]]
             ELSE view
  /\ End(h)
  /\ UNCHANGED <<groundVars, itemVars>>

DeleteViewBegin(h) ==
  /\ Ready(h, "deleteview")
  /\ \E x \in View, u \in Work.callers :
       /\ CanEditView(x, u)
       /\ Begin(h, [op |-> "deleteview", pc |-> "delete", vid |-> x])
       /\ UNCHANGED <<groundVars, itemVars, view>>

SoftDeleteSavedView(h) ==
  /\ At(h, "deleteview", "delete")
  /\ view' = [view EXCEPT ![req[h].vid].st = "deleted"]
  /\ End(h)
  /\ UNCHANGED <<groundVars, itemVars>>

-----------------------------------------------------------------------------
(* Results, page after page: of a query as it is given, of a view, or of a *)
(* queue.  A page is two statements, one per table, and what they found    *)
(* merged and cut; the next page is another request, whose reader is       *)
(* resolved again.                                                         *)

(* What the query says of a row, without the tables; the handler keeps the *)
(* places of the rows it said it of at every reading so far, as long as    *)
(* they stand there, for the properties.                                   *)
Named(q, v, i) == \/ item[i].assignee \in buildAssignees(q, v.u)
                  \/ Unassigned \in q.assignees /\ item[i].assignee = Nil
Concerns(q, v, i) ==
  /\ ItemLive(i) /\ SpaceLive(item[i].sp) /\ HasModule(q, item[i].et)
  /\ CanReadSpace(v.u, item[i].sp) \/ i \in DirectIDs(v.org, v.u, item[i].et)
  /\ q.spaces # {} => IF "spaces" \in q.not THEN item[i].sp \notin q.spaces ELSE item[i].sp \in q.spaces
  /\ q.assignees # {} => IF "assignees" \in q.not THEN ~Named(q, v, i) ELSE Named(q, v, i)
  /\ q.kinds # {} => IF "kinds" \in q.not THEN item[i].kind \notin q.kinds ELSE item[i].kind \in q.kinds

Concerned(q, v) == {i \in Item : Concerns(q, v, i)}
Standing(q, v) == Places(q, Concerned(q, v))
Always(r) == r.always \cap Standing(r.query, r.viewer)

QueriesFor(u) ==
  {q \in Work.queries : validate(q)}
    \cup {view[x].query : x \in {y \in View : CanSeeView(y, u) \/ (ViewLive(y) /\ view[y].sp # Nil /\ CanReadSpace(u, view[y].sp))}}

ResultsBegin(h) ==
  /\ Ready(h, "results")
  /\ \E o \in Org, u \in Work.readers : \E q \in QueriesFor(u) :
       LET v == viewerFrom(o, u) IN
       /\ Member(o, u)
       /\ Begin(h, [op |-> "results", pc |-> "tickets", query |-> q, viewer |-> v, after |-> NoCursor, got |-> {},
                    pages |-> <<>>, always |-> Standing(q, v)])
       /\ UNCHANGED <<groundVars, itemVars, view>>

ReadTickets(h) ==
  LET r == req[h] IN
  /\ At(h, "results", "tickets")
  /\ Go(h, [r EXCEPT !.pc = "items", !.always = Always(r), !.got = ListViewTickets(r.query, r.viewer, r.after)])
  /\ UNCHANGED <<groundVars, itemVars, view>>

(* One row more than the page tells that there is another.                 *)
Resolve(h) ==
  LET r == req[h]
      merged == InOrder(r.query, r.got \cup ListViewProjectItems(r.query, r.viewer, r.after))
      page_ == FirstOf(merged, PageSize)
      shown == [n \in DOMAIN page_ |-> redactSharedContainers(page_[n], r.viewer)]
      more == Len(merged) > PageSize
  IN
  /\ At(h, "results", "items")
  /\ Go(h, [r EXCEPT !.pc = IF more THEN "next" ELSE "done", !.always = Always(r), !.got = {}, !.pages = @ \o shown,
                     !.after = IF more THEN page_[PageSize] ELSE @])
  /\ UNCHANGED <<groundVars, itemVars, view>>

(* A cursor that is empty asks for the first page: the reading starts over.*)
NextPage(h) ==
  LET r == req[h]
      v == viewerFrom(r.viewer.org, r.viewer.u)
      over == r.after.key = 0
  IN
  /\ At(h, "results", "next")
  /\ Go(h, [r EXCEPT !.pc = "tickets", !.viewer = v,
                     !.pages = IF over THEN <<>> ELSE @, !.always = IF over THEN Standing(r.query, v) ELSE Always(r)])
  /\ UNCHANGED <<groundVars, itemVars, view>>

LastPage(h) ==
  /\ At(h, "results", "done")
  /\ End(h)
  /\ UNCHANGED <<groundVars, itemVars, view>>

ViewsStep(h) ==
  \/ CreateViewBegin(h) \/ CreateSavedView(h) \/ UpdateViewBegin(h) \/ UpdateSavedView(h)
  \/ DeleteViewBegin(h) \/ SoftDeleteSavedView(h)
  \/ ResultsBegin(h) \/ ReadTickets(h) \/ Resolve(h) \/ NextPage(h) \/ LastPage(h)
=============================================================================
