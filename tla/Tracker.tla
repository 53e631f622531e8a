------------------------------- MODULE Tracker -------------------------------
(***************************************************************************)
(* What the spaces hold besides pages: items and tickets, the relations    *)
(* between them, their custom fields, the boards they are shown on, the    *)
(* comments and files on them, the views, queues and dashboards that list  *)
(* them, and the portal customers see them through.                        *)
(***************************************************************************)
EXTENDS Portal, Fields, Boards, Dashboards, Search, Backlog

panelVars == <<view, dashVars>>

trackerVars ==
  <<serverVars, groundVars, itemVars, rel, fieldVars, boardVars, commentVars, portalVars, panelVars>>

TrackerInit ==
  /\ ServerInit /\ OrgInit /\ ShareInit /\ ItemInit /\ RelInit
  /\ FieldInit /\ BoardInit /\ CommentInit /\ PortalInit /\ ViewInit /\ DashInit

(* What a step of each part leaves alone.                                  *)
talkVars == <<rel, commentVars, portalVars>>
formVars == <<fieldVars, boardVars>>

TrackerNext ==
  \/ \E h \in Handler :
       \/ AccessStep(h) /\ UNCHANGED <<shareVars, itemVars, talkVars, formVars, panelVars>>
       \/ SpacesStep(h) /\ UNCHANGED <<shareVars, itemVars, talkVars, formVars, panelVars>>
       \/ SharesStep(h) /\ UNCHANGED <<itemVars, talkVars, formVars, panelVars>>
       \/ ItemsStep(h) /\ UNCHANGED <<talkVars, formVars, panelVars>>
       \/ BacklogStep(h) /\ UNCHANGED <<talkVars, formVars, panelVars>>
       \/ RelationsStep(h) /\ UNCHANGED <<commentVars, portalVars, formVars, panelVars>>
       \/ FieldsStep(h) /\ UNCHANGED <<talkVars, boardVars, panelVars>>
       \/ BoardsStep(h) /\ UNCHANGED <<talkVars, fieldVars, panelVars>>
       \/ CommentsStep(h) /\ UNCHANGED <<portalVars, formVars, panelVars>>
       \/ PortalStep(h) /\ UNCHANGED <<formVars, panelVars>>
       \/ ViewsStep(h) /\ UNCHANGED <<talkVars, formVars, dashVars>>
       \/ SearchStep(h) /\ UNCHANGED <<talkVars, formVars, dashVars>>
       \/ QueuesStep(h) /\ UNCHANGED <<talkVars, formVars, dashVars>>
       \/ DashboardsStep(h) /\ UNCHANGED <<talkVars, formVars>>
  \/ EmptySearch /\ UNCHANGED <<talkVars, formVars, dashVars>>
  \/ LinkExpires /\ UNCHANGED <<formVars, panelVars>>

TrackerSpec == TrackerInit /\ [][TrackerNext]_trackerVars

-----------------------------------------------------------------------------
(* A space's items are numbered from one without a gap, its tickets each   *)
(* with a number of its own, and a key names one item of the organization, *)
(* which is what it resolves to for those who may read it; deleted rows    *)
(* keep theirs (migrations/031_project_item_keys.sql).                     *)
ItemsAreNumberedOnce ==
  /\ \A sp \in Space : /\ {item[i].num : i \in Rows(sp, "item")} = 1 .. seqno[sp]
                       /\ \A i, j \in Item : i # j /\ item[i].sp = item[j].sp /\ item[i].et = item[j].et =>
                            item[i].st = "absent" \/ item[i].num # item[j].num
  /\ \A i, j \in Item : i # j /\ item[i].key # Nil /\ item[j].key # Nil /\ SpaceOrg[item[i].sp] = SpaceOrg[item[j].sp] =>
       item[i].key # item[j].key
  /\ \A u \in Work.callers : \A i \in {j \in Item : ItemLive(j) /\ item[j].et = "item"} :
       ResolveItem(u, item[i].sp, item[i].key) = (IF Can(u, "read_items", item[i].sp) THEN {i} ELSE {})

Linked == UNION {{rel[i].from, rel[i].to} : i \in {j \in RelId : rel[j].st = "live"}}

(* Whoever may read both sides is told the same of what they have to do    *)
(* with each other, and of who blocks whom, from either of them            *)
(* (ListRelationsInSpace, filterByDirectedKind).                           *)
BlockersMirror ==
  \A u \in User : LET sps == ReadableSpaceIDs(u) IN
    \A d, e \in Linked : TargetIsReadable(d, sps) /\ TargetIsReadable(e, sps) =>
      /\ (\E x \in ListRelationsInSpace(d, EntitySpace(d), sps) : x.far = e) <=>
           (\E x \in ListRelationsInSpace(e, EntitySpace(e), sps) : x.far = d)
      /\ (\E x \in GetBlockers(d, sps) : x.far = e) <=> (\E x \in GetBlocking(e, sps) : x.far = d)

(* What is looked up from two ends is the same thing from both.            *)
LookupsAgree == ItemsAreNumberedOnce /\ BlockersMirror

(* The value an entity holds under the slug of a field that exists was     *)
(* accepted by that field and not by an earlier one of the same slug, and  *)
(* the rendered form shows every value the entity holds exactly once       *)
(* (slugIsFree, composeRendered).                                          *)
ValuesFitTheirField ==
  \A i \in Item : ItemLive(i) =>
    LET shown == RenderForEntity(i) IN
    /\ \A s \in FieldSlug :
         LET field == fdef[SpaceOrg[item[i].sp]][s] IN
         fval[i][s] # NoValue /\ field.st # "none" => fval[i][s].under = field.id
    /\ ListEntityFieldValues(i) \subseteq shown.form \cup shown.legacy
    /\ shown.form \cap shown.legacy = {}

(* A saved board leaves no status of the space without a column, and what  *)
(* it maps a status to is a column of that space                           *)
(* (migrations/035_board_config.sql, DeleteColumn, ReplaceConfig).         *)
EveryStatusHasAColumn ==
  \A sp \in Space :
    /\ ListColumns(sp) # {} => statusVocabulary(sp) \subseteq ListBoardColumnStatuses(sp)
    /\ \A st \in ListBoardColumnStatuses(sp) : cmap[sp][st] \in ColumnIds(sp)

(* What was configured is what the rows are held to: values by the fields, *)
(* statuses by the columns.                                                *)
RowsFitTheirConfiguration == ValuesFitTheirField /\ EveryStatusHasAColumn

(* A file that is still listed can be opened, and one that a reader found  *)
(* can be opened when he gets there, whatever became of its row or of a    *)
(* failed upload in between (Upload, SoftDeleteAttachment).                *)
AttachmentsHaveTheirObject ==
  /\ {f \in FileId : file[f].st = "live"} \subseteq object
  /\ \A h \in Handler : At(h, "download", "open") => req[h].f \in object

(* One link opens one session, for the requester and the portal it was     *)
(* sent for (ConsumeMagicLink).                                            *)
LinkOpensOneSession ==
  /\ \A s, t \in psession : s.l = t.l => s = t
  /\ \A s \in psession : mlink[s.l] = [st |-> "consumed", q |-> s.q, sp |-> s.sp]

(* A customer writes only on a ticket of his own, and is shown what he     *)
(* wrote there and what the agents were listed as public, and no internal  *)
(* note (GetPortalRequest, ListPortalTicketComments).                      *)
CustomersSeeTheirThread ==
  /\ \A c \in CommentId : comment[c].st = "live" /\ comment[c].by \in Customers => item[comment[c].e].by = comment[c].by
  /\ \A q \in Customers, sp \in Space : \A i \in ListPortalRequests(q, sp) :
       LET shown == ListPortalTicketComments(i) IN
       /\ {c \in CommentId : comment[c].st = "live" /\ comment[c].e = i /\ comment[c].by = q} \subseteq shown
       /\ {c \in ListCommentsByEntity(i, sp) : comment[c].vis = "public"} \subseteq shown
       /\ \A c \in shown : comment[c].vis # "internal"

(* What hangs from a ticket reaches whom it should: the customer his       *)
(* thread, by a link that is his, and a reader the file he was listed.     *)
TicketsTalkToTheirOwn == LinkOpensOneSession /\ CustomersSeeTheirThread /\ AttachmentsHaveTheirObject

-----------------------------------------------------------------------------
(* Whoever pages through a result reads on in the order he asked for, over *)
(* all his pages, so nothing that stands still is shown to him twice; and  *)
(* at the end he has seen every row that was his to see at each of his     *)
(* readings and stood at the same place of the order, whatever was         *)
(* created, changed and deleted in between.  A row whose sort column was   *)
(* written meanwhile may have passed him, either way (views/resolve.go).   *)
PagesAddUp ==
  \A h \in Handler : req[h].op = "results" =>
    LET r == req[h]
        shown == [n \in DOMAIN r.pages |-> [key |-> r.pages[n].key, id |-> r.pages[n].id]]
    IN
    /\ \A m, n \in DOMAIN shown : m < n => sortedBefore(r.query, shown[m], shown[n])
    /\ r.pc = "done" => r.always \subseteq Range(shown)

(* A search shows nobody what he could not find since he asked for the     *)
(* page, nothing twice, and by its last page all that he could find all    *)
(* along; the space a hit is in is told to those who may read that space,  *)
(* and excerpts are of hits of the same page (search/search.go, the access *)
(* predicate of search.sql).                                               *)
SearchShowsTheReadable ==
  \A h \in Handler : req[h].op = "search" =>
    LET r == req[h]
        ids == [n \in DOMAIN r.found |-> r.found[n].id]
    IN
    /\ IsInjective(ids)
    /\ r.now \cup r.excerpts \subseteq r.may \cap Range(ids)
    /\ r.pc = "done" => r.always \subseteq Range(ids)
    /\ \A n \in DOMAIN r.found : r.found[n].id \in r.now =>
         r.found[n].sp = (IF ContainerOf(ids[n]) \in r.caller.readable THEN ContainerOf(ids[n]) ELSE Nil)

(* The rows a reader is listed, the number he is told there are and the    *)
(* sum of the buckets they fall into are those of the rows that answer the *)
(* query, of both tables (views/aggregate.go, saved_views.sql).            *)
CountsAgree ==
  \A o \in Org, u \in Work.readers : \A q \in QueriesFor(u) :
    LET v == viewerFrom(o, u)
        rows == Concerned(q, v)
    IN
    /\ rows = (IF Asked(q, v, Beacon) THEN TicketRows(q, v) ELSE {}) \cup (IF Asked(q, v, Vector) THEN ItemRows(q, v) ELSE {})
    /\ aggregateTotal(q, v) = Cardinality(rows)
    /\ \A g \in GroupField : AllowedFor(g, q) =>
         LET a == Aggregate(g, q, v) IN
         /\ Total(a.kept) + a.other = Cardinality(rows)
         /\ Cardinality(DOMAIN a.kept) <= MaxBuckets

(* The rows of a view are paged through and counted as one result.         *)
ResultsAddUp == PagesAddUp /\ CountsAgree

(* Who may open a view or a dashboard is decided in Go, who finds it in    *)
(* his list in SQL, and they are the same people but for administrators,   *)
(* who may open more; a tile shows what its reader finds in the list       *)
(* (views/audience.go, ListSavedViewsForViewer,                            *)
(* ListDashboardsForViewer, dashboards/resolve.go).                        *)
AudienceIsOne ==
  \A o \in Org, u \in User : Member(o, u) /\ ~IsOrgAdmin(u, o) =>
    /\ ListSavedViewsForViewer(o, u) = {x \in View : view[x].org = o /\ view[x].sp = Nil /\ CanSeeView(x, u)}
    /\ ListDashboardsForViewer(o, u) = {d \in Board : dash[d].org = o /\ CanSeeBoard(d, u)}
    /\ \A t \in tile : CanSeeBoard(t.d, u) /\ t.vid # Nil =>
         (resolveGadget(t, o, u) \in {"ready", "scope_unavailable"} <=> t.vid \in ListSavedViewsForViewer(o, u))

(* A queue that is made comes after every queue of the space, under a name *)
(* of its own, and an order that is set is the order that was asked for    *)
(* (NextQueuePosition, ReorderQueues).                                     *)
QueuesKeepTheirOrder ==
  \A sp \in Space :
    LET before == {x \in View : x \in ListQueuesForSpace(sp)}
        after == {x \in View : view'[x].st = "live" /\ view'[x].sp = sp}
    IN
    /\ \A x \in after \ before : \A y \in after \ {x} : view'[y].pos < view'[x].pos /\ view'[y].name # view'[x].name
    /\ \A x, y \in after : x # y => view'[x].pos # view'[y].pos
    /\ (\E x \in before \cap after : view'[x].pos # view[x].pos) => after = before

(* A dashboard shows one person's layout, all of it and nothing else, and  *)
(* nobody has two defaults for one module, whoever saves and opens Home at *)
(* the same time (ReplaceGadgets, ClearDefaultDashboard, ResolveHome).     *)
LayoutsLandWhole ==
  /\ \A d \in Board : LET ts == ListDashboardGadgets(d) IN
       /\ \A s, t \in ts : s.by = t.by
       /\ {t.pos : t \in ts} = 0 .. Cardinality(ts) - 1
  /\ \A u \in User, m \in Module : Cardinality(GetDefaultDashboard(u, m)) <= 1

(* A reorder that names every queue of the space once takes effect         *)
(* (api/openapi.yaml, "204: Reordered", "422: Not a permutation").         *)
ReorderTakesEffect ==
  [][\A h \in Handler : At(h, "reorderqueues", "set") /\ req'[h] = Idle =>
       \A n \in DOMAIN req[h].order : view'[req[h].order[n]].pos = n - 1
    ]_<<req, view>>

-----------------------------------------------------------------------------
(* What people put in order stays in that order: a space's queues, and the *)
(* backlog.                                                                *)
OrdersAreKept == [][QueuesKeepTheirOrder /\ RankedAsAsked]_trackerVars
=============================================================================
