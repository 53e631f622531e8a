------------------------------ MODULE MCTracker ------------------------------
(* The populations and the workloads of the Tracker and DeadQueue runs. *)
EXTENDS Tracker

CONSTANTS ann, bob, cy, acme, def, ops, ea, eb, ec, eng, doc, lab, p1, p2, task, bug, size, sev, open, done, home, beacon

MCTeamOrg == [t \in Team |-> acme]
MCDefaultTeam == [o \in Org |-> def]
MCSpaceOrg == [sp \in Space |-> acme]
MCDefaultQueues == <<"all", "mine">>
MCStarterLayout == <<[key |-> "my_work", vid |-> Nil], [key |-> "my_work", vid |-> Nil]>>
MCUuid == [e \in Page \cup Item |-> IF e = p1 THEN 3 ELSE IF e = p2 THEN 7 ELSE e + (IF e >= 3 THEN 1 ELSE 0)]
MCSpaceType == [sp \in Space |-> IF sp = doc THEN "beacon" ELSE "vector"]

Someone(e) == [st |-> "live", active |-> TRUE, gen |-> 0, pw |-> 1, email |-> e, home |-> acme]
SpaceOf(st, k, vis) == [st |-> st, key |-> k, owner |-> def, vis |-> vis, mem |-> {}, wf |-> TRUE]
G(id, sp, s, r) == [id |-> id, sp |-> sp, s |-> s, role |-> r]
ItemOf(et, sp, n, key, k, by) ==
  [st |-> "live", et |-> et, sp |-> sp, num |-> n, key |-> key, kind |-> k, by |-> by, assignee |-> Nil, rank |-> DefaultRank,
   updated_at |-> 1, due_at |-> 0, resolved_at |-> 0, priority |-> 1, title |-> 1]

(* ann administers acme, bob and cy are members; eng and doc are live.     *)
Cast0 ==
  [account |-> (ann :> Someone(ea)) @@ (bob :> Someone(eb)) @@ (cy :> Someone(ec)),
   role |-> [o \in Org |-> (ann :> "admin") @@ (bob :> "member") @@ (cy :> "member")],
   team |-> [t \in Team |-> [st |-> "live", parent |-> Nil, path |-> <<t>>]],
   tm |-> (def :> (ann :> "primary" @@ bob :> "primary" @@ cy :> "member")) @@ (ops :> (ann :> "none" @@ bob :> "none" @@ cy :> "primary")),
   grants |-> {G(1, eng, bob, Agent), G(2, doc, bob, SpaceAdmin), G(3, eng, cy, Contributor)},
   space |-> (eng :> SpaceOf("live", "ENG", "hidden")) @@ (doc :> SpaceOf("live", "DOC", "hidden")) @@ (lab :> SpaceOf("absent", "", "hidden")),
   leads |-> {}, page |-> [p \in {} |-> NoPage], share |-> <<>>, item |-> <<>>, kinds |-> {task},
   fields |-> [s \in {} |-> NoDef], scopes |-> {}, portals |-> {}, known |-> [e \in Email |-> "none"],
   links |-> <<>>, sessions |-> {}, views |-> <<>>, dash |-> <<>>, tiles |-> {}]

Base == [ops |-> {}, width |-> 1, budget |-> 3, roles |-> {"member"}, teams |-> {},
         callers |-> {bob}, subjects |-> {}, grades |-> {}, bulks |-> {}, visibilities |-> {"hidden"},
         audiences |-> {OrgWide}, labels |-> {<<>>}, markdown |-> {<<>>}, edits |-> {<<1>>}, acks |-> {{}},
         movable |-> {}, keys |-> {"LAB"}, assignees |-> {}, relations |-> {},
         fieldTypes |-> {"single_select"}, options |-> {{"s", "m"}}, values |-> {"s"}, boards |-> {}, expiry |-> FALSE,
         columns |-> {}, readers |-> {}, queries |-> {}, searches |-> {}, names |-> {}, layouts |-> {}]
Mix(f) == f @@ Base

(* cy's item in eng and bob's ticket in doc.                               *)
Two == <<ItemOf("item", eng, 1, <<"ENG", 1>>, task, cy), ItemOf("ticket", doc, 1, Nil, Nil, bob)>>
WithTwo == [Cast0 EXCEPT !.item = Two]
APage == p1 :> [st |-> "live", sp |-> doc, parent |-> Nil, path |-> <<p1>>, ver |-> 1, content |-> Nil, doc |-> Nil, author |-> bob]

Numbers == Mix([ops |-> {"createitem", "createticket", "deleteitem"}, width |-> 2])
Keys == Mix([ops |-> {"createspace", "updatespace", "deletespace", "createitem"}, callers |-> {ann}, budget |-> 4,
             keys |-> {"ENG", "LAB"}])
Edits == Mix([ops |-> {"updateitem", "updateticket", "assign", "deleteitem"}, width |-> 2, callers |-> {bob, cy},
              assignees |-> {cy}])
(* Two items that were ranked and two that never were; one and two.        *)
Spot(b, a) == [before |-> b, after |-> a]
Ranked(n, key, r) == [ItemOf("item", eng, n, key, task, bob) EXCEPT !.rank = r]
Queue4 == <<Ranked(1, <<"ENG", 1>>, 2), Ranked(2, <<"ENG", 2>>, 1), Ranked(3, <<"ENG", 3>>, DefaultRank), Ranked(4, <<"ENG", 4>>, DefaultRank)>>
Queue3 == <<Ranked(1, <<"ENG", 1>>, 1), Ranked(2, <<"ENG", 2>>, DefaultRank), Ranked(3, <<"ENG", 3>>, DefaultRank)>>
Ranks == Mix([ops |-> {"rank", "createitem"}, budget |-> 2, spots |-> {Spot(b, a) : b, a \in {Nil, 1, 3, 4}}])
RanksLost == Mix([ops |-> {"rank", "updateitem", "deleteitem"}, width |-> 2, budget |-> 2, spots |-> {Spot(1, Nil), Spot(Nil, 2), Spot(Nil, 3)}])
SharedItem == Mix([ops |-> {"shareitem", "unshare", "deleteitem"}, width |-> 2, callers |-> {ann}, audiences |-> {OrgWide, ops}])
Kinds == Mix([ops |-> {"createtype", "archivetype", "deletetype", "createitem", "updateitem"}, width |-> 2, budget |-> 3])
Related == Mix([ops |-> {"relate", "unrelate", "deleteitem"}, width |-> 2, budget |-> 2, callers |-> {bob}, relations |-> {"blocks", "is_blocked_by"}])

(* Both forms ask for size.                                                *)
Select == [st |-> "active", id |-> 1, type |-> "single_select", options |-> {"s", "m"}]
ScopeOf(sp, et, required) == [s |-> size, id |-> 1, sp |-> sp, et |-> et, required |-> required, at |-> 0]
Sized == [WithTwo EXCEPT !.fields = size :> Select,
                         !.scopes = {ScopeOf(eng, "item", FALSE), ScopeOf(doc, "ticket", TRUE)}]
Again == Mix([ops |-> {"createfield", "deletefield", "setscope", "setitemfield", "deleteitem"}, callers |-> {ann}, budget |-> 4,
              fieldTypes |-> {"text"}])
Forms == Mix([ops |-> {"updatefield", "archivefield", "deletefield", "setscope", "removescope", "setitemfield", "setticketfield"},
              width |-> 2, callers |-> {bob}, budget |-> 2, options |-> {{"m"}}])
Order == Mix([ops |-> {"setscope", "reorder", "removescope", "setitemfield"}, width |-> 2, callers |-> {bob}, budget |-> 2, options |-> {{"m"}}])

(* Only doc's board is saved.                                              *)
Col(id, n, sts) == [id |-> id, name |-> n, statuses |-> sts]
Columned == Mix([ops |-> {"saveboard", "resetboard", "deletecolumn"}, width |-> 2, callers |-> {bob}, budget |-> 4,
                 boards |-> {{Col(1, "a", {open}), Col(2, "b", {done}), Col(3, "c", {})}, {Col(1, "b", {open, done}), Col(4, "d", {})}}])

BoardRead == Mix([ops |-> {"saveboard", "readboard"}, width |-> 2, callers |-> {bob}, budget |-> 3,
                  boards |-> {{Col(1, "a", {open}), Col(2, "b", {done})}, {Col(3, "c", {open, done})}}])

(* A ticket and a page with files, one of them shared.                     *)
Files == Mix([ops |-> {"upload", "download", "deletefile", "deleteitem"}, width |-> 2, callers |-> {bob}])
Thread == Mix([ops |-> {"comment", "deleteitem"}, width |-> 2, callers |-> {bob, cy}])

(* ea is a customer of the portal of doc; eb is one no more.               *)
Desk == [WithTwo EXCEPT !.item = <<Two[2]>>, !.portals = {doc}, !.known = (ea :> "active") @@ (eb :> "inactive") @@ (ec :> "none")]
Links == Mix([ops |-> {"link", "redeem", "signout"}, width |-> 2, budget |-> 4, expiry |-> TRUE])
Switch == Mix([ops |-> {"link", "redeem", "portal"}, width |-> 2, budget |-> 3])
Opened == Mix([ops |-> {"portal", "deletespace"}, width |-> 2, callers |-> {ann}])

(* ea and ec are signed in, and each has raised a ticket.                  *)
Used(e) == [st |-> "consumed", q |-> <<acme, e>>, sp |-> doc]
SignedIn == [Desk EXCEPT !.known = [e \in Email |-> "active"], !.links = <<Used(ea), Used(ec)>>,
               !.sessions = {[l |-> 1, q |-> <<acme, ea>>, sp |-> doc, gen |-> 0, n |-> 0], [l |-> 2, q |-> <<acme, ec>>, sp |-> doc, gen |-> 0, n |-> 0]},
               !.item = <<ItemOf("ticket", doc, 1, Nil, Nil, <<acme, ea>>), ItemOf("ticket", doc, 2, Nil, Nil, <<acme, ec>>)>>]
Requests == Mix([ops |-> {"submit", "reply", "createticket"}, width |-> 2])
Threads == Mix([ops |-> {"reply", "comment", "deleteitem", "signout"}, width |-> 2])

-----------------------------------------------------------------------------
(* Two items in eng and two tickets in doc; the third row is shared with   *)
(* everybody.                                                              *)
RowFor(et, sp, n, key, k, to, upd, due) ==
  [ItemOf(et, sp, n, key, k, bob) EXCEPT !.assignee = to, !.updated_at = upd, !.due_at = due]
Rows4 == <<RowFor("item", eng, 1, <<"ENG", 1>>, task, cy, 2, 1), RowFor("ticket", doc, 1, Nil, Nil, Nil, 1, 2),
           RowFor("ticket", doc, 2, Nil, Nil, cy, 4, 2), RowFor("item", eng, 2, <<"ENG", 2>>, bug, Nil, 3, 2)>>

(* bob, in ops, manages eng and doc; cy reads eng.                         *)
Listed == [Cast0 EXCEPT !.tm = [@ EXCEPT ![def][bob] = "member", ![def][cy] = "primary", ![ops][bob] = "primary", ![ops][cy] = "none"],
             !.grants = {G(1, eng, bob, SpaceAdmin), G(2, doc, bob, SpaceAdmin), G(3, eng, cy, Viewer)},
             !.item = Rows4, !.kinds = {task, bug},
             !.share = <<[st |-> "active", p |-> 3, sp |-> doc, aud |-> OrgWide, cascade |-> FALSE, expired |-> FALSE]>>]
Q(mods, sps, as, not, sort, desc) ==
  [modules |-> mods, spaces |-> sps, assignees |-> as, kinds |-> {}, not |-> not, sort |-> sort, desc |-> desc]
Both == {Beacon, Vector}
AllByDue == Q(Both, {}, {}, {}, "due_at", FALSE)
LatestFirst == Q(Both, {}, {}, {}, "updated_at", TRUE)
LatestLast  == Q(Both, {}, {}, {}, "updated_at", FALSE)
JustResolved == Q(Both, {}, {}, {}, "resolved_at", TRUE)
Newest   == Q(Both, {}, {}, {}, "created_at", TRUE)
NotMine  == Q(Both, {}, {Me}, {"assignees"}, "due_at", TRUE)
Nobodys  == Q(Both, {doc, eng}, {Me, Unassigned}, {}, "priority", TRUE)
NotInEng == Q({Beacon}, {eng}, {}, {"spaces"}, "created_at", FALSE)
NoBugs   == [Q({Vector}, {}, {}, {"kinds"}, "title", FALSE) EXCEPT !.kinds = {bug}]

(* cy pages through what bob changes, and loses what he could read.        *)
Paging == Mix([ops |-> {"results", "assign", "createticket", "deleteitem"}, width |-> 2, budget |-> 3,
               readers |-> {cy}, assignees |-> {cy}, queries |-> {Newest, NotMine}])
(* The columns the lists are sorted by are written between the pages; the  *)
(* second row is shared.                                                   *)
Rows3 == <<[RowFor("item", eng, 1, <<"ENG", 1>>, task, Nil, 2, 1) EXCEPT !.resolved_at = 1], RowFor("ticket", doc, 1, Nil, Nil, Nil, 3, 2),
           [RowFor("item", eng, 2, <<"ENG", 2>>, task, Nil, 1, 2) EXCEPT !.resolved_at = 2]>>
Sorted == [Listed EXCEPT !.item = Rows3, !.kinds = {task}, !.share = <<[@[1] EXCEPT !.p = 2]>>]
Given == [due_at |-> 3, priority |-> 2, title |-> 2]
Passing == Mix([ops |-> {"results", "updateitem", "movestatus"}, width |-> 2, budget |-> 3, readers |-> {cy}, columns |-> {Given},
                queries |-> {LatestFirst, LatestLast, JustResolved}])
Counting == Mix([ops |-> {"updateitem", "assign", "createticket", "deleteitem"}, budget |-> 2, assignees |-> {cy, bob},
                 readers |-> {bob, cy}, queries |-> {NotMine, Nobodys, NoBugs, NotInEng}])
Losing == Mix([grades |-> {Viewer}, ops |-> {"results", "unshare", "ungrant", "deletespace"}, width |-> 2, callers |-> {bob}, readers |-> {cy},
               queries |-> {AllByDue, NotInEng, NoBugs}])

(* p2 is below p1, which is shared with what is below it.                  *)
APageOf(path) ==
  [st |-> "live", sp |-> doc, parent |-> IF Len(path) = 1 THEN Nil ELSE p1, path |-> path, ver |-> 1, content |-> Nil, doc |-> Nil, author |-> bob]
Library == [Listed EXCEPT !.page = (p1 :> APageOf(<<p1>>)) @@ (p2 :> APageOf(<<p1, p2>>)),
              !.share = @ \o <<[st |-> "active", p |-> p1, sp |-> doc, aud |-> OrgWide, cascade |-> TRUE, expired |-> FALSE]>>]
Find(types, terms, tag, hits) == [types |-> types, terms |-> terms, tag |-> tag, hits |-> hits]
Text   == Find({}, TRUE, "none", [e \in Page \cup Item |-> IF e \in {p2, 4} THEN 2 ELSE 1])
Tagged == Find({Codex, Vector}, FALSE, "used", p1 :> 1 @@ p2 :> 1 @@ 1 :> 2 @@ 4 :> 1)
NotTagged == Find({}, TRUE, "unused", <<>>)
Searches == Mix([ops |-> {"search", "unshare", "deleteitem", "createticket"}, width |-> 2, callers |-> {bob}, readers |-> {cy},
                 audiences |-> {ops}, searches |-> {Text, NotTagged}])
Searching == Mix([ops |-> {"search", "ungrant", "deletespace", "unshare"}, width |-> 2, callers |-> {bob}, readers |-> {cy}, grades |-> {Viewer},
                  searches |-> {Tagged}])

(* A private view, one for ops, one whose team is gone, and one of a space *)
(* that is not there.                                                      *)
V(owner, vis, t, q) ==
  [st |-> "live", org |-> acme, owner |-> owner, vis |-> vis, team |-> t, query |-> q, sp |-> Nil, pos |-> Nil, name |-> Nil]
SomeViews == <<V(bob, "private", Nil, Newest), V(ann, "team", ops, Newest), V(ann, "team", Nil, Newest),
               V(bob, "org", Nil, Q(Both, {lab}, {}, {}, "created_at", FALSE))>>
D(owner, vis, t, m, def_) ==
  [st |-> "live", org |-> acme, owner |-> owner, mod |-> m, default |-> def_, seeded |-> FALSE, vis |-> vis, team |-> t]
T(n, v) == [d |-> 1, pos |-> n - 1, key |-> "view_results", vid |-> v, by |-> 0]
WithViews == [Listed EXCEPT !.views = SomeViews, !.dash = <<D(bob, "org", Nil, home, TRUE), D(bob, "private", Nil, home, FALSE)>>,
                            !.tiles = {T(n, n) : n \in 1 .. 4}]
ViewEdits == Mix([ops |-> {"createview", "updateview", "deleteview"}, width |-> 2, budget |-> 2, callers |-> {ann, bob},
                  teams |-> {ops}, queries |-> {Newest}])

(* doc has two queues.                                                     *)
QueueOf(n, name) == [V(bob, "space", Nil, Q({Beacon}, {doc}, {}, {}, "created_at", FALSE)) EXCEPT !.sp = doc, !.pos = n, !.name = name]
WithQueues == [Listed EXCEPT !.views = <<QueueOf(0, "old"), QueueOf(1, "all")>>]
QueueEdits == Mix([ops |-> {"createqueue", "seedqueues", "deletequeue", "reorderqueues"}, width |-> 2, queries |-> {NotInEng},
                   names |-> {"new"}])
QueueNames == Mix([ops |-> {"createqueue", "updatequeue", "seedqueues", "deletequeue", "results"}, width |-> 2, budget |-> 2, readers |-> {bob},
                   queries |-> {NotInEng}, names |-> {"new", "all"}])

Layout(vs) == [n \in DOMAIN vs |-> [key |-> IF vs[n] = Nil THEN "my_work" ELSE "view_results", vid |-> vs[n]]]
BoardEdits == Mix([ops |-> {"createboard", "updateboard", "deleteboard", "home"}, width |-> 2, budget |-> 2])
Layouts == Mix([ops |-> {"setgadgets", "deleteview", "deleteboard"}, width |-> 2, layouts |-> {Layout(<<Nil, 1>>), Layout(<<>>), Layout(<<2, Nil, 4>>)}])
Homes == Mix([ops |-> {"home", "createboard", "deleteboard", "setgadgets"}, width |-> 2, layouts |-> {Layout(<<Nil>>)}])

TrackerMixes == [numbers |-> Numbers, keys |-> Keys, edits |-> Edits, ranks |-> Ranks, rankslost |-> RanksLost, shared |-> SharedItem, kinds |-> Kinds, related |-> Related,
                 again |-> Again, forms |-> Forms, order |-> Order, columned |-> Columned, boardread |-> BoardRead,
                 files |-> Files, thread |-> Thread, links |-> Links, switch |-> Switch, opened |-> Opened,
                 requests |-> Requests, threads |-> Threads,
                 paging |-> Paging, passing |-> Passing, counting |-> Counting, losing |-> Losing, searches |-> Searches, searching |-> Searching, views |-> ViewEdits, queues |-> QueueEdits,
                 names |-> QueueNames, boards |-> BoardEdits, layouts |-> Layouts, homes |-> Homes]

TrackerCasts ==
  [numbers |-> WithTwo,
   keys |-> [Cast0 EXCEPT !.item = <<Two[1]>>],
   edits |-> WithTwo,
   ranks |-> [Cast0 EXCEPT !.item = Queue4],
   rankslost |-> [Cast0 EXCEPT !.item = Queue3],
   shared |-> WithTwo,
   kinds |-> [WithTwo EXCEPT !.item = <<Two[1]>>],
   related |-> [WithTwo EXCEPT !.page = APage],
   again |-> Sized,
   forms |-> Sized,
   order |-> [Sized EXCEPT !.fields = (size :> Select) @@ (sev :> Select)],
   columned |-> Cast0,
   boardread |-> Cast0,
   files |-> [WithTwo EXCEPT !.page = APage, !.share = <<[st |-> "active", p |-> p1, sp |-> doc, aud |-> OrgWide, cascade |-> FALSE, expired |-> FALSE]>>],
   thread |-> WithTwo,
   links |-> Desk,
   switch |-> Desk,
   opened |-> WithTwo,
   requests |-> SignedIn,
   threads |-> SignedIn,
   paging |-> Listed,
   passing |-> Sorted,
   counting |-> Listed,
   losing |-> Listed,
   searches |-> Library,
   searching |-> Library,
   views |-> WithViews,
   queues |-> WithQueues,
   names |-> WithQueues,
   boards |-> WithViews,
   layouts |-> WithViews,
   homes |-> Listed]

(* An order is set after a queue was deleted.                              *)
ReorderMixes == [queues |-> QueueEdits]

MCSymmetry == Permutations(Handler)
=============================================================================
