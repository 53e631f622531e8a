---------------------------- MODULE MCWorkspace ----------------------------
(* The populations and the workloads of the Workspace run. *)
EXTENDS Workspace

CONSTANTS ann, bob, cy, acme, def, ops, web, ea, eb, ec, eng, doc, lab, p1, p2, p3, b1, b2

MCTeamOrg == [t \in Team |-> acme]
MCDefaultTeam == [o \in Org |-> def]
MCSpaceOrg == [sp \in Space |-> acme]

Someone(e) == [st |-> "live", active |-> TRUE, gen |-> 0, pw |-> 1, email |-> e, home |-> acme]
LiveTeam(parent, path) == [st |-> "live", parent |-> parent, path |-> path]
SpaceOf(st, k, t, vis) == [st |-> st, key |-> k, owner |-> t, vis |-> vis, mem |-> {}, wf |-> TRUE]
Says(text, blocks) == [text |-> text, blocks |-> blocks, tags |-> <<>>]
PageAt(sp, parent, path, c, d) ==
  [st |-> "live", sp |-> sp, parent |-> parent, path |-> path, ver |-> 1, content |-> c, doc |-> d, author |-> bob]
Share0(p, aud, cascade) ==
  [st |-> "active", p |-> p, sp |-> eng, aud |-> aud, cascade |-> cascade, expired |-> FALSE]

(* ann administers acme.  bob leads ops, which has web below it; cy is in  *)
(* web.  eng and doc are live spaces, lab is not made yet.                 *)
CastOf(grants_, pages, shares) ==
  [account |-> (ann :> Someone(ea)) @@ (bob :> Someone(eb)) @@ (cy :> Someone(ec)),
   role |-> [o \in Org |-> (ann :> "admin") @@ (bob :> "member") @@ (cy :> "member")],
   team |-> (def :> LiveTeam(Nil, <<def>>)) @@ (ops :> LiveTeam(Nil, <<ops>>)) @@ (web :> LiveTeam(ops, <<ops, web>>)),
   tm |-> (def :> (ann :> "primary" @@ bob :> "member" @@ cy :> "member"))
          @@ (ops :> (ann :> "none" @@ bob :> "primary" @@ cy :> "none"))
          @@ (web :> (ann :> "none" @@ bob :> "none" @@ cy :> "primary")),
   grants |-> grants_,
   space |-> (eng :> SpaceOf("live", "ENG", def, "hidden")) @@ (doc :> SpaceOf("live", "DOC", def, "hidden"))
             @@ (lab :> SpaceOf("absent", "", def, "hidden")),
   leads |-> {<<bob, ops>>}, page |-> pages, share |-> shares]

G(id, sp, s, r) == [id |-> id, sp |-> sp, s |-> s, role |-> r]
Cell(t, sp, r) == [t |-> t, sp |-> sp, role |-> r]

(* What may be typed for a tag.                                            *)
MCSpelling == "red" :> "red" @@ "Red" :> "red" @@ "blue" :> "blue" @@ "Blue" :> "blue" @@ "green" :> "green" @@ "--" :> ""

NoPages == [p \in {} |-> NoPage]
NoShares == <<>>
(* p1 and, below it, p2, in eng.                                           *)
Plain == (p1 :> PageAt(eng, Nil, <<p1>>, Says(0, <<b1>>), Nil)) @@ (p2 :> PageAt(eng, p1, <<p1, p2>>, Says(0, <<>>), Nil))
Three == Plain @@ (p3 :> PageAt(eng, p2, <<p1, p2, p3>>, Says(0, <<>>), Nil))
(* One page, markdown or document.                                         *)
Mark == p1 :> PageAt(eng, Nil, <<p1>>, Says(0, <<b1>>), Nil)
Doc == p1 :> PageAt(eng, Nil, <<p1>>, Says(0, <<b1, b2>>), Says(0, <<b1, b2>>))

Base == [ops |-> {}, width |-> 1, budget |-> 3, roles |-> {"member"}, teams |-> {}, cast |-> <<>>,
         callers |-> {bob}, subjects |-> {}, grades |-> {}, bulks |-> {}, visibilities |-> {"hidden"},
         audiences |-> {OrgWide}, labels |-> {<<>>}, markdown |-> {<<>>}, edits |-> {<<1>>}, acks |-> {{}},
         movable |-> {}, keys |-> {"LAB"}]
Mix(f) == f @@ Base

Wide == G(1, eng, bob, SpaceAdmin)

(* Grants one at a time beside a bulk of two cells.                        *)
Bulk2 == Mix([ops |-> {"bulk", "grant", "regrade", "ungrant"}, width |-> 2, grades |-> {Viewer, Agent},
              subjects |-> {ops, cy}, callers |-> {bob},
              bulks |-> {{Cell(ops, eng, Agent), Cell(web, eng, Viewer)}, {Cell(ops, eng, Agent), Cell(web, eng, NoChange)}},
              cast |-> CastOf({Wide, G(2, eng, ops, Agent), G(3, eng, web, Agent)}, NoPages, NoShares)])
(* The trail is read, two lines or one at a time, while a bulk and single  *)
(* events are written.                                                     *)
Past(id, a) == [id |-> id, o |-> acme, action |-> a, batch |-> Nil, at |-> 0]
Window(a, from, to) == [action |-> a, from |-> from, to |-> to]
Audit2 == Mix([ops |-> {"bulk", "log", "walk", "tick"}, width |-> 2, until |-> 1,
               actions |-> {"grant.created"}, trail |-> {Past(2, "grant.created")}, limits |-> {0, 2},
               filters |-> {Window(Nil, Nil, Nil), Window("grant.created", Nil, Nil), Window(Nil, 0, 0), Window(Nil, 1, Nil)},
               bulks |-> {{Cell(ops, eng, Agent), Cell(web, eng, Viewer)}},
               cast |-> CastOf({Wide, G(2, eng, ops, Viewer)}, NoPages, NoShares)])
(* Access changes one request at a time: grants, teams, members, spaces.   *)
Access1 == Mix([ops |-> {"grant", "regrade", "ungrant", "spacemember", "deleteteam", "reparent", "removemember", "remove", "update"},
                grades |-> {Viewer, SpaceAdmin}, subjects |-> {ops, web, cy}, teams |-> {ops}, roles |-> {"member", "admin"},
                cast |-> CastOf({Wide, G(2, eng, ops, Viewer), G(3, eng, web, Agent)}, NoPages, NoShares)])
Spaces1 == Mix([ops |-> {"createspace", "updatespace", "deletespace", "deleteteam", "createteam"}, teams |-> {def, ops, web},
                callers |-> {ann, bob}, visibilities |-> {"hidden", "discoverable"},
                cast |-> CastOf({Wide}, NoPages, NoShares)])
Spaces2 == Mix([ops |-> {"createspace", "updatespace", "deletespace"}, teams |-> {ops}, width |-> 2,
                callers |-> {ann, bob},
                cast |-> CastOf({G(1, eng, ops, SpaceAdmin)}, NoPages, NoShares)])
(* Shares made and pages moved, created and deleted, one at a time.        *)
Tree1 == Mix([ops |-> {"share", "unshare", "shareexpires", "move", "deletepage", "createpage"},
              movable |-> {p1, p2, p3}, cast |-> CastOf({Wide, G(2, doc, bob, Agent)}, Plain, NoShares)])
Moves1 == Mix([ops |-> {"move", "deletepage"}, movable |-> {p1, p2, p3},
               cast |-> CastOf({Wide, G(2, doc, bob, Agent)}, Three, NoShares)])
(* A shared page is moved, deleted, published and unshared at once; its    *)
(* reader's team is deleted or moved away.                                 *)
Shared2 == Mix([ops |-> {"unshare", "shareexpires", "move", "deletepage", "savepage"}, width |-> 2, movable |-> {p1},
                cast |-> CastOf({Wide, G(2, doc, bob, Agent)}, Plain, <<Share0(p1, OrgWide, TRUE), Share0(p2, ops, FALSE)>>)])
Shares2 == Mix([ops |-> {"share", "unshare", "shareexpires"}, width |-> 2, audiences |-> {OrgWide, ops},
                cast |-> CastOf({Wide}, Mark, NoShares)])
Audience1 == Mix([ops |-> {"deleteteam", "reparent", "removemember", "remove", "share", "deletespace"}, audiences |-> {ops, web},
                  cast |-> CastOf({Wide}, Plain, <<Share0(p1, web, TRUE)>>)])

WorkspaceMixes ==
  [bulk |-> Bulk2, audit |-> Audit2, access |-> Access1, spaces |-> Spaces1, created |-> Spaces2, tree |-> Tree1, moves |-> Moves1,
   shared |-> Shared2, shares |-> Shares2, audience |-> Audience1]

(* Two authors of one page.                                                *)
Authors == CastOf({G(1, eng, bob, Agent), G(2, eng, cy, Agent), G(3, doc, bob, Agent)}, Doc, NoShares)
AuthorsOfMarkdown == CastOf({G(1, eng, bob, Agent), G(2, eng, cy, Agent)}, Mark, NoShares)

Publish2 == Mix([ops |-> {"publish"}, width |-> 2, edits |-> {<<1>>, <<2, 1>>, <<3>>}, acks |-> {{}, {2}}, cast |-> Authors])
Restore2 == Mix([ops |-> {"publish", "restore"}, width |-> 2, callers |-> {bob}, edits |-> {<<2, 2, 1>>}, acks |-> {{}, {1, 2}, {1, 2, 3}},
                 cast |-> Authors])
Saves2 == Mix([ops |-> {"savepage", "publish", "restore"}, width |-> 2, callers |-> {bob}, edits |-> {<<1>>, <<>>}, acks |-> {{}, {1}}, markdown |-> {<<b2>>},
               cast |-> AuthorsOfMarkdown])
Drafts2 == Mix([ops |-> {"savedraft", "discard", "publish", "deletepage"}, width |-> 2, callers |-> {bob, cy},
                edits |-> {<<1>>}, cast |-> AuthorsOfMarkdown])
Tags2 == Mix([ops |-> {"settags", "publish", "move"}, width |-> 2, callers |-> {bob}, edits |-> {<<1, 2>>}, movable |-> {p1},
              labels |-> {<<"Red", "red">>, <<"blue", "--">>, <<"red", "blue", "green">>}, cast |-> Authors])
Born2 == Mix([ops |-> {"createpage", "publish", "savepage"}, width |-> 2, callers |-> {bob}, edits |-> {<<1>>},
              cast |-> AuthorsOfMarkdown])

PagesMixes ==
  [publish |-> Publish2, restore |-> Restore2, saves |-> Saves2, drafts |-> Drafts2, tags |-> Tags2, born |-> Born2]

AllMixes == WorkspaceMixes @@ PagesMixes

AllCasts == [m \in DOMAIN AllMixes |-> AllMixes[m].cast]

MCSymmetry == Permutations(Handler)
=============================================================================
