----------------------------- MODULE MCAccounts -----------------------------
(* The populations and the workloads of the Accounts runs. *)
EXTENDS Accounts

CONSTANTS ann, bob, cy, acme, zen, def, defz, ops, web, api, eng, lab, ea, eb, ec,
          f1, f2, f3, s1, s2, s3, s4, e1, e2, e3, t1, t2, t3

MCTeamOrg == [t \in Team |-> IF t = defz THEN zen ELSE acme]
MCSpaceOrg == [sp \in Space |-> acme]
MCAppliesTo == [sp \in Space |-> "tickets"]
MCDefaultTeam == [o \in Org |-> IF o = zen THEN defz ELSE def]

Someone(e, p) == [st |-> "live", active |-> TRUE, gen |-> 0, pw |-> p, email |-> e, home |-> acme]
Nobody(e) == [st |-> "absent", active |-> FALSE, gen |-> 0, pw |-> 0, email |-> e, home |-> acme]

NoTeam == [st |-> "absent", parent |-> Nil, path |-> <<>>]
Root(t) == [st |-> "live", parent |-> Nil, path |-> <<t>>]

(* ann administers acme, bob too when two is true, cy is a member; zen is  *)
(* ann's alone.  ops is a team under the root, web and api are below as    *)
(* tree says.                                                              *)
Teams0(tree) ==
  [t \in Team |-> CASE t \in {def, defz} -> Root(t)
                    [] t \in DOMAIN tree -> [st |-> "live", parent |-> tree[t][1], path |-> tree[t][2]]
                    [] OTHER -> NoTeam]
Flat  == (ops :> <<Nil, <<ops>>>>) @@ (web :> <<Nil, <<web>>>>)
Chain == (ops :> <<Nil, <<ops>>>>) @@ (web :> <<ops, <<ops, web>>>>)
Bare  == [t \in {} |-> <<>>]

Roles0(bobs, cys) ==
  [o \in Org |-> IF o = zen THEN [u \in User |-> IF u = ann THEN "owner" ELSE "none"]
                 ELSE (ann :> "admin") @@ (bob :> bobs) @@ (cy :> cys)]

Flow(o, n, d) == [st |-> "live", o |-> o, name |-> n, default |-> d, kind |-> "tickets"]
WState(w, i) == [st |-> "live", w |-> w, init |-> i]

CastOf(bobs, cys, tree, links, invites) ==
  [account |-> (ann :> Someone(ea, 1)) @@ (bob :> IF bobs = "none" THEN Nobody(eb) ELSE Someone(eb, 1))
                 @@ (cy :> IF cys = "none" THEN Nobody(ec) ELSE Someone(ec, 1)),
   role |-> Roles0(bobs, cys),
   team |-> Teams0(tree),
   tm |-> [t \in Team |-> [u \in User |->
             CASE t = defz /\ u = ann -> "primary"
               [] t = def /\ Roles0(bobs, cys)[acme][u] # "none" /\ u # cy -> "primary"
               [] t = def /\ u = cy /\ cys # "none" -> IF ops \in DOMAIN tree THEN "member" ELSE "primary"
               [] t = ops /\ u = cy /\ cys # "none" /\ ops \in DOMAIN tree -> "primary"
               [] OTHER -> "none"]],
   grants |-> IF cys = "none" THEN {} ELSE {[id |-> 1, sp |-> eng, s |-> cy, role |-> Viewer]},
   space |-> (eng :> [st |-> "live", key |-> "ENG", owner |-> def, vis |-> "hidden", mem |-> {}, wf |-> TRUE])
               @@ (lab :> [st |-> "absent", key |-> Nil, owner |-> Nil, vis |-> "hidden", mem |-> {}, wf |-> FALSE]),
   leads |-> {},
   flows |-> (f1 :> Flow(acme, "a", FALSE)) @@ (f2 :> Flow(zen, "a", FALSE)),
   states |-> (s1 :> WState(f1, TRUE)) @@ (s2 :> WState(f1, FALSE)) @@ (s3 :> WState(f2, TRUE)),
   edges |-> e1 :> [st |-> "live", w |-> f1, from |-> s1, to |-> s2],
   tiers |-> t1 :> [st |-> "live", e |-> e1, table |-> "approver", s |-> ann],
   assigned |-> eng :> f1, occupied |-> {},
   link |-> links, invite |-> invites]

NoRows == <<>>
SentLink(p, e) == <<[st |-> "live", u |-> bob, purpose |-> p, email |-> e]>>
SentInvite(e, t) == <<[st |-> "active", o |-> acme, email |-> e, role |-> "member", team |-> t,
                       tok |-> 1, expired |-> FALSE]>>

Mix(ops_, width, budget, roles, teams, cast) ==
  [ops |-> ops_, width |-> width, budget |-> budget, roles |-> roles, teams |-> teams, cast |-> cast]

Members == {"member"}
Both    == {"member", "admin"}

(* Two requests at a time demote, remove, deactivate administrators.       *)
Admins2 == Mix({"deactivate", "reactivate", "remove", "update"}, 2, 3, Members, {},
               CastOf("admin", "member", Bare, NoRows, NoRows))
(* The same and promotions, one request at a time.                         *)
People1 == Mix({"deactivate", "reactivate", "forcelogout", "remove", "update", "removemember",
                "ensuredefault"}, 1, 3, Both, {ops, web, defz}, CastOf("admin", "member", Flat, NoRows, NoRows))
(* Promotions beside removals.                                             *)
Promote2 == Mix({"remove", "update"}, 2, 3, Both, {}, CastOf("member", "member", Bare, NoRows, NoRows))

Reparent2 == Mix({"createteam", "reparent"}, 2, 3, Members, {ops}, CastOf("none", "member", Flat, NoRows, NoRows))
Delete2 == Mix({"removemember", "deleteteam"}, 2, 3, Members, {ops}, CastOf("none", "member", Chain, NoRows, NoRows))
Teams1 == Mix({"createteam", "reparent", "deleteteam", "putmember", "removemember"}, 1, 3, Members, {ops},
              CastOf("none", "member", Chain, NoRows, NoRows))

Sessions2 == Mix({"login", "logout", "logoutall", "updateme", "deactivate", "reactivate", "forcelogout"},
                 2, 4, Members, {ops}, CastOf("admin", "none", Bare, NoRows, NoRows))
Refresh2 == Mix({"login", "refresh", "logout", "logoutall", "deactivate", "reactivate", "sessionexpires"},
                2, 4, Members, {ops}, CastOf("admin", "none", Bare, NoRows, NoRows))
Reset2 == Mix({"login", "consume", "linkexpires", "updateme", "forcelogout"}, 2, 4, Members, {ops},
              CastOf("member", "none", Bare, SentLink("password_reset", Nil), NoRows))
Email2 == Mix({"login", "consume", "createuser"}, 2, 4, Members, {ops},
              CastOf("member", "none", Bare, SentLink("email_change", ec), NoRows))
(* Whoever has the command line resets the password beside the owner.      *)
BreakGlass2 == Mix({"login", "breakglass", "consume", "updateme"}, 2, 3, Members, {ops},
                   CastOf("member", "none", Bare, SentLink("password_reset", Nil), NoRows))
CommandLine1 == Mix({"admincreateuser", "createuser", "breakglass", "consume", "login", "deactivate"}, 1, 3, Members, {},
                    CastOf("none", "none", Bare, NoRows, NoRows))
Links1 == Mix({"login", "requestreset", "issuereset", "requestemailchange", "consume", "createuser", "linkexpires"}, 1, 4, Members, {ops}, CastOf("member", "none", Bare, NoRows, NoRows))
Invites2 == Mix({"accept", "revoke", "inviteexpires", "remove", "createuser"}, 2, 3, Members, {ops},
                CastOf("none", "none", Flat, NoRows, SentInvite(eb, ops)))
Known2 == Mix({"accept", "remove", "deactivate", "invite"}, 2, 3, Members, {ops},
                CastOf("member", "none", Flat, NoRows, SentInvite(eb, ops)))
Invites1 == Mix({"invite", "accept", "revoke", "resend", "inviteexpires"}, 1, 3, Members, {ops},
                CastOf("none", "none", Bare, NoRows, NoRows))

(* acme has the workflow f1 (two states, a transition, an approver), zen   *)
(* has f2; the second cast leaves f1 to no space and has tickets in s2.    *)
Plain == CastOf("none", "member", Bare, NoRows, NoRows)
Unassigned == [Plain EXCEPT !.assigned = <<>>, !.occupied = {s2}, !.space[eng].wf = FALSE,
                            !.flows = (f1 :> Flow(acme, "a", TRUE)) @@ (f2 :> Flow(zen, "a", TRUE))]

FlowMix(ops_, cast) ==
  Mix(ops_, 2, 3, Members, {}, cast)
    @@ [names |-> {"a", "b"}, kinds |-> {"tickets"}, subjects |-> {ann, bob, ops}, callers |-> {ann, cy},
        visibilities |-> {"hidden"}, keys |-> {"LAB"}]

Graph2 == FlowMix({"createstate", "deletestate", "createedge", "deleteedge"}, Plain)
Tiers2 == FlowMix({"createtier", "deletetier", "deleteedge"}, Plain)
Catalogue2 == FlowMix({"createflow", "updateflow", "deleteflow", "createspace"}, Unassigned)
Emptied2 == FlowMix({"createstate", "createedge", "deleteflow"}, [Unassigned EXCEPT !.occupied = {}])

MCMixes ==
  [admins |-> Admins2, people |-> People1, reparent |-> Reparent2, delete |-> Delete2, teams |-> Teams1,
   sessions |-> Sessions2, refresh |-> Refresh2, reset |-> Reset2, email |-> Email2, links |-> Links1,
   breakglass |-> BreakGlass2, commandline |-> CommandLine1,
   invites |-> Invites2, known |-> Known2, invitations |-> Invites1,
   graph |-> Graph2, tiers |-> Tiers2, catalogue |-> Catalogue2, emptied |-> Emptied2]

(* Promotions beside removals: the locks do not cover a row that is not an *)
(* administrator's yet.                                                    *)
PromoteMixes == [promote |-> Promote2]

MCCasts == [m \in DOMAIN MCMixes |-> MCMixes[m].cast]
PromoteCasts == [m \in DOMAIN PromoteMixes |-> PromoteMixes[m].cast]

MCSymmetry == Permutations(Handler)
=============================================================================
