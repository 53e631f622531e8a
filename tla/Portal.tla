-------------------------------- MODULE Portal --------------------------------
(***************************************************************************)
(* The customer portal of a service desk: internal/core/portal,            *)
(* internal/core/api/portal and internal/db/adapters/portal.go.  A         *)
(* requester is an address of an organization without an account; a link   *)
(* sent there opens a session on one portal, with which he raises tickets  *)
(* in the portal's space and writes on his own.                            *)
(***************************************************************************)
EXTENDS Comments

CONSTANTS MagicLink

ASSUME LinksAreNumbered == MagicLink \subseteq Nat

VARIABLES portal,     \* service_desk_portals, by space
          requester,  \* requesters, by organization and address
          mlink,      \* requester_magic_links
          psession    \* the session tokens given out

portalVars == <<portal, requester, mlink, psession>>

(* What the portal reads and does not write.                               *)
deskVars == <<groundVars, seqno, itype, rel, file, object>>

NoLink == [st |-> "none", q |-> Nil, sp |-> Nil]

(* The sessions there are were opened by links that are used up, each by   *)
(* its own.                                                                *)
ASSUME CastSessionsHaveTheirLink ==
  \A m \in DOMAIN Casts :
    LET links == Casts[m].links
        sessions == Casts[m].sessions
    IN
    /\ \A l \in MagicLink \cap DOMAIN links : links[l] = [st |-> links[l].st, q |-> links[l].q, sp |-> links[l].sp]
    /\ \A s \in sessions : s.l \in MagicLink \cap DOMAIN links /\ links[s.l] = [st |-> "consumed", q |-> s.q, sp |-> s.sp]
    /\ \A s, t \in sessions : s.l = t.l => s = t

PortalInit ==
  /\ portal = [sp \in Space |-> IF sp \in Cast.portals THEN "enabled" ELSE "none"]
  /\ requester = [o \in Org |-> [e \in Email |-> [st |-> Cast.known[e], gen |-> 0]]]
  /\ mlink = [l \in MagicLink |-> IF l \in DOMAIN Cast.links THEN Cast.links[l] ELSE NoLink]
  /\ psession = Cast.sessions

(* GetPortalByKey and GetPortalByID.                                       *)
LookupPortal(sp) == portal[sp] = "enabled" /\ SpaceLive(sp)

(* A requester's id, as a ticket and a comment name him.                   *)
Requester(q) == requester[q[1]][q[2]]
Customers == Org \X Email

-----------------------------------------------------------------------------
(* The space's administrators open a portal, and switch it off and on.     *)

CreateConfig(h) ==
  /\ Ready(h, "portal")
  /\ \E u \in Work.callers, sp \in Space :
       /\ Can(u, "manage_space", sp)
       /\ SpaceType[sp] = "beacon"
       /\ Begin(h, [op |-> "portal", pc |-> "insert", sp |-> sp])
       /\ UNCHANGED <<deskVars, item, comment, portalVars>>

(* space_id is UNIQUE: a second portal of a space is refused.              *)
CreatePortal(h) ==
  /\ At(h, "portal", "insert")
  /\ portal' = [portal EXCEPT ![req[h].sp] = IF @ = "none" THEN "enabled" ELSE @]
  /\ End(h)
  /\ UNCHANGED <<deskVars, item, comment, requester, mlink, psession>>

UpdatePortal(h) ==
  /\ Ready(h, "portal")
  /\ \E u \in Work.callers, sp \in Space :
       /\ Can(u, "manage_space", sp)
       /\ portal[sp] # "none"
       /\ \E st \in {"enabled", "disabled"} : portal' = [portal EXCEPT ![sp] = st]
       /\ Serve
       /\ UNCHANGED <<deskVars, item, comment, requester, mlink, psession>>

-----------------------------------------------------------------------------
(* A sign-in link is asked for without a session.                          *)

LinkRow(l) == <<"magic link", l>>
Outstanding(q, sp) == {l \in MagicLink : mlink[l] = [st |-> "live", q |-> q, sp |-> sp]}

RequestLinkBegin(h) ==
  /\ Ready(h, "link")
  /\ \E sp \in Space, e \in Email :
       /\ LookupPortal(sp)
       /\ Begin(h, [op |-> "link", pc |-> "requester", q |-> <<SpaceOrg[sp], e>>, sp |-> sp])
       /\ UNCHANGED <<deskVars, item, comment, portalVars>>

(* The identity is there from the first request on; one that is inactive   *)
(* gets no link and is not told.                                           *)
UpsertRequester(h) ==
  LET r == req[h] IN
  /\ At(h, "link", "requester")
  /\ requester' = [requester EXCEPT ![r.q[1]][r.q[2]].st = IF @ = "none" THEN "active" ELSE @]
  /\ IF Requester(r.q).st = "inactive" THEN End(h)
     ELSE Go(h, With([r EXCEPT !.pc = "invalidate"], [want |-> {LinkRow(l) : l \in Outstanding(r.q, r.sp)}]))
  /\ UNCHANGED <<deskVars, item, comment, portal, mlink, psession>>

(* The links that were outstanding when the statement began.               *)
InvalidateOutstandingLinks(h) ==
  LET r == req[h] IN
  /\ At(h, "link", "invalidate")
  /\ GoLocked(h, {LinkRow(l) : l \in Outstanding(r.q, r.sp)} \cap r.want, [op |-> "link", pc |-> "create", q |-> r.q, sp |-> r.sp])
  /\ UNCHANGED <<deskVars, item, comment, portalVars>>

CreateMagicLink(h) ==
  LET r    == req[h]
      free == {l \in MagicLink : mlink[l].st = "none"}
  IN
  /\ At(h, "link", "create")
  /\ free # {}
  /\ mlink' = [l \in MagicLink |->
       CASE LinkRow(l) \in held[h] -> [mlink[l] EXCEPT !.st = "invalidated"]
         [] l = Min(free) -> [st |-> "live", q |-> r.q, sp |-> r.sp]
         [] OTHER -> mlink[l]]
  /\ End(h)
  /\ UNCHANGED <<deskVars, item, comment, portal, requester, psession>>

LinkExpires ==
  /\ Work.expiry
  /\ \E l \in MagicLink : mlink[l].st = "live" /\ mlink' = [mlink EXCEPT ![l].st = "expired"]
  /\ UNCHANGED <<serverVars, deskVars, item, comment, portal, requester, psession>>

-----------------------------------------------------------------------------
(* Redemption.  The link is used up by the statement that finds it, and    *)
(* the session is opened after it, if portal and requester are in force.   *)

RedeemBegin(h) ==
  /\ Ready(h, "redeem")
  /\ \E l \in MagicLink :
       /\ mlink[l].st # "none"
       /\ Begin(h, [op |-> "redeem", pc |-> "consume", l |-> l, n |-> served])
       /\ UNCHANGED <<deskVars, item, comment, portalVars>>

ConsumableTwice(l) == mlink[l].st \in {"live", "consumed"}  \* mutant: consumed_at is not asked
Consumable(l) == mlink[l].st = "live"

ConsumeMagicLink(h) ==
  LET l == req[h].l IN
  /\ At(h, "redeem", "consume")
  /\ Free(h, {LinkRow(l)})
  /\ IF Consumable(l)
     THEN mlink' = [mlink EXCEPT ![l].st = "consumed"] /\ Go(h, [req[h] EXCEPT !.pc = "session"])
     ELSE UNCHANGED mlink /\ End(h)
  /\ UNCHANGED <<deskVars, item, comment, portal, requester, psession>>

(* n tells two tokens apart (their jti).                                   *)
IssueSession(h) ==
  LET l == req[h].l
      q == mlink[l].q
  IN
  /\ At(h, "redeem", "session")
  /\ psession' = IF LookupPortal(mlink[l].sp) /\ Requester(q).st = "active"
                 THEN psession \cup {[l |-> l, q |-> q, sp |-> mlink[l].sp, gen |-> Requester(q).gen, n |-> req[h].n]}
                 ELSE psession
  /\ End(h)
  /\ UNCHANGED <<deskVars, item, comment, portal, requester, mlink>>

-----------------------------------------------------------------------------
(* With a session: RequirePortalSession is asked at every request, for the *)
(* portal of the URL.                                                      *)

Authenticate(s) == Requester(s.q).st = "active" /\ Requester(s.q).gen = s.gen /\ LookupPortal(s.sp)

SignOut(h) ==
  /\ Ready(h, "signout")
  /\ \E s \in psession :
       /\ Authenticate(s)
       /\ requester' = [requester EXCEPT ![s.q[1]][s.q[2]].gen = @ + 1]
       /\ Serve
       /\ UNCHANGED <<deskVars, item, comment, portal, mlink, psession>>

maxRequestNumberAttempts == 5

SubmitBegin(h) ==
  /\ Ready(h, "submit")
  /\ \E s \in psession :
       /\ Authenticate(s)
       /\ Begin(h, [op |-> "submit", pc |-> "number", u |-> s.q, sp |-> s.sp, a |-> Nil, cols |-> Unsaid, num |-> 0, tries |-> 0])
       /\ UNCHANGED <<deskVars, item, comment, portalVars>>

(* The insert's own reading of the highest number.                         *)
ReadRequestNumber(h) ==
  /\ At(h, "submit", "number")
  /\ Go(h, [req[h] EXCEPT !.pc = "insert", !.num = GetTicketMaxNumber(req[h].sp) + 1, !.tries = @ + 1])
  /\ UNCHANGED <<deskVars, item, comment, portalVars>>

(* A number taken meanwhile is read again, a few times over.               *)
CreatePortalRequest(h) ==
  LET r == req[h] IN
  /\ At(h, "submit", "insert")
  /\ Unborn # {}
  /\ IF TicketNumberFree(r.sp, r.num)
     THEN item' = [item EXCEPT ![Min(Unborn)] = [NewRow("ticket", r) EXCEPT !.num = r.num]] /\ End(h)
     ELSE /\ UNCHANGED item
          /\ IF r.tries < maxRequestNumberAttempts THEN Go(h, [r EXCEPT !.pc = "number"]) ELSE End(h)
  /\ UNCHANGED <<deskVars, comment, portalVars>>

(* The requests of a session: the requester's, in the portal's space.      *)
GetPortalRequest(q, sp, i) == ItemInSpace(i, sp) /\ item[i].et = "ticket" /\ item[i].by = q
ListPortalRequests(q, sp) == {i \in Item : GetPortalRequest(q, sp, i)}

ReplyBegin(h) ==
  /\ Ready(h, "reply")
  /\ \E s \in psession, i \in Item :
       /\ Authenticate(s)
       /\ GetPortalRequest(s.q, s.sp, i)
       /\ Begin(h, [op |-> "reply", pc |-> "insert", e |-> i, by |-> s.q])
       /\ UNCHANGED <<deskVars, item, comment, portalVars>>

CreateRequesterComment(h) ==
  LET r == req[h] IN
  /\ At(h, "reply", "insert")
  /\ InsertComment([st |-> "live", e |-> r.e, by |-> r.by, vis |-> "public", parent |-> Nil])
  /\ End(h)
  /\ UNCHANGED <<deskVars, item, portalVars>>

(* The thread a customer is shown: replies too, internal notes never.      *)
ListPortalTicketComments(i) ==
  {c \in CommentId : comment[c].st = "live" /\ comment[c].e = i /\ comment[c].vis = "public"}

PortalStep(h) ==
  \/ CreateConfig(h) \/ CreatePortal(h) \/ UpdatePortal(h)
  \/ RequestLinkBegin(h) \/ UpsertRequester(h) \/ InvalidateOutstandingLinks(h) \/ CreateMagicLink(h)
  \/ RedeemBegin(h) \/ ConsumeMagicLink(h) \/ IssueSession(h) \/ SignOut(h)
  \/ SubmitBegin(h) \/ ReadRequestNumber(h) \/ CreatePortalRequest(h)
  \/ ReplyBegin(h) \/ CreateRequesterComment(h)
=============================================================================
