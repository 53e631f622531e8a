------------------------------- MODULE Shares -------------------------------
(***************************************************************************)
(* Pages as rows of a tree, and shares of them: internal/core/access       *)
(* (shares.go, shares_service.go), internal/db/adapters/shares.go and      *)
(* internal/core/api/shares.  A share opens one page, and with cascade the *)
(* pages below it, to the organization or to a team, whatever the space    *)
(* says.                                                                   *)
(***************************************************************************)
EXTENDS Spaces

CONSTANTS Page, ShareId, Block

VARIABLES page, share

shareVars == <<page, share>>

(* A pages row.  content is what the markdown column says; doc the stored  *)
(* document, Nil until the page is first published from the editor.        *)
NoPage == [st |-> "absent", sp |-> Nil, parent |-> Nil, path |-> <<>>, ver |-> 0,
           content |-> Nil, doc |-> Nil, author |-> Nil]

(* An entity_shares row; st is "none" before it is inserted.               *)
NoShare == [st |-> "none", p |-> Nil, sp |-> Nil, aud |-> Nil, cascade |-> FALSE, expired |-> FALSE]

OrgWide == "org"

ShareInit ==
  /\ page = [p \in Page |-> IF p \in DOMAIN Cast.page THEN Cast.page[p] ELSE NoPage]
  /\ share = [i \in ShareId |-> IF i \in DOMAIN Cast.share THEN Cast.share[i] ELSE NoShare]

-----------------------------------------------------------------------------
(* Reading *)

PageLive(p) == page[p].st = "live"
PageInSpace(p, sp) == PageLive(p) /\ page[p].sp = sp

(* The page of an entity_shares row with its container, both live.         *)
LookupSharedPage(p) == PageLive(p) /\ SpaceLive(page[p].sp)

Active_(i) == share[i].st = "active" /\ ~share[i].expired

(* The shares whose audience the person is in.                             *)
ResolveShareRows(o, u) ==
  {i \in ShareId : /\ Active_(i)
                   /\ SpaceOrg[share[i].sp] = o
                   /\ share[i].aud \in {OrgWide} \cup EffectiveTeams(o, u)}

PrefixOfAnyRoot(path, root) == Range(root) \cap Range(path) # {}   \* mutant: any shared ancestor
PathWithinSubtree(path, root) == IsPrefix(root, path)

(* The roots of the cascading shares, where their pages are now.           *)
CascadeRoots(o, u) ==
  {<<page[share[i].p].sp, page[share[i].p].path>> :
     i \in {j \in ResolveShareRows(o, u) : share[j].cascade /\ PageLive(share[j].p)}}

CoversEntity(o, u, p) == \E i \in ResolveShareRows(o, u) : share[i].p = p
CoversPage(o, u, p) ==
  \/ CoversEntity(o, u, p)
  \/ \E root \in CascadeRoots(o, u) : root[1] = page[p].sp /\ PathWithinSubtree(page[p].path, root[2])

(* A direct share needs no container; the others look the page up.         *)
CoversForCaller(o, u, p) == CoversEntity(o, u, p) \/ (LookupSharedPage(p) /\ CoversPage(o, u, p))

ReadShared(o, u, p) == Member(o, u) /\ CoversForCaller(o, u, p) /\ PageLive(p)

(* The statements over a page and what is below it.                        *)
PageSubtree(p, sp, path) ==
  {q \in Page : PageInSpace(q, sp) /\ (q = p \/ IsStrictPrefix(path, page[q].path))}

RevokeShares(pages) ==
  [i \in ShareId |-> IF share[i].st = "active" /\ share[i].p \in pages THEN [share[i] EXCEPT !.st = "revoked"]
                     ELSE share[i]]
RevokeSharesByEntity(p) == RevokeShares({p})
RevokeRootOnly(p, sp, path) == RevokeSharesByEntity(p)   \* mutant: the descendants keep theirs
RevokeSharesByPageSubtree(p, sp, path) == RevokeShares(PageSubtree(p, sp, path))

-----------------------------------------------------------------------------
(* Managing *)

(* resolveManageable: the page's container, and manage_shares there.       *)
CreateShareBegin(h) ==
  /\ Ready(h, "share")
  /\ \E u \in Work.callers, p \in Page, a \in Work.audiences, c \in BOOLEAN :
       /\ LookupSharedPage(p)
       /\ Can(u, "manage_shares", page[p].sp)
       /\ a # OrgWide => TeamLive(a) /\ TeamOrg[a] = SpaceOrg[page[p].sp]
       /\ Begin(h, [op |-> "share", pc |-> "insert", p |-> p, sp |-> page[p].sp, aud |-> a, cascade |-> c])
       /\ UNCHANGED <<orgVars, space, shareVars>>

(* entity_shares_unique_active: one unrevoked share, expired or not, of a  *)
(* page to an audience.                                                    *)
NotSharedYet(p, a) == \A i \in ShareId : share[i].st # "active" \/ share[i].p # p \/ share[i].aud # a

CreateShare(h) ==
  LET r == req[h]
      free == {i \in ShareId : share[i].st = "none"}
  IN
  /\ At(h, "share", "insert")
  /\ free # {}
  /\ share' = IF NotSharedYet(r.p, r.aud)
              THEN [share EXCEPT ![Min(free)] = [st |-> "active", p |-> r.p, sp |-> r.sp, aud |-> r.aud,
                                                 cascade |-> r.cascade, expired |-> FALSE]]
              ELSE share
  /\ End(h)
  /\ UNCHANGED <<orgVars, space, page>>

(* authorizeShareManagement asks about the space the share was made in.    *)
RevokeShareBegin(h) ==
  /\ Ready(h, "unshare")
  /\ \E u \in Work.callers, i \in ShareId :
       /\ share[i].st # "none"
       /\ Can(u, "manage_shares", share[i].sp)
       /\ Begin(h, [op |-> "unshare", pc |-> "revoke", i |-> i])
       /\ UNCHANGED <<orgVars, space, shareVars>>

RevokeShare(h) ==
  /\ At(h, "unshare", "revoke")
  /\ share' = [share EXCEPT ![req[h].i].st = "revoked"]
  /\ End(h)
  /\ UNCHANGED <<orgVars, space, page>>

(* expires_at passes.                                                      *)
ShareExpires(i) ==
  /\ "shareexpires" \in Work.ops
  /\ share[i].st = "active" /\ ~share[i].expired
  /\ share' = [share EXCEPT ![i].expired = TRUE]
  /\ UNCHANGED <<serverVars, orgVars, space, page>>

SharesStep(h) ==
  \/ CreateShareBegin(h) \/ CreateShare(h) \/ RevokeShareBegin(h) \/ RevokeShare(h)
=============================================================================
