----------------------------- MODULE Workspace -----------------------------
(***************************************************************************)
(* Spaces, who may do what in them, shares and pages, with the people and  *)
(* the teams that access follows and the audit trail of access.            *)
(***************************************************************************)
EXTENDS Wiki, AuditLog

Rel == INSTANCE Relation

workspaceVars == <<serverVars, orgVars, space, contentVars, auditVars>>

WorkspaceInit == ServerInit /\ OrgInit /\ ShareInit /\ TagInit /\ WikiInit /\ AuditInit

ContentStep ==
  \/ \E h \in Handler : \/ PeopleStep(h) /\ UNCHANGED <<space, contentVars>>
                        \/ TeamsStep(h)  /\ UNCHANGED <<space, contentVars>>
                        \/ SpacesStep(h) /\ UNCHANGED contentVars
                        \/ SharesStep(h) /\ UNCHANGED <<etag, wikiVars>>
                        \/ TagsStep(h)   /\ UNCHANGED wikiVars
                        \/ WikiStep(h)
  \/ \E i \in ShareId : ShareExpires(i) /\ UNCHANGED <<etag, wikiVars>>

WorkspaceNext ==
  \/ ContentStep /\ UNCHANGED auditVars
  \/ \E h \in Handler : (AuditedAccessStep(h) \/ AuditStep(h)) /\ UNCHANGED contentVars
  \/ Tick /\ UNCHANGED contentVars

WorkspaceSpec == WorkspaceInit /\ [][WorkspaceNext]_workspaceVars

-----------------------------------------------------------------------------

(* The explanation of somebody's access to a live space is the access the  *)
(* resolver gives him: other queries, the same answer.                     *)
ExplainAgrees == \A u \in User, sp \in Space : SpaceLive(sp) => Explain(u, sp) = RoleOn(u, sp)

(* A bulk application that changes anything leaves every cell that was to  *)
(* have a role with that role, whatever single grants were made, changed   *)
(* and deleted beside it (adapters/bulk_grants.go).                        *)
BulkLandsWhole ==
  [][\A h \in Handler : At(h, "bulk", "execute") /\ req'[h] = Idle /\ grants' # grants =>
       \A c \in req[h].cs : c.role # NoChange => \E g \in grants' : g.sp = c.sp /\ g.s = c.t /\ g.role = c.role
    ]_workspaceVars

(* Who reads the audit log to its end has been shown all it held when he   *)
(* began, each event on one line and once, however the rows are stamped    *)
(* and whatever commits meanwhile; the size on a line is the number of     *)
(* events the batch expands to, unless he asked for one action             *)
(* (queries/audit_log.sql, ListAuditLogEntries).                           *)
AuditTrailAddsUp ==
  \A h \in Handler : At(h, "walk", "read") =>
    LET q == req[h]
        Of(l) == CHOOSE r \in trail : r.id = l.id
        Shown(r) == {i \in DOMAIN q.seen : Together(r, Of(q.seen[i]))}
    IN  /\ \A r \in trail : Cardinality(Shown(r)) <= 1
        /\ \A r \in q.then : Shown(r) # {}
        /\ \A l \in Range(q.seen) : Of(l).batch # Nil /\ q.f.action = Nil =>
             l.size = Len(AuditLogBatch(q.o, Of(l).batch))

(* An active share opens a live page, in the space it was shared from: a   *)
(* deletion and a move out of the space took it away (ADR-0008, rules 9    *)
(* and 10).                                                                *)
SharesStayInSpace ==
  \A i \in ShareId : share[i].st = "active" => PageInSpace(share[i].p, share[i].sp)

(* The path of a live page is the path of its parent and itself, in its    *)
(* parent's space, as long as the parent lives: no page is above itself.   *)
PagesFollowParents ==
  \A p \in Page : PageLive(p) =>
    LET q == page[p].parent IN
    /\ page[p].path # <<>> /\ Last(page[p].path) = p
    /\ q = Nil => page[p].path = <<p>>
    /\ q # Nil /\ PageLive(q) => page[p].path = Append(page[q].path, p) /\ page[p].sp = page[q].sp

(* What the shares open, by the parents and not by the stored paths.       *)
Below == Rel!TransitiveClosure([p, q \in Page |-> page[p].parent = q], Page)
Opened(o, u, p) ==
  \E i \in ShareId :
    /\ share[i].st = "active" /\ ~share[i].expired /\ SpaceOrg[share[i].sp] = o
    /\ \/ share[i].aud = OrgWide
       \/ share[i].aud \in Team /\ TeamLive(share[i].aud) /\ Range(team[share[i].aud].path) \cap DirectTeams(o, u) # {}
    /\ \/ share[i].p = p
       \/ /\ share[i].cascade /\ Below[p, share[i].p]
          /\ PageLive(share[i].p) /\ page[share[i].p].sp = page[p].sp /\ SpaceLive(page[p].sp)

(* The paths are those of the tree, and a page is read through a share     *)
(* exactly when it is the page shared, or below one shared with cascade,   *)
(* to an audience the reader is in.                                        *)
CascadeCoversTheSubtree ==
  /\ PagesFollowParents
  /\ \A o \in Org, u \in User, p \in Page : Member(o, u) /\ PageLive(p) => (ReadShared(o, u, p) <=> Opened(o, u, p))

(* The history has each version once, none left out but perhaps the first, *)
(* whose row is a second statement; the newest is what the page says, in   *)
(* its document and in the markdown other readers are given.               *)
RevisionsTellTheStory ==
  \A p \in Page :
    /\ \A r, s \in rev[p] : r.v = s.v => r = s
    /\ 2 .. page[p].ver \subseteq {r.v : r \in rev[p]}
    /\ \A r \in RevisionAt(p, page[p].ver) : r.c = documentOfPage(p) /\ r.c = page[p].content

(* Nobody overwrites a version he was not shown, unless he said so: each   *)
(* version was written from the one before it (ErrVersionConflict).        *)
EachFromTheLast ==
  \A p \in Page : \A r \in rev[p] : r.v > 1 /\ ~r.over => r.base = r.v - 1

(* A preserved block of the document an author started from is in what he  *)
(* published, or he said it may go (ADR-0012).                             *)
BlocksAreKept ==
  \A p \in Page : \A r, b \in rev[p] :
    r.how = "publish" /\ b.v = r.base =>
      \A i \in DOMAIN b.c.blocks : i \in r.ack \/ b.c.blocks[i] \in Range(r.c.blocks)

(* Nobody's work is lost unsaid: neither a version nor a preserved block.  *)
NothingLostSilently == EachFromTheLast /\ BlocksAreKept

(* An author's draft goes when he discards it or publishes the page, and   *)
(* by nobody else's doing.                                                 *)
DraftsAreTheirAuthors ==
  \A p \in Page, u \in User : draft[p][u] # Nil /\ draft'[p][u] = Nil =>
    \E h \in Handler : /\ req[h].op \in {"publish", "discard"} /\ req[h].p = p /\ req[h].u = u
                       /\ req'[h] = Idle

(* A tag leaves a page when somebody sets its tags and leaves it out, and  *)
(* never because the body that named it is rewritten or restored.          *)
TagsAreTheirSetters ==
  \A p \in Page : \A t \in etag[p] \ etag'[p] :
    \E h \in Handler : req[h].op = "settags" /\ req[h].p = p /\ t \notin req[h].ts /\ req'[h] = Idle

(* What one person put there another's step never takes away.              *)
GoesOnlyByRequest == [][DraftsAreTheirAuthors /\ TagsAreTheirSetters]_workspaceVars
=============================================================================
