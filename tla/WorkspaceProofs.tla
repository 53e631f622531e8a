--------------------------- MODULE WorkspaceProofs ---------------------------
(***************************************************************************)
(* Proofs about Workspace, for any people, teams, spaces, pages and        *)
(* workloads: what the history of a page says, that nobody's version,      *)
(* preserved block, draft or tag is lost by another's doing, that shares   *)
(* stay with their pages, and that the explanation of an access is the     *)
(* access.  Only the requests that write a page, a draft, tags or the tree *)
(* of teams say anything an invariant needs; the lemmas of the first part  *)
(* set all the others aside.                                               *)
(***************************************************************************)
EXTENDS Workspace, TLAPS

(* The request table has a row for every handler, and a busy handler is at *)
(* a statement.                                                            *)
Shape ==
  /\ DOMAIN req = Handler
  /\ \A h \in Handler : "op" \in DOMAIN req[h] /\ (req[h].op # "idle" => "pc" \in DOMAIN req[h])

(* The requests that say something of a page's text, a draft, tags or a    *)
(* share.                                                                  *)
ContentOp == {"createpage", "savepage", "publish", "restore", "settags", "savedraft", "share"}

(* Those that put a team into the tree of teams, or elsewhere in it.       *)
TreeOp == {"createteam", "reparent"}
AllOp == ContentOp \cup TreeOp

(* A request that is none of these.                                        *)
Foreign(r, ops) ==
  /\ "op" \in DOMAIN r
  /\ r.op # "idle" => "pc" \in DOMAIN r
  /\ r.op \notin ops

(* A step of h touches no other handler's request.                         *)
Alone(h) ==
  /\ DOMAIN req' = Handler
  /\ \A k \in Handler \ {h} : req'[k] = req[k]
  /\ mix' = mix /\ served' \in {served, served + 1}

(* One that goes on with such a request, or with the one it had.           *)
Aside(h, ops) == Alone(h) /\ (Foreign(req'[h], ops) \/ req'[h] = req[h])

LEMMA AsideFromAll == ASSUME NEW h \in Handler, Aside(h, AllOp) PROVE Aside(h, ContentOp) /\ Aside(h, TreeOp)
BY DEF Aside, Foreign, AllOp

(* What a handler's step does to the request table.                        *)
LEMMA Moving ==
  ASSUME Shape, NEW h \in Handler, NEW r, NEW rows, Begin(h, r) \/ Go(h, r) \/ Commit(h, r) \/ GoLocked(h, rows, r)
  PROVE  Alone(h) /\ req'[h] = r
BY DEF Shape, Begin, Go, Commit, GoLocked, Alone

LEMMA ForeignSteps ==
  ASSUME Shape, NEW h \in Handler, NEW ops, NEW r, NEW rows, Foreign(r, ops),
         Begin(h, r) \/ Go(h, r) \/ Commit(h, r) \/ GoLocked(h, rows, r)
  PROVE  Aside(h, ops)
BY Moving DEF Aside

LEMMA ForeignMoves ==
  ASSUME Shape, NEW h \in Handler, NEW ops, NEW r, Foreign(r, ops), Begin(h, r) \/ Go(h, r) \/ Commit(h, r)
  PROVE  Aside(h, ops)
BY DEF Shape, Begin, Go, Commit, Aside, Alone

LEMMA Ending == ASSUME Shape, NEW h \in Handler, End(h) PROVE Alone(h) /\ req'[h] = Idle
BY DEF Shape, End, Alone

LEMMA EndAside == ASSUME Shape, NEW h \in Handler, NEW ops, "idle" \notin ops, End(h) PROVE Aside(h, ops)
BY Ending DEF Aside, Idle, Foreign

LEMMA ServeAside == ASSUME Shape, NEW h \in Handler, NEW ops, Serve PROVE Aside(h, ops)
BY DEF Serve, Aside, Alone, Shape

(* A request that learns more keeps what it knew.                          *)
LEMMA WithKeeps ==
  ASSUME NEW r, NEW s
  PROVE  /\ DOMAIN With(r, s) = DOMAIN r \cup DOMAIN s
         /\ \A f \in DOMAIN r : With(r, s)[f] = r[f]
BY DEF With

LEMMA ForeignWith == ASSUME NEW ops, NEW r, NEW s, Foreign(r, ops) PROVE Foreign(With(r, s), ops)
<1>1. "op" \in DOMAIN r /\ "op" \in DOMAIN With(r, s) /\ With(r, s).op = r.op
  BY WithKeeps DEF Foreign
<1>2. "pc" \in DOMAIN r => "pc" \in DOMAIN With(r, s)
  BY WithKeeps
<1> QED
  BY <1>1, <1>2 DEF Foreign

LEMMA ForeignDrop == ASSUME NEW ops, NEW r, NEW f, Foreign(r, ops), f \notin {"op", "pc"} PROVE Foreign(Drop(r, f), ops)
BY DEF Foreign, Drop

LEMMA ForeignGo ==
  ASSUME Shape, NEW h \in Handler, NEW ops, NEW op, NEW pc, NEW to, At(h, op, pc), op \notin ops
  PROVE  Foreign([req[h] EXCEPT !.pc = to], ops)
BY DEF Shape, At, Foreign

LEMMA PeopleAside == ASSUME Shape, NEW h \in Handler, PeopleStep(h) PROVE Aside(h, AllOp)
<1> USE DEF Shape, Aside, Alone, Foreign, AllOp, ContentOp, TreeOp, At, Begin, Go, End, Commit, Serve, GoLocked, Idle
<1>1. CASE DeactivatePerson(h) \/ ReactivatePerson(h) \/ ForceLogoutPerson(h) \/ RemovePerson(h)
  BY <1>1 DEF DeactivatePerson, ReactivatePerson, ForceLogoutPerson, RemovePerson, lifecycleAction, Lifecycle
<1>2. CASE lockAdmins(h)
  BY <1>2 DEF lockAdmins, With
<1>3. CASE adminsLocked(h)
  BY <1>3 DEF adminsLocked
<1>4. CASE requireOtherAdmins(h)
  BY <1>4 DEF requireOtherAdmins
<1>5. CASE Deactivate(h) \/ Reactivate(h) \/ ForceLogout(h) \/ RemoveFromOrg(h)
  BY <1>5 DEF Deactivate, Reactivate, ForceLogout, RemoveFromOrg
<1>6. CASE UpdatePerson(h)
  BY <1>6 DEF UpdatePerson
<1>7. CASE ChangeOrgRole(h)
  BY <1>7 DEF ChangeOrgRole, applyPersonUpdates
<1>8. CASE UpdateMembershipRole(h)
  BY <1>8 DEF UpdateMembershipRole, applyPersonUpdates
<1>9. CASE ChangePrimaryTeam(h) \/ EnrolAsPrimary(h)
  BY <1>9 DEF ChangePrimaryTeam, EnrolAsPrimary
<1> QED
  BY <1>1, <1>2, <1>3, <1>4, <1>5, <1>6, <1>7, <1>8, <1>9 DEF PeopleStep

LEMMA TeamsAside == ASSUME Shape, NEW h \in Handler, TeamsStep(h) PROVE Aside(h, ContentOp)
<1> USE DEF ContentOp
<1>1. CASE Create(h) \/ Update(h) \/ Delete(h) \/ PutMember(h) \/ RemoveMember(h)
  <2>1. PICK r : Foreign(r, ContentOp) /\ Begin(h, r)
    BY <1>1 DEF Create, Update, Delete, PutMember, RemoveMember, Foreign
  <2> QED
    BY <2>1, ForeignMoves
<1>2. CASE CreateTeam(h) \/ ReparentSubtree(h) \/ DeleteTeam(h) \/ SetPrimary(h) \/ RemoveTeamMember(h)
  BY <1>2, EndAside DEF CreateTeam, ReparentSubtree, DeleteTeam, SetPrimary, RemoveTeamMember
<1>3. CASE ChooseSubtree(h)
  <2>1. Foreign([req[h] EXCEPT !.pc = "locking"], ContentOp)
    BY <1>3 DEF ChooseSubtree, Shape, Foreign
  <2>2. PICK s : Go(h, With([req[h] EXCEPT !.pc = "locking"], s))
    BY <1>3 DEF ChooseSubtree
  <2> QED
    BY <2>1, <2>2, ForeignWith, ForeignMoves
<1>4. CASE LockSubtree(h) \/ lockReparentTarget(h) \/ lockTeamForDeletion(h)
  <2>1. CASE End(h)
    BY <2>1, EndAside
  <2>2. CASE ~End(h)
    <3>1. PICK to, rows, s : GoLocked(h, rows, With(Drop([req[h] EXCEPT !.pc = to], "want"), s))
      BY <1>4, <2>2 DEF LockSubtree, lockReparentTarget, lockTeamForDeletion
    <3>2. Foreign([req[h] EXCEPT !.pc = to], ContentOp)
      BY <1>4 DEF LockSubtree, lockReparentTarget, lockTeamForDeletion, At, Shape, Foreign
    <3> QED
      BY <3>1, <3>2, ForeignDrop, ForeignWith, ForeignSteps
  <2> QED
    BY <2>1, <2>2
<1>5. CASE GetTeam(h) \/ AddMember(h)
  BY <1>5, EndAside, ForeignGo, ForeignMoves DEF GetTeam, AddMember
<1>6. CASE EnsureDefaultMembership(h)
  BY <1>6, ServeAside DEF EnsureDefaultMembership
<1> QED
  BY <1>1, <1>2, <1>3, <1>4, <1>5, <1>6 DEF TeamsStep

LEMMA AccessAside == ASSUME Shape, NEW h \in Handler, AccessStep(h) PROVE Aside(h, AllOp)
<1> USE DEF AllOp, ContentOp, TreeOp
<1>1. CASE CreateGrantBegin(h) \/ UpdateGrantBegin(h) \/ DeleteGrantBegin(h) \/ ApplyBulkBegin(h)
  <2>1. PICK r : Foreign(r, AllOp) /\ Begin(h, r)
    BY <1>1 DEF CreateGrantBegin, UpdateGrantBegin, DeleteGrantBegin, grantInSpace, ApplyBulkBegin, Foreign
  <2> QED
    BY <2>1, ForeignMoves
<1>2. CASE CreateGrant(h) \/ UpdateGrantRole(h) \/ DeleteGrant(h) \/ ApplyBulk(h)
  BY <1>2, EndAside DEF CreateGrant, UpdateGrantRole, DeleteGrant, ApplyBulk
<1>3. CASE ListTeamGrantsByOrgForUpdate(h)
  <2>1. PICK rows, r : Foreign(r, AllOp) /\ GoLocked(h, rows, r)
    BY <1>3 DEF ListTeamGrantsByOrgForUpdate, Foreign
  <2> QED
    BY <2>1, ForeignSteps
<1> QED
  BY <1>1, <1>2, <1>3 DEF AccessStep

LEMMA SpacesAside == ASSUME Shape, NEW h \in Handler, SpacesStep(h) PROVE Aside(h, AllOp)
<1> USE DEF AllOp, ContentOp, TreeOp
<1>1. CASE UpdateSpaceBegin(h) \/ DeleteSpace(h)
  <2>1. PICK r : Foreign(r, AllOp) /\ Begin(h, r)
    BY <1>1 DEF UpdateSpaceBegin, DeleteSpace, Foreign
  <2> QED
    BY <2>1, ForeignMoves
<1>6. CASE CreateSpaceBegin(h)
  <2>1. PICK r : Begin(h, r) /\ DOMAIN r = {"op", "pc", "u", "sp", "t", "vis", "key", "needsGrant"} /\ r.op = "createspace"
    BY <1>6 DEF CreateSpaceBegin
  <2> QED
    BY <2>1, ForeignMoves DEF Foreign
<1>2. CASE CreateSpaceTx(h)
  <2>1. End(h) \/ \E r : Foreign(r, AllOp) /\ Commit(h, r)
    BY <1>2 DEF CreateSpaceTx, Foreign
  <2> QED
    BY <2>1, EndAside, ForeignMoves
<1>3. CASE AssignDefaultWorkflowToSpace(h) \/ SetSpaceOwnerTeam(h) \/ SoftDeleteSpace(h)
  BY <1>3, EndAside DEF AssignDefaultWorkflowToSpace, SetSpaceOwnerTeam, SoftDeleteSpace
<1>4. CASE UpdateSpace(h) \/ applyVisibilityChange(h) \/ applyOwnerTeamChange(h)
  BY <1>4, EndAside, ForeignGo, ForeignMoves DEF UpdateSpace, applyVisibilityChange, applyOwnerTeamChange
<1>5. CASE AddSpaceMember(h) \/ RemoveSpaceMember(h)
  BY <1>5, ServeAside DEF AddSpaceMember, RemoveSpaceMember
<1> QED
  BY <1>1, <1>2, <1>3, <1>4, <1>5, <1>6 DEF SpacesStep

LEMMA SharesAside == ASSUME Shape, NEW h \in Handler, SharesStep(h), ~CreateShareBegin(h) PROVE Aside(h, AllOp)
<1> USE DEF AllOp, ContentOp, TreeOp
<1>1. CASE RevokeShareBegin(h)
  <2>1. PICK r : Foreign(r, AllOp) /\ Begin(h, r)
    BY <1>1 DEF RevokeShareBegin, Foreign
  <2> QED
    BY <2>1, ForeignMoves
<1>2. CASE CreateShare(h) \/ RevokeShare(h)
  BY <1>2, EndAside DEF CreateShare, RevokeShare
<1> QED
  BY <1>1, <1>2 DEF SharesStep

LEMMA AuditAside == ASSUME Shape, NEW h \in Handler, AuditStep(h) PROVE Aside(h, AllOp)
<1> USE DEF AllOp, ContentOp, TreeOp
<1>1. CASE Log(h) \/ parseAuditFilter(h)
  <2>1. PICK r : Foreign(r, AllOp) /\ Begin(h, r)
    BY <1>1 DEF Log, parseAuditFilter, Foreign
  <2> QED
    BY <2>1, ForeignMoves
<1>2. CASE ListAuditLog(h)
  <2>1. PICK a, b, c : Go(h, [req[h] EXCEPT !.seen = a, !.cursor = b, !.pc = c])
    BY <1>2 DEF ListAuditLog
  <2>2. Foreign([req[h] EXCEPT !.seen = a, !.cursor = b, !.pc = c], AllOp)
    BY <1>2 DEF ListAuditLog, At, Shape, Foreign
  <2> QED
    BY <2>1, <2>2, ForeignMoves
<1>3. CASE logged(h) \/ walked(h)
  BY <1>3, EndAside DEF logged, walked
<1> QED
  BY <1>1, <1>2, <1>3 DEF AuditStep

-----------------------------------------------------------------------------
(* The invariant of the pages                                              *)

(* A document has its fields, and its preserved blocks are numbered.       *)
Document(c) == DOMAIN c = {"text", "blocks", "tags"} /\ DOMAIN c.blocks \subseteq Nat

(* A pages row has its columns; one that was inserted is in some version   *)
(* and says something.                                                     *)
Columns == {"st", "sp", "parent", "path", "ver", "content", "doc", "author"}
PagesRow(q) ==
  /\ DOMAIN q = Columns /\ q.ver \in Nat /\ (q.st = "absent" <=> q.ver = 0)
  /\ q.st # "absent" => Document(q.content) /\ (q.doc # Nil => Document(q.doc))

(* A revision is of a version the page has had, and from an earlier one.   *)
RevisionsRow(r, n) == r.v \in 1 .. n /\ Document(r.c) /\ r.base \in Nat /\ r.base < r.v

Rows ==
  /\ DOMAIN page = Page /\ \A p \in Page : PagesRow(page[p])
  /\ DOMAIN rev = Page /\ \A p \in Page : \A r \in rev[p] : RevisionsRow(r, page[p].ver)
  /\ DOMAIN etag = Page
  /\ DOMAIN draft = Page /\ \A p \in Page : DOMAIN draft[p] = User

(* What is typed is documents, and requests are numbered.                  *)
Workload == served \in Nat /\ \A e \in mix.edits \cup mix.markdown : DOMAIN e \subseteq Nat

(* The blocks of an earlier document that are neither in c nor given up.   *)
AllKept(ack, c, from) == \A i \in DOMAIN from.blocks : i \in ack \/ from.blocks[i] \in Range(c.blocks)

(* A page whose creation is between its two statements has no first        *)
(* revision yet; while nobody wrote it, it says what the creation says.    *)
Unborn(r, q, rows) ==
  /\ q.ver # 0 /\ \A x \in rows : x.v # 1
  /\ q.ver = 1 => q.content = r.c /\ q.doc = Nil

(* What a request has read of a page is still so, as far as its statements *)
(* to come rely on it.                                                     *)
RequestSound(r, pg, rv) ==
  /\ r.op \in {"createpage", "savepage", "publish", "restore", "settags", "share"} => r.p \in Page
  /\ r.op = "createpage" => Document(r.c) /\ DOMAIN r.c.blocks = {} /\ r.base = 0
  /\ r.op = "createpage" /\ r.pc = "revision" => Unborn(r, pg[r.p], rv[r.p])
  /\ r.op = "savepage" => Document(r.c)
  /\ r.op \in {"publish", "restore"} => r.base \in 1 .. pg[r.p].ver
  /\ r.op = "publish" /\ r.pc = "read" =>
       Document(r.in) /\ DOMAIN r = {"op", "pc", "u", "p", "in", "base", "over", "ack"}
  /\ r.op = "publish" /\ r.pc = "commit" =>
       Document(r.c) /\ \A b \in rv[r.p] : b.v = r.base => AllKept(r.ack, r.c, b.c)
  /\ r.op = "settags" /\ r.pc = "strip" => DOMAIN r = {"op", "pc", "p", "sp", "ts"}
  /\ r.op = "settags" /\ r.pc = "add" => r.doomed \cap r.ts = {}
  /\ r.op = "savedraft" => r.text # Nil

Requests == \A h \in Handler : RequestSound(req[h], page, rev)

(* A page is created by one request.                                       *)
Creating(r) == r.op = "createpage" /\ r.pc = "revision"
OneCreator == \A h, k \in Handler : h # k /\ Creating(req[h]) /\ Creating(req[k]) => req[h].p # req[k].p

(* The inductive invariant.                                                *)
ContentInv ==
  Shape /\ Rows /\ Workload /\ Requests /\ OneCreator /\ RevisionsTellTheStory /\ NothingLostSilently

-----------------------------------------------------------------------------
(* In the beginning                                                        *)

LEMMA ContentBegins == WorkspaceInit => ContentInv
<1> SUFFICES ASSUME WorkspaceInit PROVE ContentInv
  OBVIOUS
<1>1. PICK n \in DOMAIN Mixes : mix = With([name |-> n], Mixes[n])
  BY DEF WorkspaceInit, ServerInit
<1>2. mix.name = n /\ \A f \in DOMAIN Mixes[n] : f # "name" => mix[f] = Mixes[n][f]
  BY <1>1 DEF With
<1>3. Workload
  <2>1. {"edits", "markdown"} \subseteq DOMAIN Mixes[n] /\ \A e \in Mixes[n].edits \cup Mixes[n].markdown : DOMAIN e \subseteq Nat
    BY EditsAreSequences
  <2>2. mix.edits = Mixes[n].edits /\ mix.markdown = Mixes[n].markdown
    BY <1>2, <2>1
  <2> QED
    BY <2>1, <2>2 DEF Workload, WorkspaceInit, ServerInit
<1>4. Shape /\ OneCreator /\ \A h \in Handler : req[h] = Idle
  BY DEF Shape, OneCreator, Creating, Idle, WorkspaceInit, ServerInit
<1>5. Requests
  BY <1>4 DEF Requests, RequestSound, Idle
<1> DEFINE first == Casts[n].page
<1>6. n \in DOMAIN Casts /\ Cast = Casts[n]
  BY <1>2, EveryMixHasACast DEF Cast
<1>7. page = [p \in Page |-> IF p \in DOMAIN first THEN first[p] ELSE NoPage]
  BY <1>6 DEF WorkspaceInit, ShareInit
<1>8. \A p \in DOMAIN first :
        /\ DOMAIN first[p] = Columns /\ first[p].st = "live" /\ first[p].ver = 1
        /\ Document(first[p].content) /\ first[p].doc \in {Nil, first[p].content}
  <2>1. DOMAIN NoPage = Columns
    BY DEF NoPage, Columns
  <2> QED
    BY <1>6, <2>1, CastPagesAreFirst DEF Document
<1> HIDE DEF first
<1>9. \A p \in Page : PagesRow(page[p]) /\ page[p].ver \in {0, 1} /\ (page[p].ver = 1 => documentOfPage(p) = page[p].content)
  BY <1>7, <1>8 DEF PagesRow, NoPage, Columns, documentOfPage
<1>10. DOMAIN rev = Page /\ \A p \in Page : \A r \in rev[p] :
         /\ page[p].ver = 1 /\ r.v = 1 /\ r.c = page[p].content /\ r.how = "createpage" /\ r.base = 0
         /\ \A s \in rev[p] : r = s
  <2>1. DOMAIN rev = Page
    BY DEF WorkspaceInit, WikiInit
  <2> SUFFICES ASSUME NEW p \in Page, NEW r \in rev[p]
               PROVE  /\ page[p].ver = 1 /\ r.v = 1 /\ r.c = page[p].content /\ r.how = "createpage" /\ r.base = 0
                      /\ \A s \in rev[p] : r = s
    BY <2>1
  <2> DEFINE said == [u |-> page[p].author, op |-> "createpage", base |-> 0, over |-> FALSE, ack |-> {}]
  <2>2. rev[p] = IF page[p].st = "absent" THEN {} ELSE {Revision(1, page[p].content, said)}
    BY DEF WorkspaceInit, WikiInit
  <2>3. page[p].st # "absent" /\ rev[p] = {Revision(1, page[p].content, said)}
    BY <2>2
  <2>4. page[p].ver = 1
    BY <1>9, <2>3 DEF PagesRow
  <2> QED
    BY <2>3, <2>4 DEF Revision
<1>11. Rows
  <2>1. \A p \in Page : \A r \in rev[p] : RevisionsRow(r, page[p].ver)
    BY <1>9, <1>10 DEF RevisionsRow, PagesRow
  <2> QED
    BY <1>7, <1>9, <1>10, <2>1 DEF Rows, WorkspaceInit, WikiInit, TagInit
<1>12. RevisionsTellTheStory
  BY <1>9, <1>10 DEF RevisionsTellTheStory, RevisionAt
<1>13. NothingLostSilently
  BY <1>10 DEF NothingLostSilently, EachFromTheLast, BlocksAreKept
<1> QED
  BY <1>3, <1>4, <1>5, <1>11, <1>12, <1>13 DEF ContentInv

-----------------------------------------------------------------------------
(* What a step may do to the pages                                         *)

(* No page says anything else than before, and none comes into being.      *)
SameText ==
  /\ rev' = rev
  /\ DOMAIN page' = Page
  /\ \A p \in Page :
       /\ DOMAIN page'[p] = Columns /\ (page'[p].st = "absent" <=> page[p].st = "absent")
       /\ page'[p].ver = page[p].ver /\ page'[p].content = page[p].content /\ page'[p].doc = page[p].doc

(* The tags and drafts are those of the pages.                             *)
TheirTags == DOMAIN etag' = Page /\ DOMAIN draft' = Page /\ \A p \in Page : DOMAIN draft'[p] = User

(* What the pages and their histories say.                                 *)
Story == Rows /\ RevisionsTellTheStory /\ NothingLostSilently

(* A page is written in its next version: a row with it, of what it says   *)
(* from then on.                                                           *)
Written(p, row) ==
  /\ DOMAIN page' = Page /\ \A q \in Page \ {p} : page'[q] = page[q]
  /\ rev' = [rev EXCEPT ![p] = @ \cup {row}]
  /\ DOMAIN page'[p] = Columns /\ page[p].ver > 0 /\ page'[p].st = page[p].st
  /\ page'[p].ver = page[p].ver + 1 /\ page'[p].content = row.c /\ page'[p].doc \in {Nil, row.c}
  /\ Document(row.c)
  /\ row.v = page[p].ver + 1 /\ row.base \in 1 .. page[p].ver /\ (~row.over => row.base = page[p].ver)
  /\ row.how = "publish" => \A b \in rev[p] : b.v = row.base => AllKept(row.ack, row.c, b.c)

(* The history row of a new page, if it comes to be written.               *)
FirstRow(p, row) ==
  /\ page' = page /\ rev' = [rev EXCEPT ![p] = @ \cup {row}]
  /\ row.v = 1 /\ row.base = 0 /\ row.how = "createpage" /\ Document(row.c) /\ DOMAIN row.c.blocks = {}
  /\ page[p].ver # 0 /\ (\A x \in rev[p] : x.v # 1)
  /\ page[p].ver = 1 => page[p].content = row.c /\ page[p].doc = Nil

(* A page comes into being, with nothing in its history.                   *)
Inserted(p, q) ==
  /\ page[p].st = "absent" /\ page' = [page EXCEPT ![p] = q] /\ rev' = rev
  /\ DOMAIN q = Columns /\ q.st # "absent" /\ q.ver = 1 /\ Document(q.content) /\ q.doc = Nil

LEMMA StillStory == ASSUME Story, SameText, TheirTags PROVE Story'
<1>1. \A p \in Page : PagesRow(page'[p])
  BY DEF Story, Rows, SameText, PagesRow
<1>2. Rows'
  BY <1>1 DEF Story, Rows, SameText, TheirTags
<1>3. RevisionsTellTheStory'
  BY DEF Story, SameText, RevisionsTellTheStory, RevisionAt, documentOfPage
<1>4. NothingLostSilently'
  BY DEF Story, SameText, NothingLostSilently, EachFromTheLast, BlocksAreKept
<1> QED
  BY <1>2, <1>3, <1>4 DEF Story

LEMMA WrittenStory == ASSUME Story, NEW p \in Page, NEW row, Written(p, row), TheirTags PROVE Story'
<1> DEFINE n == page[p].ver
<1>1. PagesRow(page[p]) /\ n \in Nat /\ n > 0 /\ page'[p].ver = n + 1 /\ row.v = n + 1
  BY DEF Story, Rows, PagesRow, Written
<1>2. \A q \in Page \ {p} : page'[q] = page[q] /\ rev'[q] = rev[q]
  BY DEF Story, Rows, Written
<1>3. rev'[p] = rev[p] \cup {row} /\ DOMAIN rev' = Page /\ DOMAIN page' = Page
  BY DEF Story, Rows, Written
<1>4. \A x \in rev[p] : RevisionsRow(x, n) /\ x.v \in Nat /\ x.v <= n /\ x.base \in Nat /\ x.base < x.v
  BY <1>1 DEF Story, Rows, RevisionsRow
<1>5. row.base \in Nat /\ row.base >= 1 /\ row.base <= n /\ (~row.over => row.base = n) /\ Document(row.c)
  BY <1>1 DEF Written
<1>6. Rows'
  <2>1. PagesRow(page'[p])
    BY <1>1 DEF Written, PagesRow
  <2>2. \A x \in rev'[p] : RevisionsRow(x, n + 1)
    BY <1>1, <1>3, <1>4, <1>5 DEF RevisionsRow
  <2>3. \A q \in Page : PagesRow(page'[q]) /\ \A x \in rev'[q] : RevisionsRow(x, page'[q].ver)
    BY <1>1, <1>2, <2>1, <2>2 DEF Story, Rows
  <2> QED
    BY <1>3, <2>3 DEF Rows, TheirTags
<1>7. RevisionsTellTheStory'
  <2> SUFFICES ASSUME NEW q \in Page
               PROVE  /\ \A r, s \in rev'[q] : r.v = s.v => r = s
                      /\ 2 .. page'[q].ver \subseteq {r.v : r \in rev'[q]}
                      /\ \A r \in rev'[q] : r.v = page'[q].ver => r.c = documentOfPage(q)' /\ r.c = page'[q].content
    BY DEF RevisionsTellTheStory, RevisionAt
  <2>1. CASE q # p
    BY <1>2, <2>1 DEF Story, RevisionsTellTheStory, RevisionAt, documentOfPage
  <2>2. CASE q = p
    <3>1. \A r, s \in rev'[p] : r.v = s.v => r = s
      BY <1>1, <1>3, <1>4 DEF Story, RevisionsTellTheStory
    <3>2. 2 .. n \subseteq {r.v : r \in rev[p]}
      BY DEF Story, RevisionsTellTheStory
    <3>3. 2 .. n + 1 \subseteq {r.v : r \in rev'[p]}
      <4> SUFFICES ASSUME NEW v \in 2 .. n + 1 PROVE \E r \in rev'[p] : r.v = v
        OBVIOUS
      <4> QED
        BY <1>1, <1>3, <3>2
    <3>4. \A r \in rev'[p] : r.v = n + 1 => r = row
      BY <1>1, <1>3, <1>4
    <3>5. page'[p].content = row.c /\ documentOfPage(p)' = row.c
      BY DEF Written, documentOfPage
    <3> QED
      BY <1>1, <2>2, <3>1, <3>3, <3>4, <3>5
  <2> QED
    BY <2>1, <2>2
<1>8. EachFromTheLast'
  <2> SUFFICES ASSUME NEW q \in Page, NEW r \in rev'[q], r.v > 1, ~r.over PROVE r.base = r.v - 1
    BY DEF EachFromTheLast
  <2>1. CASE r \in rev[q]
    BY <2>1 DEF Story, NothingLostSilently, EachFromTheLast
  <2>2. CASE q = p /\ r = row
    BY <2>2, <1>1, <1>5
  <2> QED
    BY <1>2, <1>3, <2>1, <2>2
<1>9. BlocksAreKept'
  <2> SUFFICES ASSUME NEW q \in Page, NEW r \in rev'[q], NEW b \in rev'[q], r.how = "publish", b.v = r.base
               PROVE  AllKept(r.ack, r.c, b.c)
    BY DEF BlocksAreKept, AllKept
  <2>1. CASE r \in rev[q] /\ b \in rev[q]
    BY <2>1 DEF Story, NothingLostSilently, BlocksAreKept, AllKept
  <2>2. CASE q = p /\ b = row
    BY <2>2, <1>1, <1>3, <1>4, <1>5
  <2>3. CASE q = p /\ r = row /\ b \in rev[q]
    BY <2>3 DEF Written
  <2> QED
    BY <1>2, <1>3, <2>1, <2>2, <2>3
<1> QED
  BY <1>6, <1>7, <1>8, <1>9 DEF Story, NothingLostSilently

LEMMA FirstRowStory == ASSUME Story, NEW p \in Page, NEW row, FirstRow(p, row), TheirTags PROVE Story'
<1>1. \A q \in Page : page'[q] = page[q] /\ PagesRow(page[q]) /\ page[q].ver \in Nat /\ documentOfPage(q)' = documentOfPage(q)
  BY DEF Story, Rows, PagesRow, FirstRow, documentOfPage
<1>2. \A q \in Page \ {p} : rev'[q] = rev[q]
  BY DEF Story, Rows, FirstRow
<1>3. rev'[p] = rev[p] \cup {row} /\ DOMAIN rev' = Page /\ DOMAIN page' = Page
  BY DEF Story, Rows, FirstRow
<1>4. \A q \in Page : \A x \in rev[q] : RevisionsRow(x, page[q].ver) /\ x.v \in Nat /\ x.base \in Nat
  BY <1>1 DEF Story, Rows, RevisionsRow
<1>5. RevisionsRow(row, page[p].ver) /\ row.v = 1
  BY <1>1 DEF FirstRow, RevisionsRow
<1>6. Rows'
  <2>1. \A q \in Page : PagesRow(page'[q]) /\ \A x \in rev'[q] : RevisionsRow(x, page'[q].ver)
    BY <1>1, <1>2, <1>3, <1>4, <1>5
  <2> QED
    BY <1>3, <2>1 DEF Rows, TheirTags
<1>7. RevisionsTellTheStory'
  <2> SUFFICES ASSUME NEW q \in Page
               PROVE  /\ \A r, s \in rev'[q] : r.v = s.v => r = s
                      /\ 2 .. page'[q].ver \subseteq {r.v : r \in rev'[q]}
                      /\ \A r \in rev'[q] : r.v = page'[q].ver => r.c = documentOfPage(q)' /\ r.c = page'[q].content
    BY DEF RevisionsTellTheStory, RevisionAt
  <2>1. CASE q # p
    BY <1>1, <1>2, <2>1 DEF Story, RevisionsTellTheStory, RevisionAt
  <2>2. CASE q = p
    <3>1. \A r, s \in rev'[p] : r.v = s.v => r = s
      BY <1>3, <1>5 DEF Story, RevisionsTellTheStory, FirstRow
    <3>2. 2 .. page[p].ver \subseteq {r.v : r \in rev'[p]}
      BY <1>3 DEF Story, RevisionsTellTheStory
    <3>3. \A r \in rev[p] : r.v = page[p].ver => r.c = documentOfPage(p) /\ r.c = page[p].content
      BY DEF Story, RevisionsTellTheStory, RevisionAt
    <3>4. page[p].ver = 1 => row.c = documentOfPage(p) /\ row.c = page[p].content
      BY DEF FirstRow, documentOfPage
    <3> QED
      BY <1>1, <1>3, <1>5, <2>2, <3>1, <3>2, <3>3, <3>4
  <2> QED
    BY <2>1, <2>2
<1>8. EachFromTheLast'
  <2> SUFFICES ASSUME NEW q \in Page, NEW r \in rev'[q], r.v > 1, ~r.over PROVE r.base = r.v - 1
    BY DEF EachFromTheLast
  <2>1. r \in rev[q]
    BY <1>2, <1>3, <1>5
  <2> QED
    BY <2>1 DEF Story, NothingLostSilently, EachFromTheLast
<1>9. BlocksAreKept'
  <2> SUFFICES ASSUME NEW q \in Page, NEW r \in rev'[q], NEW b \in rev'[q], r.how = "publish", b.v = r.base
               PROVE  AllKept(r.ack, r.c, b.c)
    BY DEF BlocksAreKept, AllKept
  <2>1. r \in rev[q]
    BY <1>2, <1>3 DEF FirstRow
  <2>2. CASE b \in rev[q]
    BY <2>1, <2>2 DEF Story, NothingLostSilently, BlocksAreKept, AllKept
  <2>3. CASE b = row /\ q = p
    BY <2>3 DEF FirstRow, AllKept
  <2> QED
    BY <1>2, <1>3, <2>2, <2>3
<1> QED
  BY <1>6, <1>7, <1>8, <1>9 DEF Story, NothingLostSilently

LEMMA InsertedStory == ASSUME Story, NEW p \in Page, NEW q, Inserted(p, q), TheirTags PROVE Story' /\ rev[p] = {}
<1>1. page[p].ver = 0 /\ \A x \in rev[p] : x.v \in 1 .. 0
  BY DEF Story, Rows, PagesRow, RevisionsRow, Inserted
<1>2. rev[p] = {} /\ rev' = rev
  BY <1>1 DEF Inserted
<1>3. page'[p] = q /\ DOMAIN page' = Page /\ \A x \in Page \ {p} : page'[x] = page[x]
  BY DEF Story, Rows, Inserted
<1>4. PagesRow(q) /\ q.ver = 1
  BY DEF PagesRow, Inserted
<1>5. Rows'
  BY <1>2, <1>3, <1>4 DEF Story, Rows, TheirTags
<1>6. RevisionsTellTheStory'
  <2> SUFFICES ASSUME NEW x \in Page
               PROVE  /\ \A r, s \in rev'[x] : r.v = s.v => r = s
                      /\ 2 .. page'[x].ver \subseteq {r.v : r \in rev'[x]}
                      /\ \A r \in rev'[x] : r.v = page'[x].ver => r.c = documentOfPage(x)' /\ r.c = page'[x].content
    BY DEF RevisionsTellTheStory, RevisionAt
  <2>1. CASE x # p
    BY <1>2, <1>3, <2>1 DEF Story, RevisionsTellTheStory, RevisionAt, documentOfPage
  <2>2. CASE x = p
    BY <1>2, <1>3, <1>4, <2>2
  <2> QED
    BY <2>1, <2>2
<1>7. NothingLostSilently'
  BY <1>2 DEF Story, NothingLostSilently, EachFromTheLast, BlocksAreKept
<1> QED
  BY <1>2, <1>5, <1>6, <1>7 DEF Story

-----------------------------------------------------------------------------
(* What the other requests rely on stands through all of that.             *)

(* What a step leaves of a page for those who read it earlier: its version *)
(* never goes back, and a row that comes is of a later version than any    *)
(* they saw, or the first of a page that kept nothing in it.               *)
Onward(q, q2, rows, rows2) ==
  /\ q.ver \in Nat /\ q2.ver \in Nat /\ q.ver <= q2.ver
  /\ \A b \in rows2 : b \in rows \/ b.v = q.ver + 1 \/ DOMAIN b.c.blocks = {}

LEMMA SoundStays ==
  ASSUME NEW r, NEW pg, NEW pg2, NEW rv, NEW rv2, RequestSound(r, pg, rv),
         r.p \in Page => Onward(pg[r.p], pg2[r.p], rv[r.p], rv2[r.p]),
         Creating(r) => Unborn(r, pg2[r.p], rv2[r.p])
  PROVE  RequestSound(r, pg2, rv2)
<1>1. r.op \in {"publish", "restore"} => r.base \in 1 .. pg2[r.p].ver
  BY DEF RequestSound, Onward
<1>2. ASSUME r.op = "publish", r.pc = "commit"
      PROVE  Document(r.c) /\ \A b \in rv2[r.p] : b.v = r.base => AllKept(r.ack, r.c, b.c)
  <2>1. r.p \in Page /\ r.base \in 1 .. pg[r.p].ver /\ Document(r.c)
        /\ \A b \in rv[r.p] : b.v = r.base => AllKept(r.ack, r.c, b.c)
    BY <1>2 DEF RequestSound
  <2> SUFFICES ASSUME NEW b \in rv2[r.p], b.v = r.base PROVE AllKept(r.ack, r.c, b.c)
    BY <2>1
  <2>2. b \in rv[r.p] \/ DOMAIN b.c.blocks = {}
    BY <2>1 DEF Onward
  <2> QED
    BY <2>1, <2>2 DEF AllKept
<1>3. r.op = "createpage" /\ r.pc = "revision" => Unborn(r, pg2[r.p], rv2[r.p])
  BY DEF Creating
<1> QED
  BY <1>1, <1>2, <1>3 DEF RequestSound

(* A step goes on soundly when the request it is of does, and the others   *)
(* can rely on what it leaves.                                             *)
LEMMA GoesOn ==
  ASSUME ContentInv, Story', NEW h \in Handler, Alone(h),
         "op" \in DOMAIN req'[h], req'[h].op # "idle" => "pc" \in DOMAIN req'[h],
         RequestSound(req'[h], page', rev'),
         \A q \in Page : Onward(page[q], page'[q], rev[q], rev'[q]),
         \A k \in Handler \ {h} : Creating(req[k]) =>
           /\ Unborn(req[k], page'[req[k].p], rev'[req[k].p])
           /\ Creating(req'[h]) => req'[h].p # req[k].p
  PROVE  ContentInv'
<1>1. Shape'
  BY DEF ContentInv, Shape, Alone
<1>2. Workload'
  BY DEF ContentInv, Workload, Alone
<1>3. Requests'
  <2> SUFFICES ASSUME NEW k \in Handler PROVE RequestSound(req'[k], page', rev')
    BY DEF Requests
  <2>1. CASE k # h
    <3>1. req'[k] = req[k] /\ RequestSound(req[k], page, rev)
      BY <2>1 DEF Alone, ContentInv, Requests
    <3> QED
      BY <2>1, <3>1, SoundStays
  <2> QED
    BY <2>1
<1>4. OneCreator'
  <2> SUFFICES ASSUME NEW k \in Handler, NEW l \in Handler, k # l, Creating(req'[k]), Creating(req'[l])
               PROVE  req'[k].p # req'[l].p
    BY DEF OneCreator
  <2>1. \A m \in Handler \ {h} : req'[m] = req[m]
    BY DEF Alone
  <2>2. CASE k # h /\ l # h
    BY <2>1, <2>2 DEF ContentInv, OneCreator
  <2>3. CASE k = h /\ l # h
    BY <2>1, <2>3
  <2>4. CASE k # h /\ l = h
    BY <2>1, <2>4
  <2> QED
    BY <2>2, <2>3, <2>4
<1> QED
  BY <1>1, <1>2, <1>3, <1>4 DEF ContentInv, Story

LEMMA InvIsStory == ContentInv => Story
BY DEF ContentInv, Story

LEMMA TheVersions == ASSUME ContentInv PROVE \A q \in Page : page[q].ver \in Nat
BY DEF ContentInv, Rows, PagesRow

LEMMA IdleIsSound == ASSUME NEW pg, NEW rv PROVE RequestSound(Idle, pg, rv) /\ ~Creating(Idle)
BY DEF RequestSound, Creating, Idle

(* A step that writes no page: its request goes on soundly.                *)
LEMMA QuietGoes ==
  ASSUME ContentInv, NEW h \in Handler, Alone(h), SameText, TheirTags,
         "op" \in DOMAIN req'[h], req'[h].op # "idle" => "pc" \in DOMAIN req'[h],
         RequestSound(req'[h], page, rev), Creating(req'[h]) => req'[h] = req[h]
  PROVE  ContentInv'
<1>1. Story'
  BY InvIsStory, StillStory
<1>2. \A q \in Page : Onward(page[q], page'[q], rev[q], rev'[q])
  BY TheVersions DEF Onward, SameText
<1>3. ASSUME NEW r, RequestSound(r, page, rev), Creating(r)
      PROVE  Unborn(r, page'[r.p], rev'[r.p])
  BY <1>3 DEF RequestSound, Creating, Unborn, SameText
<1>4. RequestSound(req'[h], page', rev')
  BY <1>2, <1>3, SoundStays
<1>5. \A k \in Handler \ {h} : Creating(req[k]) =>
        Unborn(req[k], page'[req[k].p], rev'[req[k].p]) /\ (Creating(req'[h]) => req'[h].p # req[k].p)
  BY <1>3 DEF ContentInv, Requests, OneCreator
<1> QED
  BY <1>1, <1>2, <1>4, <1>5, GoesOn

LEMMA WriteGoes ==
  ASSUME ContentInv, NEW h \in Handler, Alone(h), req'[h] = Idle,
         NEW p \in Page, NEW row, Written(p, row), TheirTags
  PROVE  ContentInv'
<1>1. Story'
  BY InvIsStory, WrittenStory
<1>2. DOMAIN rev = Page /\ \A q \in Page \ {p} : page'[q] = page[q] /\ rev'[q] = rev[q]
  BY DEF ContentInv, Rows, Written
<1>3. rev'[p] = rev[p] \cup {row} /\ row.v = page[p].ver + 1 /\ page'[p].ver = page[p].ver + 1 /\ page[p].ver > 0
  BY <1>2 DEF Written
<1>4. \A q \in Page : Onward(page[q], page'[q], rev[q], rev'[q])
  BY <1>2, <1>3, TheVersions DEF Onward
<1>5. ASSUME NEW k \in Handler \ {h}, Creating(req[k])
      PROVE  Unborn(req[k], page'[req[k].p], rev'[req[k].p])
  <2>1. req[k].p \in Page /\ Unborn(req[k], page[req[k].p], rev[req[k].p])
    BY <1>5 DEF ContentInv, Requests, RequestSound, Creating
  <2>2. CASE req[k].p = p
    BY <2>1, <2>2, <1>3, TheVersions DEF Unborn
  <2> QED
    BY <2>1, <2>2, <1>2
<1> QED
  BY <1>1, <1>4, <1>5, IdleIsSound, GoesOn DEF Idle

LEMMA FirstGoes ==
  ASSUME ContentInv, NEW h \in Handler, Alone(h), Creating(req[h]), req'[h] = Idle,
         NEW row, FirstRow(req[h].p, row), TheirTags
  PROVE  ContentInv'
<1> DEFINE p == req[h].p
<1>1. p \in Page
  BY DEF ContentInv, Requests, RequestSound, Creating
<1>2. Story'
  BY <1>1, InvIsStory, FirstRowStory
<1>3. page' = page /\ rev'[p] = rev[p] \cup {row} /\ DOMAIN row.c.blocks = {} /\ \A q \in Page \ {p} : rev'[q] = rev[q]
  BY <1>1 DEF ContentInv, Rows, FirstRow
<1>4. \A q \in Page : Onward(page[q], page'[q], rev[q], rev'[q])
  BY <1>3, TheVersions DEF Onward
<1>5. ASSUME NEW k \in Handler \ {h}, Creating(req[k])
      PROVE  Unborn(req[k], page'[req[k].p], rev'[req[k].p])
  <2>1. req[k].p # p /\ req[k].p \in Page /\ Unborn(req[k], page[req[k].p], rev[req[k].p])
    BY <1>5 DEF ContentInv, OneCreator, Requests, RequestSound, Creating
  <2> QED
    BY <2>1, <1>3
<1> QED
  BY <1>2, <1>4, <1>5, IdleIsSound, GoesOn DEF Idle

LEMMA InsertGoes ==
  ASSUME ContentInv, NEW h \in Handler, Alone(h), NEW q, NEW r,
         req'[h] = r, Creating(r), DOMAIN r = DOMAIN req[h], "pc" \in DOMAIN r,
         r.p \in Page, Document(r.c), DOMAIN r.c.blocks = {}, r.base = 0,
         Inserted(r.p, q), q.content = r.c, TheirTags
  PROVE  ContentInv'
<1>1. Story' /\ rev[r.p] = {}
  BY InvIsStory, InsertedStory
<1>2. rev' = rev /\ page'[r.p] = q /\ q.ver = 1 /\ q.doc = Nil /\ page[r.p].ver = 0 /\ \A x \in Page \ {r.p} : page'[x] = page[x]
  BY DEF ContentInv, Rows, PagesRow, Inserted
<1>3. \A x \in Page : Onward(page[x], page'[x], rev[x], rev'[x])
  BY <1>2, TheVersions DEF Onward
<1>4. Unborn(r, page'[r.p], rev'[r.p])
  BY <1>1, <1>2 DEF Unborn
<1>5. RequestSound(r, page', rev')
  BY <1>4 DEF RequestSound, Creating
<1>6. ASSUME NEW k \in Handler \ {h}, Creating(req[k])
      PROVE  Unborn(req[k], page'[req[k].p], rev'[req[k].p]) /\ r.p # req[k].p
  <2>1. req[k].p \in Page /\ Unborn(req[k], page[req[k].p], rev[req[k].p])
    BY <1>6 DEF ContentInv, Requests, RequestSound, Creating
  <2>2. req[k].p # r.p
    BY <2>1, <1>2 DEF Unborn
  <2> QED
    BY <2>1, <2>2, <1>2
<1>7. "op" \in DOMAIN r
  BY DEF ContentInv, Shape
<1> QED
  BY <1>1, <1>3, <1>5, <1>6, <1>7, GoesOn

LEMMA Untouched == ASSUME ContentInv, UNCHANGED <<page, rev, etag, draft>> PROVE SameText /\ TheirTags
BY DEF ContentInv, Rows, PagesRow, SameText, TheirTags

LEMMA AsideGoes ==
  ASSUME ContentInv, NEW h \in Handler, Aside(h, ContentOp), SameText, TheirTags
  PROVE  ContentInv'
<1>1. Alone(h) /\ (Foreign(req'[h], ContentOp) \/ req'[h] = req[h])
  BY DEF Aside
<1>2. CASE Foreign(req'[h], ContentOp)
  <2>1. RequestSound(req'[h], page, rev) /\ ~Creating(req'[h])
    BY <1>2 DEF Foreign, ContentOp, RequestSound, Creating
  <2> QED
    BY <1>1, <1>2, <2>1, QuietGoes DEF Foreign
<1>3. CASE req'[h] = req[h]
  <2>1. RequestSound(req[h], page, rev) /\ "op" \in DOMAIN req[h] /\ (req[h].op # "idle" => "pc" \in DOMAIN req[h])
    BY DEF ContentInv, Requests, Shape
  <2> QED
    BY <1>1, <1>3, <2>1, QuietGoes
<1> QED
  BY <1>1, <1>2, <1>3

(* A request of the pages begins, or goes on, soundly.                     *)
LEMMA RequestGoes ==
  ASSUME ContentInv, NEW h \in Handler, NEW r, Begin(h, r) \/ Go(h, r), UNCHANGED <<page, rev, etag, draft>>,
         {"op", "pc"} \subseteq DOMAIN r, RequestSound(r, page, rev), ~Creating(r)
  PROVE  ContentInv'
<1>1. Alone(h) /\ req'[h] = r
  BY Moving DEF ContentInv
<1> QED
  BY <1>1, Untouched, QuietGoes

LEMMA EndGoes ==
  ASSUME ContentInv, NEW h \in Handler, End(h), SameText, TheirTags
  PROVE  ContentInv'
<1>1. Aside(h, ContentOp)
  BY EndAside DEF ContentInv, ContentOp
<1> QED
  BY <1>1, AsideGoes

LEMMA TypedIsDocument ==
  ASSUME NEW bs, NEW ts, DOMAIN bs \subseteq Nat PROVE Document(Typed(bs, ts)) /\ Typed(bs, ts).blocks = bs
BY DEF Document, Typed

LEMMA CreatingKeeps ==
  ASSUME ContentInv, NEW h \in Handler, CreatePageBegin(h) \/ CreatePage(h) \/ CreatePageRevision(h)
  PROVE  ContentInv'
<1>1. CASE CreatePageBegin(h)
  <2>1. PICK r : /\ Begin(h, r) /\ {"op", "pc"} \subseteq DOMAIN r /\ r.op = "createpage" /\ r.pc = "insert"
                 /\ r.p \in Page /\ r.c = Typed(<<>>, <<>>) /\ r.base = 0
    BY <1>1 DEF CreatePageBegin
  <2>2. DOMAIN <<>> = {}
    OBVIOUS
  <2>3. Document(r.c) /\ DOMAIN r.c.blocks = {}
    BY <2>1, <2>2, TypedIsDocument
  <2>4. RequestSound(r, page, rev) /\ ~Creating(r)
    BY <2>1, <2>3 DEF RequestSound, Creating
  <2>5. UNCHANGED <<page, rev, etag, draft>>
    BY <1>1 DEF CreatePageBegin, contentVars, shareVars, wikiVars
  <2> QED
    BY <2>1, <2>4, <2>5, RequestGoes
<1>2. CASE CreatePage(h)
  <2> DEFINE r == req[h]
             s == [r EXCEPT !.pc = "revision"]
             q == [st |-> "live", sp |-> r.sp, parent |-> r.parent, path |-> r.path,
                   ver |-> 1, content |-> r.c, doc |-> Nil, author |-> r.u]
  <2>1. r.op = "createpage" /\ r.p \in Page /\ Document(r.c) /\ DOMAIN r.c.blocks = {} /\ r.base = 0
        /\ {"op", "pc"} \subseteq DOMAIN r
    BY <1>2 DEF CreatePage, At, ContentInv, Requests, RequestSound, Shape
  <2>2. UNCHANGED <<rev, etag, draft>>
    BY <1>2 DEF CreatePage, wikiVars
  <2>3. CASE page[r.p].st = "absent"
    <3>1. page' = [page EXCEPT ![r.p] = q] /\ Go(h, s)
      BY <1>2, <2>3 DEF CreatePage
    <3>2. TheirTags
      BY <2>2 DEF TheirTags, ContentInv, Rows
    <3>3. Alone(h) /\ req'[h] = s
      BY <3>1, Moving DEF ContentInv
    <3>4. Inserted(r.p, q) /\ q.content = r.c
      BY <2>1, <2>2, <2>3, <3>1 DEF Inserted, Columns
    <3>5. s.op = "createpage" /\ s.p = r.p /\ s.c = r.c /\ s.base = r.base /\ s.pc = "revision" /\ DOMAIN s = DOMAIN r
      BY <2>1
    <3>6. Creating(s)
      BY <3>5 DEF Creating
    <3> HIDE DEF q, s
    <3> QED
      BY <2>1, <3>2, <3>3, <3>4, <3>5, <3>6, InsertGoes
  <2>4. CASE page[r.p].st # "absent"
    <3>1. End(h) /\ page' = page
      BY <1>2, <2>4 DEF CreatePage
    <3> QED
      BY <2>2, <3>1, Untouched, EndGoes
  <2> QED
    BY <2>3, <2>4
<1>3. CASE CreatePageRevision(h)
  <2> DEFINE r == req[h]
             row == Revision(1, r.c, r)
  <2>1. UNCHANGED <<page, etag, draft>> /\ End(h)
    BY <1>3 DEF CreatePageRevision, shareVars
  <2>2. CASE rev' = rev
    BY <2>1, <2>2, Untouched, EndGoes
  <2>3. CASE rev' = [rev EXCEPT ![r.p] = @ \cup {row}]
    <3>1. Creating(r)
      BY <1>3 DEF CreatePageRevision, At, Creating
    <3>2. r.op = "createpage" /\ r.p \in Page /\ Document(r.c) /\ DOMAIN r.c.blocks = {} /\ r.base = 0
          /\ Unborn(r, page[r.p], rev[r.p])
      BY <3>1 DEF Creating, ContentInv, Requests, RequestSound
    <3>3. FirstRow(r.p, row)
      BY <2>1, <2>3, <3>2 DEF FirstRow, Unborn, Revision
    <3>4. Alone(h) /\ req'[h] = Idle
      BY <2>1, Ending DEF ContentInv
    <3>5. TheirTags
      BY <2>1 DEF TheirTags, ContentInv, Rows
    <3> HIDE DEF row
    <3> QED
      BY <3>1, <3>3, <3>4, <3>5, FirstGoes
  <2> QED
    BY <1>3, <2>2, <2>3 DEF CreatePageRevision
<1> QED
  BY <1>1, <1>2, <1>3

LEMMA SavingKeeps ==
  ASSUME ContentInv, NEW h \in Handler, UpdatePageBegin(h) \/ UpdatePageContentTx(h)
  PROVE  ContentInv'
<1>1. CASE UpdatePageBegin(h)
  <2>1. PICK r, bs : /\ Begin(h, r) /\ {"op", "pc"} \subseteq DOMAIN r /\ r.op = "savepage" /\ r.p \in Page
                     /\ r.c = Typed(bs, <<>>) /\ bs \in mix.markdown
    BY <1>1 DEF UpdatePageBegin, Work
  <2>2. Document(r.c)
    BY <2>1, TypedIsDocument DEF ContentInv, Workload
  <2>3. RequestSound(r, page, rev) /\ ~Creating(r)
    BY <2>1, <2>2 DEF RequestSound, Creating
  <2>4. UNCHANGED <<page, rev, etag, draft>>
    BY <1>1 DEF UpdatePageBegin, contentVars, shareVars, wikiVars
  <2> QED
    BY <2>1, <2>3, <2>4, RequestGoes
<1>2. CASE UpdatePageContentTx(h)
  <2> DEFINE r == req[h]
             row == Revision(page[r.p].ver + 1, r.c, r)
  <2>1. r.op = "savepage" /\ r.p \in Page /\ Document(r.c)
    BY <1>2 DEF UpdatePageContentTx, At, ContentInv, Requests, RequestSound
  <2>2. End(h) /\ UNCHANGED <<etag, draft>>
    BY <1>2 DEF UpdatePageContentTx
  <2>3. CASE PageLive(r.p) /\ ~DocumentBacked(r.p) /\ VersionIs(r.p, r)
    <3>1. page' = [page EXCEPT ![r.p].content = r.c, ![r.p].ver = @ + 1] /\ rev' = [rev EXCEPT ![r.p] = @ \cup {row}]
      BY <1>2, <2>3 DEF UpdatePageContentTx
    <3>2. DOMAIN page = Page /\ PagesRow(page[r.p])
      BY <2>1 DEF ContentInv, Rows
    <3>3. page[r.p].ver \in Nat /\ page[r.p].ver > 0 /\ r.base = page[r.p].ver
      BY <3>2, <2>3 DEF PagesRow, PageLive, VersionIs
    <3>4. /\ row.v = page[r.p].ver + 1 /\ row.c = r.c /\ row.how = "savepage" /\ row.base = page[r.p].ver
      BY <2>1, <3>3 DEF Revision
    <3>5. /\ DOMAIN page'[r.p] = Columns /\ page'[r.p].st = page[r.p].st /\ page'[r.p].ver = page[r.p].ver + 1
          /\ page'[r.p].content = r.c /\ page'[r.p].doc = Nil
      BY <2>1, <2>3, <3>1, <3>2 DEF PagesRow, Columns, DocumentBacked
    <3>6. DOMAIN page' = Page /\ \A q \in Page \ {r.p} : page'[q] = page[q]
      BY <3>1, <3>2
    <3> HIDE DEF row
    <3>7. row.base \in 1 .. page[r.p].ver /\ row.how # "publish" /\ Document(row.c)
      BY <2>1, <3>3, <3>4
    <3>8. Written(r.p, row)
      BY <3>1, <3>3, <3>4, <3>5, <3>6, <3>7 DEF Written
    <3>9. Alone(h) /\ req'[h] = Idle
      BY <2>2, Ending DEF ContentInv
    <3>10. TheirTags
      BY <2>2 DEF TheirTags, ContentInv, Rows
    <3> QED
      BY <2>1, <3>8, <3>9, <3>10, WriteGoes
  <2>4. CASE ~(PageLive(r.p) /\ ~DocumentBacked(r.p) /\ VersionIs(r.p, r))
    <3>1. UNCHANGED <<page, rev>>
      BY <1>2, <2>4 DEF UpdatePageContentTx
    <3> QED
      BY <2>2, <3>1, Untouched, EndGoes
  <2> QED
    BY <2>3, <2>4
<1> QED
  BY <1>1, <1>2

(* Restoring the blocks of a document keeps those that were not dropped.   *)
LEMMA RestoringKeeps ==
  ASSUME NEW in, NEW b, NEW ack, Document(in), Document(b), Dropped(in, b) \subseteq ack
  PROVE  Document(Restore(in, b)) /\ AllKept(ack, Restore(in, b), b)
<1> DEFINE c == Restore(in, b)
<1>1. DOMAIN c = DOMAIN in /\ DOMAIN c.blocks = DOMAIN in.blocks
      /\ \A j \in DOMAIN in.blocks : in.blocks[j] \in Nat => c.blocks[j] = b.blocks[in.blocks[j]]
  BY DEF Restore, Document
<1> HIDE DEF c
<1>2. Document(c)
  BY <1>1 DEF Document
<1>3. ASSUME NEW i \in DOMAIN b.blocks, i \notin ack PROVE b.blocks[i] \in Range(c.blocks)
  <2>1. i \in Nat /\ i \in Range(in.blocks)
    BY <1>3 DEF Document, Dropped
  <2>2. PICK j \in DOMAIN in.blocks : in.blocks[j] = i
    BY <2>1 DEF Range
  <2>3. c.blocks[j] = b.blocks[i] /\ j \in DOMAIN c.blocks
    BY <1>1, <2>1, <2>2
  <2> QED
    BY <2>3 DEF Range
<1> QED
  BY <1>2, <1>3 DEF AllKept, c

(* The documents a draft may have been started from are those of the       *)
(* history's rows of its version.                                          *)
LEMMA BasesAreWhole ==
  ASSUME ContentInv, NEW p \in Page, NEW base, base \in 1 .. page[p].ver, NEW d \in baseDocument(p, base)
  PROVE  Document(d) /\ \A b \in rev[p] : b.v = base => b.c = d
<1>1. PagesRow(page[p]) /\ \A r \in rev[p] : RevisionsRow(r, page[p].ver)
  BY DEF ContentInv, Rows
<1>2. page[p].st # "absent" /\ page[p].ver \in Nat
  BY <1>1 DEF PagesRow
<1>3. CASE page[p].ver = base
  <2>1. d = documentOfPage(p)
    BY <1>3 DEF baseDocument
  <2>2. Document(d)
    BY <2>1, <1>1, <1>2 DEF documentOfPage, PagesRow
  <2> QED
    BY <2>1, <2>2, <1>3 DEF ContentInv, RevisionsTellTheStory, RevisionAt
<1>4. CASE page[p].ver # base
  <2>1. PICK r \in rev[p] : r.v = base /\ d = r.c
    BY <1>4 DEF baseDocument, RevisionAt
  <2> QED
    BY <1>1, <2>1 DEF RevisionsRow, ContentInv, RevisionsTellTheStory
<1> QED
  BY <1>3, <1>4

LEMMA PublishKeeps ==
  ASSUME ContentInv, NEW h \in Handler, PublishBegin(h) \/ Publish(h)
  PROVE  ContentInv'
<1>1. UNCHANGED <<page, rev, etag, draft>>
  BY DEF PublishBegin, Publish, contentVars, shareVars, wikiVars
<1>2. CASE PublishBegin(h)
  <2>1. PICK r, bs, ts :
          /\ Begin(h, r) /\ DOMAIN r = {"op", "pc", "u", "p", "in", "base", "over", "ack"}
          /\ r.op = "publish" /\ r.pc = "read" /\ r.p \in Page /\ r.base \in 1 .. page[r.p].ver
          /\ r.in = Typed(bs, ts) /\ bs \in mix.edits
    BY <1>2 DEF PublishBegin, Work
  <2>2. Document(r.in)
    BY <2>1, TypedIsDocument DEF ContentInv, Workload
  <2>3. RequestSound(r, page, rev) /\ ~Creating(r)
    BY <2>1, <2>2 DEF RequestSound, Creating
  <2> QED
    BY <1>1, <2>1, <2>3, RequestGoes
<1>3. CASE Publish(h)
  <2> DEFINE r == req[h]
             r2 == [r EXCEPT !.pc = "commit"]
  <2>1. /\ r.op = "publish" /\ r.p \in Page /\ r.base \in 1 .. page[r.p].ver /\ Document(r.in)
        /\ DOMAIN r = {"op", "pc", "u", "p", "in", "base", "over", "ack"}
    BY <1>3 DEF Publish, At, ContentInv, Requests, RequestSound
  <2>2. CASE End(h)
    BY <2>2, <1>1, Untouched, EndGoes
  <2>3. CASE ~End(h)
    <3>1. PICK b \in baseDocument(r.p, r.base) :
            Dropped(r.in, b) \subseteq r.ack /\ Go(h, With(r2, [c |-> Restore(r.in, b)]))
      BY <1>3, <2>3 DEF Publish
    <3> DEFINE new == [c |-> Restore(r.in, b)]
               s == With(r2, new)
    <3>2. DOMAIN r2 = DOMAIN r /\ r2.op = "publish" /\ r2.pc = "commit" /\ r2.p = r.p /\ r2.base = r.base /\ r2.ack = r.ack
      BY <2>1
    <3>3. DOMAIN s = DOMAIN r2 \cup {"c"} /\ s.op = r2.op /\ s.pc = r2.pc /\ s.p = r2.p /\ s.base = r2.base /\ s.ack = r2.ack
      <4>1. {"op", "pc", "p", "base", "ack"} \subseteq DOMAIN r2 /\ DOMAIN new = {"c"}
        BY <2>1, <3>2
      <4> HIDE DEF r2, new
      <4> QED
        BY <4>1, WithKeeps
    <3>4. s.c = Restore(r.in, b)
      BY <2>1, <3>2 DEF With
    <3>5. Document(b) /\ \A x \in rev[r.p] : x.v = r.base => x.c = b
      BY <2>1, BasesAreWhole
    <3>6. Document(s.c) /\ AllKept(s.ack, s.c, b)
      BY <2>1, <3>1, <3>2, <3>3, <3>4, <3>5, RestoringKeeps
    <3> HIDE DEF s
    <3>7. RequestSound(s, page, rev) /\ ~Creating(s)
      BY <2>1, <3>2, <3>3, <3>5, <3>6 DEF RequestSound, Creating
    <3>8. Go(h, s) /\ {"op", "pc"} \subseteq DOMAIN s
      BY <2>1, <3>1, <3>2, <3>3 DEF s
    <3> QED
      BY <1>1, <3>7, <3>8, RequestGoes
  <2> QED
    BY <2>2, <2>3
<1> QED
  BY <1>2, <1>3

LEMMA PublishTxKeeps ==
  ASSUME ContentInv, NEW h \in Handler, PublishPageTx(h)
  PROVE  ContentInv'
<1> DEFINE r == req[h]
           row == Revision(page[r.p].ver + 1, r.c, r)
           taken == IF r.over THEN OverwritePageDocument(r.p) ELSE PublishPageDocument(r.p, r)
<1>1. /\ r.op = "publish" /\ r.p \in Page /\ r.base \in 1 .. page[r.p].ver /\ Document(r.c)
      /\ \A b \in rev[r.p] : b.v = r.base => AllKept(r.ack, r.c, b.c)
  BY DEF PublishPageTx, At, ContentInv, Requests, RequestSound
<1>2. End(h)
  BY DEF PublishPageTx
<1>3. CASE ~taken
  <2>1. UNCHANGED <<page, rev, etag, draft>>
    BY <1>3 DEF PublishPageTx, wikiVars
  <2> QED
    BY <1>2, <2>1, Untouched, EndGoes
<1>4. CASE taken
  <2>1. /\ page' = [page EXCEPT ![r.p].content = r.c, ![r.p].doc = r.c, ![r.p].ver = @ + 1]
        /\ rev' = [rev EXCEPT ![r.p] = @ \cup {row}]
        /\ draft' = DeletePageDraft(draft, r.p, r.u) /\ etag' = AddInlineTags(etag, r.p, r.c.tags)
    BY <1>4 DEF PublishPageTx, CreatePageRevisionWithDoc
  <2>2. DOMAIN page = Page /\ PagesRow(page[r.p])
    BY <1>1 DEF ContentInv, Rows
  <2>3. PageLive(r.p) /\ (~r.over => r.base = page[r.p].ver)
    BY <1>4 DEF OverwritePageDocument, PublishPageDocument, VersionIs
  <2>4. page[r.p].ver \in Nat /\ page[r.p].ver > 0
    BY <2>2, <2>3 DEF PagesRow, PageLive
  <2>5. row.v = page[r.p].ver + 1 /\ row.c = r.c /\ row.base = r.base /\ row.over = r.over /\ row.ack = r.ack
    BY DEF Revision
  <2>6. /\ DOMAIN page'[r.p] = Columns /\ page'[r.p].st = page[r.p].st /\ page'[r.p].ver = page[r.p].ver + 1
        /\ page'[r.p].content = r.c /\ page'[r.p].doc = r.c
    BY <1>1, <2>1, <2>2 DEF PagesRow, Columns
  <2>7. DOMAIN page' = Page /\ \A q \in Page \ {r.p} : page'[q] = page[q]
    BY <2>1, <2>2
  <2>8. TheirTags
    BY <1>1, <2>1 DEF TheirTags, ContentInv, Rows, DeletePageDraft, AddInlineTags
  <2> HIDE DEF row
  <2>9. Written(r.p, row)
    BY <1>1, <2>1, <2>3, <2>4, <2>5, <2>6, <2>7 DEF Written
  <2>10. Alone(h) /\ req'[h] = Idle
    BY <1>2, Ending DEF ContentInv
  <2> QED
    BY <1>1, <2>8, <2>9, <2>10, WriteGoes
<1> QED
  BY <1>3, <1>4

LEMMA RestoreKeeps ==
  ASSUME ContentInv, NEW h \in Handler, RestoreBegin(h) \/ RestoreRevision(h)
  PROVE  ContentInv'
<1>1. UNCHANGED <<page, rev, etag, draft>>
  BY DEF RestoreBegin, RestoreRevision, contentVars, shareVars, wikiVars
<1>2. CASE RestoreBegin(h)
  <2>1. PICK r : /\ Begin(h, r) /\ {"op", "pc"} \subseteq DOMAIN r /\ r.op = "restore" /\ r.p \in Page
                 /\ r.base \in 1 .. page[r.p].ver
    BY <1>2 DEF RestoreBegin
  <2>2. RequestSound(r, page, rev) /\ ~Creating(r)
    BY <2>1 DEF RequestSound, Creating
  <2> QED
    BY <1>1, <2>1, <2>2, RequestGoes
<1>3. CASE RestoreRevision(h)
  <2> DEFINE r == req[h]
  <2>1. r.p \in Page /\ r.base \in 1 .. page[r.p].ver
    BY <1>3 DEF RestoreRevision, At, ContentInv, Requests, RequestSound
  <2>2. CASE End(h)
    BY <2>2, <1>1, Untouched, EndGoes
  <2>3. CASE ~End(h)
    <3>1. PICK x \in rev[r.p] : Go(h, [op |-> "publish", pc |-> "read", u |-> r.u, p |-> r.p, in |-> x.c,
                                       base |-> r.base, over |-> r.over, ack |-> r.ack])
      BY <1>3, <2>3 DEF RestoreRevision, RevisionAt
    <3> DEFINE s == [op |-> "publish", pc |-> "read", u |-> r.u, p |-> r.p, in |-> x.c,
                     base |-> r.base, over |-> r.over, ack |-> r.ack]
    <3>2. Document(x.c)
      BY <2>1, <3>1 DEF ContentInv, Rows, RevisionsRow
    <3>3. RequestSound(s, page, rev) /\ ~Creating(s)
      BY <2>1, <3>2 DEF RequestSound, Creating
    <3>4. Go(h, s) /\ {"op", "pc"} \subseteq DOMAIN s
      BY <3>1
    <3> HIDE DEF s
    <3> QED
      BY <1>1, <3>3, <3>4, RequestGoes
  <2> QED
    BY <2>2, <2>3
<1> QED
  BY <1>2, <1>3

LEMMA TagsKeep ==
  ASSUME ContentInv, NEW h \in Handler, TagsStep(h), UNCHANGED wikiVars
  PROVE  ContentInv'
<1>1. rev' = rev /\ draft' = draft
  BY DEF wikiVars
<1>2. page' = page
  BY DEF TagsStep, SetTagsBegin, DeleteEntityTagsExcept, AddEntityTags, shareVars
<1>3. CASE SetTagsBegin(h)
  <2>1. PICK p, ts :
          p \in Page /\ Begin(h, [op |-> "settags", pc |-> "strip", p |-> p, sp |-> page[p].sp, ts |-> ts])
    BY <1>3 DEF SetTagsBegin
  <2> DEFINE r == [op |-> "settags", pc |-> "strip", p |-> p, sp |-> page[p].sp, ts |-> ts]
  <2>2. RequestSound(r, page, rev) /\ ~Creating(r) /\ {"op", "pc"} \subseteq DOMAIN r
    BY <2>1 DEF RequestSound, Creating
  <2>3. etag' = etag
    BY <1>3 DEF SetTagsBegin
  <2> HIDE DEF r
  <2>4. Begin(h, r)
    BY <2>1 DEF r
  <2> QED
    BY <1>1, <1>2, <2>2, <2>3, <2>4, RequestGoes
<1>4. CASE DeleteEntityTagsExcept(h)
  <2> DEFINE r == req[h]
             r2 == [r EXCEPT !.pc = "add"]
             doomed == IF EntityTagTargetInSpace(r.p, r.sp) THEN etag[r.p] \ r.ts ELSE {}
             new == [doomed |-> doomed]
             s == With(r2, new)
  <2>1. r.op = "settags" /\ r.p \in Page /\ DOMAIN r = {"op", "pc", "p", "sp", "ts"}
    BY <1>4 DEF DeleteEntityTagsExcept, At, ContentInv, Requests, RequestSound
  <2>2. GoLocked(h, TagRows(r.p, doomed), s) /\ etag' = etag
    BY <1>4 DEF DeleteEntityTagsExcept
  <2>3. DOMAIN r2 = DOMAIN r /\ r2.op = "settags" /\ r2.pc = "add" /\ r2.p = r.p /\ r2.ts = r.ts
    BY <2>1
  <2>4. DOMAIN s = DOMAIN r2 \cup {"doomed"} /\ s.op = r2.op /\ s.pc = r2.pc /\ s.p = r2.p /\ s.ts = r2.ts
    <3>1. {"op", "pc", "p", "ts"} \subseteq DOMAIN r2 /\ DOMAIN new = {"doomed"}
      BY <2>1, <2>3
    <3> HIDE DEF r2, new
    <3> QED
      BY <3>1, WithKeeps
  <2>5. s.doomed = doomed
    BY <2>1, <2>3 DEF With
  <2>6. doomed \cap r.ts = {}
    OBVIOUS
  <2> HIDE DEF s, doomed
  <2>7. RequestSound(s, page, rev) /\ ~Creating(s)
    BY <2>1, <2>3, <2>4, <2>5, <2>6 DEF RequestSound, Creating
  <2>8. Alone(h) /\ req'[h] = s
    BY <2>2, Moving DEF ContentInv
  <2>9. {"op", "pc"} \subseteq DOMAIN s
    BY <2>1, <2>3, <2>4
  <2> QED
    BY <1>1, <1>2, <2>2, <2>7, <2>8, <2>9, Untouched, QuietGoes
<1>5. CASE AddEntityTags(h)
  <2>1. End(h) /\ DOMAIN etag' = DOMAIN etag
    BY <1>5 DEF AddEntityTags
  <2>2. TheirTags /\ SameText
    BY <1>1, <1>2, <2>1 DEF TheirTags, SameText, ContentInv, Rows, PagesRow
  <2> QED
    BY <2>1, <2>2, EndGoes
<1> QED
  BY <1>3, <1>4, <1>5 DEF TagsStep

LEMMA DraftsKeep ==
  ASSUME ContentInv, NEW h \in Handler, DraftBegin(h) \/ SaveDraft(h) \/ DiscardDraft(h)
  PROVE  ContentInv'
<1>1. page' = page /\ rev' = rev /\ etag' = etag
  BY DEF DraftBegin, SaveDraft, DiscardDraft, contentVars, shareVars, wikiVars
<1>2. CASE DraftBegin(h)
  <2>1. PICK op \in {"savedraft", "discard"}, u \in Work.callers, p \in Page :
          Begin(h, [op |-> op, pc |-> "write", u |-> u, p |-> p, text |-> served + 1])
    BY <1>2 DEF DraftBegin
  <2> DEFINE r == [op |-> op, pc |-> "write", u |-> u, p |-> p, text |-> served + 1]
  <2>2. served + 1 # Nil
    BY EditsAreSequences DEF ContentInv, Workload
  <2>3. RequestSound(r, page, rev) /\ ~Creating(r) /\ {"op", "pc"} \subseteq DOMAIN r
    BY <2>2 DEF RequestSound, Creating
  <2>4. draft' = draft
    BY <1>2 DEF DraftBegin, contentVars, wikiVars
  <2> HIDE DEF r
  <2>5. Begin(h, r)
    BY <2>1 DEF r
  <2> QED
    BY <1>1, <2>3, <2>4, <2>5, RequestGoes
<1>3. CASE SaveDraft(h) \/ DiscardDraft(h)
  <2>1. End(h) /\ DOMAIN draft' = DOMAIN draft /\ \A p \in DOMAIN draft : DOMAIN draft'[p] = DOMAIN draft[p]
    BY <1>3 DEF SaveDraft, DiscardDraft, DeletePageDraft
  <2>2. TheirTags /\ SameText
    BY <1>1, <2>1 DEF TheirTags, SameText, ContentInv, Rows, PagesRow
  <2> QED
    BY <2>1, <2>2, EndGoes
<1> QED
  BY <1>2, <1>3

(* A page that is deleted, or moved with what is below it, says what it    *)
(* said.                                                                   *)
LEMMA MovesKeep ==
  ASSUME ContentInv, NEW h \in Handler,
         \/ DeletePageBegin(h) \/ DeletePageAndRevokeShares(h)
         \/ MovePageBegin(h) \/ GetPageForUpdate(h) \/ resolveMoveParent(h) \/ MovePageTx(h)
  PROVE  ContentInv'
<1> USE DEF ContentOp
<1>1. Shape /\ UNCHANGED <<rev, etag, draft>>
  BY DEF ContentInv, DeletePageBegin, DeletePageAndRevokeShares, MovePageBegin, GetPageForUpdate, resolveMoveParent,
         MovePageTx, contentVars, wikiVars
<1>2. DOMAIN page = Page /\ \A p \in Page : DOMAIN page[p] = Columns
  BY DEF ContentInv, Rows, PagesRow
<1>3. TheirTags
  BY <1>1 DEF TheirTags, ContentInv, Rows
<1>4. CASE DeletePageBegin(h) \/ MovePageBegin(h)
  <2>1. PICK r : Foreign(r, ContentOp) /\ Begin(h, r)
    BY <1>4 DEF DeletePageBegin, MovePageBegin, Foreign
  <2>2. page' = page
    BY <1>4 DEF DeletePageBegin, MovePageBegin, contentVars, shareVars
  <2> QED
    BY <1>1, <2>1, <2>2, Untouched, ForeignMoves, AsideGoes
<1>5. CASE GetPageForUpdate(h) \/ resolveMoveParent(h)
  <2>1. page' = page
    BY <1>5 DEF GetPageForUpdate, resolveMoveParent, contentVars, shareVars
  <2>2. Aside(h, ContentOp)
    <3>1. CASE End(h)
      BY <1>1, <3>1, EndAside
    <3>2. CASE GetPageForUpdate(h) /\ ~End(h)
      <4>1. GoLocked(h, PageRow(req[h].p), [req[h] EXCEPT !.pc = "parent"])
        BY <3>2 DEF GetPageForUpdate
      <4>2. Foreign([req[h] EXCEPT !.pc = "parent"], ContentOp)
        BY <1>1, <3>2 DEF GetPageForUpdate, At, Shape, Foreign
      <4> QED
        BY <1>1, <4>1, <4>2, ForeignSteps
    <3>3. CASE resolveMoveParent(h) /\ ~End(h)
      <4>1. PICK s : Go(h, With([req[h] EXCEPT !.pc = "write"], s))
        BY <3>3 DEF resolveMoveParent
      <4>2. Foreign([req[h] EXCEPT !.pc = "write"], ContentOp)
        BY <1>1, <3>3 DEF resolveMoveParent, At, Shape, Foreign
      <4> QED
        BY <1>1, <4>1, <4>2, ForeignWith, ForeignMoves
    <3> QED
      BY <1>5, <3>1, <3>2, <3>3
  <2> QED
    BY <1>1, <2>1, <2>2, Untouched, AsideGoes
<1>6. CASE DeletePageAndRevokeShares(h)
  <2>1. DOMAIN page' = Page
    BY <1>2, <1>6 DEF DeletePageAndRevokeShares
  <2>2. \A p \in Page :
          /\ DOMAIN page'[p] = Columns /\ (page'[p].st = "absent" <=> page[p].st = "absent")
          /\ page'[p].ver = page[p].ver /\ page'[p].content = page[p].content /\ page'[p].doc = page[p].doc
    BY <1>2, <1>6 DEF DeletePageAndRevokeShares, Columns, PageInSpace, PageLive
  <2>3. SameText
    BY <1>1, <2>1, <2>2 DEF SameText
  <2> QED
    BY <1>3, <1>6, <2>3, EndGoes DEF DeletePageAndRevokeShares
<1>7. CASE MovePageTx(h)
  <2> DEFINE r == req[h]
             moved == applyPageMove(page, r.p, r.sp, r.path)
  <2>1. page' = [moved EXCEPT ![r.p].parent = r.parent]
    BY <1>7 DEF MovePageTx
  <2>2. DOMAIN moved = Page /\ \A q \in Page :
          /\ DOMAIN moved[q] = Columns /\ moved[q].st = page[q].st
          /\ moved[q].ver = page[q].ver /\ moved[q].content = page[q].content /\ moved[q].doc = page[q].doc
    BY <1>2 DEF applyPageMove, Columns
  <2> HIDE DEF moved
  <2>3. DOMAIN page' = Page /\ \A q \in Page :
          /\ DOMAIN page'[q] = Columns /\ page'[q].st = page[q].st
          /\ page'[q].ver = page[q].ver /\ page'[q].content = page[q].content /\ page'[q].doc = page[q].doc
    BY <2>1, <2>2 DEF Columns
  <2>4. SameText
    BY <1>1, <2>3 DEF SameText
  <2> QED
    BY <1>3, <1>7, <2>4, EndGoes DEF MovePageTx
<1> QED
  BY <1>4, <1>5, <1>6, <1>7

LEMMA NothingMoves == ASSUME ContentInv, UNCHANGED <<serverVars, page, rev, etag, draft>> PROVE ContentInv'
<1>1. UNCHANGED <<req, mix, served, page, rev, etag, draft>>
  BY DEF serverVars
<1>2. Shape' /\ Workload' /\ OneCreator'
  BY <1>1 DEF ContentInv, Shape, Workload, OneCreator
<1>3. Rows' /\ Requests'
  BY <1>1 DEF ContentInv, Rows, Requests
<1>4. RevisionsTellTheStory' /\ NothingLostSilently'
  BY <1>1 DEF ContentInv, RevisionsTellTheStory, RevisionAt, documentOfPage, NothingLostSilently, EachFromTheLast, BlocksAreKept
<1> QED
  BY <1>2, <1>3, <1>4 DEF ContentInv

LEMMA ContentKept == ContentInv /\ [WorkspaceNext]_workspaceVars => ContentInv'
<1> SUFFICES ASSUME ContentInv, [WorkspaceNext]_workspaceVars PROVE ContentInv'
  OBVIOUS
<1> USE DEF contentVars, shareVars, wikiVars
<1>1. CASE UNCHANGED workspaceVars
  BY <1>1, NothingMoves DEF workspaceVars
<1>2. CASE Tick /\ UNCHANGED contentVars
  BY <1>2, NothingMoves DEF Tick
<1>3. ASSUME NEW i \in ShareId, ShareExpires(i), UNCHANGED <<etag, wikiVars>> PROVE ContentInv'
  BY <1>3, NothingMoves DEF ShareExpires
<1>4. ASSUME NEW h \in Handler, AuditedAccessStep(h) \/ AuditStep(h), UNCHANGED contentVars PROVE ContentInv'
  <2>1. Aside(h, ContentOp)
    BY <1>4, AccessAside, AuditAside, AsideFromAll DEF AuditedAccessStep, ContentInv
  <2> QED
    BY <1>4, <2>1, Untouched, AsideGoes
<1>5. ASSUME NEW h \in Handler, PeopleStep(h) \/ TeamsStep(h) \/ SpacesStep(h), UNCHANGED contentVars PROVE ContentInv'
  <2>1. Aside(h, ContentOp)
    BY <1>5, PeopleAside, TeamsAside, SpacesAside, AsideFromAll DEF ContentInv
  <2> QED
    BY <1>5, <2>1, Untouched, AsideGoes
<1>6. ASSUME NEW h \in Handler, SharesStep(h), UNCHANGED <<etag, wikiVars>> PROVE ContentInv'
  <2>1. UNCHANGED <<page, rev, etag, draft>>
    BY <1>6 DEF SharesStep, CreateShareBegin, CreateShare, RevokeShareBegin, RevokeShare
  <2>2. CASE CreateShareBegin(h)
    <3>1. PICK r : Begin(h, r) /\ {"op", "pc"} \subseteq DOMAIN r /\ r.op = "share" /\ r.p \in Page
      BY <2>2 DEF CreateShareBegin
    <3>2. RequestSound(r, page, rev) /\ ~Creating(r)
      BY <3>1 DEF RequestSound, Creating
    <3> QED
      BY <2>1, <3>1, <3>2, RequestGoes
  <2>3. CASE ~CreateShareBegin(h)
    <3>1. Aside(h, ContentOp)
      BY <1>6, <2>3, SharesAside, AsideFromAll DEF ContentInv
    <3> QED
      BY <2>1, <3>1, Untouched, AsideGoes
  <2> QED
    BY <2>2, <2>3
<1>7. ASSUME NEW h \in Handler, WikiStep(h) PROVE ContentInv'
  BY <1>7, CreatingKeeps, SavingKeeps, PublishKeeps, PublishTxKeeps, RestoreKeeps, DraftsKeep, MovesKeep DEF WikiStep
<1>8. ASSUME NEW h \in Handler, TagsStep(h), UNCHANGED wikiVars PROVE ContentInv'
  BY <1>8, TagsKeep
<1>9. CASE ContentStep
  BY <1>3, <1>5, <1>6, <1>7, <1>8, <1>9 DEF ContentStep
<1> QED
  BY <1>1, <1>2, <1>4, <1>9 DEF WorkspaceNext

THEOREM ContentIsSound == WorkspaceSpec => []ContentInv
BY ContentBegins, ContentKept, PTL DEF WorkspaceSpec

-----------------------------------------------------------------------------
(* What a reader of the project should know of                             *)

(* The history of a page has each version once, leaves none out but        *)
(* perhaps the first, and ends in what the page says, in its document and  *)
(* in its markdown: the version-guarded updates of wiki/document.go and    *)
(* adapters/publish_tx.go and content_tx.go write the page and its history *)
(* row together, and the two statements of a creation leave room for both. *)
THEOREM HistoriesTellTheStory == WorkspaceSpec => []RevisionsTellTheStory
<1>1. ContentInv => RevisionsTellTheStory
  BY DEF ContentInv
<1> QED
  BY <1>1, ContentIsSound, PTL

(* Nobody overwrites a version he was not shown unless he said so, and a   *)
(* preserved block of the version an author started from is in what he     *)
(* published unless he gave it up (wiki/document.go, Publish and Restore). *)
THEOREM NobodysWorkIsLost == WorkspaceSpec => []NothingLostSilently
<1>1. ContentInv => NothingLostSilently
  BY DEF ContentInv
<1> QED
  BY <1>1, ContentIsSound, PTL

LEMMA DraftsGo == ASSUME ContentInv, WorkspaceNext PROVE DraftsAreTheirAuthors
<1> USE DEF contentVars, shareVars, wikiVars
<1>1. CASE draft' = draft
  BY <1>1 DEF DraftsAreTheirAuthors
<1>2. \/ draft' = draft
      \/ \E h \in Handler : SaveDraft(h) \/ DiscardDraft(h) \/ PublishPageTx(h)
  <2>1. ASSUME NEW h \in Handler, WikiStep(h), ~(SaveDraft(h) \/ DiscardDraft(h) \/ PublishPageTx(h)) PROVE draft' = draft
    BY <2>1 DEF WikiStep, CreatePageBegin, CreatePage, CreatePageRevision, UpdatePageBegin, UpdatePageContentTx,
                PublishBegin, Publish, RestoreBegin, RestoreRevision, DraftBegin, DeletePageBegin,
                DeletePageAndRevokeShares, MovePageBegin, GetPageForUpdate, resolveMoveParent, MovePageTx
  <2> QED
    BY <2>1 DEF WorkspaceNext, ContentStep
<1>3. ASSUME NEW h \in Handler, SaveDraft(h) \/ DiscardDraft(h) \/ PublishPageTx(h) PROVE DraftsAreTheirAuthors
  <2> SUFFICES ASSUME NEW p \in Page, NEW u \in User, draft[p][u] # Nil, draft'[p][u] = Nil
               PROVE  /\ req[h].op \in {"publish", "discard"} /\ req[h].p = p /\ req[h].u = u
                      /\ req'[h] = Idle
    BY DEF DraftsAreTheirAuthors
  <2>1. DOMAIN draft = Page /\ DOMAIN draft[p] = User
    BY DEF ContentInv, Rows
  <2>2. CASE SaveDraft(h)
    <3>1. req[h].text # Nil
      BY <2>2 DEF SaveDraft, At, ContentInv, Requests, RequestSound
    <3> QED
      BY <2>1, <2>2, <3>1 DEF SaveDraft
  <2>3. CASE DiscardDraft(h) \/ PublishPageTx(h)
    <3>1. draft' = draft \/ draft' = [draft EXCEPT ![req[h].p][req[h].u] = Nil]
      BY <2>3 DEF DiscardDraft, PublishPageTx, DeletePageDraft
    <3>2. req[h].p = p /\ req[h].u = u
      BY <2>1, <3>1
    <3>3. req[h].op \in {"publish", "discard"}
      BY <2>3 DEF DiscardDraft, PublishPageTx, At
    <3>4. req'[h] = Idle
      BY <2>3, Ending DEF DiscardDraft, PublishPageTx, ContentInv
    <3> QED
      BY <3>2, <3>3, <3>4
  <2> QED
    BY <1>3, <2>2, <2>3
<1> QED
  BY <1>1, <1>2, <1>3

LEMMA TagsGo == ASSUME ContentInv, WorkspaceNext PROVE TagsAreTheirSetters
<1> USE DEF contentVars, shareVars, wikiVars
<1>1. CASE etag' = etag
  BY <1>1 DEF TagsAreTheirSetters
<1>2. \/ etag' = etag
      \/ \E h \in Handler : AddEntityTags(h) \/ PublishPageTx(h)
  <2>1. ASSUME NEW h \in Handler, WikiStep(h), ~PublishPageTx(h) PROVE etag' = etag
    BY <2>1 DEF WikiStep, CreatePageBegin, CreatePage, CreatePageRevision, UpdatePageBegin, UpdatePageContentTx,
                PublishBegin, Publish, RestoreBegin, RestoreRevision, DraftBegin, SaveDraft, DiscardDraft,
                DeletePageBegin, DeletePageAndRevokeShares, MovePageBegin, GetPageForUpdate, resolveMoveParent, MovePageTx
  <2>2. ASSUME NEW h \in Handler, TagsStep(h), ~AddEntityTags(h) PROVE etag' = etag
    BY <2>2 DEF TagsStep, SetTagsBegin, DeleteEntityTagsExcept
  <2> QED
    BY <2>1, <2>2 DEF WorkspaceNext, ContentStep
<1>3. ASSUME NEW h \in Handler, PublishPageTx(h) PROVE TagsAreTheirSetters
  <2>1. etag' = etag \/ etag' = AddInlineTags(etag, req[h].p, req[h].c.tags)
    BY <1>3 DEF PublishPageTx
  <2>2. \A p \in Page : etag[p] \subseteq etag'[p]
    BY <2>1 DEF AddInlineTags, ContentInv, Rows
  <2> QED
    BY <2>2 DEF TagsAreTheirSetters
<1>4. ASSUME NEW h \in Handler, AddEntityTags(h) PROVE TagsAreTheirSetters
  <2> DEFINE r == req[h]
             added == IF EntityTagTargetInSpace(r.p, r.sp) THEN r.ts ELSE {}
  <2>1. r.op = "settags" /\ r.doomed \cap r.ts = {} /\ DOMAIN etag = Page
    BY <1>4 DEF AddEntityTags, At, ContentInv, Requests, RequestSound, Rows
  <2>2. etag' = [etag EXCEPT ![r.p] = (@ \ r.doomed) \cup added]
    BY <1>4 DEF AddEntityTags
  <2>3. req'[h] = Idle
    BY <1>4, Ending DEF AddEntityTags, ContentInv
  <2> HIDE DEF added
  <2>4. ASSUME NEW p \in Page, NEW t \in etag[p] \ etag'[p] PROVE r.p = p /\ t \notin r.ts
    BY <2>1, <2>2
  <2> QED
    BY <2>1, <2>3, <2>4 DEF TagsAreTheirSetters
<1> QED
  BY <1>1, <1>2, <1>3, <1>4

(* A draft goes when its author discards it or publishes, and a tag when   *)
(* somebody sets the page's tags without it; no other request takes        *)
(* either, whatever runs beside it (adapters/publish_tx.go, tags.go).      *)
THEOREM WhatGoesWasAskedFor == WorkspaceSpec => GoesOnlyByRequest
<1>1. ContentInv /\ [WorkspaceNext]_workspaceVars => [DraftsAreTheirAuthors /\ TagsAreTheirSetters]_workspaceVars
  BY DraftsGo, TagsGo
<1> QED
  BY <1>1, ContentIsSound, PTL DEF WorkspaceSpec, GoesOnlyByRequest

-----------------------------------------------------------------------------
(* Shares and the pages they open                                          *)

(* A share is made while its page is still where the request found it:     *)
(* the insert asks for the page no more, and a move or a deletion that     *)
(* comes between the two would leave a share behind.                       *)
SharesLandWherePagesAre == \A h \in Handler : At(h, "share", "insert") => PageInSpace(req[h].p, req[h].sp)

ShareColumns == {"st", "p", "sp", "aud", "cascade", "expired"}
ShareRows ==
  /\ DOMAIN share = ShareId
  /\ \A i \in ShareId : DOMAIN share[i] = ShareColumns /\ (share[i].st = "active" => share[i].p \in Page)

SharesInv == ShareRows /\ SharesStayInSpace

LEMMA SharesBegin == WorkspaceInit => SharesInv
<1> SUFFICES ASSUME WorkspaceInit PROVE SharesInv
  OBVIOUS
<1>1. PICK n \in DOMAIN Mixes : mix = With([name |-> n], Mixes[n])
  BY DEF WorkspaceInit, ServerInit
<1>2. n \in DOMAIN Casts /\ Cast = Casts[n]
  BY <1>1, EveryMixHasACast DEF With, Cast
<1> DEFINE firstPages == Casts[n].page
           firstShares == Casts[n].share
<1>3. /\ page = [p \in Page |-> IF p \in DOMAIN firstPages THEN firstPages[p] ELSE NoPage]
      /\ share = [i \in ShareId |-> IF i \in DOMAIN firstShares THEN firstShares[i] ELSE NoShare]
  BY <1>2 DEF WorkspaceInit, ShareInit
<1>4. DOMAIN NoShare = ShareColumns /\ NoShare.st = "none"
  BY DEF NoShare, ShareColumns
<1>5. \A i \in DOMAIN firstShares :
        /\ DOMAIN firstShares[i] = ShareColumns
        /\ firstShares[i].st = "active" =>
             /\ firstShares[i].p \in Page \cap DOMAIN firstPages
             /\ firstPages[firstShares[i].p].st = "live" /\ firstPages[firstShares[i].p].sp = firstShares[i].sp
  BY <1>2, <1>4, CastSharesAreInPlace
<1> HIDE DEF firstPages, firstShares
<1> QED
  BY <1>3, <1>4, <1>5 DEF SharesInv, ShareRows, SharesStayInSpace, PageInSpace, PageLive

(* Shares that are what they were, and pages that live where they did.     *)
InPlace == share' = share /\ DOMAIN page' = Page /\ \A p \in Page : PageLive(p) => page'[p].st = "live" /\ page'[p].sp = page[p].sp

LEMMA InPlaceKeeps == ASSUME SharesInv, InPlace PROVE SharesInv'
BY DEF SharesInv, ShareRows, SharesStayInSpace, PageInSpace, PageLive, InPlace

(* A statement that takes shares away takes them from the pages it says.   *)
LEMMA RevokingKeeps ==
  ASSUME SharesInv, NEW pages, share' = RevokeShares(pages), DOMAIN page' = Page,
         \A p \in Page \ pages : PageLive(p) => page'[p].st = "live" /\ page'[p].sp = page[p].sp
  PROVE  SharesInv'
<1>1. \A i \in ShareId : /\ DOMAIN share'[i] = ShareColumns
                         /\ share'[i].st = "active" => share'[i] = share[i] /\ share[i].p \notin pages
  BY DEF SharesInv, ShareRows, RevokeShares, ShareColumns
<1>2. DOMAIN share' = ShareId
  BY DEF RevokeShares
<1>3. ShareRows'
  BY <1>1, <1>2 DEF SharesInv, ShareRows
<1>4. SharesStayInSpace'
  BY <1>1 DEF SharesInv, ShareRows, SharesStayInSpace, PageInSpace, PageLive
<1> QED
  BY <1>3, <1>4 DEF SharesInv

LEMMA SharesKept == ContentInv /\ SharesInv /\ SharesLandWherePagesAre /\ [WorkspaceNext]_workspaceVars => SharesInv'
<1> SUFFICES ASSUME ContentInv, SharesInv, SharesLandWherePagesAre, [WorkspaceNext]_workspaceVars PROVE SharesInv'
  OBVIOUS
<1> USE DEF contentVars, shareVars, wikiVars
<1>1. DOMAIN page = Page /\ \A p \in Page : DOMAIN page[p] = Columns
  BY DEF ContentInv, Rows, PagesRow
<1>2. CASE UNCHANGED shareVars
  BY <1>1, <1>2, InPlaceKeeps DEF InPlace, PageLive
<1>3. ASSUME NEW i \in ShareId, ShareExpires(i) PROVE SharesInv'
  <2>1. page' = page /\ share' = [share EXCEPT ![i].expired = TRUE]
    BY <1>3 DEF ShareExpires
  <2> QED
    BY <2>1 DEF SharesInv, ShareRows, ShareColumns, SharesStayInSpace, PageInSpace, PageLive
<1>4. ASSUME NEW h \in Handler, SharesStep(h) PROVE SharesInv'
  <2>1. CASE CreateShareBegin(h) \/ RevokeShareBegin(h)
    BY <2>1, <1>2 DEF CreateShareBegin, RevokeShareBegin
  <2>2. CASE RevokeShare(h)
    <3>1. page' = page /\ share' = [share EXCEPT ![req[h].i].st = "revoked"]
      BY <2>2 DEF RevokeShare
    <3> QED
      BY <3>1 DEF SharesInv, ShareRows, ShareColumns, SharesStayInSpace, PageInSpace, PageLive
  <2>3. CASE CreateShare(h)
    <3> DEFINE r == req[h]
               row == [st |-> "active", p |-> r.p, sp |-> r.sp, aud |-> r.aud, cascade |-> r.cascade, expired |-> FALSE]
    <3>1. r.p \in Page /\ PageInSpace(r.p, r.sp)
      BY <2>3 DEF CreateShare, At, ContentInv, Requests, RequestSound, SharesLandWherePagesAre
    <3>2. page' = page /\ (share' = share \/ \E i : share' = [share EXCEPT ![i] = row])
      BY <2>3 DEF CreateShare
    <3>3. DOMAIN row = ShareColumns /\ row.st = "active" /\ row.p = r.p /\ row.sp = r.sp
      BY DEF ShareColumns
    <3> HIDE DEF row
    <3>4. DOMAIN share' = ShareId /\ \A i \in ShareId : share'[i] = share[i] \/ share'[i] = row
      BY <3>2 DEF SharesInv, ShareRows
    <3>5. ShareRows'
      BY <3>1, <3>3, <3>4 DEF SharesInv, ShareRows
    <3>6. SharesStayInSpace'
      BY <3>1, <3>2, <3>3, <3>4 DEF SharesInv, SharesStayInSpace, PageInSpace, PageLive
    <3> QED
      BY <3>5, <3>6 DEF SharesInv
  <2> QED
    BY <1>4, <2>1, <2>2, <2>3 DEF SharesStep
<1>5. ASSUME NEW h \in Handler, WikiStep(h) PROVE SharesInv'
  <2> DEFINE r == req[h]
  <2>1. CASE DeletePageAndRevokeShares(h)
    <3>1. share' = RevokeShares({r.p})
      BY <2>1 DEF DeletePageAndRevokeShares, RevokeSharesByEntity
    <3>2. DOMAIN page' = Page /\ \A p \in Page \ {r.p} : page'[p] = page[p]
      BY <1>1, <2>1 DEF DeletePageAndRevokeShares
    <3> QED
      BY <3>1, <3>2, RevokingKeeps DEF PageLive
  <2>2. CASE MovePageTx(h)
    <3> DEFINE below == PageSubtree(r.p, page[r.p].sp, page[r.p].path)
               moved == applyPageMove(page, r.p, r.sp, r.path)
    <3>1. page' = [moved EXCEPT ![r.p].parent = r.parent]
          /\ share' = IF r.sp # page[r.p].sp THEN RevokeShares(below) ELSE share
      BY <2>2 DEF MovePageTx, RevokeSharesByPageSubtree
    <3>2. DOMAIN moved = Page /\ \A q \in Page :
            /\ DOMAIN moved[q] = Columns /\ moved[q].st = page[q].st
            /\ moved[q].sp = IF q \in below THEN r.sp ELSE page[q].sp
      BY <1>1 DEF applyPageMove, Columns
    <3>3. \A q \in below : page[q].sp = page[r.p].sp
      BY DEF PageSubtree, PageInSpace
    <3> HIDE DEF moved, below
    <3>4. DOMAIN page' = Page /\ \A q \in Page :
            page'[q].st = page[q].st /\ page'[q].sp = IF q \in below THEN r.sp ELSE page[q].sp
      BY <3>1, <3>2 DEF Columns
    <3>5. CASE r.sp # page[r.p].sp
      BY <3>1, <3>4, <3>5, RevokingKeeps DEF PageLive
    <3>6. CASE r.sp = page[r.p].sp
      BY <3>1, <3>3, <3>4, <3>6, InPlaceKeeps DEF InPlace, PageLive
    <3> QED
      BY <3>5, <3>6
  <2>3. CASE CreatePage(h)
    <3>1. share' = share /\ DOMAIN page' = Page
      BY <1>1, <2>3 DEF CreatePage
    <3>2. \A p \in Page : PageLive(p) => page'[p] = page[p]
      BY <1>1, <2>3 DEF CreatePage, PageLive
    <3> QED
      BY <3>1, <3>2, InPlaceKeeps DEF InPlace, PageLive
  <2>4. CASE UpdatePageContentTx(h) \/ PublishPageTx(h)
    <3>1. share' = share /\ DOMAIN page' = Page /\ \A p \in Page : page'[p].st = page[p].st /\ page'[p].sp = page[p].sp
      BY <1>1, <2>4 DEF UpdatePageContentTx, PublishPageTx, Columns
    <3> QED
      BY <3>1, InPlaceKeeps DEF InPlace, PageLive
  <2>5. CASE ~(DeletePageAndRevokeShares(h) \/ MovePageTx(h) \/ CreatePage(h) \/ UpdatePageContentTx(h) \/ PublishPageTx(h))
    <3>1. UNCHANGED shareVars
      BY <1>5, <2>5
      DEF WikiStep, CreatePageBegin, CreatePageRevision, UpdatePageBegin, PublishBegin, Publish, RestoreBegin,
          RestoreRevision, DraftBegin, SaveDraft, DiscardDraft, DeletePageBegin, MovePageBegin, GetPageForUpdate,
          resolveMoveParent
    <3> QED
      BY <1>2, <3>1
  <2> QED
    BY <2>1, <2>2, <2>3, <2>4, <2>5
<1>6. ASSUME NEW h \in Handler, TagsStep(h) PROVE SharesInv'
  BY <1>2, <1>6 DEF TagsStep, SetTagsBegin, DeleteEntityTagsExcept, AddEntityTags
<1> QED
  BY <1>2, <1>3, <1>4, <1>5, <1>6 DEF WorkspaceNext, ContentStep, workspaceVars

(* An active share is of a live page in the space it was shared from:      *)
(* deletion and the move out of a space take the shares of every page they *)
(* reach (adapters/shares.go, content_tx.go), and only a share made while  *)
(* its page goes could stay behind.                                        *)
THEOREM SharesFollowTheirPages == WorkspaceSpec /\ []SharesLandWherePagesAre => []SharesStayInSpace
<1>1. SharesInv => SharesStayInSpace
  BY DEF SharesInv
<1> QED
  BY <1>1, SharesBegin, SharesKept, ContentIsSound, PTL DEF WorkspaceSpec

-----------------------------------------------------------------------------
(* The tree of teams, and who a grant to a team reaches                    *)

TeamRows == DOMAIN team = Team /\ \A t \in Team : DOMAIN team[t] = {"st", "parent", "path"}

(* The teams above a live team are of its organization.                    *)
PathsAtHome == \A t \in Team : TeamLive(t) => team[t].path \in Seq(OrgTeams(TeamOrg[t]))

(* What a request to change the tree carries.                              *)
TreeRequest(r) ==
  /\ r.op = "createteam" => r.parent \in Team \cup {Nil}
  /\ r.op = "reparent" =>
       /\ {"op", "pc", "o", "t", "parent"} \subseteq DOMAIN r
       /\ r.t \in Team /\ r.o = TeamOrg[r.t] /\ r.parent \in Team \cup {Nil}
       /\ r.pc # "rewrite" => "above" \notin DOMAIN r
       /\ r.pc = "rewrite" => r.above \in Seq(OrgTeams(r.o))

TreeInv == TeamRows /\ PathsAtHome /\ \A h \in Handler : TreeRequest(req[h])

LEMMA IdleIsInTree == TreeRequest(Idle)
BY DEF TreeRequest, Idle

LEMMA TreeBegins == WorkspaceInit => TreeInv
<1> SUFFICES ASSUME WorkspaceInit PROVE TreeInv
  OBVIOUS
<1>1. PICK n \in DOMAIN Mixes : mix = With([name |-> n], Mixes[n])
  BY DEF WorkspaceInit, ServerInit
<1>2. n \in DOMAIN Casts /\ Cast = Casts[n]
  BY <1>1, EveryMixHasACast DEF With, Cast
<1>3. team = Casts[n].team /\ team \in [Team -> TeamRow]
  BY <1>2, CastsAreTyped DEF WorkspaceInit, OrgInit
<1>4. TeamRows
  BY <1>3 DEF TeamRows, TeamRow
<1>5. PathsAtHome
  <2> SUFFICES ASSUME NEW t \in Team, team[t].st = "live" PROVE team[t].path \in Seq(OrgTeams(TeamOrg[t]))
    BY DEF PathsAtHome, TeamLive
  <2>1. team[t].path \in Seq(Team) /\ \A i \in DOMAIN team[t].path : TeamOrg[team[t].path[i]] = TeamOrg[t]
    BY <1>2, <1>3, CastPathsStayHome DEF TeamRow
  <2> QED
    BY <2>1 DEF OrgTeams
<1>6. \A h \in Handler : req[h] = Idle
  BY DEF WorkspaceInit, ServerInit
<1> QED
  BY <1>4, <1>5, <1>6, IdleIsInTree DEF TreeInv

(* A step that leaves the tree of teams alone.                             *)
LEMMA TreeStays ==
  ASSUME TreeInv, NEW h \in Handler, Alone(h), team' = team, TreeRequest(req'[h])
  PROVE  TreeInv'
<1>1. TeamRows' /\ PathsAtHome'
  BY DEF TreeInv, TeamRows, PathsAtHome, TeamLive
<1>2. \A k \in Handler : TreeRequest(req'[k])
  BY DEF TreeInv, Alone
<1> QED
  BY <1>1, <1>2 DEF TreeInv

LEMMA TreeAside == ASSUME TreeInv, NEW h \in Handler, Aside(h, TreeOp), team' = team PROVE TreeInv'
<1>1. Alone(h) /\ TreeRequest(req'[h])
  BY DEF Aside, Foreign, TreeOp, TreeRequest, TreeInv
<1> QED
  BY <1>1, TreeStays

(* A team is put where its request says.                                   *)
LEMMA CreateTeamKeeps == ASSUME Shape, TreeInv, NEW h \in Handler, CreateTeam(h) PROVE TreeInv'
<1> DEFINE t == req[h].t
           p == req[h].parent
           above == IF p = Nil THEN <<>> ELSE team[p].path
           row == [st |-> "live", parent |-> p, path |-> Append(above, t)]
<1>1. Alone(h) /\ req'[h] = Idle
  BY Ending DEF CreateTeam
<1>2. CASE team' = team
  BY <1>1, <1>2, IdleIsInTree, TreeStays
<1>3. CASE team' # team
  <2>1. team' = [team EXCEPT ![t] = row] /\ (p # Nil => TeamLive(p) /\ TeamOrg[p] = TeamOrg[t])
    BY <1>3 DEF CreateTeam, GetTeamForUpdate
  <2>2. p \in Team \cup {Nil}
    BY DEF CreateTeam, At, TreeInv, TreeRequest
  <2>3. above \in Seq(OrgTeams(TeamOrg[t]))
    <3>1. CASE p = Nil
      BY <3>1
    <3>2. CASE p # Nil
      BY <2>1, <2>2, <3>2 DEF TreeInv, PathsAtHome
    <3> QED
      BY <3>1, <3>2
  <2>4. t \in Team => row.path \in Seq(OrgTeams(TeamOrg[t]))
    BY <2>3 DEF OrgTeams
  <2>5. DOMAIN row = {"st", "parent", "path"}
    OBVIOUS
  <2> HIDE DEF row
  <2>6. DOMAIN team' = Team /\ \A x \in Team : team'[x] = IF x = t THEN row ELSE team[x]
    BY <2>1 DEF TreeInv, TeamRows
  <2>7. TeamRows'
    BY <2>5, <2>6 DEF TreeInv, TeamRows
  <2>8. PathsAtHome'
    BY <2>4, <2>6 DEF TreeInv, PathsAtHome, TeamLive
  <2>9. \A k \in Handler : TreeRequest(req'[k])
    BY <1>1, IdleIsInTree DEF TreeInv, Alone
  <2> QED
    BY <2>7, <2>8, <2>9 DEF TreeInv
<1> QED
  BY <1>2, <1>3

LEMMA RerootedAtHome ==
  ASSUME NEW S, NEW path \in Seq(S), NEW above \in Seq(S), NEW t \in Range(path)
  PROVE  Rerooted(path, t, above) \in Seq(S)
<1> DEFINE i == CHOOSE j \in DOMAIN path : path[j] = t
<1>1. i \in DOMAIN path
  BY DEF Range
<1>2. i \in 1 .. Len(path)
  BY <1>1
<1> HIDE DEF i
<1>3. SubSeq(path, i, Len(path)) \in Seq(S)
  BY <1>2
<1>4. above \o SubSeq(path, i, Len(path)) \in Seq(S)
  BY <1>3
<1> QED
  BY <1>4 DEF Rerooted, i

LEMMA ReparentKeeps == ASSUME Shape, TreeInv, NEW h \in Handler, ReparentSubtree(h) PROVE TreeInv'
<1> DEFINE t == req[h].t
           o == TeamOrg[t]
<1>1. Alone(h) /\ req'[h] = Idle
  BY Ending DEF ReparentSubtree
<1>2. t \in Team /\ req[h].above \in Seq(OrgTeams(o))
  BY DEF ReparentSubtree, At, TreeInv, TreeRequest
<1>3. CASE team' = team
  BY <1>1, <1>3, IdleIsInTree, TreeStays
<1>4. CASE team' # team
  <2>1. DOMAIN team' = Team
    BY <1>4 DEF ReparentSubtree
  <2>2. ASSUME NEW x \in Team, x \notin Subtree(t) PROVE team'[x] = team[x]
    BY <1>4, <2>2 DEF ReparentSubtree
  <2>3. ASSUME NEW x \in Subtree(t)
        PROVE  /\ DOMAIN team'[x] = {"st", "parent", "path"} /\ team'[x].path = Rerooted(team[x].path, t, req[h].above)
    BY <1>4, <2>3 DEF ReparentSubtree, Subtree, OrgTeams, TreeInv, TeamRows
  <2>4. ASSUME NEW x \in Subtree(t) PROVE team'[x].path \in Seq(OrgTeams(TeamOrg[x]))
    <3>1. x \in Team /\ TeamOrg[x] = o /\ TeamLive(x) /\ t \in Range(team[x].path)
      BY <2>4 DEF Subtree, OrgTeams
    <3>2. team[x].path \in Seq(OrgTeams(o))
      BY <3>1 DEF TreeInv, PathsAtHome
    <3> QED
      BY <1>2, <2>3, <3>1, <3>2, RerootedAtHome
  <2>5. TeamRows' /\ PathsAtHome'
    BY <2>1, <2>2, <2>3, <2>4 DEF TreeInv, TeamRows, PathsAtHome, TeamLive
  <2>6. \A k \in Handler : TreeRequest(req'[k])
    BY <1>1, IdleIsInTree DEF TreeInv, Alone
  <2> QED
    BY <2>5, <2>6 DEF TreeInv
<1> QED
  BY <1>3, <1>4

(* The requests on the way there carry what they have read.                *)
LEMMA ReparentingKeeps ==
  ASSUME Shape, TreeInv, NEW h \in Handler, Update(h) \/ ChooseSubtree(h) \/ LockSubtree(h) \/ lockReparentTarget(h)
  PROVE  TreeInv'
<1>1. team' = team
  BY DEF Update, ChooseSubtree, LockSubtree, lockReparentTarget, orgVars
<1>2. CASE Update(h)
  <2>1. PICK o, t, p : /\ t \in Team /\ TeamOrg[t] = o /\ p \in Team \cup {Nil}
                       /\ Begin(h, [op |-> "reparent", pc |-> "subtree", o |-> o, t |-> t, parent |-> p])
    BY <1>2 DEF Update, teamInOrg
  <2> DEFINE r == [op |-> "reparent", pc |-> "subtree", o |-> o, t |-> t, parent |-> p]
  <2>2. TreeRequest(r)
    BY <2>1 DEF TreeRequest
  <2> HIDE DEF r
  <2>3. Begin(h, r)
    BY <2>1 DEF r
  <2> QED
    BY <1>1, <2>2, <2>3, Moving, TreeStays
<1>3. CASE End(h)
  BY <1>1, <1>3, Ending, IdleIsInTree, TreeStays
<1>4. CASE ChooseSubtree(h)
  <2> DEFINE r == req[h]
             r2 == [r EXCEPT !.pc = "locking"]
             new == [want |-> ListSubtreeForUpdate(r.t)]
             s == With(r2, new)
  <2>1. Go(h, s) /\ r.op \in {"reparent", "deleteteam"} /\ r.pc = "subtree"
    BY <1>4 DEF ChooseSubtree
  <2>2. {"op", "pc"} \subseteq DOMAIN r /\ TreeRequest(r)
    BY <2>1 DEF Shape, TreeInv
  <2>3. DOMAIN r2 = DOMAIN r /\ r2.pc = "locking" /\ DOMAIN new = {"want"} /\ \A f \in DOMAIN r \ {"pc"} : r2[f] = r[f]
    BY <2>2
  <2> HIDE DEF r2, new
  <2>4. DOMAIN s = DOMAIN r \cup {"want"} /\ s.pc = "locking" /\ \A f \in DOMAIN r \ {"pc"} : s[f] = r[f]
    <3>1. DOMAIN s = DOMAIN r2 \cup DOMAIN new /\ \A f \in DOMAIN r2 : s[f] = r2[f]
      BY WithKeeps
    <3> HIDE DEF s
    <3> QED
      BY <2>2, <2>3, <3>1
  <2> HIDE DEF s
  <2>5. TreeRequest(s)
    <3>1. CASE r.op = "deleteteam"
      BY <2>2, <2>4, <3>1 DEF TreeRequest
    <3>2. CASE r.op = "reparent"
      BY <2>1, <2>2, <2>4, <3>2 DEF TreeRequest
    <3> QED
      BY <2>1, <3>1, <3>2
  <2> QED
    BY <1>1, <2>1, <2>5, Moving, TreeStays
<1>5. CASE LockSubtree(h) /\ ~End(h)
  <2> DEFINE r == req[h]
             r1 == [r EXCEPT !.pc = "target"]
             r2 == Drop(r1, "want")
  <2>1. PICK rows, new : GoLocked(h, rows, With(r2, new)) /\ DOMAIN new = {"height", "want"}
    BY <1>5 DEF LockSubtree
  <2> DEFINE s == With(r2, new)
  <2>2. r.op = "reparent" /\ r.pc = "locking" /\ TreeRequest(r)
    BY <1>5 DEF LockSubtree, At, TreeInv
  <2>3. DOMAIN r1 = DOMAIN r /\ r1.pc = "target" /\ \A f \in DOMAIN r \ {"pc"} : r1[f] = r[f]
    BY <2>2 DEF TreeRequest
  <2> HIDE DEF r1
  <2>4. DOMAIN r2 = DOMAIN r \ {"want"} /\ \A f \in DOMAIN r \ {"want"} : r2[f] = r1[f]
    BY <2>3 DEF Drop
  <2> HIDE DEF r2
  <2>5. /\ DOMAIN s = (DOMAIN r \ {"want"}) \cup {"height", "want"}
        /\ \A f \in DOMAIN r \ {"want"} : s[f] = r1[f]
    <3>1. DOMAIN s = DOMAIN r2 \cup DOMAIN new /\ \A f \in DOMAIN r2 : s[f] = r2[f]
      BY WithKeeps
    <3> HIDE DEF s
    <3> QED
      BY <2>1, <2>4, <3>1
  <2>6. GoLocked(h, rows, s)
    BY <2>1
  <2> HIDE DEF s
  <2>7. TreeRequest(s)
    BY <2>2, <2>3, <2>5 DEF TreeRequest
  <2> QED
    BY <1>1, <2>6, <2>7, Moving, TreeStays
<1>6. CASE lockReparentTarget(h) /\ ~End(h)
  <2> DEFINE r == req[h]
             r1 == [r EXCEPT !.pc = "rewrite"]
             r2 == Drop(r1, "want")
             above == IF r.parent = Nil THEN <<>> ELSE team[r.parent].path
             new == [above |-> above]
             s == With(r2, new)
  <2>1. GoLocked(h, r.want, s) /\ (r.parent # Nil => TeamLive(r.parent) /\ TeamOrg[r.parent] = r.o)
    BY <1>6 DEF lockReparentTarget, GetTeamForUpdate
  <2>2. r.op = "reparent" /\ r.pc = "target" /\ TreeRequest(r)
    BY <1>6 DEF lockReparentTarget, At, TreeInv
  <2>3. above \in Seq(OrgTeams(r.o))
    <3>1. CASE r.parent = Nil
      BY <3>1
    <3>2. CASE r.parent # Nil
      BY <2>1, <2>2, <3>2 DEF TreeRequest, TreeInv, PathsAtHome
    <3> QED
      BY <3>1, <3>2
  <2>4. DOMAIN r1 = DOMAIN r /\ r1.pc = "rewrite" /\ \A f \in DOMAIN r \ {"pc"} : r1[f] = r[f]
    BY <2>2 DEF TreeRequest
  <2> HIDE DEF r1
  <2>5. DOMAIN r2 = DOMAIN r \ {"want"} /\ \A f \in DOMAIN r \ {"want"} : r2[f] = r1[f]
    BY <2>4 DEF Drop
  <2> HIDE DEF r2, above
  <2>6. DOMAIN new = {"above"} /\ new.above = above
    OBVIOUS
  <2> HIDE DEF new
  <2>7. "above" \notin DOMAIN r2
    BY <2>2, <2>5 DEF TreeRequest
  <2>8. /\ DOMAIN s = (DOMAIN r \ {"want"}) \cup {"above"}
        /\ \A f \in DOMAIN r \ {"want"} : s[f] = r1[f]
    BY <2>5, <2>6, WithKeeps
  <2>9. s.above = above
    BY <2>6, <2>7 DEF With
  <2> HIDE DEF s
  <2>10. TreeRequest(s)
    BY <2>2, <2>3, <2>4, <2>8, <2>9 DEF TreeRequest
  <2> QED
    BY <1>1, <2>1, <2>10, Moving, TreeStays
<1> QED
  BY <1>2, <1>3, <1>4, <1>5, <1>6

LEMMA TeamsKeepTree == ASSUME Shape, TreeInv, NEW h \in Handler, TeamsStep(h) PROVE TreeInv'
<1>1. CASE Create(h)
  <2>1. PICK r : Begin(h, r) /\ r.op = "createteam" /\ r.parent \in Team \cup {Nil}
    BY <1>1 DEF Create
  <2>2. TreeRequest(r) /\ team' = team
    BY <1>1, <2>1 DEF TreeRequest, Create, orgVars
  <2> QED
    BY <2>1, <2>2, Moving, TreeStays
<1>2. CASE Delete(h) \/ PutMember(h) \/ RemoveMember(h)
  <2>1. PICK r : Foreign(r, TreeOp) /\ Begin(h, r)
    BY <1>2 DEF Delete, PutMember, RemoveMember, Foreign, TreeOp
  <2>2. team' = team
    BY <1>2 DEF Delete, PutMember, RemoveMember, orgVars
  <2> QED
    BY <2>1, <2>2, ForeignMoves, TreeAside
<1>3. CASE DeleteTeam(h)
  <2>1. Alone(h) /\ req'[h] = Idle
    BY <1>3, Ending DEF DeleteTeam
  <2>2. CASE team' = team
    BY <2>1, <2>2, IdleIsInTree, TreeStays
  <2>3. CASE team' = [team EXCEPT ![req[h].t].st = "deleted"]
    <3>1. TeamRows' /\ PathsAtHome'
      BY <2>3 DEF TreeInv, TeamRows, PathsAtHome, TeamLive
    <3>2. \A k \in Handler : TreeRequest(req'[k])
      BY <2>1, IdleIsInTree DEF TreeInv, Alone
    <3> QED
      BY <3>1, <3>2 DEF TreeInv
  <2> QED
    BY <1>3, <2>2, <2>3 DEF DeleteTeam
<1>4. CASE lockTeamForDeletion(h)
  <2>1. team' = team
    BY <1>4 DEF lockTeamForDeletion, orgVars
  <2>2. CASE End(h)
    BY <2>1, <2>2, Ending, IdleIsInTree, TreeStays
  <2>3. CASE ~End(h)
    <3>1. PICK rows, s : GoLocked(h, rows, With(Drop([req[h] EXCEPT !.pc = "migrate"], "want"), s))
      BY <1>4, <2>3 DEF lockTeamForDeletion
    <3>2. Foreign([req[h] EXCEPT !.pc = "migrate"], TreeOp)
      BY <1>4 DEF lockTeamForDeletion, At, Shape, Foreign, TreeOp
    <3> QED
      BY <2>1, <3>1, <3>2, ForeignDrop, ForeignWith, ForeignSteps, TreeAside
  <2> QED
    BY <2>2, <2>3
<1>5. CASE SetPrimary(h) \/ RemoveTeamMember(h)
  <2>1. End(h) /\ team' = team
    BY <1>5 DEF SetPrimary, RemoveTeamMember
  <2> QED
    BY <2>1, Ending, IdleIsInTree, TreeStays
<1>6. CASE GetTeam(h) \/ AddMember(h)
  <2>1. team' = team
    BY <1>6 DEF GetTeam, AddMember, orgVars
  <2>2. CASE End(h)
    BY <2>1, <2>2, Ending, IdleIsInTree, TreeStays
  <2>3. CASE ~End(h)
    <3>1. PICK to : Go(h, [req[h] EXCEPT !.pc = to])
      BY <1>6, <2>3 DEF GetTeam, AddMember
    <3>2. Foreign([req[h] EXCEPT !.pc = to], TreeOp)
      BY <1>6 DEF GetTeam, AddMember, At, Shape, Foreign, TreeOp
    <3> QED
      BY <2>1, <3>1, <3>2, ForeignMoves, TreeAside
  <2> QED
    BY <2>2, <2>3
<1>7. CASE EnsureDefaultMembership(h)
  <2>1. team' = team /\ Serve
    BY <1>7 DEF EnsureDefaultMembership
  <2> QED
    BY <2>1, ServeAside, TreeAside
<1> QED
  BY <1>1, <1>2, <1>3, <1>4, <1>5, <1>6, <1>7, CreateTeamKeeps, ReparentKeeps, ReparentingKeeps DEF TeamsStep

(* Pages, tags and shares have no part in it.                              *)
LEMMA ContentAside ==
  ASSUME Shape, NEW h \in Handler, CreateShareBegin(h) \/ TagsStep(h) \/ WikiStep(h)
  PROVE  Aside(h, TreeOp)
<1> USE DEF TreeOp
<1> DEFINE Asks(op) == \E r : Begin(h, r) /\ {"op", "pc"} \subseteq DOMAIN r /\ r.op = op
<1>1. CASE \/ CreateShareBegin(h) \/ SetTagsBegin(h) \/ CreatePageBegin(h) \/ UpdatePageBegin(h) \/ PublishBegin(h)
           \/ RestoreBegin(h) \/ DraftBegin(h) \/ DeletePageBegin(h) \/ MovePageBegin(h)
  <2>1. CreateShareBegin(h) => Asks("share")
    BY DEF CreateShareBegin
  <2>2. SetTagsBegin(h) => Asks("settags")
    BY DEF SetTagsBegin
  <2>3. CreatePageBegin(h) => Asks("createpage")
    BY DEF CreatePageBegin
  <2>4. UpdatePageBegin(h) => Asks("savepage")
    BY DEF UpdatePageBegin
  <2>5. PublishBegin(h) => Asks("publish")
    BY DEF PublishBegin
  <2>6. RestoreBegin(h) => Asks("restore")
    BY DEF RestoreBegin
  <2>7. DraftBegin(h) => Asks("savedraft") \/ Asks("discard")
    BY DEF DraftBegin
  <2>8. DeletePageBegin(h) => Asks("deletepage")
    BY DEF DeletePageBegin
  <2>9. MovePageBegin(h) => Asks("move")
    BY DEF MovePageBegin
  <2>10. PICK r : Begin(h, r) /\ Foreign(r, TreeOp)
    BY <1>1, <2>1, <2>2, <2>3, <2>4, <2>5, <2>6, <2>7, <2>8, <2>9 DEF Foreign
  <2> QED
    BY <2>10, ForeignMoves
<1>2. CASE DeleteEntityTagsExcept(h)
  <2>1. PICK rows, s : GoLocked(h, rows, With([req[h] EXCEPT !.pc = "add"], s))
    BY <1>2 DEF DeleteEntityTagsExcept
  <2>2. Foreign([req[h] EXCEPT !.pc = "add"], TreeOp)
    BY <1>2 DEF DeleteEntityTagsExcept, At, Shape, Foreign
  <2> QED
    BY <2>1, <2>2, ForeignWith, ForeignSteps
<1>3. CASE (CreatePage(h) \/ GetPageForUpdate(h)) /\ ~End(h)
  <2>1. PICK to, rows : Go(h, [req[h] EXCEPT !.pc = to]) \/ GoLocked(h, rows, [req[h] EXCEPT !.pc = to])
    BY <1>3 DEF CreatePage, GetPageForUpdate
  <2>2. Foreign([req[h] EXCEPT !.pc = to], TreeOp)
    BY <1>3 DEF CreatePage, GetPageForUpdate, At, Shape, Foreign
  <2> QED
    BY <2>1, <2>2, ForeignSteps
<1>4. CASE (Publish(h) \/ resolveMoveParent(h)) /\ ~End(h)
  <2>1. PICK to, s : Go(h, With([req[h] EXCEPT !.pc = to], s))
    BY <1>4 DEF Publish, resolveMoveParent
  <2>2. Foreign([req[h] EXCEPT !.pc = to], TreeOp)
    BY <1>4 DEF Publish, resolveMoveParent, At, Shape, Foreign
  <2> QED
    BY <2>1, <2>2, ForeignWith, ForeignMoves
<1>5. CASE RestoreRevision(h) /\ ~End(h)
  <2>1. PICK r : Go(h, r) /\ {"op", "pc"} \subseteq DOMAIN r /\ r.op = "publish"
    <3> DEFINE ask(x) == [op |-> "publish", pc |-> "read", u |-> req[h].u, p |-> req[h].p, in |-> x.c,
                          base |-> req[h].base, over |-> req[h].over, ack |-> req[h].ack]
    <3>1. PICK x : Go(h, ask(x))
      BY <1>5 DEF RestoreRevision
    <3> QED
      BY <3>1
  <2>2. Foreign(r, TreeOp)
    BY <2>1 DEF Foreign
  <2> QED
    BY <2>1, <2>2, ForeignMoves
<1>6. CASE End(h)
  BY <1>6, EndAside
<1>7. CASE \/ AddEntityTags(h) \/ CreatePageRevision(h) \/ UpdatePageContentTx(h) \/ PublishPageTx(h) \/ SaveDraft(h)
           \/ DiscardDraft(h) \/ DeletePageAndRevokeShares(h) \/ MovePageTx(h)
  BY <1>6, <1>7 DEF AddEntityTags, CreatePageRevision, UpdatePageContentTx, PublishPageTx, SaveDraft, DiscardDraft,
                    DeletePageAndRevokeShares, MovePageTx
<1> QED
  BY <1>1, <1>2, <1>3, <1>4, <1>5, <1>6, <1>7 DEF TagsStep, WikiStep

LEMMA TreeUnmoved == ASSUME TreeInv, UNCHANGED <<req, team>> PROVE TreeInv'
BY DEF TreeInv, TeamRows, PathsAtHome, TeamLive

LEMMA TreeKept == ContentInv /\ TreeInv /\ [WorkspaceNext]_workspaceVars => TreeInv'
<1> SUFFICES ASSUME ContentInv, TreeInv, [WorkspaceNext]_workspaceVars PROVE TreeInv'
  OBVIOUS
<1>1. Shape
  BY DEF ContentInv
<1>2. CASE UNCHANGED workspaceVars \/ Tick
  BY <1>2, TreeUnmoved DEF workspaceVars, orgVars, serverVars, Tick
<1>3. ASSUME NEW i \in ShareId, ShareExpires(i) PROVE TreeInv'
  BY <1>3, TreeUnmoved DEF ShareExpires, orgVars, serverVars
<1>4. ASSUME NEW h \in Handler, AuditedAccessStep(h) \/ AuditStep(h) \/ PeopleStep(h) \/ SpacesStep(h) PROVE TreeInv'
  <2>1. Aside(h, TreeOp)
    BY <1>1, <1>4, AccessAside, AuditAside, PeopleAside, SpacesAside, AsideFromAll DEF AuditedAccessStep
  <2>2. team' = team
    <3>1. CASE PeopleStep(h)
      BY <3>1 DEF PeopleStep, DeactivatePerson, ReactivatePerson, ForceLogoutPerson, RemovePerson, lifecycleAction,
         Lifecycle, lockAdmins, adminsLocked, requireOtherAdmins, Deactivate, Reactivate, ForceLogout, RemoveFromOrg,
         UpdatePerson, ChangeOrgRole, applyPersonUpdates, UpdateMembershipRole, ChangePrimaryTeam, EnrolAsPrimary,
         orgVars
    <3>2. CASE SpacesStep(h)
      BY <3>2 DEF SpacesStep, CreateSpaceBegin, CreateSpaceTx, AssignDefaultWorkflowToSpace, UpdateSpaceBegin,
         UpdateSpace, applyVisibilityChange, applyOwnerTeamChange, SetSpaceOwnerTeam, DeleteSpace, SoftDeleteSpace,
         AddSpaceMember, RemoveSpaceMember, orgVars
    <3>3. CASE AuditedAccessStep(h)
      BY <3>3 DEF AuditedAccessStep, AccessStep, CreateGrantBegin, CreateGrant, UpdateGrantBegin, UpdateGrantRole,
         DeleteGrantBegin, DeleteGrant, grantInSpace, ApplyBulkBegin, ListTeamGrantsByOrgForUpdate, ApplyBulk, orgVars
    <3>4. CASE AuditStep(h)
      BY <3>4 DEF AuditStep, Log, logged, parseAuditFilter, ListAuditLog, walked, orgVars
    <3> QED
      BY <1>4, <3>1, <3>2, <3>3, <3>4
  <2> QED
    BY <2>1, <2>2, TreeAside
<1>5. ASSUME NEW h \in Handler, SharesStep(h) \/ TagsStep(h) \/ WikiStep(h) PROVE TreeInv'
  <2>1. Aside(h, TreeOp)
    BY <1>1, <1>5, ContentAside, SharesAside, AsideFromAll
  <2>2. team' = team
    BY <1>5 DEF orgVars, SharesStep, CreateShareBegin, CreateShare, RevokeShareBegin, RevokeShare,
       TagsStep, SetTagsBegin, DeleteEntityTagsExcept, AddEntityTags,
       WikiStep, CreatePageBegin, CreatePage, CreatePageRevision, UpdatePageBegin, UpdatePageContentTx, PublishBegin,
       Publish, PublishPageTx, RestoreBegin, RestoreRevision, DraftBegin, SaveDraft, DiscardDraft, DeletePageBegin,
       DeletePageAndRevokeShares, MovePageBegin, GetPageForUpdate, resolveMoveParent, MovePageTx
  <2> QED
    BY <2>1, <2>2, TreeAside
<1>6. ASSUME NEW h \in Handler, TeamsStep(h) PROVE TreeInv'
  BY <1>1, <1>6, TeamsKeepTree
<1> QED
  BY <1>2, <1>3, <1>4, <1>5, <1>6 DEF WorkspaceNext, ContentStep

(* The highest of some grades.                                             *)
LEMMA HighestGrade ==
  ASSUME NEW S, S \subseteq NoRole .. SpaceAdmin, NoRole \in S
  PROVE  Max(S) \in S /\ \A x \in S : Max(S) >= x
<1>1. PICK m \in S : \A x \in S : m >= x
  <2>1. S \subseteq {0, 1, 2, 3, 4} /\ 0 \in S
    BY DEF NoRole, SpaceAdmin
  <2>2. CASE 4 \in S
    BY <2>1, <2>2
  <2>3. CASE 4 \notin S /\ 3 \in S
    BY <2>1, <2>3
  <2>4. CASE S \cap {3, 4} = {} /\ 2 \in S
    BY <2>1, <2>4
  <2>5. CASE S \cap {2, 3, 4} = {}
    BY <2>1, <2>5
  <2> QED
    BY <2>2, <2>3, <2>4, <2>5
<1> QED
  BY <1>1 DEF Max

(* space_grants.role BETWEEN 1 AND 4: 1 a viewer's, 4 an administrator's   *)
(* (migrations/023_space_grants.sql).                                      *)
GrantsAreRoles == \A g \in grants : g.role \in Viewer .. SpaceAdmin

LEMMA OneAnswer == TreeInv /\ GrantsAreRoles => ExplainAgrees
<1> SUFFICES ASSUME TreeInv, GrantsAreRoles, NEW u \in User, NEW sp \in Space, SpaceLive(sp)
             PROVE  Explain(u, sp) = RoleOn(u, sp)
  BY DEF ExplainAgrees
<1> DEFINE o == SpaceOrg[sp]
           A == {g.role : g \in ListMatchingGrantsForSpace(o, sp, u)}
           B == {r[2] : r \in {x \in ResolveAccessRows(o, u) : x[1] = sp}}
           org == space[sp].vis = "org"
<1>1. ASSUME NEW g \in grants, g.sp = sp
      PROVE  g \in ListMatchingGrantsForSpace(o, sp, u) <=> g.s = u \/ g.s \in EffectiveTeams(o, u)
  <2>1. ASSUME g.s \in Team, TeamLive(g.s), Range(team[g.s].path) \cap DirectTeams(o, u) # {} PROVE g.s \in OrgTeams(o)
    <3>1. team[g.s].path \in Seq(OrgTeams(TeamOrg[g.s]))
      BY <2>1 DEF TreeInv, PathsAtHome
    <3>2. PICK t \in Range(team[g.s].path) : t \in OrgTeams(o)
      BY <2>1 DEF DirectTeams
    <3>3. t \in OrgTeams(TeamOrg[g.s])
      BY <3>1, <3>2 DEF Range
    <3> QED
      BY <2>1, <3>2, <3>3 DEF OrgTeams
  <2> QED
    BY <1>1, <2>1 DEF ListMatchingGrantsForSpace, EffectiveTeams, OrgTeams
<1>2. B = A \cup (IF org THEN {Viewer} ELSE {})
  <2>1. \A g \in LiveGrants(o) : g \in grants
    BY DEF LiveGrants
  <2>2. \A g \in grants : g.sp = sp => g \in LiveGrants(o)
    BY DEF LiveGrants
  <2>3. ASSUME NEW g \in ListMatchingGrantsForSpace(o, sp, u) PROVE g.role \in B
    <3>1. g \in grants /\ g.sp = sp
      BY DEF ListMatchingGrantsForSpace
    <3>2. <<sp, g.role>> \in ResolveAccessRows(o, u)
      BY <1>1, <2>2, <3>1 DEF ResolveAccessRows
    <3> QED
      BY <3>2
  <2>4. ASSUME org PROVE Viewer \in B
    <3>1. <<sp, Viewer>> \in ResolveAccessRows(o, u)
      BY <2>4 DEF ResolveAccessRows
    <3> QED
      BY <3>1
  <2>5. ASSUME NEW x \in ResolveAccessRows(o, u), x[1] = sp PROVE x[2] \in A \/ (org /\ x[2] = Viewer)
    BY <1>1, <2>1, <2>5 DEF ResolveAccessRows
  <2> QED
    BY <2>3, <2>4, <2>5
<1>3. A \subseteq Viewer .. SpaceAdmin
  BY DEF GrantsAreRoles, ListMatchingGrantsForSpace
<1>4. ~(u \in Admins(o) /\ ~Member(o, u))
  BY DEF Admins, IsAdminClass, AdminRole, Member
<1>5. CASE ~Member(o, u)
  BY <1>4, <1>5 DEF Explain, RoleOn, IsOrgAdmin
<1>6. CASE u \in Admins(o)
  <2>1. sp \in ListSpaceIDsByOrg(o)
    BY DEF ListSpaceIDsByOrg
  <2> QED
    BY <1>4, <1>6, <2>1 DEF Explain, RoleOn, IsOrgAdmin
<1>7. CASE Member(o, u) /\ u \notin Admins(o)
  <2> DEFINE best == Max({NoRole} \cup A)
             most == Max({NoRole} \cup B)
  <2>1. RoleOn(u, sp) = most
    BY <1>7 DEF RoleOn
  <2>2. Explain(u, sp) = IF org /\ best < Viewer THEN Viewer ELSE best
    BY <1>7 DEF Explain, collectChain, IsOrgAdmin
  <2> HIDE DEF A, B, org
  <2>3. {NoRole} \cup A \subseteq NoRole .. SpaceAdmin /\ {NoRole} \cup B \subseteq NoRole .. SpaceAdmin
    BY <1>2, <1>3 DEF NoRole, Viewer, SpaceAdmin
  <2>4. best \in {NoRole} \cup A /\ \A x \in {NoRole} \cup A : best >= x
    BY <2>3, HighestGrade
  <2>5. most \in {NoRole} \cup B /\ \A x \in {NoRole} \cup B : most >= x
    BY <2>3, HighestGrade
  <2> HIDE DEF best, most
  <2>6. most = IF org /\ best < Viewer THEN Viewer ELSE best
    BY <1>2, <2>3, <2>4, <2>5 DEF NoRole, Viewer, SpaceAdmin
  <2> QED
    BY <2>1, <2>2, <2>6
<1> QED
  BY <1>5, <1>6, <1>7

(* The explainer gives of everybody, in every live space, the access the   *)
(* resolver gives him: the teams on the path of a live team are of its own *)
(* organization, so that the query which asks for them by organization and *)
(* the one which does not find the same (access/explain.go, resolver.go).  *)
THEOREM ExplanationsAgree == WorkspaceSpec /\ []GrantsAreRoles => []ExplainAgrees
BY TreeBegins, TreeKept, ContentIsSound, OneAnswer, PTL DEF WorkspaceSpec
=============================================================================
