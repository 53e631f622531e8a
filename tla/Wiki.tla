-------------------------------- MODULE Wiki --------------------------------
(***************************************************************************)
(* Pages written and moved: internal/core/wiki, its document model, the    *)
(* transactions of internal/db/adapters (content_tx.go, publish_tx.go) and *)
(* the handlers of internal/core/api/wiki.                                 *)
(*                                                                         *)
(* What a page says is a text, the preserved blocks in document order and  *)
(* the tags typed in the body.  The editor is given the i-th preserved     *)
(* block of the version it opened as the placeholder i; a document that    *)
(* comes back is a sequence of placeholders, and on a restore of literal   *)
(* blocks.                                                                 *)
(***************************************************************************)
EXTENDS Tags

VARIABLES
  rev,    \* rev[p] : the page_revisions rows of p
  draft   \* draft[p][u] : the text of u's draft of p, or Nil

wikiVars == <<rev, draft>>
contentVars == <<shareVars, etag, wikiVars>>

(* The pages there are at first are in their first version, and what is    *)
(* typed is a sequence of blocks.                                          *)
ASSUME CastPagesAreFirst ==
  \A m \in DOMAIN Casts : \A p \in DOMAIN Casts[m].page :
    LET q == Casts[m].page[p] IN
    /\ DOMAIN q = DOMAIN NoPage /\ q.st = "live" /\ q.ver = 1
    /\ DOMAIN q.content = {"text", "blocks", "tags"} /\ DOMAIN q.content.blocks \subseteq Nat
    /\ q.doc \in {Nil, q.content}

(* A share there is at first is of a live page, in the space it is in.     *)
ASSUME CastSharesAreInPlace ==
  \A m \in DOMAIN Casts : \A i \in DOMAIN Casts[m].share :
    LET s == Casts[m].share[i] IN
    /\ DOMAIN s = DOMAIN NoShare
    /\ s.st = "active" => /\ s.p \in Page \cap DOMAIN Casts[m].page
                          /\ Casts[m].page[s.p].st = "live" /\ Casts[m].page[s.p].sp = s.sp

ASSUME EditsAreSequences ==
  /\ Nil \notin Nat
  /\ \A m \in DOMAIN Mixes : /\ {"edits", "markdown"} \subseteq DOMAIN Mixes[m]
                            /\ \A e \in Mixes[m].edits \cup Mixes[m].markdown : DOMAIN e \subseteq Nat

(* A revision row.  how, base, over and ack remember the request that made *)
(* it, for the properties.                                                 *)
Revision(v, c, r) ==
  [v |-> v, c |-> c, by |-> r.u, how |-> r.op, base |-> r.base, over |-> r.over, ack |-> r.ack]

WikiInit ==
  /\ rev = [p \in Page |-> IF page[p].st = "absent" THEN {}
                           ELSE {Revision(1, page[p].content, [u |-> page[p].author, op |-> "createpage",
                                                               base |-> 0, over |-> FALSE, ack |-> {}])}]
  /\ draft = [p \in Page |-> [u \in User |-> Nil]]

(* editablePage: the page in the space of the route, and the right to edit *)
(* it there.                                                               *)
editablePage(u, p) == PageLive(p) /\ CanEditEntity(u, page[p].sp, page[p].author)

PageRow(p) == {<<"page", p>>}

(* What is typed is new with every request.                                *)
Typed(blocks, ts) == [text |-> served + 1, blocks |-> blocks, tags |-> ts]

-----------------------------------------------------------------------------
(* Creation: the page, then its first revision, in two statements *)

CreatePageBegin(h) ==
  /\ Ready(h, "createpage")
  /\ \E u \in Work.callers, p \in Page, parent \in Page \cup {Nil}, sp \in Space :
       /\ page[p].st = "absent"
       /\ Can(u, "create_items", sp)
       /\ parent # Nil => PageInSpace(parent, sp)
       /\ Begin(h, [op |-> "createpage", pc |-> "insert", u |-> u, p |-> p, sp |-> sp, parent |-> parent,
                    path |-> Append(IF parent = Nil THEN <<>> ELSE page[parent].path, p),
                    c |-> Typed(<<>>, <<>>), base |-> 0, over |-> FALSE, ack |-> {}])
       /\ UNCHANGED <<orgVars, space, contentVars>>

(* An id is a fresh uuid: another request's page is another page.          *)
CreatePage(h) ==
  LET r == req[h] IN
  /\ At(h, "createpage", "insert")
  /\ IF page[r.p].st = "absent"
     THEN /\ page' = [page EXCEPT ![r.p] = [st |-> "live", sp |-> r.sp, parent |-> r.parent, path |-> r.path,
                                            ver |-> 1, content |-> r.c, doc |-> Nil, author |-> r.u]]
          /\ Go(h, [r EXCEPT !.pc = "revision"])
     ELSE End(h) /\ UNCHANGED page
  /\ UNCHANGED <<orgVars, space, share, etag, wikiVars>>

(* The connection may be gone by now: the page stays without a version 1.  *)
CreatePageRevision(h) ==
  LET r == req[h] IN
  /\ At(h, "createpage", "revision")
  /\ \/ rev' = [rev EXCEPT ![r.p] = @ \cup {Revision(1, r.c, r)}]
     \/ UNCHANGED rev
  /\ End(h)
  /\ UNCHANGED <<orgVars, space, shareVars, etag, draft>>

-----------------------------------------------------------------------------
(* The markdown save *)

UpdatePageBegin(h) ==
  /\ Ready(h, "savepage")
  /\ \E u \in Work.callers, p \in Page, bs \in Work.markdown :
       /\ editablePage(u, p)
       /\ \E base \in 1 .. page[p].ver :
            Begin(h, [op |-> "savepage", pc |-> "save", u |-> u, p |-> p, c |-> Typed(bs, <<>>), base |-> base,
                      over |-> FALSE, ack |-> {}])
       /\ UNCHANGED <<orgVars, space, contentVars>>

DocumentBacked(p) == page[p].doc # Nil

VersionIs(p, r) == page[p].ver = r.base

(* The page row is locked, and the page written with its history row.      *)
UpdatePageContentTx(h) ==
  LET r == req[h] IN
  /\ At(h, "savepage", "save")
  /\ Free(h, PageRow(r.p))
  /\ IF PageLive(r.p) /\ ~DocumentBacked(r.p) /\ VersionIs(r.p, r)
     THEN /\ page' = [page EXCEPT ![r.p].content = r.c, ![r.p].ver = @ + 1]
          /\ rev' = [rev EXCEPT ![r.p] = @ \cup {Revision(page[r.p].ver + 1, r.c, r)}]
     ELSE UNCHANGED <<page, rev>>
  /\ End(h)
  /\ UNCHANGED <<orgVars, space, share, etag, draft>>

-----------------------------------------------------------------------------
(* Publishing a document *)

documentOfPage(p) == IF page[p].doc # Nil THEN page[p].doc ELSE page[p].content
RevisionAt(p, v) == {r \in rev[p] : r.v = v}

PublishBegin(h) ==
  /\ Ready(h, "publish")
  /\ \E u \in Work.callers, p \in Page, blocks \in Work.edits, ts \in Work.labels, ack \in Work.acks,
        over \in BOOLEAN :
       /\ editablePage(u, p)
       /\ \E base \in 1 .. page[p].ver :
            Begin(h, [op |-> "publish", pc |-> "read", u |-> u, p |-> p, in |-> Typed(blocks, ts),
                      base |-> base, over |-> over, ack |-> ack])
       /\ UNCHANGED <<orgVars, space, contentVars>>

(* Shield numbers the preserved blocks of the base; Restore puts each one  *)
(* back where its number stands.                                           *)
Unresolved(in, base) == (Range(in.blocks) \cap Nat) \ DOMAIN base.blocks
Dropped(in, base) == DOMAIN base.blocks \ Range(in.blocks)
Restore(in, base) ==
  [in EXCEPT !.blocks = [i \in DOMAIN in.blocks |-> IF in.blocks[i] \in Nat THEN base.blocks[in.blocks[i]]
                                                    ELSE in.blocks[i]]]

(* The documents the draft may have been started from: the page's, or the  *)
(* one its history has; none when the history lacks it.                    *)
CurrentDocument(p, base) == {documentOfPage(p)}   \* mutant: the page as it is now
baseDocument(p, base) ==
  IF page[p].ver = base THEN {documentOfPage(p)} ELSE {r.c : r \in RevisionAt(p, base)}

(* Publish up to its transaction: the conflict, then the placeholders that *)
(* stand for nothing, then the blocks nobody said to remove.               *)
Publish(h) ==
  LET r == req[h]
      bases == baseDocument(r.p, r.base)
      refused == \/ ~PageLive(r.p)
                 \/ ~r.over /\ ~VersionIs(r.p, r)
                 \/ bases = {}
                 \/ \E b \in bases : Unresolved(r.in, b) # {} \/ ~(Dropped(r.in, b) \subseteq r.ack)
  IN
  /\ At(h, "publish", "read")
  /\ IF refused THEN End(h)
     ELSE \E b \in bases : Go(h, With([r EXCEPT !.pc = "commit"], [c |-> Restore(r.in, b)]))
  /\ UNCHANGED <<orgVars, space, contentVars>>

DeleteEveryDraft(d, p, u) == [d EXCEPT ![p] = [v \in User |-> Nil]]   \* mutant: keyed by the page alone
DeletePageDraft(d, p, u) == [d EXCEPT ![p][u] = Nil]

(* Inline tags are added to the page's and never take one from it.         *)
ReplacedByInline(e, p, labels) == [e EXCEPT ![p] = LenientLabelSlugs(labels)]   \* mutant: the body owns the tags
AddInlineTags(e, p, labels) == [e EXCEPT ![p] = @ \cup LenientLabelSlugs(labels)]

HistoryLater(rv, p, row) == rv   \* mutant: the history row is not in the transaction
CreatePageRevisionWithDoc(rv, p, row) == [rv EXCEPT ![p] = @ \cup {row}]

(* The two updates a publish may be: with the version guard, and the       *)
(* explicit overwrite without it.                                          *)
PublishPageDocument(p, r) == PageLive(p) /\ VersionIs(p, r)
OverwritePageDocument(p) == PageLive(p)

(* The page row, the history row, the author's draft and the inline tags.  *)
PublishPageTx(h) ==
  LET r == req[h] IN
  /\ At(h, "publish", "commit")
  /\ Free(h, PageRow(r.p))
  /\ IF (IF r.over THEN OverwritePageDocument(r.p) ELSE PublishPageDocument(r.p, r))
     THEN /\ page' = [page EXCEPT ![r.p].content = r.c, ![r.p].doc = r.c, ![r.p].ver = @ + 1]
          /\ rev' = CreatePageRevisionWithDoc(rev, r.p, Revision(page[r.p].ver + 1, r.c, r))
          /\ draft' = DeletePageDraft(draft, r.p, r.u)
          /\ etag' = AddInlineTags(etag, r.p, r.c.tags)
     ELSE UNCHANGED <<page, wikiVars, etag>>
  /\ End(h)
  /\ UNCHANGED <<orgVars, space, share>>

(* A restore publishes an earlier version's content, unless the page says  *)
(* the same already.                                                       *)
RestoreBegin(h) ==
  /\ Ready(h, "restore")
  /\ \E u \in Work.callers, p \in Page, ack \in Work.acks, over \in BOOLEAN :
       /\ editablePage(u, p)
       /\ \E v, base \in 1 .. page[p].ver :
            Begin(h, [op |-> "restore", pc |-> "find", u |-> u, p |-> p, v |-> v, base |-> base,
                      over |-> over, ack |-> ack])
       /\ UNCHANGED <<orgVars, space, contentVars>>

RestoreRevision(h) ==
  LET r == req[h]
      found == {x \in RevisionAt(r.p, r.v) : PageLive(r.p) /\ x.c # documentOfPage(r.p)}
  IN
  /\ At(h, "restore", "find")
  /\ IF found = {} THEN End(h)
     ELSE \E x \in found : Go(h, [op |-> "publish", pc |-> "read", u |-> r.u, p |-> r.p, in |-> x.c,
                                  base |-> r.base, over |-> r.over, ack |-> r.ack])
  /\ UNCHANGED <<orgVars, space, contentVars>>

-----------------------------------------------------------------------------
(* Drafts: behind editablePage, then one statement *)

DraftBegin(h) ==
  \E op \in {"savedraft", "discard"} :
    /\ Ready(h, op)
    /\ \E u \in Work.callers, p \in Page :
         /\ editablePage(u, p)
         /\ Begin(h, [op |-> op, pc |-> "write", u |-> u, p |-> p, text |-> served + 1])
         /\ UNCHANGED <<orgVars, space, contentVars>>

SaveDraft(h) ==
  /\ At(h, "savedraft", "write")
  /\ draft' = [draft EXCEPT ![req[h].p][req[h].u] = req[h].text]
  /\ End(h)
  /\ UNCHANGED <<orgVars, space, shareVars, etag, rev>>

DiscardDraft(h) ==
  /\ At(h, "discard", "write")
  /\ draft' = DeletePageDraft(draft, req[h].p, req[h].u)
  /\ End(h)
  /\ UNCHANGED <<orgVars, space, shareVars, etag, rev>>

-----------------------------------------------------------------------------
(* Deletion: the page in the space it was found in, and its shares *)

DeletePageBegin(h) ==
  /\ Ready(h, "deletepage")
  /\ \E u \in Work.callers, p \in Page :
       /\ editablePage(u, p)
       /\ Begin(h, [op |-> "deletepage", pc |-> "delete", p |-> p, sp |-> page[p].sp])
       /\ UNCHANGED <<orgVars, space, contentVars>>

DeletePageAndRevokeShares(h) ==
  LET r == req[h] IN
  /\ At(h, "deletepage", "delete")
  /\ Free(h, PageRow(r.p))
  /\ page' = IF PageInSpace(r.p, r.sp) THEN [page EXCEPT ![r.p].st = "deleted"] ELSE page
  /\ share' = RevokeSharesByEntity(r.p)
  /\ End(h)
  /\ UNCHANGED <<orgVars, space, etag, wikiVars>>

-----------------------------------------------------------------------------
(* Moving a page and what is below it, within its space or out of it *)

(* moveInputFromRequest: any item of both spaces is the caller's to edit.  *)
MovePageBegin(h) ==
  /\ Ready(h, "move")
  /\ \E u \in Work.callers, p \in Work.movable, parent \in Page \cup {Nil}, target \in Space :
       /\ PageLive(p)
       /\ Can(u, "edit_any_item", page[p].sp)
       /\ target # page[p].sp => Can(u, "edit_any_item", target)
       /\ Begin(h, [op |-> "move", pc |-> "lock", p |-> p, parent |-> parent, sp |-> target])
       /\ UNCHANGED <<orgVars, space, contentVars>>

(* The page row, and the two spaces: its own as it is now, and the target. *)
GetPageForUpdate(h) ==
  LET r == req[h] IN
  /\ At(h, "move", "lock")
  /\ Free(h, PageRow(r.p))
  /\ IF PageLive(r.p) /\ SpaceLive(page[r.p].sp) /\ SpaceLive(r.sp)
     THEN GoLocked(h, PageRow(r.p), [r EXCEPT !.pc = "parent"])
     ELSE End(h)
  /\ UNCHANGED <<orgVars, space, contentVars>>

ParentIsBelow(p, parent) == page[parent].sp = page[p].sp /\ PathWithinSubtree(page[parent].path, page[p].path)

resolveMoveParent(h) ==
  LET r == req[h]
      refused == r.parent # Nil /\ (~PageInSpace(r.parent, r.sp) \/ ParentIsBelow(r.p, r.parent))
  IN
  /\ At(h, "move", "parent")
  /\ IF refused THEN End(h)
     ELSE Go(h, With([r EXCEPT !.pc = "write"],
                     [path |-> Append(IF r.parent = Nil THEN <<>> ELSE page[r.parent].path, r.p)]))
  /\ UNCHANGED <<orgVars, space, contentVars>>

(* The root, and the old prefix of its descendants exchanged for the new.  *)
applyPageMove(pg, p, sp, path) ==
  [q \in Page |-> IF q \in PageSubtree(p, pg[p].sp, pg[p].path)
                  THEN [pg[q] EXCEPT !.sp = sp,
                                     !.path = path \o SubSeq(pg[q].path, Len(pg[p].path) + 1, Len(pg[q].path))]
                  ELSE pg[q]]

MovePageTx(h) ==
  LET r == req[h]
      below == PageSubtree(r.p, page[r.p].sp, page[r.p].path)
  IN
  /\ At(h, "move", "write")
  /\ Free(h, {<<"page", q>> : q \in below})
  /\ page' = [applyPageMove(page, r.p, r.sp, r.path) EXCEPT ![r.p].parent = r.parent]
  /\ share' = IF r.sp # page[r.p].sp THEN RevokeSharesByPageSubtree(r.p, page[r.p].sp, page[r.p].path) ELSE share
  /\ End(h)
  /\ UNCHANGED <<orgVars, space, etag, wikiVars>>

WikiStep(h) ==
  \/ CreatePageBegin(h) \/ CreatePage(h) \/ CreatePageRevision(h)
  \/ UpdatePageBegin(h) \/ UpdatePageContentTx(h)
  \/ PublishBegin(h) \/ Publish(h) \/ PublishPageTx(h) \/ RestoreBegin(h) \/ RestoreRevision(h)
  \/ DraftBegin(h) \/ SaveDraft(h) \/ DiscardDraft(h)
  \/ DeletePageBegin(h) \/ DeletePageAndRevokeShares(h)
  \/ MovePageBegin(h) \/ GetPageForUpdate(h) \/ resolveMoveParent(h) \/ MovePageTx(h)
=============================================================================
