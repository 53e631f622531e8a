------------------------------ MODULE Comments ------------------------------
(***************************************************************************)
(* Comments on items, tickets and pages, and files attached to them:       *)
(* internal/core/api/comments, internal/core/attachments,                  *)
(* internal/core/api/attachments and internal/core/storage.  Neither has   *)
(* a space of its own: they are reached through their entity.              *)
(***************************************************************************)
EXTENDS Relations

CONSTANTS CommentId, FileId

ASSUME CommentsAreNumbered == CommentId \subseteq Nat /\ FileId \subseteq Nat

(* A person is no requester, and it is people who call.                    *)
ASSUME PeopleCall ==
  /\ User \cap (Org \X Email) = {}
  /\ \A m \in DOMAIN Mixes : "callers" \in DOMAIN Mixes[m] /\ Mixes[m].callers \subseteq User

VARIABLES comment, file,
          object   \* the keys the object store holds

commentVars == <<comment, file, object>>

(* by is the person, or the requester of the portal, who wrote it.         *)
NoComment == [st |-> "none", e |-> Nil, by |-> Nil, vis |-> "internal", parent |-> Nil]
NoFile == [st |-> "none", e |-> Nil]

CommentInit ==
  /\ comment = [c \in CommentId |-> NoComment]
  /\ file = [f \in FileId |-> NoFile]
  /\ object = {}

(* The entity with its container, both live.                               *)
LookupEntity(e) == EntityLive(e) /\ SpaceLive(EntitySpace(e))

-----------------------------------------------------------------------------
(* Comments.  A reply's parent is a comment on the same entity; only a     *)
(* ticket has a customer to read a public one.                             *)

CommentBelongsToEntity(c, e) == comment[c].st = "live" /\ comment[c].e = e

resolveVisibility(e) == {"internal"} \cup (IF e \in Item /\ item[e].et = "ticket" THEN {"public"} ELSE {})

CreateCommentBegin(h) ==
  /\ Ready(h, "comment")
  /\ \E u \in Work.callers, e \in Entity, parent \in CommentId \cup {Nil} :
       /\ EntityLive(e)
       /\ Can(u, "comment", EntitySpace(e))
       /\ parent # Nil => CommentBelongsToEntity(parent, e)
       /\ \E vis \in resolveVisibility(e) :
            Begin(h, [op |-> "comment", pc |-> "insert", e |-> e, by |-> u, vis |-> vis, parent |-> parent])
       /\ UNCHANGED <<groundVars, itemVars, rel, commentVars>>

InsertComment(row) ==
  LET free == {c \in CommentId : comment[c].st = "none"} IN
  /\ free # {}
  /\ comment' = [comment EXCEPT ![Min(free)] = row]

CreateComment(h) ==
  LET r == req[h] IN
  /\ At(h, "comment", "insert")
  /\ InsertComment([st |-> "live", e |-> r.e, by |-> r.by, vis |-> r.vis, parent |-> r.parent])
  /\ End(h)
  /\ UNCHANGED <<groundVars, itemVars, rel, file, object>>

(* What the space's members are listed: no replies.                        *)
ListCommentsByEntity(e, sp) ==
  {c \in CommentId : /\ comment[c].st = "live" /\ comment[c].e = e /\ comment[c].parent = Nil
                     /\ EntityLive(e) /\ EntitySpace(e) = sp}

-----------------------------------------------------------------------------
(* Upload: the object is stored first and its row inserted after it.  The  *)
(* key is new; whatever fails on the way, a deletion of the object is      *)
(* tried, and may fail too.                                                *)

FreshKey == {f \in FileId : file[f].st = "none" /\ f \notin object /\ \A h \in Handler : ~(req[h].op = "upload" /\ req[h].f = f)}

UploadTo(h, e) ==
  /\ FreshKey # {}
  /\ Begin(h, [op |-> "upload", pc |-> "put", f |-> Min(FreshKey), e |-> e])
  /\ UNCHANGED <<groundVars, itemVars, rel, commentVars>>

(* Into the space of the URL, which lets its contributors write.           *)
UploadBegin(h) ==
  /\ Ready(h, "upload")
  /\ \E u \in Work.callers, e \in Entity :
       LookupEntity(e) /\ Can(u, "create_items", EntitySpace(e)) /\ UploadTo(h, e)

(* An image of a page, by who may edit the page.                           *)
UploadPageImage(h) ==
  /\ Ready(h, "upload")
  /\ \E u \in Work.callers, p \in Page :
       /\ PageLive(p)
       /\ SpaceLive(page[p].sp)
       /\ CanEditEntity(u, page[p].sp, page[p].author)
       /\ UploadTo(h, p)

(* A stream that turns out too large has been stored all the same.         *)
PutObject(h) ==
  LET r == req[h] IN
  /\ At(h, "upload", "put")
  /\ object' = object \cup {r.f}
  /\ \E next \in {"row", "undo"} : Go(h, [r EXCEPT !.pc = next])
  /\ UNCHANGED <<groundVars, itemVars, rel, comment, file>>

(* The insert takes place or fails, and the handler is told which.         *)
CreateAttachment(h) ==
  LET r == req[h] IN
  /\ At(h, "upload", "row")
  /\ \/ file' = [file EXCEPT ![r.f] = [st |-> "live", e |-> r.e]] /\ End(h)
     \/ UNCHANGED file /\ Go(h, [r EXCEPT !.pc = "undo"])
  /\ UNCHANGED <<groundVars, itemVars, rel, comment, object>>

DeleteObject(h) ==
  /\ At(h, "upload", "undo")
  /\ object' \in {object, object \ {req[h].f}}
  /\ End(h)
  /\ UNCHANGED <<groundVars, itemVars, rel, comment, file>>

(* The process stops during an upload.                                     *)
UploadDies(h) ==
  /\ req[h].op = "upload"
  /\ End(h)
  /\ UNCHANGED <<groundVars, itemVars, rel, commentVars>>

-----------------------------------------------------------------------------
(* Reading and deleting a file *)

(* GetAttachment, and where its entity is now.                             *)
FileInSpace(f, sp) == file[f].st = "live" /\ LookupEntity(file[f].e) /\ EntitySpace(file[f].e) = sp

DownloadInSpace(h) ==
  /\ Ready(h, "download")
  /\ \E u \in Work.callers, sp \in Space, f \in FileId :
       /\ CanReadSpace(u, sp)
       /\ FileInSpace(f, sp)
       /\ Begin(h, [op |-> "download", pc |-> "open", f |-> f])
       /\ UNCHANGED <<groundVars, itemVars, rel, commentVars>>

(* For who holds a share of the entity; the share of a deleted entity is   *)
(* not asked for its entity.                                               *)
DownloadShared(h) ==
  /\ Ready(h, "download")
  /\ \E o \in Org, u \in Work.callers, f \in FileId :
       /\ Member(o, u)
       /\ file[f].st = "live"
       /\ \/ file[f].e \in Page /\ CoversForCaller(o, u, file[f].e)
          \/ file[f].e \in Item /\ CoversEntity(o, u, file[f].e)
       /\ Begin(h, [op |-> "download", pc |-> "open", f |-> f])
       /\ UNCHANGED <<groundVars, itemVars, rel, commentVars>>

(* The object is opened; without it the reader is answered an error.       *)
OpenForServing(h) ==
  /\ At(h, "download", "open")
  /\ End(h)
  /\ UNCHANGED <<groundVars, itemVars, rel, commentVars>>

DeleteInSpace(h) ==
  /\ Ready(h, "deletefile")
  /\ \E u \in Work.callers, f \in FileId :
       LET sp == EntitySpace(file[f].e) IN
       /\ file[f].st = "live"
       /\ FileInSpace(f, sp)
       /\ Can(u, "create_items", sp)
       /\ Begin(h, [op |-> "deletefile", pc |-> "row", f |-> f])
       /\ UNCHANGED <<groundVars, itemVars, rel, commentVars>>

RetainObject(keys, f) == keys

(* The row is soft-deleted and the object retained.                        *)
SoftDeleteAttachment(h) ==
  LET f == req[h].f IN
  /\ At(h, "deletefile", "row")
  /\ file' = [file EXCEPT ![f].st = "deleted"]
  /\ object' = RetainObject(object, f)
  /\ End(h)
  /\ UNCHANGED <<groundVars, itemVars, rel, comment>>

CommentsStep(h) ==
  \/ CreateCommentBegin(h) \/ CreateComment(h)
  \/ UploadBegin(h) \/ UploadPageImage(h) \/ PutObject(h) \/ CreateAttachment(h) \/ DeleteObject(h) \/ UploadDies(h)
  \/ DownloadInSpace(h) \/ DownloadShared(h) \/ OpenForServing(h)
  \/ DeleteInSpace(h) \/ SoftDeleteAttachment(h)
=============================================================================
