---------------------------- MODULE TrackerProofs ----------------------------
(***************************************************************************)
(* Proofs about Tracker, for any people, spaces, rows and workloads.  The  *)
(* lemmas of the first part say which requests a part of the system holds, *)
(* so that an invariant about the others may set its steps aside.          *)
(***************************************************************************)
EXTENDS Tracker, FiniteSetTheorems, SequenceTheorems, WellFoundedInduction, TLAPS

(* The request table and the locks have a row for every handler, and a     *)
(* busy handler is at a statement.                                         *)
Shape ==
  /\ DOMAIN req = Handler /\ DOMAIN held = Handler
  /\ \A h \in Handler : "op" \in DOMAIN req[h] /\ (req[h].op # "idle" => "pc" \in DOMAIN req[h])

(* A request that is none of these.                                        *)
Foreign(r, ops) == {"op", "pc"} \subseteq DOMAIN r /\ r.op \notin ops \cup {"idle"}

(* A step of h touches no other handler's request and no other's locks.    *)
Alone(h) ==
  /\ DOMAIN req' = Handler /\ DOMAIN held' = Handler
  /\ \A k \in Handler \ {h} : req'[k] = req[k] /\ held'[k] = held[k]
  /\ mix' = mix /\ served' \in {served, served + 1}

(* It locks no sign-in link it had not locked.                             *)
NoLinkLocked(h) == \A l \in MagicLink : LinkRow(l) \in held'[h] => LinkRow(l) \in held[h]

(* One that goes on with such a request, or with the one it had, or ends.  *)
Aside(h, ops) ==
  /\ Alone(h) /\ NoLinkLocked(h)
  /\ Foreign(req'[h], ops) \/ req'[h] = req[h] \/ (req'[h] = Idle /\ held'[h] = {})

(* What an invariant that says nothing of the links needs of it.           *)
Apart(h, ops) == Alone(h) /\ (Foreign(req'[h], ops) \/ req'[h] = req[h] \/ req'[h] = Idle)

LEMMA AsideIsApart == ASSUME NEW h \in Handler, NEW ops, Aside(h, ops) PROVE Apart(h, ops)
BY DEF Aside, Apart

(* What a handler's step does to the request table.                        *)
LEMMA Moving ==
  ASSUME Shape, NEW h \in Handler, NEW r, Begin(h, r) \/ Go(h, r) \/ Commit(h, r)
  PROVE  Alone(h) /\ NoLinkLocked(h) /\ req'[h] = r
BY DEF Shape, Begin, Go, Commit, Alone, NoLinkLocked

LEMMA Locking ==
  ASSUME Shape, NEW h \in Handler, NEW r, NEW rows, GoLocked(h, rows, r)
  PROVE  Alone(h) /\ req'[h] = r /\ held'[h] = held[h] \cup rows
BY DEF Shape, GoLocked, Alone

LEMMA Ending == ASSUME Shape, NEW h \in Handler, End(h) PROVE Alone(h) /\ NoLinkLocked(h) /\ req'[h] = Idle /\ held'[h] = {}
BY DEF Shape, End, Alone, NoLinkLocked

LEMMA Serving == ASSUME Shape, NEW h \in Handler, Serve PROVE Alone(h) /\ NoLinkLocked(h) /\ req' = req /\ held' = held
BY DEF Shape, Serve, Alone, NoLinkLocked

LEMMA MoveAside ==
  ASSUME Shape, NEW h \in Handler, NEW ops, NEW r, Foreign(r, ops), Begin(h, r) \/ Go(h, r) \/ Commit(h, r)
  PROVE  Aside(h, ops)
BY Moving DEF Aside

LEMMA EndAside == ASSUME Shape, NEW h \in Handler, NEW ops, End(h) PROVE Aside(h, ops)
BY Ending DEF Aside

LEMMA ServeAside == ASSUME Shape, NEW h \in Handler, NEW ops, Serve PROVE Aside(h, ops)
BY Serving DEF Aside

(* A request that learns more keeps what it knew.                          *)
LEMMA WithKeeps ==
  ASSUME NEW r, NEW s
  PROVE  /\ DOMAIN With(r, s) = DOMAIN r \cup DOMAIN s
         /\ \A f \in DOMAIN r : With(r, s)[f] = r[f]
         /\ \A f \in DOMAIN s \ DOMAIN r : With(r, s)[f] = s[f]
BY DEF With

LEMMA WithGoes ==
  ASSUME NEW r, NEW s, "op" \in DOMAIN r, "pc" \in DOMAIN r
  PROVE  "op" \in DOMAIN With(r, s) /\ "pc" \in DOMAIN With(r, s) /\ With(r, s).op = r.op
BY DEF With

LEMMA ForeignGo ==
  ASSUME Shape, NEW h \in Handler, NEW ops, NEW op, NEW pc, NEW to, At(h, op, pc), op \notin ops \cup {"idle"}
  PROVE  Foreign([req[h] EXCEPT !.pc = to], ops)
BY DEF Shape, At, Foreign

(* The same of a handler that goes on with its request to the statement to *)
(* and other locals.                                                       *)
LEMMA GoAside ==
  ASSUME Shape, NEW h \in Handler, NEW ops, NEW r, Go(h, r), req[h].op \notin ops \cup {"idle"},
         "op" \in DOMAIN r, "pc" \in DOMAIN r, r.op = req[h].op
  PROVE  Aside(h, ops)
BY MoveAside DEF Foreign

-----------------------------------------------------------------------------
(* Who holds which requests                                                *)

AccessOp == {"grant", "regrade", "ungrant", "bulk"}

LEMMA AccessAside ==
  ASSUME Shape, NEW h \in Handler, NEW ops, ops \cap AccessOp = {}, AccessStep(h)
  PROVE  Aside(h, ops)
<1> USE DEF AccessOp
<1>1. CASE CreateGrantBegin(h) \/ UpdateGrantBegin(h) \/ DeleteGrantBegin(h) \/ ApplyBulkBegin(h)
  <2>1. PICK r : Foreign(r, ops) /\ Begin(h, r)
    BY <1>1 DEF CreateGrantBegin, UpdateGrantBegin, DeleteGrantBegin, grantInSpace, ApplyBulkBegin, Foreign
  <2> QED
    BY <2>1, MoveAside
<1>2. CASE CreateGrant(h) \/ UpdateGrantRole(h) \/ DeleteGrant(h) \/ ApplyBulk(h)
  BY <1>2, EndAside DEF CreateGrant, UpdateGrantRole, DeleteGrant, ApplyBulk
<1>3. CASE ListTeamGrantsByOrgForUpdate(h)
  <2>1. PICK gs, r : Foreign(r, ops) /\ GoLocked(h, GrantRows(gs), r)
    BY <1>3 DEF ListTeamGrantsByOrgForUpdate, Foreign
  <2>2. \A l \in MagicLink : LinkRow(l) \notin GrantRows(gs)
    BY DEF LinkRow, GrantRows
  <2> QED
    BY <2>1, <2>2, Locking DEF Aside, NoLinkLocked
<1> QED
  BY <1>1, <1>2, <1>3 DEF AccessStep

SpacesOp == {"createspace", "updatespace", "deletespace"}

LEMMA SpacesAside ==
  ASSUME Shape, NEW h \in Handler, NEW ops, ops \cap SpacesOp = {}, SpacesStep(h)
  PROVE  Aside(h, ops)
<1> USE DEF SpacesOp
<1>1. CASE UpdateSpaceBegin(h) \/ DeleteSpace(h)
  <2>1. PICK r : Foreign(r, ops) /\ Begin(h, r)
    BY <1>1 DEF UpdateSpaceBegin, DeleteSpace, Foreign
  <2> QED
    BY <2>1, MoveAside
<1>2. CASE CreateSpaceBegin(h)
  <2>1. PICK r : Begin(h, r) /\ {"op", "pc"} \subseteq DOMAIN r /\ r.op = "createspace"
    BY <1>2 DEF CreateSpaceBegin
  <2> QED
    BY <2>1, MoveAside DEF Foreign
<1>3. CASE CreateSpaceTx(h)
  <2>1. End(h) \/ \E r : Foreign(r, ops) /\ Commit(h, r)
    BY <1>3 DEF CreateSpaceTx, Foreign
  <2> QED
    BY <2>1, EndAside, MoveAside
<1>4. CASE AssignDefaultWorkflowToSpace(h) \/ SetSpaceOwnerTeam(h) \/ SoftDeleteSpace(h)
  BY <1>4, EndAside DEF AssignDefaultWorkflowToSpace, SetSpaceOwnerTeam, SoftDeleteSpace
<1>5. CASE UpdateSpace(h) \/ applyVisibilityChange(h) \/ applyOwnerTeamChange(h)
  BY <1>5, EndAside, ForeignGo, MoveAside DEF UpdateSpace, applyVisibilityChange, applyOwnerTeamChange
<1>6. CASE AddSpaceMember(h) \/ RemoveSpaceMember(h)
  BY <1>6, ServeAside DEF AddSpaceMember, RemoveSpaceMember
<1> QED
  BY <1>1, <1>2, <1>3, <1>4, <1>5, <1>6 DEF SpacesStep

SharesOp == {"share", "unshare"}

LEMMA SharesAside ==
  ASSUME Shape, NEW h \in Handler, NEW ops, ops \cap SharesOp = {}, SharesStep(h)
  PROVE  Aside(h, ops)
<1> USE DEF SharesOp
<1>1. CASE CreateShareBegin(h) \/ RevokeShareBegin(h)
  <2>1. PICK r : Foreign(r, ops) /\ Begin(h, r)
    BY <1>1 DEF CreateShareBegin, RevokeShareBegin, Foreign
  <2> QED
    BY <2>1, MoveAside
<1>2. CASE CreateShare(h) \/ RevokeShare(h)
  BY <1>2, EndAside DEF CreateShare, RevokeShare
<1> QED
  BY <1>1, <1>2 DEF SharesStep

OtherItemsOp == {"createticket", "share", "createtype", "archivetype", "deletetype"}

(* The steps of items that write no row of theirs nor are about to.        *)
OtherItemsStep(h) ==
  \/ CreateTicketBegin(h) \/ ReadTicketNumber(h) \/ ShareItemBegin(h)
  \/ CreateItemTypeBegin(h) \/ CreateItemType(h) \/ SetArchivedBegin(h) \/ SetItemTypeArchived(h)
  \/ DeleteItemTypeBegin(h) \/ CountItemsOfType(h) \/ DeleteItemType(h)

LEMMA OtherItemsAside ==
  ASSUME Shape, NEW h \in Handler, NEW ops, ops \cap OtherItemsOp = {}, OtherItemsStep(h)
  PROVE  Aside(h, ops)
<1> USE DEF OtherItemsOp
<1>1. CASE CreateTicketBegin(h) \/ ShareItemBegin(h) \/ CreateItemTypeBegin(h)
  <2>1. PICK r : Foreign(r, ops) /\ Begin(h, r)
    BY <1>1 DEF CreateTicketBegin, ShareItemBegin, CreateItemTypeBegin, Foreign
  <2> QED
    BY <2>1, MoveAside
<1>2. CASE SetArchivedBegin(h) \/ DeleteItemTypeBegin(h)
  <2>1. PICK r : Foreign(r, ops) /\ Begin(h, r)
    BY <1>2 DEF SetArchivedBegin, DeleteItemTypeBegin, OwnedType, Foreign
  <2> QED
    BY <2>1, MoveAside
<1>3. CASE ReadTicketNumber(h)
  <2>1. PICK n : Go(h, With([pc |-> "insert", num |-> n], req[h]))
    BY <1>3 DEF ReadTicketNumber
  <2> DEFINE r == With([pc |-> "insert", num |-> n], req[h])
  <2>2. "op" \in DOMAIN req[h] /\ req[h].op = "createticket"
    BY <1>3 DEF ReadTicketNumber, At, Shape
  <2>3. "op" \in DOMAIN r /\ "pc" \in DOMAIN r /\ r.op = req[h].op
    BY <2>2 DEF With
  <2> QED
    BY <2>1, <2>2, <2>3, GoAside
<1>4. CASE CountItemsOfType(h)
  BY <1>4, EndAside, ForeignGo, MoveAside DEF CountItemsOfType
<1>5. CASE CreateItemType(h) \/ SetItemTypeArchived(h) \/ DeleteItemType(h)
  BY <1>5, EndAside DEF CreateItemType, SetItemTypeArchived, DeleteItemType
<1> QED
  BY <1>1, <1>2, <1>3, <1>4, <1>5 DEF OtherItemsStep

ItemsOp == {"createitem", "updateitem", "updateticket", "movestatus", "deleteitem"} \cup OtherItemsOp

LEMMA ItemsAside ==
  ASSUME Shape, NEW h \in Handler, NEW ops, ops \cap ItemsOp = {}, ItemsStep(h)
  PROVE  Aside(h, ops)
<1> USE DEF ItemsOp
<1>1. CASE CreateItemBegin(h)
  <2>1. PICK r : Foreign(r, ops) /\ Begin(h, r)
    BY <1>1 DEF CreateItemBegin, Foreign
  <2> QED
    BY <2>1, MoveAside
<1>2. CASE UpdateItemBegin(h) \/ UpdateTicketBegin(h) \/ AssignBegin(h) \/ UnassignBegin(h)
  <2>1. PICK r : Foreign(r, ops) /\ Begin(h, r)
    BY <1>2 DEF UpdateItemBegin, UpdateTicketBegin, PatchBegin, AssignBegin, UnassignBegin, Foreign
  <2> QED
    BY <2>1, MoveAside
<1>3. CASE DeleteItemBegin(h) \/ DeleteTicketBegin(h) \/ MoveBegin(h)
  <2>1. PICK r : Foreign(r, ops) /\ Begin(h, r)
    BY <1>3 DEF DeleteItemBegin, DeleteTicketBegin, DeleteBegin, MoveBegin, Foreign
  <2> QED
    BY <2>1, MoveAside
<1>4. \/ CreateProjectItem(h) \/ CreateTicket(h) \/ UpdateProjectItem(h) \/ UpdateTicket(h)
      \/ UpdateWorkflowState(h) \/ deleteEntityAndRevokeShares(h)
      => Aside(h, ops)
  BY EndAside DEF CreateProjectItem, CreateTicket, UpdateProjectItem, UpdateTicket, WriteRow, UpdateWorkflowState, deleteEntityAndRevokeShares
<1>5. CASE OtherItemsStep(h)
  BY <1>5, OtherItemsAside
<1> QED
  BY <1>1, <1>2, <1>3, <1>4, <1>5 DEF ItemsStep, OtherItemsStep

BacklogOp == {"rank"}

LEMMA BacklogAside ==
  ASSUME Shape, NEW h \in Handler, NEW ops, ops \cap BacklogOp = {}, BacklogStep(h)
  PROVE  Aside(h, ops)
<1> USE DEF BacklogOp
<1>1. CASE RankItem(h)
  <2>1. PICK r : Foreign(r, ops) /\ Begin(h, r)
    BY <1>1 DEF RankItem, Foreign
  <2> QED
    BY <2>1, MoveAside
<1>2. CASE RankItemRelative(h)
  <2>1. "op" \in DOMAIN req[h] /\ "pc" \in DOMAIN req[h] /\ req[h].op = "rank"
    BY <1>2 DEF RankItemRelative, At, Shape
  <2>2. End(h) \/ Go(h, [req[h] EXCEPT !.n = @ + 1])
    BY <1>2 DEF RankItemRelative
  <2> QED
    BY <2>1, <2>2, EndAside, GoAside
<1> QED
  BY <1>1, <1>2 DEF BacklogStep
RelationsOp == {"relate"}

LEMMA RelationsAside ==
  ASSUME Shape, NEW h \in Handler, NEW ops, ops \cap RelationsOp = {}, RelationsStep(h)
  PROVE  Aside(h, ops)
<1> USE DEF RelationsOp
<1>1. CASE CreateRelationBegin(h)
  <2>1. PICK r : Foreign(r, ops) /\ Begin(h, r)
    BY <1>1 DEF CreateRelationBegin, Foreign
  <2> QED
    BY <2>1, MoveAside
<1>2. CASE CheckFarSide(h)
  <2>1. End(h) \/ \E r : Foreign(r, ops) /\ Go(h, r)
    BY <1>2 DEF CheckFarSide, Foreign
  <2> QED
    BY <2>1, EndAside, MoveAside
<1>3. CASE CreateEntityRelation(h)
  BY <1>3, EndAside DEF CreateEntityRelation
<1>4. CASE DeleteEntityRelationInSpace(h)
  BY <1>4, ServeAside DEF DeleteEntityRelationInSpace
<1> QED
  BY <1>1, <1>2, <1>3, <1>4 DEF RelationsStep

FieldsOp == {"createfield", "updatefield", "archivefield", "deletefield", "setscope", "removescope", "reorder", "setvalue"}

LEMMA FieldsAside ==
  ASSUME Shape, NEW h \in Handler, NEW ops, ops \cap FieldsOp = {}, FieldsStep(h)
  PROVE  Aside(h, ops)
<1> USE DEF FieldsOp
<1>1. CASE CreateDefBegin(h) \/ UpdateDefBegin(h) \/ SetDefArchivedBegin(h) \/ DeleteDefBegin(h)
  <2>1. PICK r : Foreign(r, ops) /\ Begin(h, r)
    BY <1>1 DEF CreateDefBegin, UpdateDefBegin, SetDefArchivedBegin, DeleteDefBegin, Foreign
  <2> QED
    BY <2>1, MoveAside
<1>2. CASE SetScopeBegin(h) \/ RemoveScopeBegin(h) \/ ReorderFormBegin(h) \/ SetItemField(h) \/ SetTicketField(h)
  <2>1. PICK r : Foreign(r, ops) /\ Begin(h, r)
    BY <1>2 DEF SetScopeBegin, RemoveScopeBegin, ReorderFormBegin, SetItemField, SetTicketField, SetFieldBegin, Foreign
  <2> QED
    BY <2>1, MoveAside
<1>3. CASE slugIsFree(h)
  BY <1>3, EndAside, ForeignGo, MoveAside DEF slugIsFree
<1>4. CASE ReadFieldDef(h) \/ writableField(h)
  <2>1. End(h) \/ \E r : Foreign(r, ops) /\ Go(h, r)
    BY <1>4 DEF ReadFieldDef, writableField, Foreign
  <2> QED
    BY <2>1, EndAside, MoveAside
<1>5. CASE CreateCustomFieldDef(h) \/ UpdateCustomFieldDef(h) \/ SetCustomFieldDefArchived(h) \/ DeleteCustomFieldDef(h)
  BY <1>5, EndAside DEF CreateCustomFieldDef, UpdateCustomFieldDef, SetCustomFieldDefArchived, DeleteCustomFieldDef
<1>6. CASE UpsertCustomFieldScope(h) \/ DeleteCustomFieldScope(h) \/ ReorderCustomFieldScopes(h)
  BY <1>6, EndAside DEF UpsertCustomFieldScope, DeleteCustomFieldScope, ReorderCustomFieldScopes
<1>7. CASE UpsertEntityFieldValue(h) \/ clearValue(h)
  BY <1>7, EndAside DEF UpsertEntityFieldValue, clearValue
<1> QED
  BY <1>1, <1>2, <1>3, <1>4, <1>5, <1>6, <1>7 DEF FieldsStep

BoardsOp == {"replace", "deletecolumn", "readboard"}

LEMMA BoardsAside ==
  ASSUME Shape, NEW h \in Handler, NEW ops, ops \cap BoardsOp = {}, BoardsStep(h)
  PROVE  Aside(h, ops)
<1> USE DEF BoardsOp
<1>1. CASE SaveConfigBegin(h) \/ ResetConfigBegin(h) \/ DeleteColumnBegin(h)
  <2>1. PICK r : Foreign(r, ops) /\ Begin(h, r)
    BY <1>1 DEF SaveConfigBegin, ResetConfigBegin, DeleteColumnBegin, Foreign
  <2> QED
    BY <2>1, MoveAside
<1>2. CASE GetConfigBegin(h)
  <2>1. Serve \/ \E r : Foreign(r, ops) /\ Begin(h, r)
    BY <1>2 DEF GetConfigBegin, Foreign
  <2> QED
    BY <2>1, ServeAside, MoveAside
<1>3. CASE ReplaceConfigList(h)
  <2> DEFINE r == [req[h] EXCEPT !.pc = "write"]
  <2>1. PICK s : Go(h, With(r, s))
    BY <1>3 DEF ReplaceConfigList
  <2>2. "op" \in DOMAIN r /\ "pc" \in DOMAIN r /\ r.op = req[h].op /\ req[h].op = "replace"
    BY <1>3 DEF ReplaceConfigList, At, Shape
  <2> HIDE DEF r
  <2>3. "op" \in DOMAIN With(r, s) /\ "pc" \in DOMAIN With(r, s) /\ With(r, s).op = req[h].op
    BY <2>2, WithGoes
  <2> QED
    BY <2>1, <2>2, <2>3, GoAside
<1>4. CASE ReplaceConfig(h) \/ DeleteColumn(h) \/ GetConfig(h)
  BY <1>4, EndAside DEF ReplaceConfig, DeleteColumn, GetConfig
<1> QED
  BY <1>1, <1>2, <1>3, <1>4 DEF BoardsStep

CommentsOp == {"comment", "upload", "download", "deletefile"}

(* The steps of comments that are about files.                             *)
FilesOp == {"upload", "download", "deletefile"}

FilesStep(h) ==
  \/ UploadBegin(h) \/ UploadPageImage(h) \/ PutObject(h) \/ CreateAttachment(h) \/ DeleteObject(h) \/ UploadDies(h)
  \/ DownloadInSpace(h) \/ DownloadShared(h) \/ OpenForServing(h) \/ DeleteInSpace(h) \/ SoftDeleteAttachment(h)

LEMMA FilesAside ==
  ASSUME Shape, NEW h \in Handler, NEW ops, ops \cap FilesOp = {}, FilesStep(h)
  PROVE  Aside(h, ops)
<1> USE DEF FilesOp
<1>1. CASE UploadBegin(h) \/ UploadPageImage(h)
  <2>1. PICK r : Foreign(r, ops) /\ Begin(h, r)
    BY <1>1 DEF UploadBegin, UploadPageImage, UploadTo, Foreign
  <2> QED
    BY <2>1, MoveAside
<1>2. CASE DownloadInSpace(h) \/ DownloadShared(h) \/ DeleteInSpace(h)
  <2>1. PICK r : Foreign(r, ops) /\ Begin(h, r)
    BY <1>2 DEF DownloadInSpace, DownloadShared, DeleteInSpace, Foreign
  <2> QED
    BY <2>1, MoveAside
<1>3. CASE PutObject(h) \/ CreateAttachment(h)
  BY <1>3, EndAside, ForeignGo, MoveAside DEF PutObject, CreateAttachment
<1>4. CASE DeleteObject(h) \/ UploadDies(h) \/ OpenForServing(h) \/ SoftDeleteAttachment(h)
  BY <1>4, EndAside DEF DeleteObject, UploadDies, OpenForServing, SoftDeleteAttachment
<1> QED
  BY <1>1, <1>2, <1>3, <1>4 DEF FilesStep

LEMMA CommentsAside ==
  ASSUME Shape, NEW h \in Handler, NEW ops, ops \cap CommentsOp = {}, CommentsStep(h)
  PROVE  Aside(h, ops)
<1> USE DEF CommentsOp
<1>1. CASE CreateCommentBegin(h)
  <2>1. PICK r : Foreign(r, ops) /\ Begin(h, r)
    BY <1>1 DEF CreateCommentBegin, Foreign
  <2> QED
    BY <2>1, MoveAside
<1>2. CASE CreateComment(h)
  BY <1>2, EndAside DEF CreateComment
<1>3. CASE FilesStep(h)
  BY <1>3, FilesAside DEF FilesOp
<1> QED
  BY <1>1, <1>2, <1>3 DEF CommentsStep, FilesStep

DeskOp == {"portal", "link", "submit", "reply"}

(* The portal's steps but for those of a sign-in link.                     *)
DeskStep(h) ==
  \/ CreateConfig(h) \/ CreatePortal(h) \/ UpdatePortal(h) \/ RequestLinkBegin(h) \/ UpsertRequester(h) \/ SignOut(h)
  \/ SubmitBegin(h) \/ ReadRequestNumber(h) \/ CreatePortalRequest(h) \/ ReplyBegin(h) \/ CreateRequesterComment(h)

OtherDeskOp == {"portal", "link", "submit"}

(* Those of them that write in no thread.                                  *)
OtherDeskStep(h) ==
  \/ CreateConfig(h) \/ CreatePortal(h) \/ UpdatePortal(h) \/ RequestLinkBegin(h) \/ UpsertRequester(h) \/ SignOut(h)
  \/ SubmitBegin(h) \/ ReadRequestNumber(h) \/ CreatePortalRequest(h)

LEMMA OtherDeskAside ==
  ASSUME Shape, NEW h \in Handler, NEW ops, ops \cap OtherDeskOp = {}, OtherDeskStep(h)
  PROVE  Aside(h, ops)
<1> USE DEF OtherDeskOp
<1>1. CASE CreateConfig(h) \/ RequestLinkBegin(h) \/ SubmitBegin(h)
  <2>1. PICK r : Foreign(r, ops) /\ Begin(h, r)
    BY <1>1 DEF CreateConfig, RequestLinkBegin, SubmitBegin, Foreign
  <2> QED
    BY <2>1, MoveAside
<1>2. CASE UpdatePortal(h) \/ SignOut(h)
  BY <1>2, ServeAside DEF UpdatePortal, SignOut
<1>3. CASE UpsertRequester(h)
  <2> DEFINE r == [req[h] EXCEPT !.pc = "invalidate"]
  <2>1. End(h) \/ \E s : Go(h, With(r, s))
    BY <1>3 DEF UpsertRequester
  <2>2. "op" \in DOMAIN r /\ "pc" \in DOMAIN r /\ r.op = req[h].op /\ req[h].op = "link"
    BY <1>3 DEF UpsertRequester, At, Shape
  <2> HIDE DEF r
  <2>3. ASSUME NEW s PROVE "op" \in DOMAIN With(r, s) /\ "pc" \in DOMAIN With(r, s) /\ With(r, s).op = req[h].op
    BY <2>2, WithGoes
  <2> QED
    BY <2>1, <2>2, <2>3, GoAside, EndAside
<1>4. CASE ReadRequestNumber(h)
  <2>1. "op" \in DOMAIN req[h] /\ "pc" \in DOMAIN req[h] /\ req[h].op = "submit"
    BY <1>4 DEF ReadRequestNumber, At, Shape
  <2>2. PICK n : Go(h, [req[h] EXCEPT !.pc = "insert", !.num = n, !.tries = @ + 1])
    BY <1>4 DEF ReadRequestNumber
  <2> QED
    BY <2>1, <2>2, GoAside
<1>5. CASE CreatePortalRequest(h)
  BY <1>5, EndAside, ForeignGo, MoveAside DEF CreatePortalRequest
<1>6. CASE CreatePortal(h)
  BY <1>6, EndAside DEF CreatePortal
<1> QED
  BY <1>1, <1>2, <1>3, <1>4, <1>5, <1>6 DEF OtherDeskStep

LEMMA DeskAside ==
  ASSUME Shape, NEW h \in Handler, NEW ops, ops \cap DeskOp = {}, DeskStep(h)
  PROVE  Aside(h, ops)
<1> USE DEF DeskOp
<1>1. CASE ReplyBegin(h)
  <2>1. PICK r : Foreign(r, ops) /\ Begin(h, r)
    BY <1>1 DEF ReplyBegin, Foreign
  <2> QED
    BY <2>1, MoveAside
<1>2. CASE CreateRequesterComment(h)
  BY <1>2, EndAside DEF CreateRequesterComment
<1>3. CASE OtherDeskStep(h)
  BY <1>3, OtherDeskAside DEF OtherDeskOp
<1> QED
  BY <1>1, <1>2, <1>3 DEF DeskStep, OtherDeskStep

PortalOp == DeskOp \cup {"redeem"}

LinkOp == {"redeem", "link"}

(* The steps of a sign-in link, without the statement that locks some.     *)
LinkStep(h) == RedeemBegin(h) \/ ConsumeMagicLink(h) \/ CreateMagicLink(h) \/ IssueSession(h)

LEMMA LinkAside ==
  ASSUME Shape, NEW h \in Handler, NEW ops, ops \cap LinkOp = {}, LinkStep(h)
  PROVE  Aside(h, ops)
<1> USE DEF LinkOp
<1>1. CASE RedeemBegin(h)
  <2>1. PICK r : Foreign(r, ops) /\ Begin(h, r)
    BY <1>1 DEF RedeemBegin, Foreign
  <2> QED
    BY <2>1, MoveAside
<1>2. CASE ConsumeMagicLink(h)
  BY <1>2, EndAside, ForeignGo, MoveAside DEF ConsumeMagicLink
<1>3. CASE CreateMagicLink(h) \/ IssueSession(h)
  BY <1>3, EndAside DEF CreateMagicLink, IssueSession
<1> QED
  BY <1>1, <1>2, <1>3 DEF LinkStep

LEMMA PortalAside ==
  ASSUME Shape, NEW h \in Handler, NEW ops, ops \cap PortalOp = {}, PortalStep(h), ~InvalidateOutstandingLinks(h)
  PROVE  Aside(h, ops)
BY DeskAside, LinkAside DEF PortalOp, DeskOp, LinkOp, PortalStep, DeskStep, LinkStep

ViewsOp == {"createview", "updateview", "deleteview", "results"}

LEMMA ViewsAside ==
  ASSUME Shape, NEW h \in Handler, NEW ops, ops \cap ViewsOp = {}, ViewsStep(h)
  PROVE  Aside(h, ops)
<1> USE DEF ViewsOp
<1>1. CASE CreateViewBegin(h)
  <2>1. PICK r : Foreign(r, ops) /\ Begin(h, r)
    BY <1>1 DEF CreateViewBegin, Foreign
  <2> QED
    BY <2>1, MoveAside
<1>2. CASE UpdateViewBegin(h)
  <2>1. PICK r : Foreign(r, ops) /\ Begin(h, r)
    BY <1>2 DEF UpdateViewBegin, Foreign
  <2> QED
    BY <2>1, MoveAside
<1>3. CASE DeleteViewBegin(h)
  <2>1. PICK r : Foreign(r, ops) /\ Begin(h, r)
    BY <1>3 DEF DeleteViewBegin, Foreign
  <2> QED
    BY <2>1, MoveAside
<1>4. CASE ResultsBegin(h)
  <2>1. PICK r : Foreign(r, ops) /\ Begin(h, r)
    BY <1>4 DEF ResultsBegin, Foreign
  <2> QED
    BY <2>1, MoveAside
<1>5. CASE ReadTickets(h) \/ Resolve(h) \/ NextPage(h)
  <2>1. "op" \in DOMAIN req[h] /\ "pc" \in DOMAIN req[h] /\ req[h].op = "results"
    BY <1>5 DEF ReadTickets, Resolve, NextPage, At, Shape
  <2>2. CASE ReadTickets(h)
    <3>1. PICK a, g : Go(h, [req[h] EXCEPT !.pc = "items", !.always = a, !.got = g])
      BY <2>2 DEF ReadTickets
    <3> QED
      BY <2>1, <3>1, GoAside
  <2>3. CASE Resolve(h)
    <3>1. PICK pc, a, ps, c : Go(h, [req[h] EXCEPT !.pc = pc, !.always = a, !.got = {}, !.pages = ps, !.after = c])
      BY <2>3 DEF Resolve
    <3> QED
      BY <2>1, <3>1, GoAside
  <2>4. CASE NextPage(h)
    <3>1. PICK v, ps, a : Go(h, [req[h] EXCEPT !.pc = "tickets", !.viewer = v, !.pages = ps, !.always = a])
      BY <2>4 DEF NextPage
    <3> QED
      BY <2>1, <3>1, GoAside
  <2> QED
    BY <1>5, <2>2, <2>3, <2>4
<1>6. CASE CreateSavedView(h) \/ UpdateSavedView(h) \/ SoftDeleteSavedView(h) \/ LastPage(h)
  BY <1>6, EndAside DEF CreateSavedView, UpdateSavedView, SoftDeleteSavedView, LastPage
<1> QED
  BY <1>1, <1>2, <1>3, <1>4, <1>5, <1>6 DEF ViewsStep

SearchOp == {"search"}

LEMMA SearchAside ==
  ASSUME Shape, NEW h \in Handler, NEW ops, ops \cap SearchOp = {}, SearchStep(h)
  PROVE  Aside(h, ops)
<1> USE DEF SearchOp
<1>1. CASE SearchBegin(h)
  <2>1. PICK r : Foreign(r, ops) /\ Begin(h, r)
    BY <1>1 DEF SearchBegin, Foreign
  <2> QED
    BY <2>1, MoveAside
<1>2. CASE ~SearchBegin(h) /\ ~LastHits(h)
  <2>1. "op" \in DOMAIN req[h] /\ "pc" \in DOMAIN req[h] /\ req[h].op = "search"
    BY <1>2 DEF SearchStep, fanout, cut, fillSnippets, NextHits, At, Shape
  <2>2. ASSUME NEW n \in 1 .. 3, fanout(h, n) PROVE Aside(h, ops)
    <3>1. PICK pc, t, a, m : Go(h, [[req[h] EXCEPT !.pc = pc, !.hit = t] EXCEPT !.always = a, !.may = m])
      BY <2>2 DEF fanout, Watch
    <3> QED
      BY <2>1, <3>1, GoAside
  <2>3. CASE cut(h)
    <3>1. PICK s, f, n, a, m :
            Go(h, [[req[h] EXCEPT !.pc = "snippets", !.hit = {}, !.now = n, !.found = f, !.since = s] EXCEPT !.always = a, !.may = m])
      BY <2>3 DEF cut, Watch
    <3> QED
      BY <2>1, <3>1, GoAside
  <2>4. CASE fillSnippets(h)
    <3>1. PICK pc, e : Go(h, [req[h] EXCEPT !.pc = pc, !.excerpts = e])
      BY <2>4 DEF fillSnippets
    <3> QED
      BY <2>1, <3>1, GoAside
  <2>5. CASE NextHits(h)
    <3>1. End(h) \/ \E pc, c, a, m : Go(h, [req[h] EXCEPT !.pc = pc, !.caller = c, !.now = {}, !.excerpts = {}, !.always = a, !.may = m])
      BY <2>5 DEF NextHits
    <3> QED
      BY <2>1, <3>1, GoAside, EndAside
  <2> QED
    BY <1>2, <2>2, <2>3, <2>4, <2>5 DEF SearchStep
<1>3. CASE LastHits(h)
  BY <1>3, EndAside DEF LastHits
<1> QED
  BY <1>1, <1>2, <1>3

QueuesOp == {"createqueue", "seedqueues", "updatequeue", "deletequeue", "reorderqueues"}

LEMMA QueuesAside ==
  ASSUME Shape, NEW h \in Handler, NEW ops, ops \cap QueuesOp = {}, QueuesStep(h)
  PROVE  Aside(h, ops)
<1> USE DEF QueuesOp
<1>1. CASE CreateQueueBegin(h) \/ CreateDefaultQueuesBegin(h)
  <2>1. PICK r : Foreign(r, ops) /\ Begin(h, r)
    BY <1>1 DEF CreateQueueBegin, CreateDefaultQueuesBegin, Foreign
  <2> QED
    BY <2>1, MoveAside
<1>2. CASE UpdateQueueBegin(h) \/ DeleteQueueBegin(h) \/ ReorderQueuesBegin(h)
  <2>1. PICK r : Foreign(r, ops) /\ Begin(h, r)
    BY <1>2 DEF UpdateQueueBegin, DeleteQueueBegin, ReorderQueuesBegin, Foreign
  <2> QED
    BY <2>1, MoveAside
<1>3. CASE ReadQueuePosition(h)
  <2>1. PICK n : Go(h, With([pc |-> "insert", pos |-> n], req[h]))
    BY <1>3 DEF ReadQueuePosition
  <2> DEFINE r == With([pc |-> "insert", pos |-> n], req[h])
  <2>2. "op" \in DOMAIN req[h] /\ req[h].op \in QueuesOp
    BY <1>3 DEF ReadQueuePosition, At, Shape
  <2>3. "op" \in DOMAIN r /\ "pc" \in DOMAIN r /\ r.op = req[h].op
    BY <2>2 DEF With
  <2> QED
    BY <2>1, <2>2, <2>3, GoAside
<1>4. CASE CreateQueueIfAbsent(h)
  <2>1. "op" \in DOMAIN req[h] /\ "pc" \in DOMAIN req[h] /\ req[h].op = "seedqueues"
    BY <1>4 DEF CreateQueueIfAbsent, At, Shape
  <2>2. End(h) \/ \E n, p : Go(h, [req[h] EXCEPT !.names = n, !.pos = p])
    BY <1>4 DEF CreateQueueIfAbsent
  <2> QED
    BY <2>1, <2>2, GoAside, EndAside
<1>5. CASE CompareOrder(h)
  BY <1>5, EndAside, ForeignGo, MoveAside DEF CompareOrder
<1>6. CASE CreateQueue(h) \/ UpdateQueue(h) \/ SoftDeleteQueue(h) \/ ReorderQueues(h)
  BY <1>6, EndAside DEF CreateQueue, UpdateQueue, SoftDeleteQueue, ReorderQueues
<1> QED
  BY <1>1, <1>2, <1>3, <1>4, <1>5, <1>6 DEF QueuesStep

DashboardsOp == {"createboard", "updateboard", "deleteboard", "setgadgets", "home"}

LEMMA DashboardsAside ==
  ASSUME Shape, NEW h \in Handler, NEW ops, ops \cap DashboardsOp = {}, DashboardsStep(h)
  PROVE  Aside(h, ops)
<1> USE DEF DashboardsOp
<1>1. CASE CreateBoardBegin(h)
  <2>1. PICK r : Foreign(r, ops) /\ Begin(h, r)
    BY <1>1 DEF CreateBoardBegin, Foreign
  <2> QED
    BY <2>1, MoveAside
<1>2. CASE UpdateBoardBegin(h)
  <2>1. PICK r : Foreign(r, ops) /\ Begin(h, r)
    BY <1>2 DEF UpdateBoardBegin, Foreign
  <2> QED
    BY <2>1, MoveAside
<1>3. CASE DeleteBoardBegin(h) \/ SetGadgetsBegin(h)
  <2>1. PICK r : Foreign(r, ops) /\ Begin(h, r)
    BY <1>3 DEF DeleteBoardBegin, SetGadgetsBegin, Foreign
  <2> QED
    BY <2>1, MoveAside
<1>4. CASE DeleteDashboardGadgets(h)
  <2>1. PICK ts : Go(h, With([pc |-> "insert", olds |-> ts], req[h]))
    BY <1>4 DEF DeleteDashboardGadgets
  <2> DEFINE r == With([pc |-> "insert", olds |-> ts], req[h])
  <2>2. "op" \in DOMAIN req[h] /\ req[h].op = "setgadgets"
    BY <1>4 DEF DeleteDashboardGadgets, At, Shape
  <2>3. "op" \in DOMAIN r /\ "pc" \in DOMAIN r /\ r.op = req[h].op
    BY <2>2 DEF With
  <2> QED
    BY <2>1, <2>2, <2>3, GoAside
<1>5. CASE ResolveHome(h)
  <2>1. Serve \/ \E r : Foreign(r, ops) /\ Begin(h, r)
    BY <1>5 DEF ResolveHome, Foreign
  <2> QED
    BY <2>1, ServeAside, MoveAside
<1>6. CASE CreateStarterDashboard(h)
  BY <1>6, ForeignGo, MoveAside DEF CreateStarterDashboard
<1>7. CASE CreateDashboard(h) \/ UpdateDashboard(h) \/ SoftDeleteDashboard(h) \/ ReplaceGadgets(h) \/ ReadHome(h)
  BY <1>7, EndAside DEF CreateDashboard, UpdateDashboard, SoftDeleteDashboard, ReplaceGadgets, ReadHome
<1> QED
  BY <1>1, <1>2, <1>3, <1>4, <1>5, <1>6, <1>7 DEF DashboardsStep

LEMMA PortalApart ==
  ASSUME Shape, NEW h \in Handler, NEW ops, ops \cap PortalOp = {}, PortalStep(h)
  PROVE  Apart(h, ops)
<1>1. CASE InvalidateOutstandingLinks(h)
  <2>1. PICK rows, r : GoLocked(h, rows, r) /\ {"op", "pc"} \subseteq DOMAIN r /\ r.op = "link"
    BY <1>1 DEF InvalidateOutstandingLinks
  <2> QED
    BY <2>1, Locking DEF Apart, Foreign, PortalOp, DeskOp
<1> QED
  BY <1>1, PortalAside, AsideIsApart

(* Whatever happens, the table and the locks keep their shape.             *)
LEMMA SomebodyApart ==
  ASSUME Shape, TrackerNext
  PROVE  (\E h \in Handler : Apart(h, {})) \/ (UNCHANGED <<req, held, mix>> /\ served' \in {served, served + 1})
<1>1. ASSUME NEW h \in Handler, AccessStep(h) \/ SpacesStep(h) \/ SharesStep(h) \/ ItemsStep(h) \/ BacklogStep(h) \/ RelationsStep(h)
      PROVE  Apart(h, {})
  BY <1>1, AsideIsApart, AccessAside, SpacesAside, SharesAside, ItemsAside, BacklogAside, RelationsAside
<1>2. ASSUME NEW h \in Handler, FieldsStep(h) \/ BoardsStep(h) \/ CommentsStep(h) \/ PortalStep(h)
      PROVE  Apart(h, {})
  BY <1>2, AsideIsApart, FieldsAside, BoardsAside, CommentsAside, PortalApart
<1>3. ASSUME NEW h \in Handler, ViewsStep(h) \/ SearchStep(h) \/ QueuesStep(h) \/ DashboardsStep(h)
      PROVE  Apart(h, {})
  BY <1>3, AsideIsApart, ViewsAside, SearchAside, QueuesAside, DashboardsAside
<1>4. CASE EmptySearch \/ LinkExpires
  BY <1>4 DEF EmptySearch, Serve, LinkExpires, serverVars
<1> QED
  BY <1>1, <1>2, <1>3, <1>4 DEF TrackerNext

LEMMA ShapeNext ==
  ASSUME Shape, [TrackerNext]_trackerVars
  PROVE  Shape'
<1>1. CASE TrackerNext
  <2>1. ASSUME NEW h \in Handler, Apart(h, {}) PROVE Shape'
    BY <2>1 DEF Shape, Apart, Alone, Foreign, Idle
  <2> QED
    BY <1>1, <2>1, SomebodyApart DEF Shape
<1>2. CASE UNCHANGED trackerVars
  BY <1>2 DEF Shape, trackerVars, serverVars
<1> QED
  BY <1>1, <1>2

LEMMA ShapeInit == ASSUME TrackerInit PROVE Shape
BY DEF TrackerInit, ServerInit, Shape, Idle

(* The lowest of some numbers is one of them.                              *)
LEMMA MinIn == ASSUME NEW S, S \subseteq Nat, S # {} PROVE Min(S) \in S /\ \A n \in S : Min(S) <= n
<1>1. PICK m \in S : \A n \in S : ~(<<n, m>> \in OpToRel(<, Nat))
  BY WFMin, NatLessThanWellFounded
<1>2. \A n \in S : ~(n < m)
  BY <1>1, Zenon DEF OpToRel
<1>3. \A n \in S : m <= n
  BY <1>2
<1> QED
  BY <1>3 DEF Min

-----------------------------------------------------------------------------
(* The invariants *)

(* The workload is one of those there are.                                 *)
Chosen == \E n \in DOMAIN Mixes : mix = With([name |-> n], Mixes[n])

(* An upload has its key for itself until the row is inserted, and the     *)
(* object is there before it.                                              *)
FileRequest(r) ==
  /\ r.op \in FilesOp => r.f \in FileId
  /\ r.op = "upload" => file[r.f].st = "none" /\ (r.pc = "row" => r.f \in object)
  /\ r.op \in {"download", "deletefile"} => file[r.f].st # "none"
FilesKept ==
  /\ \A f \in FileId : file[f].st # "none" => f \in object
  /\ DOMAIN file = FileId /\ \A f \in FileId : "st" \in DOMAIN file[f]
  /\ \A h \in Handler : FileRequest(req[h])
  /\ \A h, k \in Handler : h # k /\ req[h].op = "upload" /\ req[k].op = "upload" => req[h].f # req[k].f

(* A link that has opened a session, or is about to, is used up and stays  *)
(* so: nobody else is about to open one with it, and no statement that     *)
(* invalidates the outstanding ones has it locked.                         *)
LinkRowShape(l) == mlink[l] = [st |-> mlink[l].st, q |-> mlink[l].q, sp |-> mlink[l].sp]
Opening(h) == At(h, "redeem", "session")
LinksKept ==
  /\ DOMAIN mlink = MagicLink /\ \A l \in MagicLink : LinkRowShape(l)
  /\ \A s \in psession : s.l \in MagicLink
  /\ LinkOpensOneSession
  /\ \A h \in Handler : req[h].op = "redeem" => req[h].l \in MagicLink
  /\ \A h \in Handler : Opening(h) => mlink[req[h].l].st = "consumed" /\ \A s \in psession : s.l # req[h].l
  /\ \A h, k \in Handler : h # k /\ Opening(h) /\ Opening(k) => req[h].l # req[k].l
  /\ \A h \in Handler, l \in MagicLink : LinkRow(l) \in held[h] =>
       /\ mlink[l].st \in {"live", "expired"}
       /\ req[h].op \notin {"idle", "redeem"}
       /\ \A k \in Handler \ {h} : LinkRow(l) \notin held[k]

(* A row that was read says of what never changes what the row says now.   *)
Born(i) == item[i].st # "absent"
SameRow(r, s) == r.et = s.et /\ r.sp = s.sp /\ r.num = s.num /\ r.key = s.key /\ r.by = s.by
ReadRow(r, i) == i \in Item /\ Born(i) /\ DOMAIN r = DOMAIN NoItem /\ r.st = "live" /\ SameRow(r, item[i])
RowOp == {"createitem", "updateitem", "updateticket", "movestatus", "deleteitem", "rank"}
ItemRequest(r) ==
  /\ r.op = "createitem" => r.sp \in Space
  /\ r.op \in {"updateitem", "updateticket"} => ReadRow(r.row, r.i)
  /\ r.op \in {"deleteitem", "movestatus"} => r.i \in Item /\ Born(r.i)
  /\ r.op = "rank" => /\ r.order \in Seq(Item) /\ r.n \in 1 .. Len(r.order)
                      /\ \A m \in 1 .. Len(r.order) : ReadRow(r.rows[r.order[m]], r.order[m])
RowShape(r) ==
  /\ DOMAIN r = DOMAIN NoItem
  /\ r.st = "absent" => r = NoItem
  /\ r.st # "absent" => r.st \in {"live", "deleted"} /\ r.et \in {"item", "ticket"}
  /\ r.et = "ticket" => r.key = Nil
Distinct(i, j) ==
  item[i].et = item[j].et =>
    /\ item[i].sp = item[j].sp => item[i].num # item[j].num
    /\ item[i].et = "item" /\ SpaceOrg[item[i].sp] = SpaceOrg[item[j].sp] => item[i].key # item[j].key
TableKept ==
  /\ DOMAIN item = Item /\ DOMAIN seqno = Space
  /\ \A i \in Item : RowShape(item[i])
  /\ \A sp \in Space : seqno[sp] \in Nat /\ {item[i].num : i \in Rows(sp, "item")} = 1 .. seqno[sp]
  /\ \A i, j \in Item : i # j /\ Born(i) => Distinct(i, j)
NumbersKept == TableKept /\ \A h \in Handler : ItemRequest(req[h])

(* A relation has two ends.                                                *)
TwoEnds(from, to) == from # to /\ from \in Entity /\ to \in Entity
RelationsKept ==
  /\ DOMAIN rel = RelId
  /\ \A i \in RelId : DOMAIN rel[i] = DOMAIN NoRel /\ (rel[i].st = "live" => TwoEnds(rel[i].from, rel[i].to))
  /\ \A h \in Handler : req[h].op = "relate" => TwoEnds(req[h].from, req[h].to)

(* What a customer writes is on a ticket of his own, for him to see.       *)
ThreadsKept ==
  /\ \A c \in CommentId : comment[c].st = "live" /\ comment[c].by \in Customers =>
       comment[c].e \in Item /\ Born(comment[c].e) /\ item[comment[c].e].by = comment[c].by /\ comment[c].vis = "public"
  /\ \A h \in Handler : /\ req[h].op = "reply" => req[h].e \in Item /\ Born(req[h].e) /\ item[req[h].e].by = req[h].by
                        /\ req[h].op = "comment" => req[h].by \in User

(* A layout is saved under a number of its own, and what a save deletes of *)
(* a dashboard is whole layouts.                                           *)
Boarded(d) == d \in Board /\ dash[d].st # "absent"
Saving(h) == req[h].op = "setgadgets" \/ At(h, "home", "seed")
Deleting(h) == At(h, "setgadgets", "insert")
BoardRequest(r) ==
  /\ r.op \in {"createboard", "updateboard"} => DOMAIN r.brow = DOMAIN NoBoard /\ r.brow.st = "live"
  /\ r.op \in {"updateboard", "deleteboard"} => r.did \in Board
  /\ r.op = "setgadgets" =>
       /\ {"did", "layout", "n"} \subseteq DOMAIN r
       /\ Boarded(r.did)
       /\ r.layout \in Seq(Gadget) /\ \A n \in DOMAIN r.layout : r.layout[n].vid # Nil => r.layout[n].key = "view_results"
LayoutsKept ==
  /\ served \in Nat
  /\ DOMAIN dash = Board /\ \A d \in Board : DOMAIN dash[d] = DOMAIN NoBoard
  /\ OneDefault(dash)
  /\ \A t \in tile : Boarded(t.d) /\ t.by \in 0 .. served /\ (t.vid # Nil => t.key = "view_results")
  /\ \A d \in Board : WholeLayout(ListDashboardGadgets(d))
  /\ \A h \in Handler : BoardRequest(req[h])
  /\ \A h \in Handler : Saving(h) => req[h].n \in 1 .. served /\ \A t \in tile : t.by # req[h].n
  /\ \A h, k \in Handler : h # k /\ Saving(h) /\ Saving(k) => req[h].n # req[k].n
  /\ \A k \in Handler : Deleting(k) =>
       /\ \A s \in req[k].olds : s.d = req[k].did /\ s.by \in 0 .. served /\ \A h \in Handler : Saving(h) => s.by # req[h].n
       /\ \A s \in req[k].olds, t \in tile : t.d = req[k].did /\ t.by = s.by => t \in req[k].olds

(* The portal has no hand in files, relations and the items' counters.     *)
LEMMA PortalLeavesFiles ==
  ASSUME NEW h \in Handler, PortalStep(h)
  PROVE  UNCHANGED <<seqno, rel, file, object>>
<1> USE DEF deskVars
<1>1. CASE CreateConfig(h) \/ CreatePortal(h) \/ UpdatePortal(h)
  BY <1>1 DEF CreateConfig, CreatePortal, UpdatePortal
<1>2. CASE RequestLinkBegin(h) \/ UpsertRequester(h) \/ InvalidateOutstandingLinks(h) \/ CreateMagicLink(h)
  BY <1>2 DEF RequestLinkBegin, UpsertRequester, InvalidateOutstandingLinks, CreateMagicLink
<1>3. CASE RedeemBegin(h) \/ ConsumeMagicLink(h) \/ IssueSession(h) \/ SignOut(h)
  BY <1>3 DEF RedeemBegin, ConsumeMagicLink, IssueSession, SignOut
<1>4. CASE SubmitBegin(h) \/ ReadRequestNumber(h) \/ CreatePortalRequest(h) \/ ReplyBegin(h) \/ CreateRequesterComment(h)
  BY <1>4 DEF SubmitBegin, ReadRequestNumber, CreatePortalRequest, ReplyBegin, CreateRequesterComment
<1> QED
  BY <1>1, <1>2, <1>3, <1>4 DEF PortalStep

-----------------------------------------------------------------------------
(* What the steps of each part leave alone                                 *)

LEMMA FieldsLeaveRows == ASSUME NEW h \in Handler, FieldsStep(h) PROVE UNCHANGED itemVars
<1>1. CASE CreateDefBegin(h) \/ UpdateDefBegin(h) \/ SetDefArchivedBegin(h) \/ DeleteDefBegin(h)
  BY <1>1 DEF CreateDefBegin, UpdateDefBegin, SetDefArchivedBegin, DeleteDefBegin
<1>2. CASE SetScopeBegin(h) \/ RemoveScopeBegin(h) \/ ReorderFormBegin(h) \/ SetItemField(h) \/ SetTicketField(h)
  BY <1>2 DEF SetScopeBegin, RemoveScopeBegin, ReorderFormBegin, SetItemField, SetTicketField, SetFieldBegin
<1>3. CASE slugIsFree(h) \/ ReadFieldDef(h) \/ writableField(h)
  BY <1>3 DEF slugIsFree, ReadFieldDef, writableField
<1>4. CASE CreateCustomFieldDef(h) \/ UpdateCustomFieldDef(h) \/ SetCustomFieldDefArchived(h) \/ DeleteCustomFieldDef(h)
  BY <1>4 DEF CreateCustomFieldDef, UpdateCustomFieldDef, SetCustomFieldDefArchived, DeleteCustomFieldDef
<1>5. CASE UpsertCustomFieldScope(h) \/ DeleteCustomFieldScope(h) \/ ReorderCustomFieldScopes(h)
  BY <1>5 DEF UpsertCustomFieldScope, DeleteCustomFieldScope, ReorderCustomFieldScopes
<1>6. CASE UpsertEntityFieldValue(h) \/ clearValue(h)
  BY <1>6 DEF UpsertEntityFieldValue, clearValue
<1> QED
  BY <1>1, <1>2, <1>3, <1>4, <1>5, <1>6 DEF FieldsStep

LEMMA BoardsLeaveRows == ASSUME NEW h \in Handler, BoardsStep(h) PROVE UNCHANGED itemVars
BY DEF BoardsStep, SaveConfigBegin, ResetConfigBegin, ReplaceConfigList, ReplaceConfig, DeleteColumnBegin, DeleteColumn,
       GetConfigBegin, GetConfig

LEMMA ViewsLeaveRows == ASSUME NEW h \in Handler, ViewsStep(h) PROVE UNCHANGED itemVars
<1>1. CASE CreateViewBegin(h) \/ UpdateViewBegin(h) \/ DeleteViewBegin(h) \/ ResultsBegin(h)
  BY <1>1 DEF CreateViewBegin, UpdateViewBegin, DeleteViewBegin, ResultsBegin
<1>2. CASE CreateSavedView(h) \/ UpdateSavedView(h) \/ SoftDeleteSavedView(h)
  BY <1>2 DEF CreateSavedView, UpdateSavedView, SoftDeleteSavedView
<1>3. CASE ReadTickets(h) \/ Resolve(h) \/ NextPage(h) \/ LastPage(h)
  BY <1>3 DEF ReadTickets, Resolve, NextPage, LastPage
<1> QED
  BY <1>1, <1>2, <1>3 DEF ViewsStep

LEMMA SearchLeavesRows == ASSUME NEW h \in Handler, SearchStep(h) PROVE UNCHANGED itemVars
<1>1. ASSUME NEW n, fanout(h, n) PROVE UNCHANGED itemVars
  BY <1>1 DEF fanout
<1> QED
  BY <1>1 DEF SearchStep, SearchBegin, cut, fillSnippets, NextHits, LastHits

LEMMA QueuesLeaveRows == ASSUME NEW h \in Handler, QueuesStep(h) PROVE UNCHANGED itemVars
<1>1. CASE CreateQueueBegin(h) \/ CreateDefaultQueuesBegin(h) \/ UpdateQueueBegin(h) \/ DeleteQueueBegin(h) \/ ReorderQueuesBegin(h)
  BY <1>1 DEF CreateQueueBegin, CreateDefaultQueuesBegin, UpdateQueueBegin, DeleteQueueBegin, ReorderQueuesBegin
<1>2. CASE ReadQueuePosition(h) \/ CreateQueueIfAbsent(h) \/ CompareOrder(h)
  BY <1>2 DEF ReadQueuePosition, CreateQueueIfAbsent, CompareOrder
<1>3. CASE CreateQueue(h) \/ UpdateQueue(h) \/ SoftDeleteQueue(h) \/ ReorderQueues(h)
  BY <1>3 DEF CreateQueue, UpdateQueue, SoftDeleteQueue, ReorderQueues
<1> QED
  BY <1>1, <1>2, <1>3 DEF QueuesStep

LEMMA DashboardsLeaveRows == ASSUME NEW h \in Handler, DashboardsStep(h) PROVE UNCHANGED itemVars
<1>1. CASE CreateBoardBegin(h) \/ UpdateBoardBegin(h) \/ DeleteBoardBegin(h) \/ SetGadgetsBegin(h) \/ ResolveHome(h)
  BY <1>1 DEF CreateBoardBegin, UpdateBoardBegin, DeleteBoardBegin, SetGadgetsBegin, ResolveHome
<1>2. CASE CreateDashboard(h) \/ UpdateDashboard(h) \/ SoftDeleteDashboard(h)
  BY <1>2 DEF CreateDashboard, UpdateDashboard, SoftDeleteDashboard
<1>3. CASE DeleteDashboardGadgets(h) \/ ReplaceGadgets(h) \/ CreateStarterDashboard(h) \/ ReadHome(h)
  BY <1>3 DEF DeleteDashboardGadgets, ReplaceGadgets, CreateStarterDashboard, ReadHome
<1> QED
  BY <1>1, <1>2, <1>3 DEF DashboardsStep

LEMMA CommentsLeaveRows == ASSUME NEW h \in Handler, CommentsStep(h) PROVE UNCHANGED <<itemVars, rel>>
<1>1. CASE CreateCommentBegin(h) \/ CreateComment(h) \/ UploadBegin(h) \/ UploadPageImage(h) \/ PutObject(h)
  BY <1>1 DEF CreateCommentBegin, CreateComment, UploadBegin, UploadPageImage, UploadTo, PutObject
<1>2. CASE CreateAttachment(h) \/ DeleteObject(h) \/ UploadDies(h)
  BY <1>2 DEF CreateAttachment, DeleteObject, UploadDies
<1>3. CASE DownloadInSpace(h) \/ DownloadShared(h) \/ OpenForServing(h) \/ DeleteInSpace(h) \/ SoftDeleteAttachment(h)
  BY <1>3 DEF DownloadInSpace, DownloadShared, OpenForServing, DeleteInSpace, SoftDeleteAttachment
<1> QED
  BY <1>1, <1>2, <1>3 DEF CommentsStep

LEMMA RelationsLeaveRows == ASSUME NEW h \in Handler, RelationsStep(h) PROVE UNCHANGED itemVars
BY DEF RelationsStep, CreateRelationBegin, CheckFarSide, CreateEntityRelation, DeleteEntityRelationInSpace

-----------------------------------------------------------------------------
(* Files                                                                   *)

LEMMA FilesApart ==
  ASSUME Shape, FilesKept, NEW h \in Handler, Apart(h, FilesOp), UNCHANGED <<file, object>>
  PROVE  FilesKept'
<1>1. \A k \in Handler : req'[k] = req[k] \/ (req'[k].op \notin FilesOp)
  BY DEF Apart, Alone, Foreign, Idle, FilesOp
<1>2. \A k \in Handler : FileRequest(req[k])'
  BY <1>1 DEF FilesKept, FileRequest, FilesOp
<1> QED
  BY <1>1, <1>2 DEF FilesKept, FilesOp

(* The row of f is new, or the object of f goes, or neither.               *)
LEMMA FilesByComments ==
  ASSUME Shape, FilesKept, NEW h \in Handler, CommentsStep(h)
  PROVE  FilesKept'
<1>1. ASSUME NEW e, UploadTo(h, e) PROVE FilesKept'
  <2> DEFINE f == Min(FreshKey)
  <2>1. f \in FreshKey
    BY <1>1, MinIn, CommentsAreNumbered DEF UploadTo, FreshKey
  <2>2. /\ req' = [req EXCEPT ![h] = [op |-> "upload", pc |-> "put", f |-> f, e |-> e]]
        /\ UNCHANGED <<file, object>>
    BY <1>1 DEF UploadTo, Begin, commentVars
  <2> HIDE DEF f
  <2>3. f \in FileId /\ file[f].st = "none" /\ \A k \in Handler : req[k].op = "upload" => req[k].f # f
    BY <2>1 DEF FreshKey
  <2>4. req'[h] = [op |-> "upload", pc |-> "put", f |-> f, e |-> e] /\ \A k \in Handler \ {h} : req'[k] = req[k]
    BY <2>2 DEF Shape
  <2>5. \A k \in Handler : FileRequest(req[k])'
    BY <2>2, <2>3, <2>4 DEF FilesKept, FileRequest
  <2> QED
    BY <2>2, <2>3, <2>4, <2>5 DEF FilesKept
<1>2. CASE UploadBegin(h) \/ UploadPageImage(h)
  BY <1>1, <1>2 DEF UploadBegin, UploadPageImage
<1>3. ASSUME NEW f \in FileId, req'[h].op \in {"download", "deletefile"}, req'[h].f = f, file[f].st # "none",
             Alone(h), UNCHANGED <<file, object>>
      PROVE  FilesKept'
  <2>1. \A k \in Handler : FileRequest(req[k])'
    BY <1>3 DEF FilesKept, FileRequest, Alone, FilesOp
  <2> QED
    BY <1>3, <2>1 DEF FilesKept, Alone
<1>4. CASE DownloadInSpace(h)
  <2>1. PICK f \in FileId : file[f].st = "live" /\ Begin(h, [op |-> "download", pc |-> "open", f |-> f])
    BY <1>4 DEF DownloadInSpace, FileInSpace
  <2>2. UNCHANGED <<file, object>>
    BY <1>4 DEF DownloadInSpace, commentVars
  <2> QED
    BY <1>3, <2>1, <2>2, Moving
<1>5. CASE DownloadShared(h)
  <2>1. PICK f \in FileId : file[f].st = "live" /\ Begin(h, [op |-> "download", pc |-> "open", f |-> f])
    BY <1>5 DEF DownloadShared
  <2>2. UNCHANGED <<file, object>>
    BY <1>5 DEF DownloadShared, commentVars
  <2> QED
    BY <1>3, <2>1, <2>2, Moving
<1>6. CASE DeleteInSpace(h)
  <2>1. PICK f \in FileId : file[f].st = "live" /\ Begin(h, [op |-> "deletefile", pc |-> "row", f |-> f])
    BY <1>6 DEF DeleteInSpace
  <2>2. UNCHANGED <<file, object>>
    BY <1>6 DEF DeleteInSpace, commentVars
  <2> QED
    BY <1>3, <2>1, <2>2, Moving
<1>7. ASSUME NEW pc, req[h].op = "upload", req'[h] = [req[h] EXCEPT !.pc = pc], Alone(h), UNCHANGED file,
             object \subseteq object', pc = "row" => req[h].f \in object'
      PROVE  FilesKept'
  <2>1. req'[h].op = "upload" /\ req'[h].f = req[h].f /\ req'[h].pc = pc
    BY <1>7 DEF Shape
  <2>2. \A k \in Handler \ {h} : req'[k] = req[k]
    BY <1>7 DEF Alone
  <2>3. FileRequest(req[h])'
    BY <1>7, <2>1 DEF FilesKept, FileRequest, FilesOp
  <2>4. \A k \in Handler \ {h} : FileRequest(req[k])'
    BY <1>7, <2>2 DEF FilesKept, FileRequest, FilesOp
  <2>5. \A f \in FileId : file'[f].st # "none" => f \in object'
    BY <1>7 DEF FilesKept
  <2>6. \A k \in Handler : req'[k].op = req[k].op /\ (req[k].op = "upload" => req'[k].f = req[k].f)
    BY <1>7, <2>1, <2>2
  <2>7. \A j, k \in Handler : j # k /\ req'[j].op = "upload" /\ req'[k].op = "upload" => req'[j].f # req'[k].f
    BY <2>6 DEF FilesKept
  <2> QED
    BY <1>7, <2>3, <2>4, <2>5, <2>7 DEF FilesKept
<1>8. CASE PutObject(h)
  <2>1. PICK pc : Go(h, [req[h] EXCEPT !.pc = pc])
    BY <1>8 DEF PutObject
  <2>2. object' = object \cup {req[h].f} /\ UNCHANGED file /\ req[h].op = "upload"
    BY <1>8 DEF PutObject, At
  <2> QED
    BY <1>7, <2>1, <2>2, Moving
<1>9. CASE CreateAttachment(h)
  <2> DEFINE f == req[h].f
  <2>1. f \in FileId /\ f \in object /\ req[h].op = "upload" /\ UNCHANGED object
    BY <1>9 DEF CreateAttachment, At, FilesKept, FileRequest, FilesOp
  <2>2. CASE UNCHANGED file /\ Go(h, [req[h] EXCEPT !.pc = "undo"])
    BY <1>7, <2>1, <2>2, Moving
  <2>3. CASE file' = [file EXCEPT ![f] = [st |-> "live", e |-> req[h].e]] /\ End(h)
    <3>1. \A k \in Handler \ {h} : req'[k] = req[k] /\ (req[k].op = "upload" => req[k].f # f)
      BY <2>1, <2>3, Ending DEF FilesKept, Alone
    <3>2. req'[h].op = "idle"
      BY <2>3, Ending DEF Idle
    <3>3. \A k \in Handler : FileRequest(req[k])'
      BY <2>1, <2>3, <3>1, <3>2 DEF FilesKept, FileRequest, FilesOp
    <3> QED
      BY <2>1, <2>3, <3>1, <3>2, <3>3 DEF FilesKept
  <2> QED
    BY <1>9, <2>2, <2>3 DEF CreateAttachment
<1>10. CASE DeleteObject(h)
  <2> DEFINE f == req[h].f
  <2>1. f \in FileId /\ file[f].st = "none" /\ req[h].op = "upload" /\ UNCHANGED file /\ object \ {f} \subseteq object'
    BY <1>10 DEF DeleteObject, At, FilesKept, FileRequest, FilesOp
  <2>2. \A k \in Handler \ {h} : req'[k] = req[k] /\ (req[k].op = "upload" => req[k].f # f)
    BY <1>10, <2>1, Ending DEF DeleteObject, FilesKept, Alone
  <2>3. req'[h].op = "idle"
    BY <1>10, Ending DEF DeleteObject, Idle
  <2>4. \A k \in Handler : FileRequest(req[k])'
    BY <2>1, <2>2, <2>3 DEF FilesKept, FileRequest, FilesOp
  <2> QED
    BY <2>1, <2>2, <2>3, <2>4 DEF FilesKept
<1>11. CASE UploadDies(h) \/ OpenForServing(h)
  BY <1>11, EndAside, AsideIsApart, FilesApart DEF UploadDies, OpenForServing, commentVars
<1>12. CASE SoftDeleteAttachment(h)
  <2> DEFINE f == req[h].f
  <2>1. f \in FileId /\ file[f].st # "none" /\ UNCHANGED object /\ file' = [file EXCEPT ![f].st = "deleted"]
    BY <1>12 DEF SoftDeleteAttachment, At, FilesKept, FileRequest, FilesOp, RetainObject
  <2>2. req'[h].op = "idle" /\ \A k \in Handler \ {h} : req'[k] = req[k]
    BY <1>12, Ending DEF SoftDeleteAttachment, Idle, Alone
  <2>3. \A g \in FileId : "st" \in DOMAIN file'[g] /\ (file'[g].st = "none" <=> file[g].st = "none")
    BY <2>1 DEF FilesKept
  <2>4. \A k \in Handler : FileRequest(req[k])'
    BY <2>1, <2>2, <2>3 DEF FilesKept, FileRequest, FilesOp
  <2> QED
    BY <2>1, <2>2, <2>3, <2>4 DEF FilesKept
<1>13. CASE CreateCommentBegin(h)
  <2>1. PICK r : Begin(h, r) /\ Foreign(r, FilesOp)
    BY <1>13 DEF CreateCommentBegin, Foreign, FilesOp
  <2> QED
    BY <1>13, <2>1, MoveAside, AsideIsApart, FilesApart DEF CreateCommentBegin, commentVars
<1>14. CASE CreateComment(h)
  BY <1>14, EndAside, AsideIsApart, FilesApart DEF CreateComment
<1> QED
  BY <1>2, <1>4, <1>5, <1>6, <1>8, <1>9, <1>10, <1>11, <1>12, <1>13, <1>14 DEF CommentsStep

LEMMA FilesNext ==
  ASSUME Shape, FilesKept, [TrackerNext]_trackerVars
  PROVE  FilesKept'
<1> USE DEF talkVars, commentVars, FilesOp
<1>1. ASSUME NEW h \in Handler, AccessStep(h) \/ SpacesStep(h) \/ SharesStep(h) \/ ItemsStep(h) \/ BacklogStep(h), UNCHANGED talkVars
      PROVE  FilesKept'
  BY <1>1, AsideIsApart, AccessAside, SpacesAside, SharesAside, ItemsAside, BacklogAside, FilesApart
     DEF AccessOp, SpacesOp, SharesOp, ItemsOp, OtherItemsOp, BacklogOp
<1>2. ASSUME NEW h \in Handler, RelationsStep(h) \/ FieldsStep(h) \/ BoardsStep(h), UNCHANGED commentVars
      PROVE  FilesKept'
  BY <1>2, AsideIsApart, RelationsAside, FieldsAside, BoardsAside, FilesApart DEF RelationsOp, FieldsOp, BoardsOp
<1>3. ASSUME NEW h \in Handler, ViewsStep(h) \/ SearchStep(h) \/ QueuesStep(h) \/ DashboardsStep(h), UNCHANGED talkVars
      PROVE  FilesKept'
  BY <1>3, AsideIsApart, ViewsAside, SearchAside, QueuesAside, DashboardsAside, FilesApart DEF ViewsOp, SearchOp, QueuesOp, DashboardsOp
<1>4. ASSUME NEW h \in Handler, PortalStep(h) PROVE FilesKept'
  <2>1. UNCHANGED <<file, object>>
    BY <1>4, PortalLeavesFiles
  <2> QED
    BY <1>4, <2>1, PortalApart, FilesApart DEF PortalOp, DeskOp
<1>5. CASE EmptySearch /\ UNCHANGED talkVars
  BY <1>5 DEF EmptySearch, Serve, FilesKept, FileRequest
<1>6. CASE LinkExpires
  BY <1>6 DEF LinkExpires, serverVars, deskVars, FilesKept, FileRequest
<1>7. CASE UNCHANGED trackerVars
  BY <1>7 DEF trackerVars, serverVars, FilesKept, FileRequest
<1> QED
  BY <1>1, <1>2, <1>3, <1>4, <1>5, <1>6, <1>7, FilesByComments DEF TrackerNext

-----------------------------------------------------------------------------
(* Sign-in links                                                           *)

LEMMA LinkRowNamesIt == ASSUME NEW l, NEW m, LinkRow(l) = LinkRow(m) PROVE l = m
BY DEF LinkRow

LEMMA OpenedLinksAreUsed == ASSUME LinksKept PROVE \A s \in psession : mlink[s.l].st = "consumed"
<1> TAKE s \in psession
<1>1. mlink[s.l] = [st |-> "consumed", q |-> s.q, sp |-> s.sp]
  BY DEF LinksKept, LinkOpensOneSession
<1> QED
  BY <1>1

LEMMA LinksApart ==
  ASSUME Shape, LinksKept, NEW h \in Handler, Aside(h, {"redeem"}), UNCHANGED <<mlink, psession>>
  PROVE  LinksKept'
<1>1. \A k \in Handler : req'[k] = req[k] \/ req'[k].op # "redeem"
  BY DEF Aside, Alone, Foreign, Idle
<1>2. \A k \in Handler, l \in MagicLink : LinkRow(l) \in held'[k] =>
        LinkRow(l) \in held[k] /\ (req'[k] = req[k] \/ req'[k].op \notin {"idle", "redeem"})
  BY DEF Aside, Alone, NoLinkLocked, Foreign
<1>3. \A k \in Handler : Opening(k)' => Opening(k) /\ req'[k] = req[k]
  BY <1>1 DEF Opening, At
<1> QED
  BY <1>1, <1>2, <1>3 DEF LinksKept, LinkRowShape, LinkOpensOneSession

(* Links that are used up stay so and no lock is taken or given.           *)
LEMMA LinksByPortal ==
  ASSUME Shape, LinksKept, NEW h \in Handler, PortalStep(h)
  PROVE  LinksKept'
<1>1. CASE DeskStep(h)
  <2>1. UNCHANGED <<mlink, psession>>
    <3>1. CASE CreateConfig(h) \/ CreatePortal(h) \/ UpdatePortal(h) \/ RequestLinkBegin(h) \/ UpsertRequester(h) \/ SignOut(h)
      BY <3>1 DEF CreateConfig, CreatePortal, UpdatePortal, RequestLinkBegin, UpsertRequester, SignOut, portalVars
    <3>2. CASE SubmitBegin(h) \/ ReadRequestNumber(h) \/ CreatePortalRequest(h) \/ ReplyBegin(h) \/ CreateRequesterComment(h)
      BY <3>2 DEF SubmitBegin, ReadRequestNumber, CreatePortalRequest, ReplyBegin, CreateRequesterComment, portalVars
    <3> QED
      BY <1>1, <3>1, <3>2 DEF DeskStep
  <2> QED
    BY <1>1, <2>1, DeskAside, LinksApart DEF DeskOp
<1>2. CASE InvalidateOutstandingLinks(h)
  <2> DEFINE out == Outstanding(req[h].q, req[h].sp)
             rows == {LinkRow(l) : l \in out} \cap req[h].want
  <2>1. PICK r : GoLocked(h, rows, r) /\ r.op = "link" /\ UNCHANGED <<mlink, psession>>
    BY <1>2 DEF InvalidateOutstandingLinks, portalVars
  <2>2. \A l \in MagicLink : LinkRow(l) \in rows => mlink[l].st = "live"
    BY LinkRowNamesIt DEF Outstanding
  <2> HIDE DEF rows, out
  <2>3. /\ req'[h].op = "link" /\ held'[h] = held[h] \cup rows
        /\ \A k \in Handler \ {h} : req'[k] = req[k] /\ held'[k] = held[k] /\ held[k] \cap rows = {}
    BY <2>1, Locking DEF Alone, GoLocked, Free
  <2>4. req[h].op = "link"
    BY <1>2 DEF InvalidateOutstandingLinks, At
  <2>5. \A k \in Handler : Opening(k)' => Opening(k) /\ req'[k] = req[k]
    BY <2>3 DEF Opening, At
  <2>6. \A k \in Handler : req'[k] = req[k] \/ req'[k].op = "link"
    BY <2>3
  <2>7. \A k \in Handler, l \in MagicLink : LinkRow(l) \in held'[k] =>
          /\ mlink[l].st \in {"live", "expired"} /\ req'[k].op \notin {"idle", "redeem"}
          /\ \A j \in Handler \ {k} : LinkRow(l) \notin held'[j]
    BY <2>2, <2>3, <2>4 DEF LinksKept
  <2> QED
    BY <2>1, <2>5, <2>6, <2>7 DEF LinksKept, LinkRowShape, LinkOpensOneSession
<1>3. CASE CreateMagicLink(h)
  <2> DEFINE free == {l \in MagicLink : mlink[l].st = "none"}
  <2>1. PICK new \in free : new = Min(free)
    BY <1>3, MinIn, LinksAreNumbered DEF CreateMagicLink
  <2>2. /\ mlink' = [l \in MagicLink |->
             CASE LinkRow(l) \in held[h] -> [mlink[l] EXCEPT !.st = "invalidated"]
               [] l = new -> [st |-> "live", q |-> req[h].q, sp |-> req[h].sp]
               [] OTHER -> mlink[l]]
        /\ psession' = psession /\ End(h)
    BY <1>3, <2>1 DEF CreateMagicLink
  <2>3. new \in MagicLink /\ mlink[new].st = "none" /\ LinkRow(new) \notin held[h]
    BY <2>1 DEF LinksKept
  <2>4. \A l \in MagicLink : LinkRow(l) \notin held[h] /\ mlink[l].st # "none" => mlink'[l] = mlink[l]
    BY <2>2, <2>3
  <2>5. \A l \in MagicLink : LinkRow(l) \in held[h] => mlink'[l] = [mlink[l] EXCEPT !.st = "invalidated"]
    BY <2>2, <2>3
  <2> HIDE DEF free
  <2>6. \A l \in MagicLink : LinkRowShape(l)'
    <3>1. mlink'[new] = [st |-> "live", q |-> req[h].q, sp |-> req[h].sp]
      BY <2>2, <2>3
    <3>2. \A l \in MagicLink : LinkRow(l) \in held[h] \/ l = new \/ mlink'[l] = mlink[l]
      BY <2>2
    <3> QED
      <4>1. ASSUME NEW l \in MagicLink, mlink'[l] = [mlink[l] EXCEPT !.st = "invalidated"] PROVE LinkRowShape(l)'
        <5>1. mlink[l] = [st |-> mlink[l].st, q |-> mlink[l].q, sp |-> mlink[l].sp]
          BY DEF LinksKept, LinkRowShape
        <5>2. mlink'[l] = [st |-> "invalidated", q |-> mlink[l].q, sp |-> mlink[l].sp]
          BY <4>1, <5>1
        <5> QED
          BY <5>2 DEF LinkRowShape
      <4>2. ASSUME NEW l \in MagicLink, mlink'[l] = mlink[l] PROVE LinkRowShape(l)'
        BY <4>2 DEF LinksKept, LinkRowShape
      <4>3. LinkRowShape(new)'
        BY <3>1 DEF LinkRowShape
      <4> QED
        BY <2>5, <3>2, <4>1, <4>2, <4>3
  <2>7. req'[h] = Idle /\ held'[h] = {} /\ \A k \in Handler \ {h} : req'[k] = req[k] /\ held'[k] = held[k]
    BY <2>2, Ending DEF Alone
  <2>8. \A k \in Handler : Opening(k)' => Opening(k) /\ req'[k] = req[k]
    BY <2>7 DEF Opening, At, Idle
  <2>9. \A l \in MagicLink : mlink[l].st = "consumed" => mlink'[l] = mlink[l]
    BY <2>4 DEF LinksKept
  <2>10. LinkOpensOneSession'
    BY <2>2, <2>9 DEF LinksKept, LinkOpensOneSession
  <2>11. \A k \in Handler : Opening(k)' => mlink'[req'[k].l].st = "consumed" /\ \A s \in psession' : s.l # req'[k].l
    BY <2>2, <2>8, <2>9 DEF LinksKept, Opening, At
  <2>12. \A k \in Handler, l \in MagicLink : LinkRow(l) \in held'[k] =>
          /\ mlink'[l].st \in {"live", "expired"} /\ req'[k].op \notin {"idle", "redeem"}
          /\ \A j \in Handler \ {k} : LinkRow(l) \notin held'[j]
    BY <2>4, <2>7 DEF LinksKept
  <2>13. \A k \in Handler : req'[k] = req[k] \/ req'[k].op # "redeem"
    BY <2>7 DEF Idle
  <2> QED
    BY <2>2, <2>6, <2>8, <2>10, <2>11, <2>12, <2>13 DEF LinksKept
<1>4. CASE RedeemBegin(h)
  <2>1. PICK l \in MagicLink : Begin(h, [op |-> "redeem", pc |-> "consume", l |-> l, n |-> served])
    BY <1>4 DEF RedeemBegin
  <2>2. UNCHANGED <<mlink, psession>> /\ req[h].op = "idle"
    BY <1>4 DEF RedeemBegin, portalVars, Ready
  <2>3. /\ req'[h] = [op |-> "redeem", pc |-> "consume", l |-> l, n |-> served] /\ held' = held
        /\ \A k \in Handler \ {h} : req'[k] = req[k]
    BY <2>1 DEF Begin, Shape
  <2>4. \A k \in Handler : Opening(k)' => Opening(k) /\ req'[k] = req[k]
    BY <2>3 DEF Opening, At
  <2>5. \A k \in Handler, m \in MagicLink : LinkRow(m) \in held'[k] => k # h
    BY <2>2, <2>3 DEF LinksKept
  <2> QED
    BY <2>2, <2>3, <2>4, <2>5 DEF LinksKept, LinkRowShape, LinkOpensOneSession
<1>5. CASE ConsumeMagicLink(h)
  <2> DEFINE l == req[h].l
  <2>1. l \in MagicLink /\ req[h].op = "redeem" /\ UNCHANGED psession
    BY <1>5 DEF ConsumeMagicLink, At, LinksKept
  <2>2. CASE UNCHANGED mlink /\ End(h)
    BY <2>1, <2>2, EndAside, LinksApart
  <2>3. CASE mlink[l].st = "live" /\ mlink' = [mlink EXCEPT ![l].st = "consumed"] /\ Go(h, [req[h] EXCEPT !.pc = "session"])
    <3>1. \A k \in Handler : LinkRow(l) \notin held[k]
      BY <1>5, <2>1 DEF ConsumeMagicLink, Free, LinksKept
    <3>2. /\ req'[h] = [req[h] EXCEPT !.pc = "session"] /\ held' = held
          /\ \A k \in Handler \ {h} : req'[k] = req[k]
      BY <2>3 DEF Go, Shape
    <3>3. req'[h].op = "redeem" /\ req'[h].l = l
      BY <2>1, <3>2 DEF Shape
    <3>4. /\ \A m \in MagicLink \ {l} : mlink'[m] = mlink[m]
          /\ mlink'[l] = [mlink[l] EXCEPT !.st = "consumed"] /\ mlink'[l] = [st |-> "consumed", q |-> mlink[l].q, sp |-> mlink[l].sp]
      BY <2>1, <2>3 DEF LinksKept, LinkRowShape
    <3>5. \A s \in psession : s.l # l
      BY <2>3, OpenedLinksAreUsed
    <3>6. \A k \in Handler \ {h} : Opening(k)' => Opening(k) /\ req'[k].l # l
      BY <2>3, <3>2 DEF LinksKept, Opening, At
    <3>7. \A k \in Handler : req'[k].op = "redeem" => req[k].op = "redeem" /\ req'[k].l = req[k].l
      BY <2>1, <3>2, <3>3
    <3>8. LinkOpensOneSession'
      BY <2>1, <3>4, <3>5 DEF LinksKept, LinkOpensOneSession
    <3>9. \A k \in Handler : Opening(k)' => mlink'[req'[k].l].st = "consumed" /\ \A s \in psession' : s.l # req'[k].l
      <4>1. \A k \in Handler \ {h} : Opening(k)' => mlink'[req'[k].l].st = "consumed" /\ \A s \in psession' : s.l # req'[k].l
        BY <2>1, <3>2, <3>4, <3>6 DEF LinksKept, Opening, At
      <4>2. mlink'[req'[h].l].st = "consumed" /\ \A s \in psession' : s.l # req'[h].l
        BY <2>1, <3>3, <3>4, <3>5
      <4> QED
        BY <4>1, <4>2
    <3>10. \A j, k \in Handler : j # k /\ Opening(j)' /\ Opening(k)' => req'[j].l # req'[k].l
      <4>1. \A j, k \in Handler \ {h} : j # k /\ Opening(j)' /\ Opening(k)' => req'[j].l # req'[k].l
        BY <3>2, <3>6 DEF LinksKept
      <4> QED
        BY <3>3, <3>6, <4>1
    <3>11. \A k \in Handler, m \in MagicLink : LinkRow(m) \in held'[k] =>
            /\ mlink'[m].st \in {"live", "expired"} /\ req'[k].op \notin {"idle", "redeem"}
            /\ \A j \in Handler \ {k} : LinkRow(m) \notin held'[j]
      BY <2>1, <3>1, <3>2, <3>4 DEF LinksKept
    <3>12. DOMAIN mlink' = MagicLink /\ \A m \in MagicLink : LinkRowShape(m)'
      BY <2>3, <3>4 DEF LinksKept, LinkRowShape
    <3> QED
      BY <2>1, <3>7, <3>8, <3>9, <3>10, <3>11, <3>12 DEF LinksKept
  <2> QED
    BY <1>5, <2>2, <2>3 DEF ConsumeMagicLink, Consumable
<1>6. CASE IssueSession(h)
  <2> DEFINE l == req[h].l
             s == [l |-> l, q |-> mlink[l].q, sp |-> mlink[l].sp, gen |-> Requester(mlink[l].q).gen, n |-> req[h].n]
  <2>1. l \in MagicLink /\ Opening(h) /\ UNCHANGED mlink /\ End(h)
    BY <1>6 DEF IssueSession, At, Opening, LinksKept
  <2>2. psession' = psession \/ psession' = psession \cup {s}
    BY <1>6 DEF IssueSession
  <2>3. mlink[l] = [st |-> "consumed", q |-> mlink[l].q, sp |-> mlink[l].sp]
    BY <2>1 DEF LinksKept, LinkRowShape, Opening
  <2>4. s.l = l /\ s.q = mlink[l].q /\ s.sp = mlink[l].sp
    OBVIOUS
  <2> HIDE DEF s, l
  <2>5. \A t \in psession : t.l # l
    BY <2>1 DEF LinksKept, l
  <2>6. LinkOpensOneSession' /\ \A t \in psession' : t.l \in MagicLink
    BY <2>1, <2>2, <2>3, <2>4, <2>5 DEF LinksKept, LinkOpensOneSession
  <2>7. req'[h] = Idle /\ held'[h] = {} /\ \A k \in Handler \ {h} : req'[k] = req[k] /\ held'[k] = held[k]
    BY <2>1, Ending DEF Alone
  <2>8. \A k \in Handler : Opening(k)' => Opening(k) /\ req'[k] = req[k] /\ req'[k].l # l
    BY <2>1, <2>7 DEF Opening, At, Idle, LinksKept, l
  <2>9. \A k \in Handler : Opening(k)' => mlink'[req'[k].l].st = "consumed" /\ \A t \in psession' : t.l # req'[k].l
    BY <2>1, <2>2, <2>4, <2>8 DEF LinksKept
  <2>10. \A k \in Handler, m \in MagicLink : LinkRow(m) \in held'[k] =>
          /\ mlink'[m].st \in {"live", "expired"} /\ req'[k].op \notin {"idle", "redeem"}
          /\ \A j \in Handler \ {k} : LinkRow(m) \notin held'[j]
    BY <2>1, <2>7 DEF LinksKept
  <2>11. \A k \in Handler : req'[k] = req[k] \/ req'[k].op # "redeem"
    BY <2>7 DEF Idle
  <2> QED
    BY <2>1, <2>6, <2>8, <2>9, <2>10, <2>11 DEF LinksKept, LinkRowShape
<1> QED
  BY <1>1, <1>2, <1>3, <1>4, <1>5, <1>6 DEF PortalStep, DeskStep

LEMMA LinksNext ==
  ASSUME Shape, LinksKept, [TrackerNext]_trackerVars
  PROVE  LinksKept'
<1> USE DEF talkVars, portalVars
<1>1. ASSUME NEW h \in Handler, AccessStep(h) \/ SpacesStep(h) \/ SharesStep(h) \/ ItemsStep(h) \/ BacklogStep(h), UNCHANGED talkVars
      PROVE  LinksKept'
  BY <1>1, AccessAside, SpacesAside, SharesAside, ItemsAside, BacklogAside, LinksApart
     DEF AccessOp, SpacesOp, SharesOp, ItemsOp, OtherItemsOp, BacklogOp
<1>2. ASSUME NEW h \in Handler, RelationsStep(h) \/ FieldsStep(h) \/ BoardsStep(h) \/ CommentsStep(h), UNCHANGED portalVars
      PROVE  LinksKept'
  BY <1>2, RelationsAside, FieldsAside, BoardsAside, CommentsAside, LinksApart DEF RelationsOp, FieldsOp, BoardsOp, CommentsOp
<1>3. ASSUME NEW h \in Handler, ViewsStep(h) \/ SearchStep(h) \/ QueuesStep(h) \/ DashboardsStep(h), UNCHANGED talkVars
      PROVE  LinksKept'
  BY <1>3, ViewsAside, SearchAside, QueuesAside, DashboardsAside, LinksApart DEF ViewsOp, SearchOp, QueuesOp, DashboardsOp
<1>4. CASE EmptySearch /\ UNCHANGED talkVars
  BY <1>4 DEF EmptySearch, Serve, LinksKept, LinkRowShape, LinkOpensOneSession, Opening, At
<1>5. CASE LinkExpires
  <2>1. PICK l \in MagicLink : mlink[l].st = "live" /\ mlink' = [mlink EXCEPT ![l].st = "expired"]
    BY <1>5 DEF LinkExpires
  <2>2. UNCHANGED <<req, held, psession>>
    BY <1>5 DEF LinkExpires, serverVars
  <2>3. /\ \A m \in MagicLink \ {l} : mlink'[m] = mlink[m]
        /\ mlink'[l] = [mlink[l] EXCEPT !.st = "expired"] /\ mlink'[l] = [st |-> "expired", q |-> mlink[l].q, sp |-> mlink[l].sp]
    BY <2>1 DEF LinksKept, LinkRowShape
  <2>4. \A s \in psession : s.l # l
    BY <2>1, OpenedLinksAreUsed
  <2>5. LinkOpensOneSession'
    BY <2>2, <2>3, <2>4 DEF LinksKept, LinkOpensOneSession
  <2>6. DOMAIN mlink' = MagicLink /\ \A m \in MagicLink : LinkRowShape(m)'
    BY <2>1, <2>3 DEF LinksKept, LinkRowShape
  <2>7. \A k \in Handler : Opening(k)' => Opening(k) /\ req[k].l \in MagicLink \ {l}
    BY <2>1, <2>2 DEF LinksKept, Opening, At
  <2>8. \A k \in Handler, m \in MagicLink : LinkRow(m) \in held'[k] => mlink'[m].st \in {"live", "expired"}
    BY <2>2, <2>3 DEF LinksKept
  <2> QED
    BY <2>2, <2>3, <2>5, <2>6, <2>7, <2>8 DEF LinksKept
<1>6. CASE UNCHANGED trackerVars
  BY <1>6 DEF trackerVars, serverVars, LinksKept, LinkRowShape, LinkOpensOneSession, Opening, At
<1> QED
  BY <1>1, <1>2, <1>3, <1>4, <1>5, <1>6, LinksByPortal DEF TrackerNext

-----------------------------------------------------------------------------
(* Items and tickets                                                       *)

LEMMA insertIdxIn ==
  ASSUME NEW S, NEW s \in Seq(S), NEW before, NEW after
  PROVE  insertIdx(s, before, after) \in 1 .. Len(s) + 1
<1> DEFINE at(j) == {n \in DOMAIN s : s[n] = j}
<1>1. \A j : at(j) # {} => Min(at(j)) \in 1 .. Len(s)
  <2>1. \A j : at(j) \subseteq 1 .. Len(s)
    OBVIOUS
  <2>2. \A j : at(j) \subseteq Nat
    BY <2>1
  <2> HIDE DEF at
  <2> QED
    BY <2>1, <2>2, MinIn
<1>2. Len(s) \in Nat
  OBVIOUS
<1>3. insertIdx(s, before, after) =
        CASE before # Nil /\ at(before) # {} -> Min(at(before))
          [] before = Nil /\ at(after) # {} -> Min(at(after)) + 1
          [] OTHER -> Len(s) + 1
  BY DEF insertIdx
<1> HIDE DEF at
<1> QED
  BY <1>1, <1>2, <1>3

(* The new order of a list is as long as the list and of the same items.   *)
LEMMA newOrderKeeps ==
  ASSUME NEW S, NEW all \in Seq(S), NEW at \in DOMAIN all, NEW before, NEW after
  PROVE  newOrder(all, at, before, after) \in Seq(S) /\ Len(newOrder(all, at, before, after)) = Len(all)
<1> DEFINE left == SubSeq(all, 1, at - 1)
           right == SubSeq(all, at + 1, Len(all))
           rest == left \o right
           n == insertIdx(rest, before, after)
<1>1. at \in 1 .. Len(all) /\ Len(all) \in Nat
  OBVIOUS
<1>2. left \in Seq(S) /\ Len(left) = at - 1
  <2>1. 1 \in Int /\ at - 1 \in Int /\ \A i \in 1 .. at - 1 : all[i] \in S
    BY <1>1
  <2> QED
    BY <1>1, <2>1, SubSeqProperties
<1>3. right \in Seq(S) /\ Len(right) = Len(all) - at
  <2>1. at + 1 \in Int /\ Len(all) \in Int /\ \A i \in at + 1 .. Len(all) : all[i] \in S
    BY <1>1
  <2> QED
    BY <1>1, <2>1, SubSeqProperties
<1>4. rest \in Seq(S) /\ Len(rest) = Len(all) - 1
  <2> HIDE DEF left, right
  <2>1. rest \in Seq(S) /\ Len(rest) = Len(left) + Len(right)
    BY <1>2, <1>3, ConcatProperties
  <2> QED
    BY <1>1, <1>2, <1>3, <2>1
<1> HIDE DEF rest
<1>5. n \in 1 .. Len(all)
  BY <1>1, <1>4, insertIdxIn
<1> HIDE DEF n
<1> DEFINE a == SubSeq(rest, 1, n - 1)
           b == SubSeq(rest, n, Len(rest))
<1>6. a \in Seq(S) /\ Len(a) = n - 1
  <2>1. 1 \in Int /\ n - 1 \in Int /\ \A i \in 1 .. n - 1 : rest[i] \in S
    BY <1>1, <1>4, <1>5
  <2> QED
    BY <1>5, <2>1, SubSeqProperties
<1>7. b \in Seq(S) /\ Len(b) = Len(all) - n
  <2>1. n \in Int /\ Len(rest) \in Int /\ \A i \in n .. Len(rest) : rest[i] \in S
    BY <1>1, <1>4, <1>5
  <2> QED
    BY <1>1, <1>4, <1>5, <2>1, SubSeqProperties
<1>8. <<all[at]>> \in Seq(S) /\ Len(<<all[at]>>) = 1
  BY <1>1
<1>9. newOrder(all, at, before, after) = a \o <<all[at]>> \o b
  BY DEF newOrder, RemoveAt, InsertAt, rest, n
<1> HIDE DEF a, b
<1>10. a \o <<all[at]>> \in Seq(S) /\ Len(a \o <<all[at]>>) = n
  BY <1>5, <1>6, <1>8, ConcatProperties
<1> DEFINE c == a \o <<all[at]>>
<1> HIDE DEF c
<1>11. c \o b \in Seq(S) /\ Len(c \o b) = Len(c) + Len(b)
  BY <1>7, <1>10, ConcatProperties DEF c
<1>12. newOrder(all, at, before, after) = c \o b
  BY <1>9 DEF c
<1>13. Len(c) + Len(b) = Len(all)
  BY <1>1, <1>5, <1>7, <1>10 DEF c
<1> QED
  BY <1>11, <1>12, <1>13

(* What a row was born with stays, and so does what was read of it.        *)
RowsStay == \A i \in Item : Born(i) => item'[i].st # "absent" /\ SameRow(item'[i], item[i])

LEMMA ItemRequestStays ==
  ASSUME RowsStay, NEW k \in Handler, ItemRequest(req[k]), req'[k] = req[k]
  PROVE  ItemRequest(req[k])'
<1> PICK r : r = req[k]
  OBVIOUS
<1>1. \A row, i : ReadRow(row, i) => i \in Item /\ item'[i].st # "absent" /\ DOMAIN row = DOMAIN NoItem /\ row.st = "live" /\ SameRow(row, item'[i])
  BY DEF RowsStay, ReadRow, SameRow
<1>2. \A row, i : ReadRow(row, i) => ReadRow(row, i)'
  BY <1>1 DEF ReadRow, Born, SameRow
<1>3. r.op \in {"deleteitem", "movestatus"} => Born(r.i)'
  BY DEF ItemRequest, RowsStay, Born
<1>4. ItemRequest(r)'
  BY <1>2, <1>3 DEF ItemRequest
<1> QED
  BY <1>4

LEMMA NumbersBy ==
  ASSUME NumbersKept, NEW h \in Handler, Alone(h), RowsStay, TableKept', ItemRequest(req[h])'
  PROVE  NumbersKept'
BY ItemRequestStays DEF NumbersKept, Alone

LEMMA RowsStayPut == ASSUME UNCHANGED item PROVE RowsStay
BY DEF RowsStay, Born, SameRow

LEMMA TableStaysPut == ASSUME TableKept, UNCHANGED <<item, seqno>> PROVE TableKept'
BY DEF TableKept, Born, Distinct, Rows

LEMMA NumbersApart ==
  ASSUME Shape, NumbersKept, NEW h \in Handler, Apart(h, RowOp), UNCHANGED <<item, seqno>>
  PROVE  NumbersKept'
<1>1. ItemRequest(req[h])'
  <2>1. CASE req'[h] = req[h]
    BY <2>1, ItemRequestStays, RowsStayPut DEF NumbersKept
  <2>2. CASE req'[h] # req[h]
    <3>1. req'[h].op \notin RowOp
      BY <2>2 DEF Apart, Foreign, Idle, RowOp
    <3> QED
      BY <3>1 DEF ItemRequest, RowOp
  <2> QED
    BY <2>1, <2>2
<1> QED
  BY <1>1, NumbersBy, RowsStayPut, TableStaysPut DEF NumbersKept, Apart

(* Rows that change nothing of what they were born with.                   *)
LEMMA TableRewritten ==
  ASSUME TableKept, UNCHANGED seqno, NEW i \in Item, Born(i), NEW r, item' = [item EXCEPT ![i] = r],
         DOMAIN r = DOMAIN NoItem, r.st \in {"live", "deleted"}, SameRow(r, item[i])
  PROVE  TableKept' /\ RowsStay
<1>1. RowsStay
  BY DEF RowsStay, SameRow, Born, TableKept
<1>2. \A j \in Item : item'[j].et = item[j].et /\ item'[j].sp = item[j].sp /\ item'[j].num = item[j].num /\ item'[j].key = item[j].key
  BY DEF TableKept, SameRow
<1>3. \A j \in Item : RowShape(item'[j]) /\ (item'[j].st = "absent" <=> item[j].st = "absent")
  BY DEF TableKept, RowShape, SameRow, Born
<1>4. \A sp \in Space : {item'[j].num : j \in Rows(sp, "item")'} = {item[j].num : j \in Rows(sp, "item")}
  BY <1>2 DEF Rows
<1>5. \A j, k \in Item : j # k /\ Born(j)' => Distinct(j, k)'
  BY <1>2, <1>3 DEF TableKept, Distinct, Born
<1>6. DOMAIN item' = Item
  BY DEF TableKept
<1> QED
  BY <1>1, <1>3, <1>4, <1>5, <1>6 DEF TableKept

(* A new row keeps out of the numbers and the keys that were given.        *)
LEMMA TableGrows ==
  ASSUME TableKept, NEW i \in Item, ~Born(i), NEW r, item' = [item EXCEPT ![i] = r],
         RowShape(r), r.st = "live",
         \A j \in Item : r.et = item[j].et => /\ r.sp = item[j].sp => r.num # item[j].num
                                              /\ r.et = "item" /\ SpaceOrg[r.sp] = SpaceOrg[item[j].sp] => r.key # item[j].key
  PROVE  /\ RowsStay /\ DOMAIN item' = Item
         /\ \A j \in Item : RowShape(item'[j])
         /\ \A j, k \in Item : j # k /\ Born(j)' => Distinct(j, k)'
         /\ \A sp, et : Rows(sp, et)' \ {i} = Rows(sp, et) \ {i}
         /\ \A sp, et : et \in {"item", "ticket"} => (i \notin Rows(sp, et) /\ (i \in Rows(sp, et)' <=> sp = r.sp /\ et = r.et))
<1>1. item'[i] = r /\ DOMAIN item' = Item /\ \A j \in Item \ {i} : item'[j] = item[j]
  BY DEF TableKept
<1>2. RowsStay
  BY <1>1 DEF RowsStay, Born, SameRow
<1>3. \A j \in Item : RowShape(item'[j])
  BY <1>1 DEF TableKept
<1>4. item[i] = NoItem
  BY DEF TableKept, RowShape, Born
<1>5. ASSUME NEW j \in Item \ {i} PROVE Distinct(i, j)' /\ Distinct(j, i)'
  <2>1. r.et = item[j].et => /\ r.sp = item[j].sp => r.num # item[j].num
                             /\ r.et = "item" /\ SpaceOrg[r.sp] = SpaceOrg[item[j].sp] => r.key # item[j].key
    OBVIOUS
  <2>2. item'[i] = r /\ item'[j] = item[j]
    BY <1>1
  <2> QED
    BY <2>1, <2>2 DEF Distinct
<1>6. \A j, k \in Item \ {i} : j # k /\ Born(j)' => Distinct(j, k)'
  BY <1>1 DEF TableKept, Distinct, Born
<1>7. \A sp, et : Rows(sp, et)' \ {i} = Rows(sp, et) \ {i}
  BY <1>1 DEF Rows
<1>8. \A sp, et : et \in {"item", "ticket"} => (i \notin Rows(sp, et) /\ (i \in Rows(sp, et)' <=> sp = r.sp /\ et = r.et))
  BY <1>1, <1>4, NilIsNoEntity DEF Rows, NoItem
<1> QED
  BY <1>1, <1>2, <1>3, <1>5, <1>6, <1>7, <1>8

LEMMA TicketInserted ==
  ASSUME TableKept, NEW i \in Item, ~Born(i), NEW r, item' = [item EXCEPT ![i] = r], UNCHANGED seqno,
         RowShape(r), r.st = "live", r.et = "ticket", TicketNumberFree(r.sp, r.num)
  PROVE  TableKept' /\ RowsStay
<1>1. \A j \in Item : r.et = item[j].et /\ r.sp = item[j].sp => r.num # item[j].num
  BY DEF TicketNumberFree, Rows
<1>2. /\ RowsStay /\ DOMAIN item' = Item
      /\ \A j \in Item : RowShape(item'[j])
      /\ \A j, k \in Item : j # k /\ Born(j)' => Distinct(j, k)'
      /\ \A sp : Rows(sp, "item")' \ {i} = Rows(sp, "item") \ {i}
      /\ \A sp : i \notin Rows(sp, "item") /\ i \notin Rows(sp, "item")'
  <2>1. \A j \in Item : r.et = item[j].et =>
          /\ r.sp = item[j].sp => r.num # item[j].num
          /\ r.et = "item" /\ SpaceOrg[r.sp] = SpaceOrg[item[j].sp] => r.key # item[j].key
    BY <1>1
  <2>2. /\ RowsStay /\ DOMAIN item' = Item
        /\ \A j \in Item : RowShape(item'[j])
        /\ \A j, k \in Item : j # k /\ Born(j)' => Distinct(j, k)'
        /\ \A sp, et : Rows(sp, et)' \ {i} = Rows(sp, et) \ {i}
        /\ \A sp, et : et \in {"item", "ticket"} => (i \notin Rows(sp, et) /\ (i \in Rows(sp, et)' <=> sp = r.sp /\ et = r.et))
    BY <2>1, TableGrows
  <2> QED
    BY <2>2
<1>3. \A sp : Rows(sp, "item")' = Rows(sp, "item") /\ \A j \in Rows(sp, "item") : j \in Item /\ item'[j] = item[j]
  BY <1>2 DEF TableKept, Rows
<1>4. \A sp : {item'[j].num : j \in Rows(sp, "item")'} = {item[j].num : j \in Rows(sp, "item")}
  BY <1>3
<1> QED
  BY <1>2, <1>4 DEF TableKept

LEMMA ItemInserted ==
  ASSUME TableKept, NEW i \in Item, ~Born(i), NEW r, item' = [item EXCEPT ![i] = r],
         RowShape(r), r.st = "live", r.et = "item", r.sp \in Space, r.num = seqno[r.sp] + 1,
         seqno' = [seqno EXCEPT ![r.sp] = @ + 1], ItemKeyFree(SpaceOrg[r.sp], r.key)
  PROVE  TableKept' /\ RowsStay
<1>1. \A j \in Rows(r.sp, "item") : item[j].num \in 1 .. seqno[r.sp]
  BY DEF TableKept
<1>2. \A j \in Item : r.et = item[j].et =>
        /\ r.sp = item[j].sp => r.num # item[j].num
        /\ r.et = "item" /\ SpaceOrg[r.sp] = SpaceOrg[item[j].sp] => r.key # item[j].key
  <2>1. \A j \in Item : r.et = item[j].et /\ r.sp = item[j].sp => r.num # item[j].num
    BY <1>1 DEF Rows, TableKept
  <2>2. \A j \in Item : r.et = item[j].et /\ SpaceOrg[r.sp] = SpaceOrg[item[j].sp] => r.key # item[j].key
    BY DEF ItemKeyFree
  <2> QED
    BY <2>1, <2>2
<1>3. /\ RowsStay /\ DOMAIN item' = Item
      /\ \A j \in Item : RowShape(item'[j])
      /\ \A j, k \in Item : j # k /\ Born(j)' => Distinct(j, k)'
      /\ \A sp : Rows(sp, "item")' \ {i} = Rows(sp, "item") \ {i}
      /\ \A sp : i \notin Rows(sp, "item") /\ (i \in Rows(sp, "item")' <=> sp = r.sp)
  <2>1. /\ RowsStay /\ DOMAIN item' = Item
        /\ \A j \in Item : RowShape(item'[j])
        /\ \A j, k \in Item : j # k /\ Born(j)' => Distinct(j, k)'
        /\ \A sp, et : Rows(sp, et)' \ {i} = Rows(sp, et) \ {i}
        /\ \A sp, et : et \in {"item", "ticket"} => (i \notin Rows(sp, et) /\ (i \in Rows(sp, et)' <=> sp = r.sp /\ et = r.et))
    BY <1>2, TableGrows
  <2> QED
    BY <2>1
<1>4. item'[i] = r /\ \A sp, j : j \in Rows(sp, "item") => item'[j] = item[j]
  BY <1>3 DEF TableKept, Rows
<1>5. DOMAIN seqno' = Space /\ seqno'[r.sp] = seqno[r.sp] + 1 /\ \A sp \in Space \ {r.sp} : seqno'[sp] = seqno[sp]
  BY DEF TableKept
<1>6. ASSUME NEW sp \in Space
      PROVE  seqno'[sp] \in Nat /\ {item'[j].num : j \in Rows(sp, "item")'} = 1 .. seqno'[sp]
  <2>1. seqno[sp] \in Nat /\ {item[j].num : j \in Rows(sp, "item")} = 1 .. seqno[sp]
    BY DEF TableKept
  <2>2. CASE sp # r.sp
    <3>1. Rows(sp, "item")' = Rows(sp, "item")
      BY <1>3, <2>2
    <3>2. {item'[j].num : j \in Rows(sp, "item")'} = {item[j].num : j \in Rows(sp, "item")}
      BY <1>4, <3>1
    <3> QED
      BY <1>5, <2>1, <2>2, <3>2
  <2>3. CASE sp = r.sp
    <3>1. Rows(sp, "item")' = Rows(sp, "item") \cup {i}
      BY <1>3, <2>3
    <3>2. {item'[j].num : j \in Rows(sp, "item")'} = {item[j].num : j \in Rows(sp, "item")} \cup {r.num}
      BY <1>4, <3>1
    <3>3. 1 .. seqno[sp] + 1 = (1 .. seqno[sp]) \cup {seqno[sp] + 1}
      BY <2>1
    <3>4. seqno'[sp] = seqno[sp] + 1 /\ r.num = seqno[sp] + 1
      BY <1>5, <2>3
    <3>5. {item'[j].num : j \in Rows(sp, "item")'} = 1 .. seqno[sp] + 1
      BY <2>1, <3>2, <3>3, <3>4
    <3>6. seqno'[sp] \in Nat
      BY <2>1, <3>4
    <3> QED
      BY <3>4, <3>5, <3>6
  <2> QED
    BY <2>2, <2>3
<1> QED
  BY <1>3, <1>5, <1>6 DEF TableKept

LEMMA FreeId == ASSUME Unborn # {} PROVE \E i \in Item : ~Born(i) /\ i = Min(Unborn)
BY MinIn, ItemsAreNumbered DEF Unborn, Born

(* A handler that reads a row to write it back.                            *)
LEMMA NumbersRead ==
  ASSUME Shape, NumbersKept, NEW h \in Handler, NEW r, Begin(h, r), UNCHANGED <<item, seqno>>, ItemRequest(r)
  PROVE  NumbersKept'
<1>1. Alone(h) /\ req'[h] = r
  BY Moving
<1>2. ItemRequest(r)'
  BY DEF ItemRequest, ReadRow, Born, SameRow
<1>3. ItemRequest(req[h])'
  BY <1>1, <1>2
<1> QED
  BY <1>1, <1>3, NumbersBy, RowsStayPut, TableStaysPut DEF NumbersKept

LEMMA NumbersDone ==
  ASSUME Shape, NumbersKept, NEW h \in Handler, End(h), RowsStay, TableKept'
  PROVE  NumbersKept'
<1>1. Alone(h) /\ req'[h] = Idle
  BY Ending
<1>2. ItemRequest(req[h])'
  BY <1>1 DEF ItemRequest, Idle
<1> QED
  BY <1>1, <1>2, NumbersBy

(* What a row was born with is what its UPDATE writes.                     *)
LEMMA StampedIsRead ==
  ASSUME NEW row, NEW i, ReadRow(row, i)
  PROVE  ReadRow(Stamped(i, row), i)
BY DEF ReadRow, Stamped, NoItem, SameRow

LEMMA NumbersByItems ==
  ASSUME Shape, NumbersKept, NEW h \in Handler, ItemsStep(h)
  PROVE  NumbersKept' /\ RowsStay
<1> USE DEF itemVars, groundVars
<1>1. CASE OtherItemsStep(h)
  <2>1. UNCHANGED <<item, seqno>>
    <3>1. CASE CreateTicketBegin(h) \/ ReadTicketNumber(h) \/ ShareItemBegin(h) \/ CreateItemTypeBegin(h) \/ CreateItemType(h)
      BY <3>1 DEF CreateTicketBegin, ReadTicketNumber, ShareItemBegin, CreateItemTypeBegin, CreateItemType
    <3>2. CASE SetArchivedBegin(h) \/ SetItemTypeArchived(h) \/ DeleteItemTypeBegin(h) \/ CountItemsOfType(h) \/ DeleteItemType(h)
      BY <3>2 DEF SetArchivedBegin, DeleteItemTypeBegin, OwnedType, SetItemTypeArchived, CountItemsOfType, DeleteItemType
    <3> QED
      BY <1>1, <3>1, <3>2 DEF OtherItemsStep
  <2> QED
    BY <1>1, <2>1, OtherItemsAside, AsideIsApart, NumbersApart, RowsStayPut DEF OtherItemsOp, RowOp
<1>2. CASE CreateItemBegin(h)
  <2>1. PICK r : Begin(h, r) /\ r.op = "createitem" /\ r.sp \in Space
    BY <1>2 DEF CreateItemBegin
  <2>2. ItemRequest(r)
    BY <2>1 DEF ItemRequest
  <2> QED
    BY <1>2, <2>1, <2>2, NumbersRead, RowsStayPut DEF CreateItemBegin
<1>3. ASSUME NEW i \in Item, NEW op \in {"updateitem", "updateticket"}, NEW row, ItemLive(i),
             DOMAIN row = DOMAIN NoItem, row.st = "live", SameRow(row, item[i]),
             Begin(h, [op |-> op, pc |-> "write", i |-> i, row |-> row]), UNCHANGED <<item, seqno>>
      PROVE  NumbersKept' /\ RowsStay
  <2>1. ReadRow(row, i)
    BY <1>3 DEF ReadRow, Born, ItemLive
  <2> DEFINE r == [op |-> op, pc |-> "write", i |-> i, row |-> row]
  <2>2. ItemRequest(r)
    BY <2>1 DEF ItemRequest
  <2>3. Begin(h, r)
    BY <1>3
  <2> HIDE DEF r
  <2> QED
    BY <1>3, <2>2, <2>3, NumbersRead, RowsStayPut
<1>5. CASE UpdateItemBegin(h) \/ UpdateTicketBegin(h)
  <2>1. PICK i, op, c, k, a :
          /\ i \in Item /\ op \in {"updateitem", "updateticket"}
          /\ ItemLive(i) /\ UNCHANGED <<item, seqno>>
          /\ Begin(h, [op |-> op, pc |-> "write", i |-> i, row |-> [WithColumns(item[i], c) EXCEPT !.kind = k, !.assignee = a]])
    BY <1>5 DEF UpdateItemBegin, UpdateTicketBegin, PatchBegin
  <2>2. PICK row : row = [WithColumns(item[i], c) EXCEPT !.kind = k, !.assignee = a]
    OBVIOUS
  <2>3. PICK w : w = WithColumns(item[i], c)
    OBVIOUS
  <2>4. i \in Item /\ ItemLive(i)
    BY <2>1
  <2>5. DOMAIN w = DOMAIN NoItem /\ w.st = "live" /\ SameRow(w, item[i])
    BY <2>3, <2>4 DEF NumbersKept, TableKept, RowShape, NoItem, SameRow, ItemLive, WithColumns
  <2>6. row = [w EXCEPT !.kind = k, !.assignee = a]
    BY <2>2, <2>3
  <2>7. DOMAIN row = DOMAIN NoItem /\ row.st = "live" /\ SameRow(row, item[i])
    BY <2>5, <2>6 DEF NoItem, SameRow
  <2> QED
    BY <1>3, <2>1, <2>2, <2>7
<1>6. CASE AssignBegin(h) \/ UnassignBegin(h)
  <2>1. PICK i, a :
          /\ i \in Item
          /\ ItemLive(i) /\ UNCHANGED <<item, seqno>>
          /\ Begin(h, [op |-> "updateticket", pc |-> "write", i |-> i, row |-> [item[i] EXCEPT !.assignee = a]])
    BY <1>6 DEF AssignBegin, UnassignBegin
  <2>2. PICK row : row = [item[i] EXCEPT !.assignee = a]
    OBVIOUS
  <2>3. DOMAIN row = DOMAIN NoItem /\ row.st = "live" /\ SameRow(row, item[i])
    BY <2>1, <2>2 DEF NumbersKept, TableKept, RowShape, NoItem, SameRow, ItemLive
  <2> QED
    BY <1>3, <2>1, <2>2, <2>3
<1>7. CASE DeleteItemBegin(h) \/ DeleteTicketBegin(h)
  <2>1. PICK i \in Item : /\ ItemLive(i) /\ UNCHANGED <<item, seqno>>
                          /\ Begin(h, [op |-> "deleteitem", pc |-> "delete", i |-> i])
    BY <1>7 DEF DeleteItemBegin, DeleteTicketBegin, DeleteBegin
  <2> DEFINE r == [op |-> "deleteitem", pc |-> "delete", i |-> i]
  <2>2. ItemRequest(r)
    BY <2>1 DEF ItemRequest, ItemLive, Born
  <2>3. Begin(h, r)
    BY <2>1
  <2> HIDE DEF r
  <2> QED
    BY <2>1, <2>2, <2>3, NumbersRead, RowsStayPut
<1>8. CASE CreateProjectItem(h)
  <2>1. PICK i \in Item : ~Born(i) /\ i = Min(Unborn)
    BY <1>8, FreeId DEF CreateProjectItem
  <2>2. PICK r : r = [NewRow("item", req[h]) EXCEPT !.num = seqno[req[h].sp] + 1, !.key = ItemKey(req[h].sp), !.kind = req[h].k]
    OBVIOUS
  <2>3. r.sp = req[h].sp /\ r.et = "item" /\ r.st = "live" /\ r.num = seqno[r.sp] + 1 /\ r.key = ItemKey(r.sp) /\ DOMAIN r = DOMAIN NoItem
    BY <2>2 DEF NewRow, NoItem, WithColumns
  <2>4. RowShape(r) /\ r.sp \in Space
    BY <1>8, <2>3 DEF RowShape, CreateProjectItem, At, NumbersKept, ItemRequest
  <2>5. \/ UNCHANGED <<item, seqno>>
        \/ /\ item' = [item EXCEPT ![i] = r] /\ seqno' = [seqno EXCEPT ![r.sp] = @ + 1] /\ ItemKeyFree(SpaceOrg[r.sp], r.key)
    BY <1>8, <2>1, <2>2, <2>3 DEF CreateProjectItem
  <2>6. RowsStay /\ TableKept'
    BY <2>1, <2>3, <2>4, <2>5, ItemInserted, RowsStayPut, TableStaysPut DEF NumbersKept
  <2> QED
    BY <1>8, <2>6, NumbersDone DEF CreateProjectItem
<1>9. CASE CreateTicket(h)
  <2>1. PICK i \in Item : ~Born(i) /\ i = Min(Unborn)
    BY <1>9, FreeId DEF CreateTicket
  <2>2. PICK r : r = [NewRow("ticket", req[h]) EXCEPT !.num = req[h].num]
    OBVIOUS
  <2>3. r.sp = req[h].sp /\ r.et = "ticket" /\ r.st = "live" /\ r.num = req[h].num /\ r.key = Nil /\ DOMAIN r = DOMAIN NoItem
    BY <2>2 DEF NewRow, NoItem, WithColumns
  <2>4. RowShape(r)
    BY <2>3 DEF RowShape
  <2>5. UNCHANGED seqno /\ (UNCHANGED item \/ (item' = [item EXCEPT ![i] = r] /\ TicketNumberFree(r.sp, r.num)))
    BY <1>9, <2>1, <2>2, <2>3 DEF CreateTicket
  <2>6. RowsStay /\ TableKept'
    BY <2>1, <2>3, <2>4, <2>5, TicketInserted, RowsStayPut, TableStaysPut DEF NumbersKept
  <2> QED
    BY <1>9, <2>6, NumbersDone DEF CreateTicket
<1>10. CASE UpdateProjectItem(h) \/ UpdateTicket(h)
  <2>1. PICK i, row : i = req[h].i /\ row = req[h].row
    OBVIOUS
  <2>2. PICK r : r = Stamped(i, row)
    OBVIOUS
  <2>3. /\ ReadRow(row, i) /\ End(h) /\ UNCHANGED seqno
        /\ UNCHANGED item \/ item' = [item EXCEPT ![i] = r]
    BY <1>10, <2>1, <2>2 DEF UpdateProjectItem, UpdateTicket, WriteRow, At, NumbersKept, ItemRequest
  <2>4. ReadRow(r, i)
    BY <2>2, <2>3, StampedIsRead
  <2>5. RowsStay /\ TableKept'
    BY <2>3, <2>4, TableRewritten, RowsStayPut, TableStaysPut DEF NumbersKept, ReadRow
  <2> QED
    BY <2>3, <2>5, NumbersDone
<1>11. CASE deleteEntityAndRevokeShares(h)
  <2>1. PICK i : i = req[h].i
    OBVIOUS
  <2>2. PICK r : r = [item[i] EXCEPT !.st = "deleted"]
    OBVIOUS
  <2>3. i \in Item /\ Born(i) /\ End(h) /\ UNCHANGED seqno /\ item' = [item EXCEPT ![i] = r]
    BY <1>11, <2>1, <2>2 DEF deleteEntityAndRevokeShares, At, NumbersKept, ItemRequest
  <2>4. DOMAIN r = DOMAIN NoItem /\ r.st = "deleted" /\ SameRow(r, item[i])
    BY <2>2, <2>3 DEF NumbersKept, TableKept, RowShape, NoItem, SameRow
  <2>5. RowsStay /\ TableKept'
    BY <2>3, <2>4, TableRewritten DEF NumbersKept
  <2> QED
    BY <2>3, <2>5, NumbersDone
<1>12. CASE MoveBegin(h)
  <2>1. PICK i \in Item, done \in BOOLEAN :
          /\ ItemLive(i) /\ UNCHANGED <<item, seqno>>
          /\ Begin(h, [op |-> "movestatus", pc |-> "write", i |-> i, done |-> done])
    BY <1>12 DEF MoveBegin
  <2> DEFINE r == [op |-> "movestatus", pc |-> "write", i |-> i, done |-> done]
  <2>2. ItemRequest(r)
    BY <2>1 DEF ItemRequest, ItemLive, Born
  <2>3. Begin(h, r)
    BY <2>1
  <2> HIDE DEF r
  <2> QED
    BY <2>1, <2>2, <2>3, NumbersRead, RowsStayPut
<1>13. CASE UpdateWorkflowState(h)
  <2>1. PICK i, done : i = req[h].i /\ done = req[h].done
    OBVIOUS
  <2>2. PICK r : r = Resolved(item[i], done)
    OBVIOUS
  <2>3. i \in Item /\ Born(i) /\ End(h) /\ UNCHANGED seqno /\ (UNCHANGED item \/ (ItemLive(i) /\ item' = [item EXCEPT ![i] = r]))
    BY <1>13, <2>1, <2>2 DEF UpdateWorkflowState, At, NumbersKept, ItemRequest
  <2>4. ItemLive(i) => DOMAIN r = DOMAIN NoItem /\ r.st = "live" /\ SameRow(r, item[i])
    BY <2>2, <2>3 DEF NumbersKept, TableKept, RowShape, NoItem, SameRow, ItemLive, Resolved
  <2>5. RowsStay /\ TableKept'
    BY <2>3, <2>4, TableRewritten, RowsStayPut, TableStaysPut DEF NumbersKept
  <2> QED
    BY <2>3, <2>5, NumbersDone
<1> QED
  BY <1>1, <1>2, <1>5, <1>6, <1>7, <1>8, <1>9, <1>10, <1>11, <1>12, <1>13 DEF ItemsStep, OtherItemsStep

(* What a list of rows in an order goes through.                           *)
LEMMA OrderedRows ==
  ASSUME NEW S, S \subseteq Item, NEW all \in SetToSeqs(S)
  PROVE  all \in Seq(S)
<1>1. IsFiniteSet(S)
  BY ItemsAreNumbered, FS_Subset
<1>2. Cardinality(S) \in Nat
  BY <1>1, FS_CardinalityType
<1>3. all \in [1 .. Cardinality(S) -> S]
  BY DEF SetToSeqs
<1> QED
  BY <1>2, <1>3

LEMMA NumbersByBacklog ==
  ASSUME Shape, NumbersKept, NEW h \in Handler, BacklogStep(h)
  PROVE  NumbersKept' /\ RowsStay
<1> USE DEF itemVars, groundVars
<1>1. CASE RankItem(h)
  <2>1. PICK sp, spot, all : /\ all \in SortedByRank(sp) /\ UNCHANGED <<item, seqno>>
                            /\ \E at \in DOMAIN all :
                                 Begin(h, [op |-> "rank", pc |-> "write", i |-> all[at], spot |-> spot, all |-> all,
                                           order |-> newOrder(all, at, spot.before, spot.after), rows |-> item, n |-> 1])
    BY <1>1 DEF RankItem
  <2>2. PICK S : S = ListProjectItemsBySpace(sp)
    OBVIOUS
  <2>3. S \subseteq Item /\ \A i \in S : item[i].st = "live"
    BY <2>2 DEF ListProjectItemsBySpace, Rows, ItemLive
  <2>4. all \in SetToSeqs(S)
    BY <2>1, <2>2 DEF SortedByRank
  <2>5. all \in Seq(S)
    BY <2>3, <2>4, OrderedRows
  <2>6. PICK at \in DOMAIN all :
          Begin(h, [op |-> "rank", pc |-> "write", i |-> all[at], spot |-> spot, all |-> all,
                    order |-> newOrder(all, at, spot.before, spot.after), rows |-> item, n |-> 1])
    BY <2>1
  <2>7. PICK order : order = newOrder(all, at, spot.before, spot.after)
    OBVIOUS
  <2>8. order \in Seq(S) /\ Len(order) = Len(all)
    BY <2>5, <2>7, newOrderKeeps
  <2>9. 1 \in 1 .. Len(order)
    BY <2>5, <2>8
  <2>10. PICK r : r = [op |-> "rank", pc |-> "write", i |-> all[at], spot |-> spot, all |-> all,
                       order |-> order, rows |-> item, n |-> 1]
    OBVIOUS
  <2>11. r.op = "rank" /\ r.order = order /\ r.n = 1 /\ r.rows = item
    BY <2>10
  <2>12. \A i \in S : ReadRow(item[i], i)
    BY <2>3 DEF ReadRow, Born, SameRow, NumbersKept, TableKept, RowShape
  <2>13. \A m \in 1 .. Len(order) : order[m] \in S
    BY <2>8
  <2>14. order \in Seq(Item)
    BY <2>3, <2>8
  <2>15. ItemRequest(r)
    BY <2>9, <2>11, <2>12, <2>13, <2>14 DEF ItemRequest
  <2>16. Begin(h, r)
    BY <2>6, <2>7, <2>10
  <2> QED
    BY <2>1, <2>15, <2>16, NumbersRead, RowsStayPut
<1>2. CASE RankItemRelative(h)
  <2>1. PICK r : r = req[h]
    OBVIOUS
  <2>2. PICK j : j = r.order[r.n]
    OBVIOUS
  <2>3. r.op = "rank" /\ r.n \in 1 .. Len(r.order) /\ r.order \in Seq(Item) /\ ReadRow(r.rows[j], j) /\ UNCHANGED seqno
    BY <1>2, <2>1, <2>2 DEF RankItemRelative, At, NumbersKept, ItemRequest
  <2>4. PICK w, row : w = Stamped(j, r.rows[j]) /\ row = [w EXCEPT !.rank = r.n]
    OBVIOUS
  <2>5. DOMAIN row = DOMAIN NoItem /\ row.st = "live" /\ SameRow(row, item[j]) /\ j \in Item /\ Born(j)
    <3>1. ReadRow(w, j)
      BY <2>3, <2>4, StampedIsRead
    <3> QED
      BY <2>4, <3>1 DEF ReadRow, NoItem, SameRow
  <2>6. UNCHANGED item \/ item' = [item EXCEPT ![j] = row]
    BY <1>2, <2>1, <2>2, <2>4 DEF RankItemRelative
  <2>7. RowsStay /\ TableKept'
    BY <2>3, <2>5, <2>6, TableRewritten, RowsStayPut, TableStaysPut DEF NumbersKept
  <2>8. CASE End(h)
    BY <2>7, <2>8, NumbersDone
  <2>9. CASE r.n < Len(r.order) /\ Go(h, [r EXCEPT !.n = @ + 1])
    <3>1. PICK s : s = [r EXCEPT !.n = @ + 1]
      OBVIOUS
    <3>2. "op" \in DOMAIN r
      BY <2>1 DEF Shape
    <3>3. s.op = r.op /\ \A f \in {"order", "rows", "row", "i", "sp"} : f \in DOMAIN r => s[f] = r[f]
      BY <3>1, <3>2
    <3>4. Alone(h) /\ req'[h] = s
      BY <2>9, <3>1, Moving
    <3>5. ASSUME NEW k \in Handler, req'[k] = req[k] PROVE ItemRequest(req[k])'
      BY <2>7, <3>5, ItemRequestStays DEF NumbersKept
    <3>6. s.order = r.order /\ s.rows = r.rows
      BY <3>1
    <3>7. s.n = r.n + 1
      BY <2>3, <3>1
    <3>8. \A m \in 1 .. Len(r.order) : ReadRow(r.rows[r.order[m]], r.order[m])
      BY <2>1, <2>3 DEF NumbersKept, ItemRequest
    <3>9. \A x, i : ReadRow(x, i) => ReadRow(x, i)'
      BY <2>7 DEF RowsStay, ReadRow, SameRow, Born
    <3>10. ItemRequest(s)'
      BY <2>3, <2>9, <3>3, <3>6, <3>7, <3>8, <3>9 DEF ItemRequest
    <3>11. ItemRequest(req[h])'
      BY <3>4, <3>10
    <3> QED
      BY <2>7, <3>4, <3>11, NumbersBy
  <2> QED
    BY <1>2, <2>1, <2>8, <2>9 DEF RankItemRelative
<1> QED
  BY <1>1, <1>2 DEF BacklogStep

(* Of the portal's steps one inserts a ticket.                             *)
LEMMA PortalReadsRows ==
  ASSUME NEW h \in Handler, PortalStep(h), ~CreatePortalRequest(h)
  PROVE  UNCHANGED item
<1>1. CASE CreateConfig(h) \/ CreatePortal(h) \/ UpdatePortal(h)
  BY <1>1 DEF CreateConfig, CreatePortal, UpdatePortal
<1>2. CASE RequestLinkBegin(h) \/ UpsertRequester(h) \/ InvalidateOutstandingLinks(h) \/ CreateMagicLink(h)
  BY <1>2 DEF RequestLinkBegin, UpsertRequester, InvalidateOutstandingLinks, CreateMagicLink
<1>3. CASE RedeemBegin(h) \/ ConsumeMagicLink(h) \/ IssueSession(h) \/ SignOut(h)
  BY <1>3 DEF RedeemBegin, ConsumeMagicLink, IssueSession, SignOut
<1>4. CASE SubmitBegin(h) \/ ReadRequestNumber(h) \/ ReplyBegin(h) \/ CreateRequesterComment(h)
  BY <1>4 DEF SubmitBegin, ReadRequestNumber, ReplyBegin, CreateRequesterComment
<1> QED
  BY <1>1, <1>2, <1>3, <1>4 DEF PortalStep

LEMMA NumbersByPortal ==
  ASSUME Shape, NumbersKept, NEW h \in Handler, PortalStep(h)
  PROVE  NumbersKept' /\ RowsStay
<1>1. UNCHANGED seqno /\ Apart(h, RowOp)
  BY PortalLeavesFiles, PortalApart DEF PortalOp, DeskOp, RowOp
<1>2. CASE ~CreatePortalRequest(h)
  BY <1>1, <1>2, PortalReadsRows, NumbersApart, RowsStayPut
<1>3. CASE CreatePortalRequest(h)
  <2>1. PICK i \in Item : ~Born(i) /\ i = Min(Unborn)
    BY <1>3, FreeId DEF CreatePortalRequest
  <2>2. PICK r : r = [NewRow("ticket", req[h]) EXCEPT !.num = req[h].num]
    OBVIOUS
  <2>3. r.sp = req[h].sp /\ r.et = "ticket" /\ r.st = "live" /\ r.num = req[h].num /\ r.key = Nil /\ DOMAIN r = DOMAIN NoItem
    BY <2>2 DEF NewRow, NoItem, WithColumns
  <2>4. RowShape(r)
    BY <2>3 DEF RowShape
  <2>5. UNCHANGED item \/ (item' = [item EXCEPT ![i] = r] /\ TicketNumberFree(r.sp, r.num))
    BY <1>3, <2>1, <2>2, <2>3 DEF CreatePortalRequest
  <2>6. RowsStay /\ TableKept'
    BY <1>1, <2>1, <2>3, <2>4, <2>5, TicketInserted, RowsStayPut, TableStaysPut DEF NumbersKept
  <2>7. req[h].op = "submit" /\ Alone(h)
    BY <1>1, <1>3 DEF CreatePortalRequest, At, Apart
  <2>8. req'[h].op \notin RowOp
    BY <1>1, <2>7 DEF Apart, Foreign, Idle, RowOp
  <2>9. ItemRequest(req[h])'
    BY <2>8 DEF ItemRequest, RowOp
  <2> QED
    BY <2>6, <2>7, <2>9, NumbersBy
<1> QED
  BY <1>2, <1>3

LEMMA NumbersNext ==
  ASSUME Shape, NumbersKept, [TrackerNext]_trackerVars
  PROVE  NumbersKept' /\ RowsStay
<1> USE DEF itemVars, RowOp
<1>1. ASSUME NEW h \in Handler, AccessStep(h) \/ SpacesStep(h) \/ SharesStep(h), UNCHANGED itemVars
      PROVE  NumbersKept' /\ RowsStay
  BY <1>1, AsideIsApart, AccessAside, SpacesAside, SharesAside, NumbersApart, RowsStayPut DEF AccessOp, SpacesOp, SharesOp
<1>2. ASSUME NEW h \in Handler, RelationsStep(h) \/ FieldsStep(h) \/ BoardsStep(h) \/ CommentsStep(h)
      PROVE  NumbersKept' /\ RowsStay
  <2>1. UNCHANGED <<item, seqno>>
    BY <1>2, RelationsLeaveRows, FieldsLeaveRows, BoardsLeaveRows, CommentsLeaveRows
  <2> QED
    BY <1>2, <2>1, AsideIsApart, RelationsAside, FieldsAside, BoardsAside, CommentsAside, NumbersApart, RowsStayPut
       DEF RelationsOp, FieldsOp, BoardsOp, CommentsOp
<1>3. ASSUME NEW h \in Handler, ViewsStep(h) \/ SearchStep(h) \/ QueuesStep(h) \/ DashboardsStep(h)
      PROVE  NumbersKept' /\ RowsStay
  BY <1>3, ViewsLeaveRows, SearchLeavesRows, QueuesLeaveRows, DashboardsLeaveRows, AsideIsApart, ViewsAside, SearchAside, QueuesAside, DashboardsAside, NumbersApart, RowsStayPut
     DEF ViewsOp, SearchOp, QueuesOp, DashboardsOp
<1>4. CASE EmptySearch
  BY <1>4, RowsStayPut, TableStaysPut, ItemRequestStays DEF EmptySearch, Serve, NumbersKept
<1>5. CASE LinkExpires \/ UNCHANGED trackerVars
  BY <1>5, RowsStayPut, TableStaysPut, ItemRequestStays DEF LinkExpires, serverVars, deskVars, trackerVars, NumbersKept
<1> QED
  BY <1>1, <1>2, <1>3, <1>4, <1>5, NumbersByItems, NumbersByBacklog, NumbersByPortal DEF TrackerNext

(* The highest of the numbers from one on.                                 *)
LEMMA MaxTo == ASSUME NEW n \in Nat PROVE Max({0} \cup 1 .. n) = n
<1>1. n \in {0} \cup 1 .. n /\ \A y \in {0} \cup 1 .. n : n >= y
  OBVIOUS
<1>2. \A x \in {0} \cup 1 .. n : (\A y \in {0} \cup 1 .. n : x >= y) => x = n
  BY <1>1
<1> QED
  BY <1>1, <1>2 DEF Max

LEMMA ChosenInit ==
  ASSUME TrackerInit
  PROVE  Chosen /\ mix.name \in DOMAIN Casts
<1>1. PICK n \in DOMAIN Mixes : mix = With([name |-> n], Mixes[n])
  BY DEF TrackerInit, ServerInit
<1>2. mix.name = n
  BY <1>1 DEF With
<1> QED
  BY <1>1, <1>2, EveryMixHasACast DEF Chosen

LEMMA NumbersInit ==
  ASSUME TrackerInit
  PROVE  NumbersKept
<1>1. PICK rows : rows = CastItems(Cast.item) /\ WellNumbered(rows)
  BY ChosenInit, CastItemsAreNumbered DEF Cast
<1>2. item = rows /\ DOMAIN rows = Item
  BY <1>1 DEF TrackerInit, ItemInit, CastItems
<1>3. seqno = [sp \in Space |-> Max({0} \cup {item[i].num : i \in {j \in Item : item[j].sp = sp /\ item[j].et = "item"}})]
  BY DEF TrackerInit, ItemInit
<1>4. ASSUME NEW sp \in Space PROVE seqno[sp] \in Nat /\ {item[i].num : i \in Rows(sp, "item")} = 1 .. seqno[sp]
  <2>1. PICK n \in 0 .. Cardinality(Item) : {rows[i].num : i \in {j \in Item : rows[j].sp = sp /\ rows[j].et = "item"}} = 1 .. n
    BY <1>1 DEF WellNumbered
  <2>2. n \in Nat
    BY ItemsAreNumbered, FS_CardinalityType
  <2>3. seqno[sp] = Max({0} \cup 1 .. n)
    BY <1>2, <1>3, <2>1
  <2>4. seqno[sp] = n
    BY <2>2, <2>3, MaxTo
  <2> QED
    BY <1>2, <2>1, <2>2, <2>4 DEF Rows
<1>5. \A i \in Item : RowShape(item[i])
  BY <1>1, <1>2 DEF WellNumbered, RowShape
<1>6. \A i, j \in Item : i # j /\ Born(i) => Distinct(i, j)
  BY <1>1, <1>2 DEF WellNumbered, Born, Distinct
<1>7. \A h \in Handler : ItemRequest(req[h])
  BY DEF TrackerInit, ServerInit, ItemRequest, Idle
<1> QED
  BY <1>2, <1>3, <1>4, <1>5, <1>6, <1>7 DEF NumbersKept, TableKept

-----------------------------------------------------------------------------
(* Relations                                                               *)

LEMMA RelationsApart ==
  ASSUME Shape, RelationsKept, NEW h \in Handler, Apart(h, RelationsOp), UNCHANGED rel
  PROVE  RelationsKept'
<1>1. \A k \in Handler : req'[k] = req[k] \/ req'[k].op # "relate"
  BY DEF Apart, Alone, Foreign, Idle, RelationsOp
<1> QED
  BY <1>1 DEF RelationsKept, TwoEnds, Entity

LEMMA RelationsByRelations ==
  ASSUME Shape, RelationsKept, NEW h \in Handler, RelationsStep(h)
  PROVE  RelationsKept'
<1>1. ASSUME NEW r, UNCHANGED rel, Alone(h), req'[h] = r, r.op = "relate" => TwoEnds(r.from, r.to)
      PROVE  RelationsKept'
  BY <1>1 DEF RelationsKept, TwoEnds, Entity, Alone
<1>2. CASE CreateRelationBegin(h)
  <2>1. PICK from, to, k, rs : /\ TwoEnds(from, to) /\ UNCHANGED rel
                               /\ Begin(h, [op |-> "relate", pc |-> "far", from |-> from, to |-> to, k |-> k, readable |-> rs])
    BY <1>2 DEF CreateRelationBegin, validateNewRelation, TwoEnds
  <2> QED
    BY <1>1, <2>1, Moving
<1>3. CASE CheckFarSide(h)
  <2>1. UNCHANGED rel /\ TwoEnds(req[h].from, req[h].to)
    BY <1>3 DEF CheckFarSide, At, RelationsKept
  <2>2. CASE End(h)
    BY <2>1, <2>2, Ending, RelationsApart DEF Apart, Alone
  <2>3. CASE Go(h, [op |-> "relate", pc |-> "insert", from |-> req[h].from, to |-> req[h].to, k |-> req[h].k])
    BY <1>1, <2>1, <2>3, Moving
  <2> QED
    BY <1>3, <2>2, <2>3 DEF CheckFarSide
<1>4. CASE CreateEntityRelation(h)
  <2>1. PICK i : i = Min({j \in RelId : rel[j].st = "none"})
    OBVIOUS
  <2>2. PICK r : r = [st |-> "live", from |-> req[h].from, to |-> req[h].to, kind |-> req[h].k]
    OBVIOUS
  <2>3. TwoEnds(r.from, r.to) /\ End(h) /\ rel' = [rel EXCEPT ![i] = r] /\ DOMAIN r = DOMAIN NoRel
    BY <1>4, <2>1, <2>2 DEF CreateEntityRelation, At, RelationsKept, NoRel
  <2>4. \A j \in RelId : rel'[j] = rel[j] \/ rel'[j] = r
    BY <2>3 DEF RelationsKept
  <2>5. \A k \in Handler : req'[k] = req[k] \/ req'[k].op # "relate"
    BY <2>3, Ending DEF Alone, Idle
  <2> QED
    BY <2>3, <2>4, <2>5 DEF RelationsKept, TwoEnds, Entity
<1>5. CASE DeleteEntityRelationInSpace(h)
  <2>1. PICK i \in RelId : UNCHANGED rel \/ rel' = [rel EXCEPT ![i].st = "deleted"]
    BY <1>5 DEF DeleteEntityRelationInSpace
  <2>2. PICK r : r = [rel[i] EXCEPT !.st = "deleted"]
    OBVIOUS
  <2>3. DOMAIN r = DOMAIN NoRel /\ r.st = "deleted"
    BY <2>2 DEF RelationsKept, NoRel
  <2>4. \A j \in RelId : rel'[j] = rel[j] \/ rel'[j] = r
    BY <2>1, <2>2 DEF RelationsKept
  <2>5. req' = req /\ DOMAIN rel' = RelId
    BY <1>5, <2>1, Serving DEF DeleteEntityRelationInSpace, RelationsKept
  <2> QED
    BY <2>3, <2>4, <2>5 DEF RelationsKept, TwoEnds, Entity
<1> QED
  BY <1>2, <1>3, <1>4, <1>5 DEF RelationsStep

LEMMA RelationsNext ==
  ASSUME Shape, RelationsKept, [TrackerNext]_trackerVars
  PROVE  RelationsKept'
<1> USE DEF talkVars, RelationsOp
<1>1. ASSUME NEW h \in Handler, AccessStep(h) \/ SpacesStep(h) \/ SharesStep(h) \/ ItemsStep(h) \/ BacklogStep(h), UNCHANGED rel
      PROVE  RelationsKept'
  BY <1>1, AsideIsApart, AccessAside, SpacesAside, SharesAside, ItemsAside, BacklogAside, RelationsApart
     DEF AccessOp, SpacesOp, SharesOp, ItemsOp, OtherItemsOp, BacklogOp
<1>2. ASSUME NEW h \in Handler, FieldsStep(h) \/ BoardsStep(h) \/ CommentsStep(h), UNCHANGED rel
      PROVE  RelationsKept'
  BY <1>2, AsideIsApart, FieldsAside, BoardsAside, CommentsAside, RelationsApart DEF FieldsOp, BoardsOp, CommentsOp
<1>3. ASSUME NEW h \in Handler, ViewsStep(h) \/ SearchStep(h) \/ QueuesStep(h) \/ DashboardsStep(h), UNCHANGED rel
      PROVE  RelationsKept'
  BY <1>3, AsideIsApart, ViewsAside, SearchAside, QueuesAside, DashboardsAside, RelationsApart DEF ViewsOp, SearchOp, QueuesOp, DashboardsOp
<1>4. ASSUME NEW h \in Handler, PortalStep(h) PROVE RelationsKept'
  <2>1. UNCHANGED rel
    BY <1>4, PortalLeavesFiles
  <2> QED
    BY <1>4, <2>1, PortalApart, RelationsApart DEF PortalOp, DeskOp
<1>5. CASE UNCHANGED <<req, rel>>
  BY <1>5 DEF RelationsKept, TwoEnds, Entity
<1>6. (EmptySearch /\ UNCHANGED talkVars) \/ LinkExpires \/ UNCHANGED trackerVars => UNCHANGED <<req, rel>>
  BY DEF EmptySearch, Serve, LinkExpires, serverVars, deskVars, trackerVars
<1> QED
  BY <1>1, <1>2, <1>3, <1>4, <1>5, <1>6, RelationsByRelations, CommentsLeaveRows DEF TrackerNext

LEMMA RelationsInit == ASSUME TrackerInit PROVE RelationsKept
BY DEF TrackerInit, ServerInit, RelInit, RelationsKept, NoRel, Idle

(* Whatever is listed of an entity that may be read.                       *)
LEMMA ListedRelations ==
  ASSUME RelationsKept, NEW d \in Entity, NEW e \in Entity, d # e, NEW sps, TargetIsReadable(d, sps), TargetIsReadable(e, sps),
         NEW kind, NEW dir
  PROVE  (\E x \in ListEntityRelationsForEntity(d, sps) : x.far = e /\ x.kind = kind /\ x.dir = dir) <=>
           \/ dir = "outgoing" /\ \E i \in RelId : rel[i].st = "live" /\ rel[i].kind = kind /\ rel[i].from = d /\ rel[i].to = e
           \/ dir = "incoming" /\ \E i \in RelId : rel[i].st = "live" /\ rel[i].kind = kind /\ rel[i].from = e /\ rel[i].to = d
<1> DEFINE out == {Seen(i, "outgoing", rel[i].to, sps) : i \in {j \in RelId : rel[j].st = "live" /\ rel[j].from = d}}
           in == {Seen(i, "incoming", rel[i].from, sps) : i \in {j \in RelId : rel[j].st = "live" /\ rel[j].to = d /\ rel[j].from # d}}
<1>1. ListEntityRelationsForEntity(d, sps) = out \cup in
  BY DEF ListEntityRelationsForEntity
<1>2. e # Nil
  BY NilIsNoEntity DEF Entity
<1>3. \A w, far : \A i \in RelId : LET x == Seen(i, w, far, sps) IN
        x.kind = rel[i].kind /\ x.dir = w /\ (x.far = e <=> far = e)
  BY <1>2 DEF Seen
<1>4. (\E x \in out : x.far = e /\ x.kind = kind /\ x.dir = dir) <=>
        dir = "outgoing" /\ \E i \in RelId : rel[i].st = "live" /\ rel[i].kind = kind /\ rel[i].from = d /\ rel[i].to = e
  <2>1. \A x \in out : \E i \in RelId : rel[i].st = "live" /\ rel[i].from = d /\ x = Seen(i, "outgoing", rel[i].to, sps)
    OBVIOUS
  <2>2. \A i \in RelId : rel[i].st = "live" /\ rel[i].from = d => Seen(i, "outgoing", rel[i].to, sps) \in out
    OBVIOUS
  <2> HIDE DEF out
  <2> QED
    BY <1>3, <2>1, <2>2
<1>5. (\E x \in in : x.far = e /\ x.kind = kind /\ x.dir = dir) <=>
        dir = "incoming" /\ \E i \in RelId : rel[i].st = "live" /\ rel[i].kind = kind /\ rel[i].from = e /\ rel[i].to = d
  <2>1. \A x \in in : \E i \in RelId : rel[i].st = "live" /\ rel[i].to = d /\ x = Seen(i, "incoming", rel[i].from, sps)
    OBVIOUS
  <2>2. \A i \in RelId : rel[i].st = "live" /\ rel[i].to = d /\ rel[i].from # d => Seen(i, "incoming", rel[i].from, sps) \in in
    OBVIOUS
  <2> HIDE DEF in
  <2> QED
    BY <1>3, <2>1, <2>2
<1> QED
  BY <1>1, <1>4, <1>5

LEMMA MirrorOfTwo ==
  ASSUME RelationsKept, NEW d \in Entity, NEW e \in Entity, d # e, NEW sps, TargetIsReadable(d, sps), TargetIsReadable(e, sps)
  PROVE  /\ (\E x \in ListEntityRelationsForEntity(d, sps) : x.far = e) <=> (\E x \in ListEntityRelationsForEntity(e, sps) : x.far = d)
         /\ (\E x \in GetBlockers(d, sps) : x.far = e) <=> (\E x \in GetBlocking(e, sps) : x.far = d)
<1> DEFINE D == ListEntityRelationsForEntity(d, sps)
           E == ListEntityRelationsForEntity(e, sps)
           FromTo(a, b, kind) == \E i \in RelId : rel[i].st = "live" /\ rel[i].kind = kind /\ rel[i].from = a /\ rel[i].to = b
<1>1. \A kind, dir : (\E x \in D : x.far = e /\ x.kind = kind /\ x.dir = dir) <=>
        (dir = "outgoing" /\ FromTo(d, e, kind)) \/ (dir = "incoming" /\ FromTo(e, d, kind))
  BY ListedRelations
<1>2. \A kind, dir : (\E x \in E : x.far = d /\ x.kind = kind /\ x.dir = dir) <=>
        (dir = "outgoing" /\ FromTo(e, d, kind)) \/ (dir = "incoming" /\ FromTo(d, e, kind))
  BY ListedRelations
<1>3. /\ \A x \in D : x.dir \in {"outgoing", "incoming"}
      /\ \A x \in E : x.dir \in {"outgoing", "incoming"}
  BY DEF ListEntityRelationsForEntity, Seen
<1>4. (\E x \in GetBlockers(d, sps) : x.far = e) <=>
        \/ \E x \in D : x.far = e /\ x.kind = "is_blocked_by" /\ x.dir = "outgoing"
        \/ \E x \in D : x.far = e /\ x.kind = "blocks" /\ x.dir = "incoming"
  BY <1>3 DEF GetBlockers, filterByDirectedKind
<1>5. (\E x \in GetBlocking(e, sps) : x.far = d) <=>
        \/ \E x \in E : x.far = d /\ x.kind = "blocks" /\ x.dir = "outgoing"
        \/ \E x \in E : x.far = d /\ x.kind = "is_blocked_by" /\ x.dir = "incoming"
  BY <1>3 DEF GetBlocking, filterByDirectedKind
<1> HIDE DEF D, E, FromTo
<1>6. (\E x \in GetBlockers(d, sps) : x.far = e) <=> (\E x \in GetBlocking(e, sps) : x.far = d)
  <2>1. /\ (\E x \in D : x.far = e /\ x.kind = "is_blocked_by" /\ x.dir = "outgoing") <=> FromTo(d, e, "is_blocked_by")
        /\ (\E x \in D : x.far = e /\ x.kind = "blocks" /\ x.dir = "incoming") <=> FromTo(e, d, "blocks")
    BY <1>1
  <2>2. /\ (\E x \in E : x.far = d /\ x.kind = "blocks" /\ x.dir = "outgoing") <=> FromTo(e, d, "blocks")
        /\ (\E x \in E : x.far = d /\ x.kind = "is_blocked_by" /\ x.dir = "incoming") <=> FromTo(d, e, "is_blocked_by")
    BY <1>2
  <2> QED
    BY <1>4, <1>5, <2>1, <2>2
<1>7. (\E x \in D : x.far = e) <=> \E kind : FromTo(d, e, kind) \/ FromTo(e, d, kind)
  BY <1>1, <1>3
<1>8. (\E x \in E : x.far = d) <=> \E kind : FromTo(d, e, kind) \/ FromTo(e, d, kind)
  BY <1>2, <1>3
<1> QED
  BY <1>6, <1>7, <1>8 DEF D, E

LEMMA BothEndsSee == ASSUME RelationsKept PROVE BlockersMirror
<1>1. Linked \subseteq Entity
  BY DEF Linked, RelationsKept, TwoEnds
<1>2. ASSUME NEW d \in Entity, NEW sps, TargetIsReadable(d, sps)
      PROVE  ListRelationsInSpace(d, EntitySpace(d), sps) = ListEntityRelationsForEntity(d, sps)
  BY <1>2 DEF ListRelationsInSpace, TargetIsReadable
<1>3. ASSUME NEW d \in Entity, NEW sps
      PROVE  \A x \in ListEntityRelationsForEntity(d, sps) : x.far # d
  <2>1. d # Nil
    BY NilIsNoEntity DEF Entity
  <2> QED
    BY <2>1 DEF ListEntityRelationsForEntity, Seen, RelationsKept, TwoEnds
<1>4. ASSUME NEW u \in User, NEW sps, NEW d \in Entity, NEW e \in Entity, TargetIsReadable(d, sps), TargetIsReadable(e, sps)
      PROVE  /\ (\E x \in ListRelationsInSpace(d, EntitySpace(d), sps) : x.far = e) <=>
                  (\E x \in ListRelationsInSpace(e, EntitySpace(e), sps) : x.far = d)
             /\ (\E x \in GetBlockers(d, sps) : x.far = e) <=> (\E x \in GetBlocking(e, sps) : x.far = d)
  <2>1. CASE d # e
    BY <1>2, <1>4, <2>1, MirrorOfTwo
  <2>2. CASE d = e
    BY <1>3, <2>2 DEF GetBlockers, GetBlocking, filterByDirectedKind
  <2> QED
    BY <2>1, <2>2
<1> QED
  BY <1>1, <1>4 DEF BlockersMirror

LEMMA NumbersSuffice == ASSUME NumbersKept PROVE ItemsAreNumberedOnce
<1>1. \A i, j \in Item : i # j /\ Born(i) => Distinct(i, j)
  BY DEF NumbersKept, TableKept
<1>2. \A i \in Item : RowShape(item[i])
  BY DEF NumbersKept, TableKept
<1>3. \A sp \in Space : {item[i].num : i \in Rows(sp, "item")} = 1 .. seqno[sp]
  BY DEF NumbersKept, TableKept
<1>4. \A i, j \in Item : i # j /\ item[i].sp = item[j].sp /\ item[i].et = item[j].et =>
        item[i].st = "absent" \/ item[i].num # item[j].num
  BY <1>1 DEF Born, Distinct
<1>5. \A i \in Item : item[i].key # Nil => Born(i) /\ item[i].et = "item"
  BY <1>2 DEF RowShape, Born, NoItem
<1>6. \A i, j \in Item : i # j /\ item[i].key # Nil /\ item[j].key # Nil /\ SpaceOrg[item[i].sp] = SpaceOrg[item[j].sp] =>
        item[i].key # item[j].key
  BY <1>1, <1>5 DEF Distinct
<1>7. ASSUME NEW u \in Work.callers, NEW i \in Item, ItemLive(i), item[i].et = "item"
      PROVE  ResolveItem(u, item[i].sp, item[i].key) = (IF Can(u, "read_items", item[i].sp) THEN {i} ELSE {})
  <2>1. GetProjectItemByOrgKey(SpaceOrg[item[i].sp], item[i].key) = {i}
    BY <1>1, <1>7 DEF GetProjectItemByOrgKey, ItemLive, Born, Distinct
  <2> QED
    BY <2>1 DEF ResolveItem
<1> QED
  BY <1>3, <1>4, <1>6, <1>7 DEF ItemsAreNumberedOnce

-----------------------------------------------------------------------------
(* Threads                                                                 *)

LEMMA ThreadsApart ==
  ASSUME Shape, ThreadsKept, RowsStay, NEW h \in Handler, Apart(h, {"reply", "comment"}), UNCHANGED comment
  PROVE  ThreadsKept'
<1>1. \A k \in Handler : req'[k] = req[k] \/ req'[k].op \notin {"reply", "comment"}
  BY DEF Apart, Alone, Foreign, Idle
<1>2. \A i \in Item : Born(i) => Born(i)' /\ item'[i].by = item[i].by
  BY DEF RowsStay, Born, SameRow
<1> QED
  BY <1>1, <1>2 DEF ThreadsKept, Customers

(* A comment is added.                                                     *)
LEMMA ThreadsGrow ==
  ASSUME Shape, ThreadsKept, NEW h \in Handler, End(h), UNCHANGED item, NEW row, InsertComment(row),
         row.by \in Customers => row.e \in Item /\ Born(row.e) /\ item[row.e].by = row.by /\ row.vis = "public"
  PROVE  ThreadsKept'
<1>1. PICK c : comment' = [comment EXCEPT ![c] = row]
  BY DEF InsertComment
<1>2. \A d \in CommentId : comment'[d] = comment[d] \/ comment'[d] = row
  BY <1>1 DEF ThreadsKept
<1>3. \A k \in Handler : req'[k] = req[k] \/ req'[k].op \notin {"reply", "comment"}
  BY Ending DEF Alone, Idle
<1> QED
  BY <1>1, <1>2, <1>3 DEF ThreadsKept, Customers, Born

LEMMA CallersArePeople == ASSUME Chosen PROVE Work.callers \subseteq User
BY PeopleCall DEF Chosen, Work, With

LEMMA ThreadsByComments ==
  ASSUME Shape, Chosen, ThreadsKept, NEW h \in Handler, CommentsStep(h)
  PROVE  ThreadsKept'
<1> USE DEF commentVars
<1>1. UNCHANGED item /\ RowsStay
  BY CommentsLeaveRows, RowsStayPut DEF itemVars
<1>2. CASE CreateCommentBegin(h)
  <2>1. PICK r : Begin(h, r) /\ r.op = "comment" /\ r.by \in User /\ UNCHANGED comment
    BY <1>2, CallersArePeople DEF CreateCommentBegin
  <2>2. Alone(h) /\ req'[h] = r
    BY <2>1, Moving
  <2> QED
    BY <1>1, <2>1, <2>2 DEF ThreadsKept, Customers, Born, Alone
<1>3. CASE CreateComment(h)
  <2>1. req[h].by \notin Customers
    BY <1>3, PeopleCall DEF CreateComment, At, ThreadsKept, Customers
  <2>2. PICK row : row = [st |-> "live", e |-> req[h].e, by |-> req[h].by, vis |-> req[h].vis, parent |-> req[h].parent]
    OBVIOUS
  <2>3. End(h) /\ InsertComment(row) /\ row.by \notin Customers
    BY <1>3, <2>1, <2>2 DEF CreateComment
  <2> QED
    BY <1>1, <2>3, ThreadsGrow
<1>4. CASE ~CreateCommentBegin(h) /\ ~CreateComment(h)
  <2>1. UNCHANGED comment
    <3>1. CASE UploadBegin(h) \/ UploadPageImage(h) \/ PutObject(h) \/ CreateAttachment(h)
      BY <3>1 DEF UploadBegin, UploadPageImage, UploadTo, PutObject, CreateAttachment
    <3>2. CASE DeleteObject(h) \/ UploadDies(h) \/ DownloadInSpace(h) \/ DownloadShared(h)
      BY <3>2 DEF DeleteObject, UploadDies, DownloadInSpace, DownloadShared
    <3>3. CASE OpenForServing(h) \/ DeleteInSpace(h) \/ SoftDeleteAttachment(h)
      BY <3>3 DEF OpenForServing, DeleteInSpace, SoftDeleteAttachment
    <3> QED
      BY <1>4, <3>1, <3>2, <3>3 DEF CommentsStep
  <2>2. Aside(h, {"reply", "comment"})
    BY <1>4, FilesAside DEF CommentsStep, FilesStep, FilesOp
  <2> QED
    BY <1>1, <2>1, <2>2, AsideIsApart, ThreadsApart
<1> QED
  BY <1>2, <1>3, <1>4

LEMMA ThreadsByPortal ==
  ASSUME Shape, ThreadsKept, RowsStay, NEW h \in Handler, PortalStep(h)
  PROVE  ThreadsKept'
<1>1. CASE ReplyBegin(h)
  <2>1. PICK s \in psession, i \in Item :
          /\ GetPortalRequest(s.q, s.sp, i)
          /\ Begin(h, [op |-> "reply", pc |-> "insert", e |-> i, by |-> s.q])
          /\ UNCHANGED <<item, comment>>
    BY <1>1 DEF ReplyBegin
  <2>2. Born(i) /\ item[i].by = s.q
    BY <2>1 DEF GetPortalRequest, ItemInSpace, ItemLive, Born
  <2>3. Alone(h) /\ req'[h] = [op |-> "reply", pc |-> "insert", e |-> i, by |-> s.q]
    BY <2>1, Moving
  <2> QED
    BY <2>1, <2>2, <2>3 DEF ThreadsKept, Customers, Born, Alone
<1>2. CASE CreateRequesterComment(h)
  <2>1. req[h].e \in Item /\ Born(req[h].e) /\ item[req[h].e].by = req[h].by
    BY <1>2 DEF CreateRequesterComment, At, ThreadsKept
  <2>2. PICK row : row = [st |-> "live", e |-> req[h].e, by |-> req[h].by, vis |-> "public", parent |-> Nil]
    OBVIOUS
  <2>3. End(h) /\ InsertComment(row) /\ UNCHANGED item
    BY <1>2, <2>2 DEF CreateRequesterComment
  <2> QED
    BY <2>1, <2>2, <2>3, ThreadsGrow
<1>3. CASE ~ReplyBegin(h) /\ ~CreateRequesterComment(h)
  <2>1. UNCHANGED comment
    <3>1. CASE CreateConfig(h) \/ CreatePortal(h) \/ UpdatePortal(h)
      BY <3>1 DEF CreateConfig, CreatePortal, UpdatePortal
    <3>2. CASE RequestLinkBegin(h) \/ UpsertRequester(h) \/ InvalidateOutstandingLinks(h) \/ CreateMagicLink(h)
      BY <3>2 DEF RequestLinkBegin, UpsertRequester, InvalidateOutstandingLinks, CreateMagicLink
    <3>3. CASE RedeemBegin(h) \/ ConsumeMagicLink(h) \/ IssueSession(h) \/ SignOut(h)
      BY <3>3 DEF RedeemBegin, ConsumeMagicLink, IssueSession, SignOut
    <3>4. CASE SubmitBegin(h) \/ ReadRequestNumber(h) \/ CreatePortalRequest(h)
      BY <3>4 DEF SubmitBegin, ReadRequestNumber, CreatePortalRequest
    <3> QED
      BY <1>3, <3>1, <3>2, <3>3, <3>4 DEF PortalStep
  <2>2. Apart(h, {"reply", "comment"})
    <3>1. CASE InvalidateOutstandingLinks(h)
      <4>1. PICK rows, r : GoLocked(h, rows, r) /\ {"op", "pc"} \subseteq DOMAIN r /\ r.op = "link"
        BY <3>1 DEF InvalidateOutstandingLinks
      <4> QED
        BY <4>1, Locking DEF Apart, Foreign
    <3>2. CASE OtherDeskStep(h)
      BY <3>2, OtherDeskAside, AsideIsApart DEF OtherDeskOp
    <3>3. CASE LinkStep(h)
      BY <3>3, LinkAside, AsideIsApart DEF LinkOp
    <3> QED
      BY <1>3, <3>1, <3>2, <3>3 DEF PortalStep, OtherDeskStep, LinkStep
  <2> QED
    BY <2>1, <2>2, ThreadsApart
<1> QED
  BY <1>1, <1>2, <1>3

LEMMA ThreadsNext ==
  ASSUME Shape, Chosen, ThreadsKept, RowsStay, [TrackerNext]_trackerVars
  PROVE  ThreadsKept'
<1> USE DEF talkVars, commentVars
<1>1. ASSUME NEW h \in Handler, AccessStep(h) \/ SpacesStep(h) \/ SharesStep(h) \/ ItemsStep(h) \/ BacklogStep(h), UNCHANGED comment
      PROVE  ThreadsKept'
  BY <1>1, AsideIsApart, AccessAside, SpacesAside, SharesAside, ItemsAside, BacklogAside, ThreadsApart
     DEF AccessOp, SpacesOp, SharesOp, ItemsOp, OtherItemsOp, BacklogOp
<1>2. ASSUME NEW h \in Handler, RelationsStep(h) \/ FieldsStep(h) \/ BoardsStep(h), UNCHANGED comment
      PROVE  ThreadsKept'
  BY <1>2, AsideIsApart, RelationsAside, FieldsAside, BoardsAside, ThreadsApart DEF RelationsOp, FieldsOp, BoardsOp
<1>3. ASSUME NEW h \in Handler, ViewsStep(h) \/ SearchStep(h) \/ QueuesStep(h) \/ DashboardsStep(h), UNCHANGED comment
      PROVE  ThreadsKept'
  BY <1>3, AsideIsApart, ViewsAside, SearchAside, QueuesAside, DashboardsAside, ThreadsApart DEF ViewsOp, SearchOp, QueuesOp, DashboardsOp
<1>4. CASE UNCHANGED <<req, comment, item>>
  BY <1>4 DEF ThreadsKept, Customers, Born
<1>5. (EmptySearch /\ UNCHANGED talkVars) \/ LinkExpires \/ UNCHANGED trackerVars => UNCHANGED <<req, comment, item>>
  BY DEF EmptySearch, Serve, LinkExpires, serverVars, deskVars, trackerVars, itemVars
<1> QED
  BY <1>1, <1>2, <1>3, <1>4, <1>5, ThreadsByComments, ThreadsByPortal DEF TrackerNext

LEMMA ThreadsInit == ASSUME TrackerInit PROVE ThreadsKept
BY DEF TrackerInit, ServerInit, CommentInit, ThreadsKept, NoComment, Idle

LEMMA ThreadsSuffice == ASSUME ThreadsKept PROVE CustomersSeeTheirThread
BY DEF ThreadsKept, CustomersSeeTheirThread, ListPortalRequests, ListPortalTicketComments, ListCommentsByEntity

-----------------------------------------------------------------------------
(* What holds of every request, row and link                               *)

LEMMA ChosenNext ==
  ASSUME Shape, Chosen, [TrackerNext]_trackerVars
  PROVE  Chosen'
<1>1. UNCHANGED mix
  BY SomebodyApart DEF Apart, Alone, trackerVars, serverVars
<1> QED
  BY <1>1 DEF Chosen

LEMMA FilesInit == ASSUME TrackerInit PROVE FilesKept
BY DEF TrackerInit, ServerInit, CommentInit, FilesKept, FileRequest, FilesOp, NoFile, Idle

LEMMA LinksInit == ASSUME TrackerInit PROVE LinksKept
<1>1. PICK m \in DOMAIN Casts : Cast = Casts[m]
  BY ChosenInit DEF Cast
<1>2. PICK links, sessions : links = Casts[m].links /\ sessions = Casts[m].sessions
  OBVIOUS
<1>3. /\ \A l \in MagicLink \cap DOMAIN links : links[l] = [st |-> links[l].st, q |-> links[l].q, sp |-> links[l].sp]
      /\ \A s \in sessions : s.l \in MagicLink \cap DOMAIN links /\ links[s.l] = [st |-> "consumed", q |-> s.q, sp |-> s.sp]
      /\ \A s, t \in sessions : s.l = t.l => s = t
  BY <1>2, CastSessionsHaveTheirLink
<1>4. mlink = [l \in MagicLink |-> IF l \in DOMAIN links THEN links[l] ELSE NoLink] /\ psession = sessions
  BY <1>1, <1>2 DEF TrackerInit, PortalInit
<1>5. \A h \in Handler : req[h].op = "idle" /\ held[h] = {} /\ ~Opening(h)
  BY DEF TrackerInit, ServerInit, Idle, Opening, At
<1>6. \A l \in MagicLink : LinkRowShape(l)
  BY <1>3, <1>4 DEF LinkRowShape, NoLink
<1>7. LinkOpensOneSession
  BY <1>3, <1>4 DEF LinkOpensOneSession
<1>8. DOMAIN mlink = MagicLink /\ \A s \in psession : s.l \in MagicLink
  BY <1>3, <1>4
<1> QED
  BY <1>5, <1>6, <1>7, <1>8 DEF LinksKept

TrackerInv == Shape /\ Chosen /\ FilesKept /\ LinksKept /\ NumbersKept /\ RelationsKept /\ ThreadsKept

LEMMA TrackerInvInit == ASSUME TrackerInit PROVE TrackerInv
BY ShapeInit, ChosenInit, FilesInit, LinksInit, NumbersInit, RelationsInit, ThreadsInit DEF TrackerInv

LEMMA TrackerInvNext == ASSUME TrackerInv, [TrackerNext]_trackerVars PROVE TrackerInv' /\ RowsStay
BY ShapeNext, ChosenNext, FilesNext, LinksNext, NumbersNext, RelationsNext, ThreadsNext DEF TrackerInv

THEOREM TrackerInvariant == TrackerSpec => []TrackerInv
<1>1. TrackerInit => TrackerInv
  BY TrackerInvInit
<1>2. TrackerInv /\ [TrackerNext]_trackerVars => TrackerInv'
  BY TrackerInvNext
<1> QED
  BY <1>1, <1>2, PTL DEF TrackerSpec

(* What hangs from a ticket reaches whom it should, with any number of     *)
(* handlers at work: a link opens one session, a customer writes on his    *)
(* own tickets and is shown his thread, a file that is found is there      *)
(* (ConsumeMagicLink, GetPortalRequest, Upload).                           *)
THEOREM TalkReachesItsOwn == TrackerSpec => []TicketsTalkToTheirOwn
<1>1. TrackerInv => TicketsTalkToTheirOwn
  <2>1. FilesKept => AttachmentsHaveTheirObject
    BY DEF FilesKept, FileRequest, FilesOp, AttachmentsHaveTheirObject, At
  <2> QED
    BY <2>1, ThreadsSuffice DEF TrackerInv, LinksKept, TicketsTalkToTheirOwn
<1> QED
  BY <1>1, TrackerInvariant, PTL

(* The numbers and keys of items and tickets, and the relations between    *)
(* them, are the same from wherever they are looked up                     *)
(* (CreateProjectItem, GetPortalRequest, filterByDirectedKind).            *)
THEOREM LookupsAlwaysAgree == TrackerSpec => []LookupsAgree
<1>1. TrackerInv => LookupsAgree
  BY NumbersSuffice, BothEndsSee DEF TrackerInv, LookupsAgree
<1> QED
  BY <1>1, TrackerInvariant, PTL

(* No step takes a row out of its space, changes its author, its number or *)
(* its key, or takes it out of its table, whatever older row is written    *)
(* back over it (WriteRow, RankItemRelative, deleteEntityAndRevokeShares). *)
THEOREM RowsKeepWhatTheyAre == TrackerSpec => [][RowsStay]_trackerVars
<1>1. TrackerInv /\ [TrackerNext]_trackerVars => [RowsStay]_trackerVars
  BY TrackerInvNext
<1> QED
  BY <1>1, TrackerInvariant, PTL DEF TrackerSpec

-----------------------------------------------------------------------------
(* Layouts                                                                 *)

(* No dashboard is taken out of the table.                                 *)
BoardsStay ==
  /\ DOMAIN dash' = Board
  /\ \A d \in Board : DOMAIN dash'[d] = DOMAIN NoBoard /\ (dash[d].st # "absent" => dash'[d].st # "absent")

(* The number a layout is saved under is the one it was or a new one.      *)
SavedAs(k) ==
  Saving(k)' => \/ Saving(k) /\ req'[k].n = req[k].n
                \/ served' = served + 1 /\ req'[k].n = served + 1

(* What a save deletes is what it was about to, or all that there is.      *)
DeletesAs(k) ==
  Deleting(k)' => \/ Deleting(k) /\ req'[k] = req[k]
                  \/ req'[k].olds = ListDashboardGadgets(req'[k].did)

LEMMA BoardRequestStays ==
  ASSUME BoardsStay, NEW k \in Handler, BoardRequest(req[k]), req'[k] = req[k]
  PROVE  BoardRequest(req[k])'
BY DEF BoardsStay, BoardRequest, Boarded

(* A step of h that inserts no gadget and deletes none.                    *)
LEMMA LayoutsBy ==
  ASSUME Shape, LayoutsKept, NEW h \in Handler, Alone(h), BoardsStay, OneDefault(dash'), UNCHANGED tile,
         BoardRequest(req[h])', SavedAs(h), DeletesAs(h)
  PROVE  LayoutsKept'
<1>1. served \in Nat /\ served' \in {served, served + 1} /\ served' \in Nat
  BY DEF LayoutsKept, Alone
<1>2. \A k \in Handler \ {h} : req'[k] = req[k]
  BY DEF Alone
<1>3. \A k \in Handler : SavedAs(k) /\ DeletesAs(k)
  <2>1. \A k \in Handler \ {h} : SavedAs(k) /\ DeletesAs(k)
    BY <1>2 DEF SavedAs, DeletesAs, Saving, Deleting, At
  <2> QED
    BY <2>1
<1>4. \A k \in Handler : BoardRequest(req[k])'
  BY <1>2, BoardRequestStays DEF LayoutsKept
<1>5. \A t \in tile : Boarded(t.d)' /\ t.by \in 0 .. served' /\ t.by \in 0 .. served /\ (t.vid # Nil => t.key = "view_results")
  BY <1>1 DEF LayoutsKept, Boarded, BoardsStay
<1>6. \A k \in Handler : Saving(k)' => req'[k].n \in 1 .. served' /\ \A t \in tile : t.by # req'[k].n
  BY <1>1, <1>3, <1>5 DEF LayoutsKept, SavedAs
<1>7. \A j, k \in Handler : j # k /\ Saving(j)' /\ Saving(k)' => req'[j].n # req'[k].n
  <2>1. \A k \in Handler \ {h} : Saving(k)' => Saving(k) /\ req'[k].n = req[k].n
    BY <1>2 DEF Saving, At
  <2>2. \A k \in Handler : Saving(k) => req[k].n \in 1 .. served
    BY DEF LayoutsKept
  <2>3. \A k \in Handler \ {h} : Saving(h)' /\ Saving(k)' => req'[h].n # req'[k].n
    BY <1>1, <2>1, <2>2 DEF LayoutsKept, SavedAs
  <2>4. \A j, k \in Handler \ {h} : j # k /\ Saving(j)' /\ Saving(k)' => req'[j].n # req'[k].n
    BY <2>1 DEF LayoutsKept
  <2> QED
    BY <2>3, <2>4
<1>8. \A k \in Handler : Deleting(k)' =>
        /\ \A s \in req'[k].olds : s.d = req'[k].did /\ s.by \in 0 .. served' /\ \A j \in Handler : Saving(j)' => s.by # req'[j].n
        /\ \A s \in req'[k].olds, t \in tile : t.d = req'[k].did /\ t.by = s.by => t \in req'[k].olds
  <2> SUFFICES ASSUME NEW k \in Handler, Deleting(k)'
               PROVE  /\ \A s \in req'[k].olds : s.d = req'[k].did /\ s.by \in 0 .. served' /\ \A j \in Handler : Saving(j)' => s.by # req'[j].n
                      /\ \A s \in req'[k].olds, t \in tile : t.d = req'[k].did /\ t.by = s.by => t \in req'[k].olds
    OBVIOUS
  <2>1. CASE Deleting(k) /\ req'[k] = req[k]
    <3>1. PICK olds, did : olds = req[k].olds /\ did = req[k].did
      OBVIOUS
    <3>2. /\ \A s \in olds : s.d = did /\ s.by \in 0 .. served /\ \A j \in Handler : Saving(j) => s.by # req[j].n
          /\ \A s \in olds, t \in tile : t.d = did /\ t.by = s.by => t \in olds
      BY <2>1, <3>1 DEF LayoutsKept
    <3>3. \A s \in olds : s.by \in 0 .. served' /\ \A j \in Handler : Saving(j)' => s.by # req'[j].n
      BY <1>1, <1>3, <3>2 DEF SavedAs
    <3> QED
      BY <2>1, <3>1, <3>2, <3>3
  <2>2. CASE req'[k].olds = ListDashboardGadgets(req'[k].did)
    <3>1. PICK olds, did : olds = req'[k].olds /\ did = req'[k].did
      OBVIOUS
    <3>2. olds = {t \in tile : t.d = did}
      BY <2>2, <3>1 DEF ListDashboardGadgets
    <3> QED
      BY <1>5, <1>6, <3>1, <3>2
  <2> QED
    BY <1>3, <2>1, <2>2 DEF DeletesAs
<1>9. \A d \in Board : WholeLayout(ListDashboardGadgets(d))'
  BY DEF LayoutsKept, ListDashboardGadgets, WholeLayout
<1>10. DOMAIN dash' = Board /\ \A d \in Board : DOMAIN dash'[d] = DOMAIN NoBoard
  BY DEF BoardsStay
<1> QED
  BY <1>1, <1>4, <1>5, <1>6, <1>7, <1>8, <1>9, <1>10 DEF LayoutsKept

LEMMA BoardsStayPut == ASSUME LayoutsKept, UNCHANGED dash PROVE BoardsStay /\ OneDefault(dash')
BY DEF LayoutsKept, BoardsStay

LEMMA LayoutsApart ==
  ASSUME Shape, LayoutsKept, NEW h \in Handler, Apart(h, DashboardsOp), UNCHANGED dashVars
  PROVE  LayoutsKept'
<1>1. Alone(h) /\ UNCHANGED <<dash, tile>>
  BY DEF Apart, dashVars
<1>2. CASE req'[h] = req[h]
  BY <1>1, <1>2, BoardsStayPut, BoardRequestStays, LayoutsBy DEF SavedAs, DeletesAs, Saving, Deleting, At, LayoutsKept
<1>3. CASE req'[h].op \notin DashboardsOp
  <2>1. BoardRequest(req[h])' /\ SavedAs(h) /\ DeletesAs(h)
    BY <1>3 DEF BoardRequest, SavedAs, DeletesAs, Saving, Deleting, At, DashboardsOp
  <2> QED
    BY <1>1, <2>1, BoardsStayPut, LayoutsBy
<1>4. req'[h] = req[h] \/ req'[h].op \notin DashboardsOp
  BY DEF Apart, Foreign, Idle, DashboardsOp
<1> QED
  BY <1>2, <1>3, <1>4

(* A handler that ends, whatever it wrote of the dashboards.               *)
LEMMA LayoutsDone ==
  ASSUME Shape, LayoutsKept, NEW h \in Handler, End(h), BoardsStay, OneDefault(dash'), UNCHANGED tile
  PROVE  LayoutsKept'
<1>1. Alone(h) /\ req'[h].op = "idle"
  BY Ending DEF Idle
<1>2. BoardRequest(req[h])' /\ SavedAs(h) /\ DeletesAs(h)
  BY <1>1 DEF BoardRequest, SavedAs, DeletesAs, Saving, Deleting, At
<1> QED
  BY <1>1, <1>2, LayoutsBy

(* One that begins with a request that is none of a layout.                *)
LEMMA LayoutsAsked ==
  ASSUME Shape, LayoutsKept, NEW h \in Handler, NEW r, Begin(h, r), UNCHANGED dashVars,
         r.op \in {"createboard", "updateboard", "deleteboard"}, BoardRequest(r)
  PROVE  LayoutsKept'
<1>1. Alone(h) /\ req'[h] = r /\ UNCHANGED <<dash, tile>>
  BY Moving DEF dashVars
<1>2. BoardRequest(r)'
  BY <1>1 DEF BoardRequest, Boarded
<1>3. BoardRequest(req[h])'
  BY <1>1, <1>2
<1>4. SavedAs(h) /\ DeletesAs(h)
  BY <1>1 DEF SavedAs, DeletesAs, Saving, Deleting, At
<1> QED
  BY <1>1, <1>3, <1>4, BoardsStayPut, LayoutsBy

(* The rows of a layout are a whole one.                                   *)
LEMMA GadgetRowsWhole ==
  ASSUME NEW d, NEW by, NEW layout \in Seq(Gadget)
  PROVE  /\ WholeLayout(GadgetRows(d, by, layout))
         /\ \A t \in GadgetRows(d, by, layout) :
              /\ t.d = d /\ t.by = by /\ t.pos + 1 \in DOMAIN layout
              /\ t.key = layout[t.pos + 1].key /\ t.vid = layout[t.pos + 1].vid
         /\ GadgetRows(d, by, layout) # {} => \E t \in GadgetRows(d, by, layout) : t.pos = 0
<1> DEFINE row(n) == [d |-> d, pos |-> n - 1, key |-> layout[n].key, vid |-> layout[n].vid, by |-> by]
           S == 1 .. Len(layout)
           T == {row(n) : n \in S}
           f == [n \in S |-> row(n)]
<1>1. Len(layout) \in Nat /\ DOMAIN layout = S
  OBVIOUS
<1>2. GadgetRows(d, by, layout) = T
  BY <1>1 DEF GadgetRows
<1>3. \A n \in S : row(n).pos = n - 1 /\ row(n).d = d /\ row(n).by = by /\ row(n).key = layout[n].key /\ row(n).vid = layout[n].vid
  OBVIOUS
<1>4. \A m, n \in S : row(m) = row(n) => m = n
  BY <1>1, <1>3
<1>5. f \in Bijection(S, T)
  <2>1. f \in [S -> T] /\ \A t \in T : \E n \in S : f[n] = t
    OBVIOUS
  <2>2. \A m, n \in S : f[m] = f[n] => m = n
    <3> HIDE DEF row
    <3> QED
      BY <1>4
  <2> HIDE DEF f, T, S
  <2> QED
    BY <2>1, <2>2 DEF Bijection, Injection, Surjection, IsInjective
<1>6. IsFiniteSet(S) /\ Cardinality(S) = Len(layout)
  BY <1>1, FS_Interval
<1>7. IsFiniteSet(T) /\ Cardinality(T) = Len(layout)
  <2> HIDE DEF S, T, f
  <2> QED
    BY <1>5, <1>6, FS_Bijection DEF ExistsBijection
<1>8. {t.pos : t \in T} = 0 .. Len(layout) - 1
  <2>1. \A n \in S : n - 1 \in 0 .. Len(layout) - 1
    BY <1>1
  <2>2. \A m \in 0 .. Len(layout) - 1 : m + 1 \in S /\ row(m + 1).pos = m
    BY <1>1, <1>3
  <2>3. \A t \in T : \E n \in S : t = row(n) /\ t.pos = n - 1
    BY <1>3
  <2>4. \A n \in S : row(n) \in T
    OBVIOUS
  <2> HIDE DEF S, T, row
  <2> QED
    BY <2>1, <2>2, <2>3, <2>4
<1>9. \A t \in T : t.d = d /\ t.by = by /\ t.pos + 1 \in S /\ t.key = layout[t.pos + 1].key /\ t.vid = layout[t.pos + 1].vid
  <2>1. \A t \in T : \E n \in S : t = row(n)
    OBVIOUS
  <2>2. \A n \in S : row(n).pos + 1 = n
    BY <1>1, <1>3
  <2> HIDE DEF row, T
  <2> QED
    BY <1>3, <2>1, <2>2
<1>10. T # {} => \E t \in T : t.pos = 0
  <2>1. T # {} => 1 \in S
    BY <1>1
  <2>2. 1 \in S => row(1) \in T /\ row(1).pos = 0
    OBVIOUS
  <2> HIDE DEF S, T, row
  <2> QED
    BY <2>1, <2>2
<1> HIDE DEF T
<1> QED
  BY <1>1, <1>2, <1>7, <1>8, <1>9, <1>10 DEF WholeLayout

(* The layout h saves replaces, whole, what its dashboard showed.          *)
LEMMA LayoutReplaced ==
  ASSUME Shape, LayoutsKept, NEW h \in Handler, Alone(h), UNCHANGED served, BoardsStay, OneDefault(dash'),
         Saving(h), ~Saving(h)', ~Deleting(h)', BoardRequest(req[h])',
         NEW d, Boarded(d)', NEW layout \in Seq(Gadget), \A n \in DOMAIN layout : layout[n].vid # Nil => layout[n].key = "view_results",
         tile' = {t \in tile : t.d # d} \cup GadgetRows(d, req[h].n, layout)
  PROVE  LayoutsKept'
<1>1. PICK by, new : by = req[h].n /\ new = GadgetRows(d, by, layout)
  OBVIOUS
<1>2. tile' = {t \in tile : t.d # d} \cup new
  BY <1>1
<1>3. WholeLayout(new) /\ \A t \in new : t.d = d /\ t.by = by /\ (t.vid # Nil => t.key = "view_results")
  BY <1>1, GadgetRowsWhole
<1>4. by \in 1 .. served /\ served \in Nat /\ \A t \in tile : t.by # by
  BY <1>1 DEF LayoutsKept
<1>5. \A k \in Handler \ {h} : req'[k] = req[k]
  BY DEF Alone
<1>6. \A k \in Handler : (Saving(k)' => k # h /\ Saving(k)) /\ (Deleting(k)' => k # h /\ Deleting(k))
  BY <1>5 DEF Saving, Deleting, At
<1>7. \A k \in Handler : BoardRequest(req[k])'
  BY <1>5, BoardRequestStays DEF LayoutsKept
<1>8. \A t \in tile' : Boarded(t.d)' /\ t.by \in 0 .. served /\ (t.vid # Nil => t.key = "view_results")
  BY <1>2, <1>3, <1>4 DEF LayoutsKept, Boarded, BoardsStay
<1>9. \A k \in Handler \ {h} : Saving(k) => req[k].n \in 1 .. served /\ req[k].n # by /\ \A t \in tile : t.by # req[k].n
  BY <1>1 DEF LayoutsKept
<1>10. \A k \in Handler : Saving(k)' => req'[k].n \in 1 .. served /\ \A t \in tile' : t.by # req'[k].n
  BY <1>2, <1>3, <1>5, <1>6, <1>9
<1>11. \A j, k \in Handler : j # k /\ Saving(j)' /\ Saving(k)' => req'[j].n # req'[k].n
  BY <1>5, <1>6 DEF LayoutsKept
<1>12. \A k \in Handler : Deleting(k)' =>
         /\ \A s \in req'[k].olds : s.d = req'[k].did /\ s.by \in 0 .. served /\ \A j \in Handler : Saving(j)' => s.by # req'[j].n
         /\ \A s \in req'[k].olds, t \in tile' : t.d = req'[k].did /\ t.by = s.by => t \in req'[k].olds
  <2> SUFFICES ASSUME NEW k \in Handler, Deleting(k)'
               PROVE  /\ \A s \in req'[k].olds : s.d = req'[k].did /\ s.by \in 0 .. served /\ \A j \in Handler : Saving(j)' => s.by # req'[j].n
                      /\ \A s \in req'[k].olds, t \in tile' : t.d = req'[k].did /\ t.by = s.by => t \in req'[k].olds
    OBVIOUS
  <2>1. k # h /\ Deleting(k) /\ req'[k] = req[k]
    BY <1>5, <1>6
  <2>2. PICK olds, did : olds = req[k].olds /\ did = req[k].did
    OBVIOUS
  <2>3. /\ \A s \in olds : s.d = did /\ s.by \in 0 .. served /\ \A j \in Handler : Saving(j) => s.by # req[j].n
        /\ \A s \in olds, t \in tile : t.d = did /\ t.by = s.by => t \in olds
    BY <2>1, <2>2 DEF LayoutsKept
  <2>4. \A s \in olds : s.by # by
    BY <1>1, <2>3
  <2>5. \A s \in olds, j \in Handler : Saving(j)' => s.by # req'[j].n
    BY <1>5, <1>6, <2>3
  <2>6. \A s \in olds, t \in tile' : t.d = did /\ t.by = s.by => t \in olds
    BY <1>2, <1>3, <2>3, <2>4
  <2> QED
    BY <2>1, <2>2, <2>3, <2>5, <2>6
<1>13. \A b \in Board : WholeLayout(ListDashboardGadgets(b))'
  <2>1. {t \in tile' : t.d = d} = new
    BY <1>2, <1>3
  <2>2. \A b \in Board : b # d => {t \in tile' : t.d = b} = {t \in tile : t.d = b}
    BY <1>2, <1>3
  <2>3. \A b \in Board : WholeLayout({t \in tile : t.d = b})
    BY DEF LayoutsKept, ListDashboardGadgets
  <2>4. \A b \in Board : WholeLayout({t \in tile' : t.d = b})
    BY <1>3, <2>1, <2>2, <2>3
  <2> QED
    BY <2>4 DEF ListDashboardGadgets, WholeLayout
<1>14. DOMAIN dash' = Board /\ (\A b \in Board : DOMAIN dash'[b] = DOMAIN NoBoard) /\ served' \in Nat
  BY <1>4 DEF BoardsStay
<1> QED
  BY <1>7, <1>8, <1>10, <1>11, <1>12, <1>13, <1>14 DEF LayoutsKept

(* The rows that stand down stay where they are.                           *)
LEMMA StandingDown ==
  ASSUME LayoutsKept, NEW row, NEW but
  PROVE  /\ DOMAIN StandDown(row, but) = Board
         /\ \A d \in Board : DOMAIN StandDown(row, but)[d] = DOMAIN NoBoard /\ StandDown(row, but)[d].st = dash[d].st
BY DEF LayoutsKept, StandDown, ClearDefaultDashboard, NoBoard

(* A row is written over one of the table, unless the index refuses it.    *)
LEMMA BoardWritten ==
  ASSUME Shape, LayoutsKept, NEW h \in Handler, End(h), UNCHANGED tile, NEW row, NEW but, NEW d \in Board,
         DOMAIN row = DOMAIN NoBoard, row.st = "live", NEW after, after = [StandDown(row, but) EXCEPT ![d] = row],
         dash' \in {dash, after}, dash' = after => OneDefault(after)
  PROVE  LayoutsKept'
<1>1. CASE dash' = dash
  BY <1>1, BoardsStayPut, LayoutsDone
<1>2. CASE dash' = after
  <2>1. BoardsStay
    BY <1>2, StandingDown DEF BoardsStay
  <2> QED
    BY <1>2, <2>1, LayoutsDone
<1> QED
  BY <1>1, <1>2

LEMMA FreeBoard == ASSUME FreshBoard # {} PROVE Min(FreshBoard) \in Board /\ dash[Min(FreshBoard)].st = "absent"
<1>1. FreshBoard \subseteq Nat
  BY BoardsAreNumbered DEF FreshBoard
<1> QED
  BY <1>1, MinIn DEF FreshBoard

(* What is asked to be shown shows a view where a view is shown.           *)
LEMMA LayoutsAskedFor == ASSUME Chosen PROVE Work.layouts \subseteq Seq(Gadget)
<1>1. PICK n \in DOMAIN Mixes : mix = With([name |-> n], Mixes[n])
  BY DEF Chosen
<1>2. "layouts" \in DOMAIN Mixes[n] /\ Mixes[n].layouts \subseteq Seq(Gadget)
  BY LayoutsAreSequences
<1> QED
  BY <1>1, <1>2 DEF With, Work

(* One that asks for a layout takes a number of its own.                   *)
LEMMA LayoutsNumbered ==
  ASSUME Shape, LayoutsKept, NEW h \in Handler, NEW r, Begin(h, r), UNCHANGED dashVars,
         r.op \in {"setgadgets", "home"}, r.pc \in {"clear", "seed"}, r.n = served + 1, BoardRequest(r)
  PROVE  LayoutsKept'
<1>1. Alone(h) /\ req'[h] = r /\ UNCHANGED <<dash, tile>> /\ served' = served + 1
  BY Moving DEF dashVars, Begin
<1>2. BoardRequest(r)'
  BY <1>1 DEF BoardRequest, Boarded
<1>3. BoardRequest(req[h])'
  BY <1>1, <1>2
<1>4. SavedAs(h) /\ DeletesAs(h)
  BY <1>1 DEF SavedAs, DeletesAs, Saving, Deleting, At
<1> QED
  BY <1>1, <1>3, <1>4, BoardsStayPut, LayoutsBy

LEMMA LayoutsByReplace ==
  ASSUME Shape, LayoutsKept, NEW h \in Handler, ReplaceGadgets(h)
  PROVE  LayoutsKept'
<1>1. PICK r : r = req[h]
  OBVIOUS
<1>2. PICK new : new = GadgetRows(r.did, r.n, r.layout)
  OBVIOUS
<1>3. PICK left : left = tile \ r.olds
  OBVIOUS
<1>4. /\ At(h, "setgadgets", "insert") /\ End(h) /\ UNCHANGED dash
      /\ tile' = IF TilePositionsFree(left, new) THEN left \cup new ELSE tile
  BY <1>1, <1>2, <1>3 DEF ReplaceGadgets
<1>5. Boarded(r.did) /\ r.layout \in Seq(Gadget) /\ \A n \in DOMAIN r.layout : r.layout[n].vid # Nil => r.layout[n].key = "view_results"
  BY <1>1, <1>4 DEF LayoutsKept, BoardRequest, At
<1>6. /\ \A s \in r.olds : s.d = r.did
      /\ \A s \in r.olds, t \in tile : t.d = r.did /\ t.by = s.by => t \in r.olds
  BY <1>1, <1>4 DEF LayoutsKept, Deleting
<1>7. new # {} => \E t \in new : t.pos = 0 /\ t.d = r.did
  BY <1>2, <1>5, GadgetRowsWhole
<1>8. CASE \A t \in left : t.d # r.did
  <2>1. left = {t \in tile : t.d # r.did}
    BY <1>3, <1>6, <1>8
  <2>2. \A t \in new : t.d = r.did
    BY <1>2, <1>5, GadgetRowsWhole
  <2>3. tile' = left \cup new
    BY <1>4, <1>8, <2>2 DEF TilePositionsFree
  <2>4. tile' = {t \in tile : t.d # r.did} \cup GadgetRows(r.did, req[h].n, r.layout)
    BY <1>1, <1>2, <2>1, <2>3
  <2>5. Alone(h) /\ req'[h].op = "idle" /\ UNCHANGED served
    <3>1. Alone(h) /\ req'[h].op = "idle"
      BY <1>4, Ending DEF Idle
    <3> QED
      BY <1>4, <3>1 DEF End
  <2>6. Saving(h) /\ ~Saving(h)' /\ ~Deleting(h)' /\ BoardRequest(req[h])'
    BY <1>4, <2>5 DEF Saving, Deleting, BoardRequest, At
  <2>7. BoardsStay /\ OneDefault(dash') /\ Boarded(r.did)'
    BY <1>4, <1>5, BoardsStayPut DEF Boarded
  <2> QED
    BY <1>5, <2>4, <2>5, <2>6, <2>7, LayoutReplaced
<1>9. ASSUME NEW s \in left, s.d = r.did PROVE LayoutsKept'
  <2>1. s \in tile /\ s \notin r.olds
    BY <1>3, <1>9
  <2>2. PICK shown : shown = {t \in tile : t.d = r.did}
    OBVIOUS
  <2>3. WholeLayout(shown) /\ s \in shown
    BY <1>5, <1>9, <2>1, <2>2 DEF LayoutsKept, ListDashboardGadgets, Boarded
  <2>4. \A t \in shown : t.by = s.by
    BY <2>3 DEF WholeLayout
  <2>5. \A t \in shown : t \notin r.olds
    BY <1>6, <1>9, <2>1, <2>2, <2>4
  <2>6. left = tile
    BY <1>3, <1>6, <2>2, <2>5
  <2>7. \E t \in shown : t.pos = 0
    <3>1. PICK n : n = Cardinality(shown)
      OBVIOUS
    <3>2. n \in Nat /\ n # 0
      BY <2>3, <3>1, FS_CardinalityType, FS_EmptySet DEF WholeLayout
    <3>3. 0 \in {t.pos : t \in shown}
      BY <2>3, <3>1, <3>2 DEF WholeLayout
    <3> QED
      BY <3>3
  <2>8. new # {} => ~TilePositionsFree(left, new)
    BY <1>7, <2>2, <2>6, <2>7 DEF TilePositionsFree
  <2>9. UNCHANGED tile
    BY <1>4, <2>6, <2>8
  <2> QED
    BY <1>4, <2>9, BoardsStayPut, LayoutsDone
<1> QED
  BY <1>8, <1>9

LEMMA LayoutsByHome ==
  ASSUME Shape, LayoutsKept, NEW h \in Handler, CreateStarterDashboard(h)
  PROVE  LayoutsKept'
<1>1. PICK r : r = req[h]
  OBVIOUS
<1>2. PICK d : d = Min(FreshBoard)
  OBVIOUS
<1>3. PICK row : row = [st |-> "live", org |-> r.o, owner |-> r.u, mod |-> Home, default |-> TRUE,
                        seeded |-> TRUE, vis |-> "private", team |-> Nil]
  OBVIOUS
<1>4. PICK after : after = [dash EXCEPT ![d] = row]
  OBVIOUS
<1>5. PICK next : next = [r EXCEPT !.pc = "read"]
  OBVIOUS
<1>6. /\ At(h, "home", "seed") /\ FreshBoard # {} /\ Go(h, next)
      /\ \/ OneDefault(after) /\ dash' = after /\ tile' = tile \cup GadgetRows(d, r.n, StarterLayout)
         \/ UNCHANGED dashVars
  BY <1>1, <1>2, <1>3, <1>4, <1>5 DEF CreateStarterDashboard
<1>7. next.op = "home" /\ next.pc = "read"
  <2>1. "op" \in DOMAIN req[h] /\ "pc" \in DOMAIN req[h] /\ req[h].op = "home"
    BY <1>6 DEF Shape, At
  <2> QED
    BY <1>1, <1>5, <2>1
<1>8. Alone(h) /\ req'[h] = next /\ UNCHANGED served
  BY <1>6, Moving DEF Go
<1>9. Saving(h) /\ ~Saving(h)' /\ ~Deleting(h)' /\ BoardRequest(req[h])'
  BY <1>6, <1>7, <1>8 DEF Saving, Deleting, BoardRequest, At
<1>10. CASE UNCHANGED dashVars
  BY <1>8, <1>9, <1>10, BoardsStayPut, LayoutsBy DEF SavedAs, DeletesAs, dashVars
<1>11. CASE OneDefault(after) /\ dash' = after /\ tile' = tile \cup GadgetRows(d, r.n, StarterLayout)
  <2>1. d \in Board /\ dash[d].st = "absent"
    BY <1>2, <1>6, FreeBoard
  <2>2. BoardsStay /\ OneDefault(dash') /\ Boarded(d)'
    <3>1. DOMAIN row = DOMAIN NoBoard /\ row.st = "live"
      BY <1>3 DEF NoBoard
    <3> QED
      BY <1>4, <1>11, <2>1, <3>1 DEF BoardsStay, LayoutsKept, Boarded
  <2>3. {t \in tile : t.d # d} = tile
    BY <2>1 DEF LayoutsKept, Boarded
  <2>4. tile' = {t \in tile : t.d # d} \cup GadgetRows(d, req[h].n, StarterLayout)
    BY <1>1, <1>11, <2>3
  <2>5. StarterLayout \in Seq(Gadget) /\ \A n \in DOMAIN StarterLayout : StarterLayout[n].vid = Nil
    BY LayoutsAreSequences
  <2> QED
    BY <1>8, <1>9, <2>2, <2>4, <2>5, LayoutReplaced
<1> QED
  BY <1>6, <1>10, <1>11

LEMMA LayoutsByDashboards ==
  ASSUME Shape, Chosen, LayoutsKept, NEW h \in Handler, DashboardsStep(h)
  PROVE  LayoutsKept'
<1>1. CASE CreateBoardBegin(h)
  <2>1. PICK o \in Org, u \in Work.callers, m \in Module, def \in BOOLEAN, a \in Audiences :
          /\ Member(o, u)
          /\ \E aud \in Normalise(o, u, a[1], a[2]) :
               Begin(h, [op |-> "createboard", pc |-> "insert",
                         brow |-> [NoBoard EXCEPT !.st = "live", !.org = o, !.owner = u, !.mod = m, !.default = def,
                                          !.vis = aud.vis, !.team = aud.team]])
          /\ UNCHANGED <<groundVars, itemVars, view, dashVars>>
    BY <1>1, Zenon DEF CreateBoardBegin
  <2>2. PICK aud : Begin(h, [op |-> "createboard", pc |-> "insert",
                             brow |-> [NoBoard EXCEPT !.st = "live", !.org = o, !.owner = u, !.mod = m, !.default = def,
                                              !.vis = aud.vis, !.team = aud.team]])
    BY <2>1, Zenon
  <2>3. PICK brow : brow = [NoBoard EXCEPT !.st = "live", !.org = o, !.owner = u, !.mod = m, !.default = def,
                                    !.vis = aud.vis, !.team = aud.team]
    OBVIOUS
  <2>4. DOMAIN brow = DOMAIN NoBoard /\ brow.st = "live"
    BY <2>3 DEF NoBoard
  <2>5. PICK r : r = [op |-> "createboard", pc |-> "insert", brow |-> brow]
    OBVIOUS
  <2>6. Begin(h, r)
    BY <2>2, <2>3, <2>5
  <2>7. r.op = "createboard" /\ BoardRequest(r)
    BY <2>4, <2>5 DEF BoardRequest
  <2> QED
    BY <2>1, <2>6, <2>7, LayoutsAsked
<1>2. CASE UpdateBoardBegin(h)
  <2>0. PICK d \in Board, u \in Work.callers, m \in Module \cup {Nil}, def \in BOOLEAN \cup {Nil},
             a \in Audiences \cup {<<Nil, Nil>>} :
          LET to == Inherited(dash[d], a) IN
          /\ CanEditBoard(d, u)
          /\ \E aud \in Normalise(dash[d].org, u, to[1], to[2]) :
               Begin(h, [op |-> "updateboard", pc |-> "write", did |-> d,
                         brow |-> [dash[d] EXCEPT !.mod = IF m = Nil THEN @ ELSE m, !.default = IF def = Nil THEN @ ELSE def,
                                          !.vis = aud.vis, !.team = aud.team]])
          /\ UNCHANGED <<groundVars, itemVars, view, dashVars>>
    BY <1>2, Zenon DEF UpdateBoardBegin
  <2>1. PICK aud :
          /\ CanEditBoard(d, u) /\ UNCHANGED dashVars
          /\ Begin(h, [op |-> "updateboard", pc |-> "write", did |-> d,
                       brow |-> [dash[d] EXCEPT !.mod = IF m = Nil THEN @ ELSE m, !.default = IF def = Nil THEN @ ELSE def,
                                        !.vis = aud.vis, !.team = aud.team]])
    BY <2>0, Zenon
  <2>2. DOMAIN dash[d] = DOMAIN NoBoard /\ dash[d].st = "live"
    BY <2>0, <2>1 DEF LayoutsKept, CanEditBoard, CanSeeBoard, DashLive
  <2>3. PICK brow : brow = [dash[d] EXCEPT !.mod = IF m = Nil THEN @ ELSE m, !.default = IF def = Nil THEN @ ELSE def,
                                           !.vis = aud.vis, !.team = aud.team]
    OBVIOUS
  <2>4. DOMAIN brow = DOMAIN NoBoard /\ brow.st = "live"
    BY <2>2, <2>3 DEF NoBoard
  <2>5. PICK r : r = [op |-> "updateboard", pc |-> "write", did |-> d, brow |-> brow]
    OBVIOUS
  <2>6. Begin(h, r)
    BY <2>1, <2>3, <2>5
  <2>7. r.op = "updateboard" /\ BoardRequest(r)
    BY <2>4, <2>5 DEF BoardRequest
  <2> QED
    BY <2>1, <2>6, <2>7, LayoutsAsked
<1>3. CASE DeleteBoardBegin(h)
  <2>1. PICK r : Begin(h, r) /\ UNCHANGED dashVars /\ r.op = "deleteboard" /\ r.did \in Board
    BY <1>3 DEF DeleteBoardBegin
  <2> QED
    BY <2>1, LayoutsAsked DEF BoardRequest
<1>4. CASE CreateDashboard(h)
  <2>1. PICK d : d = Min(FreshBoard)
    OBVIOUS
  <2>2. PICK row : row = req[h].brow
    OBVIOUS
  <2>3. PICK after : after = [StandDown(row, Nil) EXCEPT ![d] = row]
    OBVIOUS
  <2>4. /\ At(h, "createboard", "insert") /\ FreshBoard # {} /\ End(h) /\ UNCHANGED tile
        /\ dash' = IF OneDefault(after) THEN after ELSE dash
    BY <1>4, <2>1, <2>2, <2>3 DEF CreateDashboard
  <2>5. d \in Board /\ DOMAIN row = DOMAIN NoBoard /\ row.st = "live"
    BY <2>1, <2>2, <2>4, FreeBoard DEF LayoutsKept, BoardRequest, At
  <2>6. dash' \in {dash, after} /\ (dash' = after => OneDefault(after))
    BY <2>4 DEF LayoutsKept
  <2> QED
    BY <2>3, <2>4, <2>5, <2>6, BoardWritten
<1>5. CASE UpdateDashboard(h)
  <2>1. PICK d : d = req[h].did
    OBVIOUS
  <2>2. PICK row : row = req[h].brow
    OBVIOUS
  <2>3. PICK after : after = [StandDown(row, d) EXCEPT ![d] = row]
    OBVIOUS
  <2>4. /\ At(h, "updateboard", "write") /\ End(h) /\ UNCHANGED tile
        /\ dash' = IF DashLive(d) /\ OneDefault(after) THEN after ELSE dash
    BY <1>5, <2>1, <2>2, <2>3 DEF UpdateDashboard
  <2>5. d \in Board /\ DOMAIN row = DOMAIN NoBoard /\ row.st = "live"
    BY <2>1, <2>2, <2>4 DEF LayoutsKept, BoardRequest, At
  <2>6. dash' \in {dash, after} /\ (dash' = after => OneDefault(after))
    BY <2>4 DEF LayoutsKept
  <2> QED
    BY <2>3, <2>4, <2>5, <2>6, BoardWritten
<1>6. CASE SoftDeleteDashboard(h)
  <2>1. PICK d : d = req[h].did
    OBVIOUS
  <2>2. At(h, "deleteboard", "delete") /\ End(h) /\ UNCHANGED tile /\ dash' = [dash EXCEPT ![d].st = "deleted"]
    BY <1>6, <2>1 DEF SoftDeleteDashboard
  <2>3. d \in Board /\ DOMAIN dash[d] = DOMAIN NoBoard
    BY <2>1, <2>2 DEF LayoutsKept, BoardRequest, At
  <2>4. BoardsStay
    BY <2>2, <2>3 DEF BoardsStay, LayoutsKept, NoBoard
  <2>5. OneDefault(dash')
    <3> SUFFICES ASSUME NEW u \in User, NEW m \in Module
                 PROVE  Cardinality(Holders(dash', u, m)) <= 1
      BY DEF OneDefault
    <3>1. \A b \in Board : dash'[b].st = "live" => dash'[b] = dash[b]
      BY <2>2, <2>3 DEF LayoutsKept, NoBoard
    <3>2. Holders(dash', u, m) \subseteq Holders(dash, u, m)
      BY <3>1 DEF Holders
    <3>3. IsFiniteSet(Holders(dash, u, m))
      BY BoardsAreNumbered, FS_Subset DEF Holders
    <3>4. PICK now, after : now = Holders(dash, u, m) /\ after = Holders(dash', u, m)
      OBVIOUS
    <3>5. after \subseteq now /\ IsFiniteSet(now) /\ Cardinality(now) <= 1
      BY <3>2, <3>3, <3>4 DEF LayoutsKept, OneDefault
    <3>6. IsFiniteSet(after) /\ Cardinality(after) <= Cardinality(now) /\ Cardinality(now) \in Nat /\ Cardinality(after) \in Nat
      BY <3>5, FS_Subset, FS_CardinalityType
    <3> QED
      BY <3>4, <3>5, <3>6
  <2> QED
    BY <2>2, <2>4, <2>5, LayoutsDone
<1>7. CASE SetGadgetsBegin(h)
  <2>0. PICK d \in Board, u \in Work.callers, layout \in Work.layouts :
          /\ CanEditBoard(d, u)
          /\ \A n \in DOMAIN layout : validateGadget(layout[n], visibleViews(dash[d].org, u, layout))
          /\ Begin(h, [op |-> "setgadgets", pc |-> "clear", did |-> d, layout |-> layout, n |-> served + 1])
          /\ UNCHANGED <<groundVars, itemVars, view, dashVars>>
    BY <1>7, Zenon DEF SetGadgetsBegin
  <2>1. PICK r :
          /\ Begin(h, r) /\ UNCHANGED dashVars
          /\ r = [op |-> "setgadgets", pc |-> "clear", did |-> d, layout |-> layout, n |-> served + 1]
    BY <2>0
  <2>2. layout \in Seq(Gadget) /\ Boarded(d)
    BY <2>0, LayoutsAskedFor DEF Boarded, CanEditBoard, CanSeeBoard, DashLive
  <2>3. \A n \in DOMAIN layout : layout[n].vid # Nil => layout[n].key = "view_results"
    BY <2>0 DEF validateGadget, RequiresSavedView
  <2>4. r.op = "setgadgets" /\ r.pc = "clear" /\ r.did = d /\ r.layout = layout /\ r.n = served + 1
    BY <2>1
  <2>5. BoardRequest(r)
    BY <2>1, <2>2, <2>3, <2>4 DEF BoardRequest
  <2> QED
    BY <2>1, <2>4, <2>5, LayoutsNumbered
<1>8. CASE DeleteDashboardGadgets(h)
  <2>1. PICK r, olds, s : r = req[h] /\ olds = ListDashboardGadgets(r.did) /\ s = [pc |-> "insert", olds |-> olds]
    OBVIOUS
  <2>2. At(h, "setgadgets", "clear") /\ Go(h, With(s, r)) /\ UNCHANGED <<dash, tile>>
    BY <1>8, <2>1 DEF DeleteDashboardGadgets, dashVars
  <2>3. PICK next : next = With(s, r)
    OBVIOUS
  <2>4. Alone(h) /\ req'[h] = next
    BY <2>2, <2>3, Moving
  <2>5. r.op = "setgadgets" /\ {"op", "did", "layout", "n"} \subseteq DOMAIN r
    BY <2>1, <2>2 DEF LayoutsKept, BoardRequest, At, Shape
  <2>6. /\ DOMAIN next = DOMAIN r \cup {"pc", "olds"} /\ next.pc = "insert" /\ next.olds = olds
        /\ next.op = r.op /\ next.did = r.did /\ next.layout = r.layout /\ next.n = r.n
    BY <2>1, <2>3, <2>5 DEF With
  <2>7. BoardRequest(r)
    BY <2>1 DEF LayoutsKept
  <2>8. BoardRequest(next)
    BY <2>5, <2>6, <2>7 DEF BoardRequest
  <2>9. BoardRequest(req[h])'
    BY <2>2, <2>4, <2>8 DEF BoardRequest, Boarded
  <2>10. SavedAs(h)
    BY <2>1, <2>4, <2>5, <2>6 DEF SavedAs, Saving
  <2>11. DeletesAs(h)
    BY <2>1, <2>2, <2>4, <2>6 DEF DeletesAs, ListDashboardGadgets
  <2> QED
    BY <2>2, <2>4, <2>9, <2>10, <2>11, BoardsStayPut, LayoutsBy
<1>9. CASE ReplaceGadgets(h)
  BY <1>9, LayoutsByReplace
<1>10. CASE ResolveHome(h)
  <2>1. UNCHANGED dashVars /\ (Serve \/ \E r : Begin(h, r) /\ r.op = "home" /\ r.pc = "seed" /\ r.n = served + 1)
    BY <1>10 DEF ResolveHome
  <2>2. CASE Serve
    BY <2>1, <2>2, Serving, LayoutsApart DEF Apart
  <2>3. ASSUME NEW r, Begin(h, r), r.op = "home", r.pc = "seed", r.n = served + 1 PROVE LayoutsKept'
    BY <2>1, <2>3, LayoutsNumbered DEF BoardRequest
  <2> QED
    BY <2>1, <2>2, <2>3
<1>11. CASE CreateStarterDashboard(h)
  BY <1>11, LayoutsByHome
<1>12. CASE ReadHome(h)
  BY <1>12, BoardsStayPut, LayoutsDone DEF ReadHome, dashVars
<1> QED
  BY <1>1, <1>2, <1>3, <1>4, <1>5, <1>6, <1>7, <1>8, <1>9, <1>10, <1>11, <1>12 DEF DashboardsStep

LEMMA LayoutsNext ==
  ASSUME Shape, Chosen, LayoutsKept, [TrackerNext]_trackerVars
  PROVE  LayoutsKept'
<1> USE DEF panelVars
<1>1. ASSUME NEW h \in Handler, AccessStep(h) \/ SpacesStep(h) \/ SharesStep(h) \/ ItemsStep(h) \/ BacklogStep(h), UNCHANGED dashVars
      PROVE  LayoutsKept'
  BY <1>1, AsideIsApart, AccessAside, SpacesAside, SharesAside, ItemsAside, BacklogAside, LayoutsApart
     DEF AccessOp, SpacesOp, SharesOp, ItemsOp, OtherItemsOp, BacklogOp, DashboardsOp
<1>2. ASSUME NEW h \in Handler, RelationsStep(h) \/ FieldsStep(h) \/ BoardsStep(h) \/ CommentsStep(h), UNCHANGED dashVars
      PROVE  LayoutsKept'
  BY <1>2, AsideIsApart, RelationsAside, FieldsAside, BoardsAside, CommentsAside, LayoutsApart
     DEF RelationsOp, FieldsOp, BoardsOp, CommentsOp, FilesOp, DashboardsOp
<1>3. ASSUME NEW h \in Handler, PortalStep(h) \/ ViewsStep(h) \/ SearchStep(h) \/ QueuesStep(h), UNCHANGED dashVars
      PROVE  LayoutsKept'
  BY <1>3, AsideIsApart, PortalApart, ViewsAside, SearchAside, QueuesAside, LayoutsApart
     DEF PortalOp, DeskOp, OtherDeskOp, LinkOp, ViewsOp, SearchOp, QueuesOp, DashboardsOp
<1>4. CASE UNCHANGED <<req, dash, tile>> /\ served' \in {served, served + 1}
  <2>1. served \in Nat /\ served' \in Nat /\ served <= served'
    BY <1>4 DEF LayoutsKept
  <2>2. \A h \in Handler : BoardRequest(req[h])' <=> BoardRequest(req[h])
    BY <1>4 DEF BoardRequest, Boarded
  <2>3. \A h \in Handler : (Saving(h)' <=> Saving(h)) /\ (Deleting(h)' <=> Deleting(h))
    BY <1>4 DEF Saving, Deleting, At
  <2>4. \A d \in Board : WholeLayout(ListDashboardGadgets(d))' <=> WholeLayout(ListDashboardGadgets(d))
    BY <1>4 DEF ListDashboardGadgets, WholeLayout
  <2>5. \A t \in tile : Boarded(t.d)' /\ t.by \in 0 .. served' /\ (t.vid # Nil => t.key = "view_results")
    BY <1>4, <2>1 DEF LayoutsKept, Boarded
  <2>6. \A h \in Handler : Saving(h)' => req[h].n \in 1 .. served' /\ \A t \in tile : t.by # req[h].n
    BY <2>1, <2>3 DEF LayoutsKept
  <2>7. \A h, k \in Handler : h # k /\ Saving(h)' /\ Saving(k)' => req[h].n # req[k].n
    BY <2>3 DEF LayoutsKept
  <2>8. \A k \in Handler : Deleting(k)' =>
          /\ \A s \in req[k].olds : s.d = req[k].did /\ s.by \in 0 .. served' /\ \A h \in Handler : Saving(h)' => s.by # req[h].n
          /\ \A s \in req[k].olds, t \in tile : t.d = req[k].did /\ t.by = s.by => t \in req[k].olds
    <3> SUFFICES ASSUME NEW k \in Handler, Deleting(k)
                 PROVE  /\ \A s \in req[k].olds : s.d = req[k].did /\ s.by \in 0 .. served' /\ \A h \in Handler : Saving(h) => s.by # req[h].n
                        /\ \A s \in req[k].olds, t \in tile : t.d = req[k].did /\ t.by = s.by => t \in req[k].olds
      BY <2>3
    <3>1. PICK olds, did : olds = req[k].olds /\ did = req[k].did
      OBVIOUS
    <3>2. /\ \A s \in olds : s.d = did /\ s.by \in 0 .. served /\ \A h \in Handler : Saving(h) => s.by # req[h].n
          /\ \A s \in olds, t \in tile : t.d = did /\ t.by = s.by => t \in olds
      BY <3>1 DEF LayoutsKept
    <3> QED
      BY <2>1, <3>1, <3>2
  <2>9. DOMAIN dash' = Board /\ (\A d \in Board : DOMAIN dash'[d] = DOMAIN NoBoard) /\ OneDefault(dash')
    BY <1>4 DEF LayoutsKept
  <2> QED
    BY <1>4, <2>1, <2>2, <2>4, <2>5, <2>6, <2>7, <2>8, <2>9 DEF LayoutsKept
<1>5. ((EmptySearch \/ LinkExpires) /\ UNCHANGED dashVars) \/ UNCHANGED trackerVars =>
        UNCHANGED <<req, dash, tile>> /\ served' \in {served, served + 1}
  BY DEF EmptySearch, Serve, LinkExpires, serverVars, trackerVars, dashVars
<1> QED
  BY <1>1, <1>2, <1>3, <1>4, <1>5, LayoutsByDashboards DEF TrackerNext

LEMMA LayoutsInit == ASSUME TrackerInit PROVE LayoutsKept
<1>1. PICK m \in DOMAIN Casts : Cast = Casts[m]
  BY ChosenInit DEF Cast
<1>2. PICK boards, tiles : boards = CastBoards(Casts[m].dash) /\ tiles = Casts[m].tiles
  OBVIOUS
<1>3. dash = boards /\ tile = tiles
  BY <1>1, <1>2 DEF TrackerInit, DashInit
<1>4. /\ \A d \in Board : DOMAIN boards[d] = DOMAIN NoBoard /\ WholeLayout({t \in tiles : t.d = d})
      /\ OneDefault(boards)
      /\ \A t \in tiles : t.d \in Board /\ boards[t.d].st # "absent" /\ t.by = 0 /\ (t.vid # Nil => t.key = "view_results")
  BY <1>2, CastBoardsAreWhole
<1>5. DOMAIN dash = Board
  BY <1>2, <1>3 DEF CastBoards
<1>6. served = 0 /\ \A h \in Handler : req[h].op = "idle"
  BY DEF TrackerInit, ServerInit, Idle
<1>7. \A d \in Board : WholeLayout(ListDashboardGadgets(d))
  BY <1>3, <1>4 DEF ListDashboardGadgets
<1>8. \A h \in Handler : ~Saving(h) /\ ~Deleting(h) /\ BoardRequest(req[h])
  BY <1>6 DEF Saving, Deleting, BoardRequest, At
<1>9. OneDefault(dash) /\ \A d \in Board : DOMAIN dash[d] = DOMAIN NoBoard
  BY <1>3, <1>4
<1>10. \A t \in tile : Boarded(t.d) /\ t.by \in 0 .. served /\ (t.vid # Nil => t.key = "view_results")
  BY <1>3, <1>4, <1>6 DEF Boarded
<1> QED
  BY <1>5, <1>6, <1>7, <1>8, <1>9, <1>10 DEF LayoutsKept

LEMMA LayoutsSuffice == ASSUME LayoutsKept PROVE LayoutsLandWhole
BY DEF LayoutsKept, LayoutsLandWhole, WholeLayout, OneDefault, GetDefaultDashboard

(* A tile shows a view where it shows one, so that what its reader finds   *)
(* of it is what his list has.                                             *)
LEMMA AudienceSuffices == ASSUME LayoutsKept PROVE AudienceIsOne
<1> SUFFICES ASSUME NEW o \in Org, NEW u \in User, Member(o, u), ~IsOrgAdmin(u, o)
             PROVE  /\ ListSavedViewsForViewer(o, u) = {x \in View : view[x].org = o /\ view[x].sp = Nil /\ CanSeeView(x, u)}
                    /\ ListDashboardsForViewer(o, u) = {d \in Board : dash[d].org = o /\ CanSeeBoard(d, u)}
                    /\ \A t \in tile : CanSeeBoard(t.d, u) /\ t.vid # Nil =>
                         (resolveGadget(t, o, u) \in {"ready", "scope_unavailable"} <=> t.vid \in ListSavedViewsForViewer(o, u))
  BY DEF AudienceIsOne
<1>1. \A row : row.org = o => (Reaches(row, u) <=> \/ row.owner = u
                                                   \/ row.vis = "org"
                                                   \/ row.vis = "team" /\ row.team # Nil /\ row.team \in EffectiveTeams(o, u))
  BY DEF Reaches, OwnedBy, inTeam
<1>2. \A x \in View : x \in ListSavedViewsForViewer(o, u) <=> view[x].org = o /\ view[x].sp = Nil /\ CanSeeView(x, u)
  BY <1>1 DEF ListSavedViewsForViewer, CanSeeView
<1>3. ListSavedViewsForViewer(o, u) \subseteq View
  BY DEF ListSavedViewsForViewer
<1>4. \A d \in Board : d \in ListDashboardsForViewer(o, u) <=> dash[d].org = o /\ CanSeeBoard(d, u)
  BY <1>1 DEF ListDashboardsForViewer, CanSeeBoard
<1>5. ListDashboardsForViewer(o, u) \subseteq Board
  BY DEF ListDashboardsForViewer
<1>6. ASSUME NEW t \in tile, t.vid # Nil
      PROVE  resolveGadget(t, o, u) \in {"ready", "scope_unavailable"} <=> t.vid \in ListSavedViewsForViewer(o, u)
  <2>1. t.key = "view_results"
    BY <1>6 DEF LayoutsKept
  <2>2. resolveGadget(t, o, u) \in {"ready", "scope_unavailable"} <=> t.vid \in GetSavedViewsByIDs(o, View) /\ Reaches(view[t.vid], u)
    BY <2>1 DEF resolveGadget, RequiresSavedView, GadgetKey
  <2>3. t.vid \in GetSavedViewsByIDs(o, View) <=> t.vid \in View /\ ViewLive(t.vid) /\ view[t.vid].org = o /\ view[t.vid].sp = Nil
    BY DEF GetSavedViewsByIDs
  <2>4. t.vid \in View /\ view[t.vid].org = o => (CanSeeView(t.vid, u) <=> ViewLive(t.vid) /\ Reaches(view[t.vid], u))
    BY DEF CanSeeView
  <2> QED
    BY <1>2, <1>3, <2>2, <2>3, <2>4
<1> QED
  BY <1>2, <1>3, <1>4, <1>5, <1>6

THEOREM LayoutsInvariant == TrackerSpec => [](Shape /\ Chosen /\ LayoutsKept)
<1>1. TrackerInit => Shape /\ Chosen /\ LayoutsKept
  BY ShapeInit, ChosenInit, LayoutsInit
<1>2. Shape /\ Chosen /\ LayoutsKept /\ [TrackerNext]_trackerVars => (Shape /\ Chosen /\ LayoutsKept)'
  BY ShapeNext, ChosenNext, LayoutsNext
<1> QED
  BY <1>1, <1>2, PTL DEF TrackerSpec

(* Whoever replaces a layout, opens Home and deletes at the same time, a   *)
(* dashboard shows one whole layout and nobody has two defaults for a      *)
(* module (ReplaceGadgets, CreateStarterDashboard, UpdateDashboard).       *)
THEOREM LayoutsAlwaysWhole == TrackerSpec => []LayoutsLandWhole
BY LayoutsInvariant, LayoutsSuffice, PTL

(* The list in SQL and the check in Go give a view and a dashboard the     *)
(* same readers, and a tile shows no one what his list has not             *)
(* (ListSavedViewsForViewer, views/audience.go, dashboards/resolve.go).    *)
THEOREM OneAudience == TrackerSpec => []AudienceIsOne
BY LayoutsInvariant, AudienceSuffices, PTL
=============================================================================
