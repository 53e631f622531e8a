-------------------------------- MODULE Items --------------------------------
(***************************************************************************)
(* Project items, tickets and item types: internal/core/projects/item.go,  *)
(* internal/core/tickets (ticket.go, assignment.go),                       *)
(* internal/core/itemtypes and the handlers of internal/core/api/projects  *)
(* and internal/core/api/tickets.  Status moves are the module             *)
(* Transitions; here they are what their UPDATE leaves in these columns.   *)
(***************************************************************************)
EXTENDS Shares

CONSTANTS Item, Kind,
          SpaceType   \* the module a space was created in, which nothing changes

(* An id is a number, and a new row takes the lowest that is free.         *)
ASSUME ItemsAreNumbered == Item \subseteq Nat /\ IsFiniteSet(Item)
ASSUME NilIsNoEntity == Nil \notin Item \cup Page /\ Nil \notin {"item", "ticket"}

VARIABLES item,   \* project_items and tickets rows, by id
          seqno,  \* project_item_sequences: the last number of each space
          itype   \* item_types, by organization and slug

itemVars == <<item, seqno, itype>>

(* What the components of this group read and do not write.                *)
groundVars == <<orgVars, space, shareVars>>

(* The rank of an item that was never moved sorts after every one that was *)
(* ("0|aaaaaa:" and "0|000001:").                                          *)
DefaultRank == 1000000

(* key is the item_key a project item gets with its number, kind its item  *)
(* type's slug; a ticket has neither.  The last five are what lists are    *)
(* sorted by, each as its place in the order of its values; 0 is NULL.     *)
NoItem == [st |-> "absent", et |-> Nil, sp |-> Nil, num |-> 0, key |-> Nil, kind |-> Nil,
           by |-> Nil, assignee |-> Nil, rank |-> DefaultRank,
           updated_at |-> 0, due_at |-> 0, resolved_at |-> 0, priority |-> 0, title |-> 0]

NoType == [st |-> "none", id |-> 0]

(* What the tables hold their rows to: the items of a space are numbered   *)
(* from one on, a number is given once in a space and a key once in an     *)
(* organization, to one table's rows, and no row gives back its number.    *)
WellNumbered(rows) ==
  /\ \A i \in Item : /\ DOMAIN rows[i] = DOMAIN NoItem
                     /\ rows[i].st = "absent" => rows[i] = NoItem
                     /\ rows[i].st # "absent" => rows[i].st \in {"live", "deleted"} /\ rows[i].et \in {"item", "ticket"}
                     /\ rows[i].et = "ticket" => rows[i].key = Nil
  /\ \A sp \in Space : \E n \in 0 .. Cardinality(Item) : {rows[i].num : i \in {j \in Item : rows[j].sp = sp /\ rows[j].et = "item"}} = 1 .. n
  /\ \A i, j \in Item : i # j /\ rows[i].st # "absent" /\ rows[i].et = rows[j].et =>
       /\ rows[i].sp = rows[j].sp => rows[i].num # rows[j].num
       /\ rows[i].et = "item" /\ SpaceOrg[rows[i].sp] = SpaceOrg[rows[j].sp] => rows[i].key # rows[j].key

CastItems(rows) == [i \in Item |-> IF i \in DOMAIN rows THEN rows[i] ELSE NoItem]

ASSUME CastItemsAreNumbered == \A m \in DOMAIN Casts : WellNumbered(CastItems(Casts[m].item))

ItemInit ==
  /\ item = CastItems(Cast.item)
  /\ seqno = [sp \in Space |-> Max({0} \cup {item[i].num : i \in {j \in Item : item[j].sp = sp /\ item[j].et = "item"}})]
  /\ itype = [o \in Org |-> [k \in Kind |-> IF k \in Cast.kinds THEN [st |-> "active", id |-> 1] ELSE NoType]]

ItemLive(i) == item[i].st = "live"
ItemInSpace(i, sp) == ItemLive(i) /\ item[i].sp = sp
Unborn == {i \in Item : item[i].st = "absent"}
Rows(sp, et) == {i \in Item : item[i].sp = sp /\ item[i].et = et}

(* now() is later than what any row was stamped with.                      *)
Now == 1 + Max({0} \cup {item[i].updated_at : i \in Item})

(* What a request says of a row besides: nothing, or one of Work.columns.  *)
Unsaid == [due_at |-> 0, priority |-> 1, title |-> 1]
ColumnsOf(row) == [due_at |-> row.due_at, priority |-> row.priority, title |-> row.title]
WithColumns(row, c) == [row EXCEPT !.due_at = c.due_at, !.priority = c.priority, !.title = c.title]

NewRow(et, r) ==
  [WithColumns(NoItem, r.cols) EXCEPT !.st = "live", !.et = et, !.sp = r.sp, !.by = r.u, !.assignee = r.a, !.updated_at = Now]

-----------------------------------------------------------------------------
(* Creation *)

(* The one check behind project_items.kind: there is no foreign key.       *)
validateItemKind(o, k) == itype[o][k].st = "active"

CreateItemBegin(h) ==
  /\ Ready(h, "createitem")
  /\ \E u \in Work.callers, sp \in Space, k \in Kind, a \in Work.assignees \cup {Nil}, c \in Work.columns \cup {Unsaid} :
       /\ Can(u, "create_items", sp)
       /\ validateItemKind(SpaceOrg[sp], k)
       /\ Begin(h, [op |-> "createitem", pc |-> "insert", u |-> u, sp |-> sp, k |-> k, a |-> a, cols |-> c])
       /\ UNCHANGED <<groundVars, itemVars>>

ItemKey(sp) == <<space[sp].key, seqno[sp] + 1>>

(* idx_project_items_org_key has no WHERE: a deleted item keeps its key.   *)
ItemKeyFree(o, k) == \A i \in Item : item[i].et = "item" /\ SpaceOrg[item[i].sp] = o => item[i].key # k

(* One statement takes the number from the space's counter and inserts the *)
(* row; it fails as a whole when the key is taken.  Nothing looks whether  *)
(* the space still lives.                                                  *)
CreateProjectItem(h) ==
  LET r == req[h] IN
  /\ At(h, "createitem", "insert")
  /\ Unborn # {}
  /\ IF ItemKeyFree(SpaceOrg[r.sp], ItemKey(r.sp))
     THEN /\ seqno' = [seqno EXCEPT ![r.sp] = @ + 1]
          /\ item' = [item EXCEPT ![Min(Unborn)] =
                        [NewRow("item", r) EXCEPT !.num = seqno[r.sp] + 1, !.key = ItemKey(r.sp), !.kind = r.k]]
     ELSE UNCHANGED <<item, seqno>>
  /\ End(h)
  /\ UNCHANGED <<groundVars, itype>>

CreateTicketBegin(h) ==
  /\ Ready(h, "createticket")
  /\ \E u \in Work.callers, sp \in Space, a \in Work.assignees \cup {Nil}, c \in Work.columns \cup {Unsaid} :
       /\ Can(u, "create_items", sp)
       /\ Begin(h, [op |-> "createticket", pc |-> "number", u |-> u, sp |-> sp, a |-> a, cols |-> c])
       /\ UNCHANGED <<groundVars, itemVars>>

GetTicketMaxNumber(sp) == Max({0} \cup {item[i].num : i \in Rows(sp, "ticket")})

ReadTicketNumber(h) ==
  /\ At(h, "createticket", "number")
  /\ Go(h, With([pc |-> "insert", num |-> GetTicketMaxNumber(req[h].sp) + 1], req[h]))
  /\ UNCHANGED <<groundVars, itemVars>>

TicketNumberFree(sp, n) == \A i \in Rows(sp, "ticket") : item[i].num # n

(* The second of two creations that read the same number is refused.       *)
CreateTicket(h) ==
  LET r == req[h] IN
  /\ At(h, "createticket", "insert")
  /\ Unborn # {}
  /\ item' = IF TicketNumberFree(r.sp, r.num)
             THEN [item EXCEPT ![Min(Unborn)] = [NewRow("ticket", r) EXCEPT !.num = r.num]]
             ELSE item
  /\ End(h)
  /\ UNCHANGED <<groundVars, seqno, itype>>

-----------------------------------------------------------------------------
(* Change: what the row said when it was read is written back with what    *)
(* the request changes, whatever was written since.                        *)

Patches(i) == [kind : IF item[i].et = "item" THEN {item[i].kind} \cup {k \in Kind : validateItemKind(SpaceOrg[item[i].sp], k)}
                      ELSE {Nil},
               assignee : {item[i].assignee, Nil} \cup Work.assignees,
               cols : {ColumnsOf(item[i])} \cup Work.columns]

PatchBegin(h, op, et) ==
  /\ Ready(h, op)
  /\ \E u \in Work.callers, i \in Item :
       /\ ItemLive(i) /\ item[i].et = et
       /\ CanEditEntity(u, item[i].sp, item[i].by)
       /\ \E p \in Patches(i) :
            Begin(h, [op |-> op, pc |-> "write", i |-> i,
                      row |-> [WithColumns(item[i], p.cols) EXCEPT !.kind = p.kind, !.assignee = p.assignee]])
       /\ UNCHANGED <<groundVars, itemVars>>

UpdateItemBegin(h)   == PatchBegin(h, "updateitem", "item")
UpdateTicketBegin(h) == PatchBegin(h, "updateticket", "ticket")

(* The UPDATE sets every column that a request may change, and the stamp.  *)
Stamped(i, row) == [row EXCEPT !.resolved_at = item[i].resolved_at, !.updated_at = Now]

WriteRow(h, op) ==
  /\ At(h, op, "write")
  /\ item' = IF ItemLive(req[h].i) THEN [item EXCEPT ![req[h].i] = Stamped(req[h].i, req[h].row)] ELSE item
  /\ End(h)
  /\ UNCHANGED <<groundVars, seqno, itype>>

UpdateProjectItem(h) == WriteRow(h, "updateitem")
UpdateTicket(h)      == WriteRow(h, "updateticket")

(* Assignment is for those who may edit any item; the assignee is a member *)
(* of the organization and does not have the ticket yet.                   *)
AssignBegin(h) ==
  /\ Ready(h, "assign")
  /\ \E u \in Work.callers, i \in Item, v \in Work.assignees :
       /\ ItemLive(i) /\ item[i].et = "ticket"
       /\ Can(u, "edit_any_item", item[i].sp)
       /\ Member(SpaceOrg[item[i].sp], v)
       /\ item[i].assignee # v
       /\ Begin(h, [op |-> "updateticket", pc |-> "write", i |-> i, row |-> [item[i] EXCEPT !.assignee = v]])
       /\ UNCHANGED <<groundVars, itemVars>>

UnassignBegin(h) ==
  /\ Ready(h, "assign")
  /\ \E u \in Work.callers, i \in Item :
       /\ ItemLive(i) /\ item[i].et = "ticket"
       /\ Can(u, "edit_any_item", item[i].sp)
       /\ Begin(h, [op |-> "updateticket", pc |-> "write", i |-> i, row |-> [item[i] EXCEPT !.assignee = Nil]])
       /\ UNCHANGED <<groundVars, itemVars>>

(* A status move sets the moment the entity reached a done state, keeps    *)
(* the one there is, or clears it.                                         *)
MoveBegin(h) ==
  /\ Ready(h, "movestatus")
  /\ \E u \in Work.callers, i \in Item, done \in BOOLEAN :
       /\ ItemLive(i)
       /\ Can(u, "transition_any_item", item[i].sp)
       /\ Begin(h, [op |-> "movestatus", pc |-> "write", i |-> i, done |-> done])
       /\ UNCHANGED <<groundVars, itemVars>>

Resolved(row, done) ==
  [row EXCEPT !.resolved_at = CASE ~done -> 0 [] done /\ @ # 0 -> @ [] OTHER -> Now, !.updated_at = Now]

UpdateWorkflowState(h) ==
  LET i == req[h].i IN
  /\ At(h, "movestatus", "write")
  /\ item' = IF ItemLive(i) THEN [item EXCEPT ![i] = Resolved(@, req[h].done)] ELSE item
  /\ End(h)
  /\ UNCHANGED <<groundVars, seqno, itype>>

-----------------------------------------------------------------------------
(* Deletion, with the entity's shares; and sharing *)

DeleteBegin(h, et) ==
  /\ Ready(h, "deleteitem")
  /\ \E u \in Work.callers, i \in Item :
       /\ ItemLive(i) /\ item[i].et = et
       /\ CanEditEntity(u, item[i].sp, item[i].by)
       /\ Begin(h, [op |-> "deleteitem", pc |-> "delete", i |-> i])
       /\ UNCHANGED <<groundVars, itemVars>>

DeleteItemBegin(h)   == DeleteBegin(h, "item")
DeleteTicketBegin(h) == DeleteBegin(h, "ticket")

deleteEntityAndRevokeShares(h) ==
  LET i == req[h].i IN
  /\ At(h, "deleteitem", "delete")
  /\ item' = [item EXCEPT ![i].st = "deleted"]
  /\ share' = RevokeSharesByEntity(i)
  /\ End(h)
  /\ UNCHANGED <<orgVars, space, page, seqno, itype>>

(* A share of a ticket or an item never cascades; CreateShare inserts it.  *)
LookupSharedItem(i) == ItemLive(i) /\ SpaceLive(item[i].sp)

ShareItemBegin(h) ==
  /\ Ready(h, "shareitem")
  /\ \E u \in Work.callers, i \in Item, a \in Work.audiences :
       /\ LookupSharedItem(i)
       /\ Can(u, "manage_shares", item[i].sp)
       /\ a # OrgWide => TeamLive(a) /\ TeamOrg[a] = SpaceOrg[item[i].sp]
       /\ Begin(h, [op |-> "share", pc |-> "insert", p |-> i, sp |-> item[i].sp, aud |-> a, cascade |-> FALSE])
       /\ UNCHANGED <<groundVars, itemVars>>

(* GET .../items/resolve: a key names at most one live item.               *)
GetProjectItemByOrgKey(o, k) ==
  {i \in Item : ItemLive(i) /\ item[i].et = "item" /\ SpaceOrg[item[i].sp] = o /\ item[i].key = k}
ResolveItem(u, sp, k) == {i \in GetProjectItemByOrgKey(SpaceOrg[sp], k) : Can(u, "read_items", item[i].sp)}

-----------------------------------------------------------------------------
(* Item types: an organization's, its administrators'.  A slug that is     *)
(* created again is another row.                                           *)

TypeRow(o, k, id) == itype[o][k].st # "none" /\ itype[o][k].id = id

CreateItemTypeBegin(h) ==
  /\ Ready(h, "createtype")
  /\ \E o \in Org, k \in Kind :
       /\ AdminGate(o)
       /\ itype[o][k].st = "none"
       /\ Begin(h, [op |-> "createtype", pc |-> "insert", o |-> o, k |-> k])
       /\ UNCHANGED <<groundVars, itemVars>>

CreateItemType(h) ==
  LET o == req[h].o
      k == req[h].k
  IN
  /\ At(h, "createtype", "insert")
  /\ itype' = IF itype[o][k].st = "none" THEN [itype EXCEPT ![o][k] = [st |-> "active", id |-> @.id + 1]] ELSE itype
  /\ End(h)
  /\ UNCHANGED <<groundVars, item, seqno>>

(* getOwned, for the three operations on a type that is there.             *)
OwnedType(h, op, pc) ==
  /\ Ready(h, op)
  /\ \E o \in Org, k \in Kind :
       /\ AdminGate(o)
       /\ itype[o][k].st # "none"
       /\ Begin(h, [op |-> op, pc |-> pc, o |-> o, k |-> k, id |-> itype[o][k].id])
       /\ UNCHANGED <<groundVars, itemVars>>

SetArchivedBegin(h)    == OwnedType(h, "archivetype", "write")
DeleteItemTypeBegin(h) == OwnedType(h, "deletetype", "count")

SetItemTypeArchived(h) ==
  LET r == req[h] IN
  /\ At(h, "archivetype", "write")
  /\ \E st \in {"active", "archived"} :
       itype' = IF TypeRow(r.o, r.k, r.id) THEN [itype EXCEPT ![r.o][r.k].st = st] ELSE itype
  /\ End(h)
  /\ UNCHANGED <<groundVars, item, seqno>>

ItemsOfType(o, k) == {i \in Item : item[i].st # "absent" /\ item[i].kind = k /\ SpaceOrg[item[i].sp] = o}

CountItemsOfType(h) ==
  /\ At(h, "deletetype", "count")
  /\ IF ItemsOfType(req[h].o, req[h].k) = {} THEN Go(h, [req[h] EXCEPT !.pc = "delete"]) ELSE End(h)
  /\ UNCHANGED <<groundVars, itemVars>>

DeleteItemType(h) ==
  LET r == req[h] IN
  /\ At(h, "deletetype", "delete")
  /\ itype' = IF TypeRow(r.o, r.k, r.id) THEN [itype EXCEPT ![r.o][r.k].st = "none"] ELSE itype
  /\ End(h)
  /\ UNCHANGED <<groundVars, item, seqno>>

ItemsStep(h) ==
  \/ CreateItemBegin(h) \/ CreateProjectItem(h)
  \/ CreateTicketBegin(h) \/ ReadTicketNumber(h) \/ CreateTicket(h)
  \/ UpdateItemBegin(h) \/ UpdateProjectItem(h) \/ UpdateTicketBegin(h) \/ UpdateTicket(h)
  \/ AssignBegin(h) \/ UnassignBegin(h) \/ MoveBegin(h) \/ UpdateWorkflowState(h)
  \/ DeleteItemBegin(h) \/ DeleteTicketBegin(h) \/ deleteEntityAndRevokeShares(h)
  \/ ShareItemBegin(h)
  \/ CreateItemTypeBegin(h) \/ CreateItemType(h) \/ SetArchivedBegin(h) \/ SetItemTypeArchived(h)
  \/ DeleteItemTypeBegin(h) \/ CountItemsOfType(h) \/ DeleteItemType(h)
=============================================================================
