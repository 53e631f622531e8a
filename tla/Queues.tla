------------------------------- MODULE Queues -------------------------------
(***************************************************************************)
(* The queues of a space: internal/core/views/queue.go with                *)
(* internal/db/adapters/saved_view_queues.go and                           *)
(* internal/core/api/views/queue_handler.go.  A queue is a saved view with *)
(* a space, a name of its own there, and a place in the space's order.     *)
(***************************************************************************)
EXTENDS Views

CONSTANTS DefaultQueues   \* the names of the queues a space is offered, in order

QueueRows(sp) == {x \in View : view[x].st # "absent" /\ view[x].sp = sp}
ListQueuesForSpace(sp) == {x \in QueueRows(sp) : ViewLive(x)}

\* mutant: positions are not unique
QueuePositionFreeAlways(sp, pos, but) == TRUE
(* saved_views_space_position_key counts the deleted rows;                 *)
(* saved_views_space_name_key does not.                                    *)
QueuePositionFree(sp, pos, but) == \A x \in QueueRows(sp) \ but : view[x].pos # pos
QueueNameFree(sp, name, but) == \A x \in ListQueuesForSpace(sp) \ but : view[x].name # name

NextQueuePosition(sp) == Max({0} \cup {view[x].pos + 1 : x \in ListQueuesForSpace(sp)})

(* A queue reads the tickets of its space, whatever the request named.     *)
bindToSpace(q, sp) == [q EXCEPT !.modules = {Beacon}, !.spaces = {sp}, !.not = @ \ {"spaces"}]
Bindable(q) == ~HasModule(q, Vector)

QueueRow(r, name) ==
  [NoView EXCEPT !.st = "live", !.org = SpaceOrg[r.sp], !.owner = r.u, !.vis = "space", !.query = r.query,
                 !.sp = r.sp, !.pos = r.pos, !.name = name]

InsertQueue(r, name) == [view EXCEPT ![Min(FreshView)] = QueueRow(r, name)]

-----------------------------------------------------------------------------
(* One queue, or those a space is offered; either at the end.              *)

CreateQueueBegin(h) ==
  /\ Ready(h, "createqueue")
  /\ \E u \in Work.callers, sp \in Space, n \in Work.names, q \in Work.queries :
       /\ Can(u, "manage_queue", sp)
       /\ Bindable(q) /\ validate(bindToSpace(q, sp))
       /\ Begin(h, [op |-> "createqueue", pc |-> "position", u |-> u, sp |-> sp, names |-> <<n>>, query |-> bindToSpace(q, sp)])
       /\ UNCHANGED <<groundVars, itemVars, view>>

CreateDefaultQueuesBegin(h) ==
  /\ Ready(h, "seedqueues")
  /\ \E u \in Work.callers, sp \in Space, q \in Work.queries :
       /\ Can(u, "manage_queue", sp)
       /\ Begin(h, [op |-> "seedqueues", pc |-> "position", u |-> u, sp |-> sp, names |-> DefaultQueues,
                    query |-> bindToSpace(q, sp)])
       /\ UNCHANGED <<groundVars, itemVars, view>>

ReadQueuePosition(h) ==
  /\ \/ At(h, "createqueue", "position")
     \/ At(h, "seedqueues", "position")
  /\ Go(h, With([pc |-> "insert", pos |-> NextQueuePosition(req[h].sp)], req[h]))
  /\ UNCHANGED <<groundVars, itemVars, view>>

(* The position read may be taken: then the request fails.                 *)
CreateQueue(h) ==
  LET r == req[h]
      n == Head(r.names)
  IN
  /\ At(h, "createqueue", "insert")
  /\ FreshView # {}
  /\ view' = IF QueueNameFree(r.sp, n, {}) /\ QueuePositionFree(r.sp, r.pos, {}) THEN InsertQueue(r, n) ELSE view
  /\ End(h)
  /\ UNCHANGED <<groundVars, itemVars>>

(* A default queue that is there by name is left as it is; each is a       *)
(* statement of its own, and what was inserted before one fails stays.     *)
CreateQueueIfAbsent(h) ==
  LET r == req[h]
      n == Head(r.names)
      absent == QueueNameFree(r.sp, n, {})
      goesIn == absent /\ QueuePositionFree(r.sp, r.pos, {})
  IN
  /\ At(h, "seedqueues", "insert")
  /\ FreshView # {}
  /\ view' = IF goesIn THEN InsertQueue(r, n) ELSE view
  /\ IF Len(r.names) = 1 \/ (absent /\ ~goesIn) THEN End(h)
     ELSE Go(h, [r EXCEPT !.names = Tail(@), !.pos = IF goesIn THEN @ + 1 ELSE @])
  /\ UNCHANGED <<groundVars, itemVars>>

-----------------------------------------------------------------------------
(* A queue is renamed and given another query, or deleted. *)

UpdateQueueBegin(h) ==
  /\ Ready(h, "updatequeue")
  /\ \E u \in Work.callers, sp \in Space, n \in Work.names, q \in Work.queries : \E x \in ListQueuesForSpace(sp) :
       /\ Can(u, "manage_queue", sp)
       /\ Bindable(q) /\ validate(bindToSpace(q, sp))
       /\ Begin(h, [op |-> "updatequeue", pc |-> "write", vid |-> x, sp |-> sp, names |-> <<n>>, query |-> bindToSpace(q, sp)])
       /\ UNCHANGED <<groundVars, itemVars, view>>

UpdateQueue(h) ==
  LET r == req[h]
      n == Head(r.names)
  IN
  /\ At(h, "updatequeue", "write")
  /\ view' = IF ViewLive(r.vid) /\ QueueNameFree(r.sp, n, {r.vid})
             THEN [view EXCEPT ![r.vid].name = n, ![r.vid].query = r.query] ELSE view
  /\ End(h)
  /\ UNCHANGED <<groundVars, itemVars>>

DeleteQueueBegin(h) ==
  /\ Ready(h, "deletequeue")
  /\ \E u \in Work.callers, sp \in Space : \E x \in ListQueuesForSpace(sp) :
       /\ Can(u, "manage_queue", sp)
       /\ Begin(h, [op |-> "deletequeue", pc |-> "delete", vid |-> x])
       /\ UNCHANGED <<groundVars, itemVars, view>>

(* The row keeps its position.                                             *)
SoftDeleteQueue(h) ==
  /\ At(h, "deletequeue", "delete")
  /\ view' = [view EXCEPT ![req[h].vid].st = "deleted"]
  /\ End(h)
  /\ UNCHANGED <<groundVars, itemVars>>

-----------------------------------------------------------------------------
(* The order is replaced whole: the request lists the queues as it saw     *)
(* them, the handler compares that with the queues there are, and one      *)
(* transaction numbers them from 0; the positions are compared at commit.  *)

ReorderQueuesBegin(h) ==
  /\ Ready(h, "reorderqueues")
  /\ \E u \in Work.callers, sp \in Space : \E order \in SetToSeqs(ListQueuesForSpace(sp)) :
       /\ Can(u, "manage_queue", sp)
       /\ Begin(h, [op |-> "reorderqueues", pc |-> "list", sp |-> sp, order |-> order])
       /\ UNCHANGED <<groundVars, itemVars, view>>

CompareOrder(h) ==
  LET r == req[h] IN
  /\ At(h, "reorderqueues", "list")
  /\ IF Range(r.order) = ListQueuesForSpace(r.sp) THEN Go(h, [r EXCEPT !.pc = "set"]) ELSE End(h)
  /\ UNCHANGED <<groundVars, itemVars, view>>

PlaceIn(order, x) == (CHOOSE n \in DOMAIN order : order[n] = x) - 1
SetQueuePositions(order) == [x \in View |-> IF x \in Range(order) THEN [view[x] EXCEPT !.pos = PlaceIn(order, x)] ELSE view[x]]

(* Every row of the order must be there, and no other row in its place.    *)
OrderHolds(r) ==
  /\ \A x \in Range(r.order) : ViewLive(x)
  /\ \A x \in Range(r.order) : QueuePositionFree(r.sp, PlaceIn(r.order, x), Range(r.order))

ReorderQueues(h) ==
  LET r == req[h] IN
  /\ At(h, "reorderqueues", "set")
  /\ view' = IF OrderHolds(r) THEN SetQueuePositions(r.order) ELSE view
  /\ End(h)
  /\ UNCHANGED <<groundVars, itemVars>>

QueuesStep(h) ==
  \/ CreateQueueBegin(h) \/ CreateDefaultQueuesBegin(h) \/ ReadQueuePosition(h) \/ CreateQueue(h) \/ CreateQueueIfAbsent(h)
  \/ UpdateQueueBegin(h) \/ UpdateQueue(h) \/ DeleteQueueBegin(h) \/ SoftDeleteQueue(h)
  \/ ReorderQueuesBegin(h) \/ CompareOrder(h) \/ ReorderQueues(h)
=============================================================================
