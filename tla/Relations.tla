------------------------------ MODULE Relations ------------------------------
(***************************************************************************)
(* Relations between items, tickets and pages:                             *)
(* internal/core/projects/relations.go, internal/core/api/relations and    *)
(* the relation queries of internal/db/queries/items.sql.  A relation is   *)
(* one row, from its near side to its far side, with no foreign key to     *)
(* either; readers are shown it from both sides.                           *)
(***************************************************************************)
EXTENDS Items

CONSTANTS RelId

VARIABLES rel

NoRel == [st |-> "none", from |-> Nil, to |-> Nil, kind |-> Nil]

RelInit == rel = [i \in RelId |-> NoRel]

RelationKind == {"blocks", "is_blocked_by", "duplicates", "relates_to", "wiki_link"}
Entity == Item \cup Page

EntityLive(e)  == IF e \in Item THEN ItemLive(e) ELSE PageLive(e)
EntitySpace(e) == IF e \in Item THEN item[e].sp ELSE page[e].sp

ReadableSpaceIDs(u) == {sp \in Space : CanReadSpace(u, sp)}

(* The entity lives, and in one of these spaces: one bit for both.         *)
TargetIsReadable(e, sps) == EntityLive(e) /\ EntitySpace(e) \in sps

validateNewRelation(from, to, kind) == kind \in RelationKind /\ from # to

(* The near side in the space of the URL, then the far side in any space   *)
(* the caller could read when the request came in.                         *)
CreateRelationBegin(h) ==
  /\ Ready(h, "relate")
  /\ \E u \in Work.callers, from, to \in Entity, k \in Work.relations :
       /\ EntityLive(from)
       /\ Can(u, "create_items", EntitySpace(from))
       /\ validateNewRelation(from, to, k)
       /\ Begin(h, [op |-> "relate", pc |-> "far", from |-> from, to |-> to, k |-> k, readable |-> ReadableSpaceIDs(u)])
       /\ UNCHANGED <<groundVars, itemVars, rel>>

CheckFarSide(h) ==
  LET r == req[h] IN
  /\ At(h, "relate", "far")
  /\ IF TargetIsReadable(r.to, r.readable)
     THEN Go(h, [op |-> "relate", pc |-> "insert", from |-> r.from, to |-> r.to, k |-> r.k])
     ELSE End(h)
  /\ UNCHANGED <<groundVars, itemVars, rel>>

(* Neither uniqueness nor the inverse row.                                 *)
CreateEntityRelation(h) ==
  LET free == {i \in RelId : rel[i].st = "none"} IN
  /\ At(h, "relate", "insert")
  /\ free # {}
  /\ rel' = [rel EXCEPT ![Min(free)] = [st |-> "live", from |-> req[h].from, to |-> req[h].to, kind |-> req[h].k]]
  /\ End(h)
  /\ UNCHANGED <<groundVars, itemVars>>

(* One statement: the relation goes when either side lives in the space    *)
(* of the URL, and silently stays otherwise.                               *)
DeleteEntityRelationInSpace(h) ==
  /\ Ready(h, "unrelate")
  /\ \E u \in Work.callers, i \in RelId, sp \in Space :
       /\ rel[i].st = "live"
       /\ Can(u, "create_items", sp)
       /\ Serve
       /\ rel' = IF \E e \in {rel[i].from, rel[i].to} : TargetIsReadable(e, {sp})
                 THEN [rel EXCEPT ![i].st = "deleted"] ELSE rel
       /\ UNCHANGED <<groundVars, itemVars>>

-----------------------------------------------------------------------------
(* Reading, from both sides; the far side is named when it may be read.    *)

Seen(i, dir, far, sps) == [kind |-> rel[i].kind, dir |-> dir, far |-> IF TargetIsReadable(far, sps) THEN far ELSE Nil]

ListEntityRelationsForEntity(e, sps) ==
  {Seen(i, "outgoing", rel[i].to, sps) : i \in {j \in RelId : rel[j].st = "live" /\ rel[j].from = e}}
    \cup {Seen(i, "incoming", rel[i].from, sps) :
            i \in {j \in RelId : rel[j].st = "live" /\ rel[j].to = e /\ rel[j].from # e}}

ListRelationsInSpace(e, sp, sps) ==
  IF TargetIsReadable(e, {sp}) THEN ListEntityRelationsForEntity(e, sps) ELSE {}

filterSameKind(rows, outgoing, incoming) == {x \in rows : x.kind = outgoing}   \* mutant: one kind, both directions
filterByDirectedKind(rows, outgoing, incoming) ==
  {x \in rows : x.kind = (IF x.dir = "outgoing" THEN outgoing ELSE incoming)}

GetBlockers(e, sps) == filterByDirectedKind(ListEntityRelationsForEntity(e, sps), "is_blocked_by", "blocks")
GetBlocking(e, sps) == filterByDirectedKind(ListEntityRelationsForEntity(e, sps), "blocks", "is_blocked_by")

RelationsStep(h) ==
  CreateRelationBegin(h) \/ CheckFarSide(h) \/ CreateEntityRelation(h) \/ DeleteEntityRelationInSpace(h)
=============================================================================
