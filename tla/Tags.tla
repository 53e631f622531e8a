-------------------------------- MODULE Tags --------------------------------
(***************************************************************************)
(* Tags of an entity: internal/core/tags and internal/db/adapters/tags.go. *)
(* The service is the same for pages, tickets and project items; the pages *)
(* stand for all three.  A tag row comes into being when somebody types it *)
(* and never goes, so that only the associations are state.                *)
(***************************************************************************)
EXTENDS Shares

CONSTANTS Spelling,          \* the slug of each label somebody may type, "" when it has none
          MaxTagsPerEntity

VARIABLE etag   \* entity_tags: the tags of each page

TagInit == etag = [p \in Page |-> {}]

-----------------------------------------------------------------------------
(* From labels to tags.  Two spellings of one slug are one tag.            *)

Slugify(label) == Spelling[label]

distinctTags(labels) ==
  FoldLeft(LAMBDA seen, label : IF Slugify(label) \in ToSet(seen) THEN seen ELSE Append(seen, Slugify(label)),
           <<>>, labels)

(* What a person types is taken whole or refused: the set of what it is    *)
(* taken for.                                                              *)
Resolve(labels) ==
  LET wanted == distinctTags(labels) IN
  {ToSet(w) : w \in {x \in {wanted} : "" \notin ToSet(x) /\ Len(x) <= MaxTagsPerEntity}}

(* What stands in a document is taken as far as it goes.                   *)
LenientLabelSlugs(labels) ==
  LET wanted == distinctTags(SelectSeq(labels, LAMBDA label : Slugify(label) # "")) IN
  ToSet(SubSeq(wanted, 1, Min({Len(wanted), MaxTagsPerEntity})))

-----------------------------------------------------------------------------
TagRows(p, ts) == {<<"etag", p, t>> : t \in ts}

EntityTagTargetInSpace(p, sp) == PageInSpace(p, sp)

(* What setting these labels on the page asks for, if it may be asked.     *)
SetEntityTags(p, sp, labels) == IF EntityTagTargetInSpace(p, sp) THEN Resolve(labels) ELSE {}

SetTagsBegin(h) ==
  /\ Ready(h, "settags")
  /\ \E u \in Work.callers, p \in Page, labels \in Work.labels : \E ts \in SetEntityTags(p, page[p].sp, labels) :
       /\ CanEditEntity(u, page[p].sp, page[p].author)
       /\ Begin(h, [op |-> "settags", pc |-> "strip", p |-> p, sp |-> page[p].sp, ts |-> ts])
       /\ UNCHANGED <<orgVars, space, shareVars, etag>>

(* The rows the request does not keep, chosen and locked.                  *)
DeleteEntityTagsExcept(h) ==
  LET r == req[h]
      doomed == IF EntityTagTargetInSpace(r.p, r.sp) THEN etag[r.p] \ r.ts ELSE {}
  IN
  /\ At(h, "settags", "strip")
  /\ GoLocked(h, TagRows(r.p, doomed), With([r EXCEPT !.pc = "add"], [doomed |-> doomed]))
  /\ UNCHANGED <<orgVars, space, shareVars, etag>>

(* The inserts, each asking again for the page in the space, and the       *)
(* commit.                                                                 *)
AddEntityTags(h) ==
  LET r == req[h] IN
  /\ At(h, "settags", "add")
  /\ Free(h, TagRows(r.p, r.ts))
  /\ etag' = [etag EXCEPT ![r.p] = (@ \ r.doomed) \cup (IF EntityTagTargetInSpace(r.p, r.sp) THEN r.ts ELSE {})]
  /\ End(h)
  /\ UNCHANGED <<orgVars, space, shareVars>>

TagsStep(h) == SetTagsBegin(h) \/ DeleteEntityTagsExcept(h) \/ AddEntityTags(h)
=============================================================================
