-------------------------------- MODULE Search --------------------------------
(***************************************************************************)
(* Search across pages, tickets and items: internal/core/search,           *)
(* internal/db/adapters/search.go, internal/db/queries/search.sql and      *)
(* internal/core/api/search.  One statement per module, each of them       *)
(* filtered by what the caller may read, merged in Go and cut to a page.   *)
(*                                                                         *)
(* A query is what Parse and PostgreSQL make of the text: the modules it   *)
(* names, whether terms are left to match, the tag it names and whether    *)
(* anybody used it.  hits are the entities whose text matches or, without  *)
(* terms, which carry the tag, with their sort key: the rank of the match, *)
(* or the time of the last change, in text of one width.                   *)
(***************************************************************************)
EXTENDS Views

CONSTANTS Uuid   \* the order of the ids, of all tables

Codex == "page"
ModuleOrder == <<Codex, Beacon, Vector>>

SearchModule(e) == IF e \in Page THEN Codex ELSE item[e].et

(* A type: that names no module there is asks for all of them.             *)
resolveModules(q) == IF q.types = {} THEN Range(ModuleOrder) ELSE q.types

-----------------------------------------------------------------------------
(* The caller: what he could read when his request came in *)

SharedPageIDs(o, u) == {p \in Page : CoversEntity(o, u, p)}

requestFrom(o, u) ==
  [u |-> u, org |-> o, readable |-> {sp \in Space : SpaceOrg[sp] = o /\ CanReadSpace(u, sp)},
   shared |-> [m \in Range(ModuleOrder) |-> IF m = Codex THEN SharedPageIDs(o, u) ELSE DirectIDs(o, u, m)],
   subtrees |-> CascadeRoots(o, u)]

hasAnyAccess(v) == v.readable # {} \/ v.subtrees # {} \/ \E m \in DOMAIN v.shared : v.shared[m] # {}

(* The root of a shared subtree is found by its own id.                    *)
InSubtree(p, v) == \E root \in v.subtrees : page[p].sp = root[1] /\ IsStrictPrefix(root[2], page[p].path)

-----------------------------------------------------------------------------
(* The three statements *)

HitKey(q, e) == [key |-> q.hits[e], id |-> Uuid[e]]
TopHit == [key |-> 0, id |-> 0]

HitAfterKey(q, c, e) == c = TopHit \/ HitKey(q, e).key < c.key   \* mutant: of equal keys one is lost
HitAfter(q, c, e) == c = TopHit \/ Less(HitKey(q, e), c)

HitsInOrder(q, es) == SetToSortSeq(es, LAMBDA d, e : Less(HitKey(q, e), HitKey(q, d)))
Best(q, c, es) == Range(FirstOf(HitsInOrder(q, {e \in es \cap DOMAIN q.hits : HitAfter(q, c, e)}), PageSize + 1))

GlobalSearchPages(q, v, c) ==
  Best(q, c, {p \in Page : /\ PageLive(p) /\ SpaceLive(page[p].sp) /\ SpaceOrg[page[p].sp] = v.org
                           /\ page[p].sp \in v.readable \/ p \in v.shared[Codex] \/ InSubtree(p, v)})

SearchRows(m, v) ==
  {i \in Item : /\ ItemLive(i) /\ item[i].et = m /\ SpaceLive(item[i].sp) /\ SpaceOrg[item[i].sp] = v.org
                /\ item[i].sp \in v.readable \/ i \in v.shared[m]}
GlobalSearchTickets(q, v, c)      == Best(q, c, SearchRows(Beacon, v))
GlobalSearchProjectItems(q, v, c) == Best(q, c, SearchRows(Vector, v))

SearchIn(m, q, v, c) ==
  CASE m = Codex  -> GlobalSearchPages(q, v, c)
    [] m = Beacon -> GlobalSearchTickets(q, v, c)
    [] m = Vector -> GlobalSearchProjectItems(q, v, c)

ContainerOf(e) == IF e \in Page THEN page[e].sp ELSE item[e].sp

(* A hit in a space that is not the caller's is shown without the space,   *)
(* and without the key, the number and the path that would tell it.        *)
redactHit(e, v) == [id |-> e, sp |-> IF ContainerOf(e) \in v.readable THEN ContainerOf(e) ELSE Nil]

(* The excerpts of the rows of a page, from their bodies as they are now:  *)
(* whether they may be read is not asked again.                            *)
HeadlinePages(ids)        == {p \in Page : p \in ids /\ PageLive(p)}
HeadlineTickets(ids)      == {i \in Item : i \in ids /\ item[i].et = Beacon /\ ItemLive(i)}
HeadlineProjectItems(ids) == {i \in Item : i \in ids /\ item[i].et = Vector /\ ItemLive(i)}

-----------------------------------------------------------------------------
(* A search, page after page.  Each page is a request of its own.          *)

(* What the caller may find, told from the rules of access; the handler    *)
(* keeps what he could find all along, and what he could find since his    *)
(* request came in, for the properties.                                    *)
MayFind(o, u, e) ==
  /\ IF e \in Page THEN PageLive(e) ELSE ItemLive(e)
  /\ SpaceLive(ContainerOf(e))
  /\ \/ CanReadSpace(u, ContainerOf(e))
     \/ IF e \in Page THEN CoversPage(o, u, e) ELSE CoversEntity(o, u, e)

Findable(q, v) == {e \in DOMAIN q.hits : MayFind(v.org, v.u, e) /\ SearchModule(e) \in resolveModules(q)}
Watch(r) == [r EXCEPT !.always = @ \cap Findable(r.find, r.caller), !.may = @ \cup Findable(r.find, r.caller)]

(* The next of the modules that are asked for, or what comes after them.   *)
ModulesFrom(q, n) == {k \in n .. 3 : ModuleOrder[k] \in resolveModules(q)}
NextModule(q, n) == IF ModulesFrom(q, n) = {} THEN "cut" ELSE ModuleOrder[Min(ModulesFrom(q, n))]

(* Nothing to read in, no terms and no tag, or a tag nobody has used: the  *)
(* page is empty, and no statement is run.                                 *)
Searchable(q, v) == hasAnyAccess(v) /\ (q.terms \/ q.tag # "none") /\ q.tag # "unused"

SearchBegin(h) ==
  /\ Ready(h, "search")
  /\ \E o \in Org, u \in Work.readers, q \in Work.searches :
       LET v == requestFrom(o, u) IN
       /\ Member(o, u)
       /\ Searchable(q, v)
       /\ Begin(h, [op |-> "search", pc |-> NextModule(q, 1), find |-> q, caller |-> v, since |-> TopHit, hit |-> {},
                    found |-> <<>>, now |-> {}, excerpts |-> {}, always |-> Findable(q, v), may |-> Findable(q, v)])
       /\ UNCHANGED <<groundVars, itemVars, view>>

EmptySearch ==
  /\ \E h \in Handler : Ready(h, "search")
  /\ \E o \in Org, u \in Work.readers, q \in Work.searches : Member(o, u) /\ ~Searchable(q, requestFrom(o, u))
  /\ Serve
  /\ UNCHANGED <<groundVars, itemVars, view>>

fanout(h, n) ==
  LET r == req[h]
      m == ModuleOrder[n]
  IN
  /\ At(h, "search", m)
  /\ Go(h, Watch([r EXCEPT !.pc = NextModule(r.find, n + 1), !.hit = @ \cup SearchIn(m, r.find, r.caller, r.since)]))
  /\ UNCHANGED <<groundVars, itemVars, view>>

cut(h) ==
  LET r == req[h]
      merged == HitsInOrder(r.find, r.hit)
      rows == FirstOf(merged, PageSize)
      shown == [n \in DOMAIN rows |-> redactHit(rows[n], r.caller)]
  IN
  /\ At(h, "search", "cut")
  /\ Go(h, Watch([r EXCEPT !.pc = "snippets", !.hit = {}, !.now = Range(rows), !.found = @ \o shown,
                           !.since = IF Len(merged) > PageSize THEN HitKey(r.find, rows[PageSize]) ELSE TopHit]))
  /\ UNCHANGED <<groundVars, itemVars, view>>

fillSnippets(h) ==
  LET r == req[h] IN
  /\ At(h, "search", "snippets")
  /\ Go(h, [r EXCEPT !.pc = IF r.since = TopHit THEN "done" ELSE "next",
                     !.excerpts = HeadlinePages(r.now) \cup HeadlineTickets(r.now) \cup HeadlineProjectItems(r.now)])
  /\ UNCHANGED <<groundVars, itemVars, view>>

NextHits(h) ==
  LET r == req[h]
      v == requestFrom(r.caller.org, r.caller.u)
  IN
  /\ At(h, "search", "next")
  /\ IF hasAnyAccess(v)
     THEN Go(h, [r EXCEPT !.pc = NextModule(r.find, 1), !.caller = v, !.now = {}, !.excerpts = {},
                           !.always = @ \cap Findable(r.find, v), !.may = Findable(r.find, v)])
     ELSE End(h)
  /\ UNCHANGED <<groundVars, itemVars, view>>

LastHits(h) ==
  /\ At(h, "search", "done")
  /\ End(h)
  /\ UNCHANGED <<groundVars, itemVars, view>>

SearchStep(h) ==
  \/ SearchBegin(h) \/ (\E n \in 1 .. 3 : fanout(h, n)) \/ cut(h) \/ fillSnippets(h) \/ NextHits(h) \/ LastHits(h)
=============================================================================
