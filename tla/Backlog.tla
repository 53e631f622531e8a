------------------------------- MODULE Backlog -------------------------------
(***************************************************************************)
(* The order of a space's items: internal/core/projects/backlog.go.  Where *)
(* an item stands is its rank, a column of its row.                        *)
(***************************************************************************)
EXTENDS Items

(* ORDER BY rank, created_at DESC: among equals the newest is first.       *)
Precedes(rows, i, j) == rows[i].rank < rows[j].rank \/ (rows[i].rank = rows[j].rank /\ i > j)

ListProjectItemsBySpace(sp) == {i \in Rows(sp, "item") : ItemLive(i)}

(* The service sorts what it read by rank alone, with sort.Slice: equal    *)
(* ranks come out in any order.                                            *)
SortedByRank(sp) ==
  {all \in SetToSeqs(ListProjectItemsBySpace(sp)) :
     \A m, n \in DOMAIN all : m < n => item[all[m]].rank <= item[all[n]].rank}

(* Mutant: after an item is before it.                                     *)
insertIdxBeforeAfter(remaining, before, after) ==
  LET at == {n \in DOMAIN remaining : remaining[n] \in {before, after}} IN
  IF at = {} THEN Len(remaining) + 1 ELSE Min(at)

(* The list without the item, and where in it the item goes: before one,   *)
(* else after one, and at the end when that one is not in the list.        *)
insertIdx(remaining, before, after) ==
  LET at(j) == {n \in DOMAIN remaining : remaining[n] = j} IN
  CASE before # Nil /\ at(before) # {} -> Min(at(before))
    [] before = Nil /\ at(after) # {} -> Min(at(after)) + 1
    [] OTHER -> Len(remaining) + 1

newOrder(all, at, before, after) ==
  LET remaining == RemoveAt(all, at) IN
  InsertAt(remaining, insertIdx(remaining, before, after), all[at])

(* The whole list is read, and is written back row by row in its new order *)
(* with everything the rows said when they were read.                      *)
RankItem(h) ==
  /\ Ready(h, "rank")
  /\ \E u \in Work.callers, sp \in Space, spot \in Work.spots :
       /\ Can(u, "edit_any_item", sp)
       /\ \E all \in SortedByRank(sp) : \E at \in DOMAIN all :
            Begin(h, [op |-> "rank", pc |-> "write", i |-> all[at], spot |-> spot, all |-> all,
                      order |-> newOrder(all, at, spot.before, spot.after), rows |-> item, n |-> 1])
       /\ UNCHANGED <<groundVars, itemVars>>

(* One row; the first that has been deleted since ends the request.        *)
RankItemRelative(h) ==
  LET r == req[h]
      j == r.order[r.n]
  IN
  /\ At(h, "rank", "write")
  /\ item' = IF ItemLive(j) THEN [item EXCEPT ![j] = [Stamped(j, r.rows[j]) EXCEPT !.rank = r.n]] ELSE item
  /\ IF ItemLive(j) /\ r.n < Len(r.order) THEN Go(h, [r EXCEPT !.n = @ + 1]) ELSE End(h)
  /\ UNCHANGED <<groundVars, seqno, itype>>

BacklogStep(h) == RankItem(h) \/ RankItemRelative(h)

-----------------------------------------------------------------------------
(* Nobody else has written a rank that r read or wrote.                    *)
Undisturbed(r) ==
  \A n \in DOMAIN r.order : LET j == r.order[n] IN
    ItemLive(j) => item[j].rank = IF n < r.n THEN n ELSE r.rows[j].rank

(* A request that ran to its end put the item right where it was asked,    *)
(* and neither it nor one that a deletion ended has put an item before one *)
(* that ranked above it, unless somebody else was ordering them at the     *)
(* same time (RankItemRelative, "immediately before that item").           *)
RankedAsAsked ==
  \A h \in Handler : At(h, "rank", "write") /\ req'[h] = Idle /\ Undisturbed(req[h]) =>
    LET r == req[h]
        there == {j \in ToSet(r.all) : item'[j].st = "live"}
        NextTo(i, j) == /\ Precedes(item', i, j)
                        /\ \A k \in there \ {i, j} : Precedes(item', k, i) <=> Precedes(item', k, j)
    IN
    /\ \A m, n \in DOMAIN r.all :
         /\ {r.all[m], r.all[n]} \subseteq there \ {r.i}
         /\ r.rows[r.all[m]].rank < r.rows[r.all[n]].rank
         => Precedes(item', r.all[m], r.all[n])
    /\ r.i \in there /\ (\A n \in DOMAIN r.order : item[r.order[n]].st = "live") =>
         /\ r.spot.before \in there \ {r.i} => NextTo(r.i, r.spot.before)
         /\ r.spot.before = Nil /\ r.spot.after \in there \ {r.i} => NextTo(r.spot.after, r.i)
=============================================================================
