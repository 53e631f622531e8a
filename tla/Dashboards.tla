----------------------------- MODULE Dashboards -----------------------------
(***************************************************************************)
(* Dashboards and their gadgets: internal/core/dashboards,                 *)
(* internal/db/adapters/dashboards.go and internal/core/api/dashboards.  A *)
(* dashboard is a layout of gadgets, most of which show a saved view; each *)
(* person has at most one default dashboard for each module, and is given  *)
(* a starter the first time Home is opened.                                *)
(***************************************************************************)
EXTENDS Queues

CONSTANTS Board,          \* ids of dashboards rows
          Module, Home,
          StarterLayout   \* the gadgets of the starter: they show no saved view

ASSUME BoardsAreNumbered == Board \subseteq Nat /\ IsFiniteSet(Board)

Gadget == [key : STRING, vid : View \cup {Nil}]

ASSUME LayoutsAreSequences ==
  /\ StarterLayout \in Seq(Gadget) /\ \A n \in DOMAIN StarterLayout : StarterLayout[n].vid = Nil
  /\ \A m \in DOMAIN Mixes : "layouts" \in DOMAIN Mixes[m] /\ Mixes[m].layouts \subseteq Seq(Gadget)

VARIABLES dash,   \* dashboards rows
          tile    \* dashboard_gadgets rows

dashVars == <<dash, tile>>

NoBoard == [st |-> "absent", org |-> Nil, owner |-> Nil, mod |-> Nil, default |-> FALSE, seeded |-> FALSE,
            vis |-> Nil, team |-> Nil]

Holders(ds, u, m) == {d \in Board : ds[d].st = "live" /\ ds[d].owner = u /\ ds[d].mod = m /\ ds[d].default}

(* dashboards_one_default, a partial unique index.                         *)
OneDefault(ds) == \A u \in User, m \in Module : Cardinality(Holders(ds, u, m)) <= 1

(* The tiles of one save, each at its place.                               *)
WholeLayout(ts) ==
  /\ IsFiniteSet(ts)
  /\ \A s, t \in ts : s.by = t.by
  /\ {t.pos : t \in ts} = 0 .. Cardinality(ts) - 1

CastBoards(rows) == [d \in Board |-> IF d \in DOMAIN rows THEN rows[d] ELSE NoBoard]

ASSUME CastBoardsAreWhole ==
  \A m \in DOMAIN Casts :
    LET boards == CastBoards(Casts[m].dash)
        tiles == Casts[m].tiles
    IN
    /\ \A d \in Board : DOMAIN boards[d] = DOMAIN NoBoard /\ WholeLayout({t \in tiles : t.d = d})
    /\ OneDefault(boards)
    /\ \A t \in tiles : t.d \in Board /\ boards[t.d].st # "absent" /\ t.by = 0 /\ (t.vid # Nil => t.key = "view_results")

DashInit ==
  /\ dash = CastBoards(Cast.dash)
  /\ tile = Cast.tiles

DashLive(d) == dash[d].st = "live"
FreshBoard == {d \in Board : dash[d].st = "absent"}

CanSeeBoard(d, u)  == DashLive(d) /\ Member(dash[d].org, u) /\ Reaches(dash[d], u)
CanEditBoard(d, u) == CanSeeBoard(d, u) /\ OwnedBy(dash[d], u)

ListDashboardsForViewer(o, u) ==
  {d \in Board : /\ DashLive(d) /\ dash[d].org = o
                 /\ \/ dash[d].owner = u
                    \/ dash[d].vis = "org"
                    \/ dash[d].vis = "team" /\ dash[d].team # Nil /\ dash[d].team \in EffectiveTeams(o, u)}

GetDefaultDashboard(u, m) == Holders(dash, u, m)

ClearDefaultDashboard(row, but) ==
  [d \in Board |-> IF d \in Holders(dash, row.owner, row.mod) \ {but} THEN [dash[d] EXCEPT !.default = FALSE] ELSE dash[d]]
StandDown(row, but) == IF row.default THEN ClearDefaultDashboard(row, but) ELSE dash

-----------------------------------------------------------------------------
(* A dashboard is created, changed whole, and deleted.  One that is to be  *)
(* the default stands the present one down in the same transaction.        *)

CreateBoardBegin(h) ==
  /\ Ready(h, "createboard")
  /\ \E o \in Org, u \in Work.callers, m \in Module, def \in BOOLEAN, a \in Audiences :
       /\ Member(o, u)
       /\ \E aud \in Normalise(o, u, a[1], a[2]) :
            Begin(h, [op |-> "createboard", pc |-> "insert",
                      brow |-> [NoBoard EXCEPT !.st = "live", !.org = o, !.owner = u, !.mod = m, !.default = def,
                                       !.vis = aud.vis, !.team = aud.team]])
       /\ UNCHANGED <<groundVars, itemVars, view, dashVars>>

CreateDashboard(h) ==
  LET r == req[h]
      after == [StandDown(r.brow, Nil) EXCEPT ![Min(FreshBoard)] = r.brow]
  IN
  /\ At(h, "createboard", "insert")
  /\ FreshBoard # {}
  /\ dash' = IF OneDefault(after) THEN after ELSE dash
  /\ End(h)
  /\ UNCHANGED <<groundVars, itemVars, view, tile>>

(* The row that was read, with what the request changes: default and       *)
(* module are kept when they are left out.                                 *)
UpdateBoardBegin(h) ==
  /\ Ready(h, "updateboard")
  /\ \E d \in Board, u \in Work.callers, m \in Module \cup {Nil}, def \in BOOLEAN \cup {Nil},
        a \in Audiences \cup {<<Nil, Nil>>} :
       LET to == Inherited(dash[d], a) IN
       /\ CanEditBoard(d, u)
       /\ \E aud \in Normalise(dash[d].org, u, to[1], to[2]) :
            Begin(h, [op |-> "updateboard", pc |-> "write", did |-> d,
                      brow |-> [dash[d] EXCEPT !.mod = IF m = Nil THEN @ ELSE m, !.default = IF def = Nil THEN @ ELSE def,
                                       !.vis = aud.vis, !.team = aud.team]])
       /\ UNCHANGED <<groundVars, itemVars, view, dashVars>>

(* The index refuses the second of two that claim the place at once.       *)
UpdateDashboard(h) ==
  LET r == req[h]
      after == [StandDown(r.brow, r.did) EXCEPT ![r.did] = r.brow]
  IN
  /\ At(h, "updateboard", "write")
  /\ dash' = IF DashLive(r.did) /\ OneDefault(after) THEN after ELSE dash
  /\ End(h)
  /\ UNCHANGED <<groundVars, itemVars, view, tile>>

DeleteBoardBegin(h) ==
  /\ Ready(h, "deleteboard")
  /\ \E d \in Board, u \in Work.callers :
       /\ CanEditBoard(d, u)
       /\ Begin(h, [op |-> "deleteboard", pc |-> "delete", did |-> d])
       /\ UNCHANGED <<groundVars, itemVars, view, dashVars>>

SoftDeleteDashboard(h) ==
  /\ At(h, "deleteboard", "delete")
  /\ dash' = [dash EXCEPT ![req[h].did].st = "deleted"]
  /\ End(h)
  /\ UNCHANGED <<groundVars, itemVars, view, tile>>

-----------------------------------------------------------------------------
(* Gadgets: the layout is replaced whole *)

GadgetKey == {"view_results", "my_work"}
RequiresSavedView(k) == k = "view_results"

ListDashboardGadgets(d) == {t \in tile : t.d = d}
GadgetRows(d, by, layout) == {[d |-> d, pos |-> n - 1, key |-> layout[n].key, vid |-> layout[n].vid, by |-> by] : n \in DOMAIN layout}

visibleViews(o, u, layout) == {x \in GetSavedViewsByIDs(o, {layout[n].vid : n \in DOMAIN layout} \ {Nil}) : CanSeeView(x, u)}
validateGadget(g, visible) == IF RequiresSavedView(g.key) THEN g.vid \in visible ELSE g.vid = Nil

SetGadgetsBegin(h) ==
  /\ Ready(h, "setgadgets")
  /\ \E d \in Board, u \in Work.callers, layout \in Work.layouts :
       /\ CanEditBoard(d, u)
       /\ \A n \in DOMAIN layout : validateGadget(layout[n], visibleViews(dash[d].org, u, layout))
       /\ Begin(h, [op |-> "setgadgets", pc |-> "clear", did |-> d, layout |-> layout, n |-> served + 1])
       /\ UNCHANGED <<groundVars, itemVars, view, dashVars>>

(* The DELETE removes the rows it saw when it started: those that another  *)
(* replacement has inserted since are not among them.                      *)
DeleteDashboardGadgets(h) ==
  /\ At(h, "setgadgets", "clear")
  /\ Go(h, With([pc |-> "insert", olds |-> ListDashboardGadgets(req[h].did)], req[h]))
  /\ UNCHANGED <<groundVars, itemVars, view, dashVars>>

\* mutant: dashboard_gadgets_position_key is not there
TilePositionsFreeAlways(left, new) == TRUE
TilePositionsFree(left, new) == \A s \in left, t \in new : s.d = t.d => s.pos # t.pos

ReplaceGadgets(h) ==
  LET r == req[h]
      left == tile \ r.olds
      new == GadgetRows(r.did, r.n, r.layout)
  IN
  /\ At(h, "setgadgets", "insert")
  /\ tile' = IF TilePositionsFree(left, new) THEN left \cup new ELSE tile
  /\ End(h)
  /\ UNCHANGED <<groundVars, itemVars, view, dash>>

(* What one tile shows to one reader.                                      *)
resolveGadget(t, o, u) ==
  IF t.key \notin GadgetKey THEN "unknown_gadget"
  ELSE IF ~RequiresSavedView(t.key) THEN "ready"
  ELSE IF t.vid \notin GetSavedViewsByIDs(o, View) THEN "view_required"
  ELSE IF ~Reaches(view[t.vid], u) THEN "view_unreadable"
  ELSE IF markValidity(view[t.vid]) THEN "scope_unavailable"
  ELSE "ready"

-----------------------------------------------------------------------------
(* Home: the default dashboard, or a starter that is made one unless the   *)
(* place has been taken, and the default once more.                        *)

ResolveHome(h) ==
  /\ Ready(h, "home")
  /\ \E o \in Org, u \in Work.callers :
       /\ Member(o, u)
       /\ IF GetDefaultDashboard(u, Home) # {} THEN Serve
          ELSE Begin(h, [op |-> "home", pc |-> "seed", u |-> u, o |-> o, n |-> served + 1])
       /\ UNCHANGED <<groundVars, itemVars, view, dashVars>>

CreateStarterDashboard(h) ==
  LET r == req[h]
      d == Min(FreshBoard)
      after == [dash EXCEPT ![d] = [st |-> "live", org |-> r.o, owner |-> r.u, mod |-> Home, default |-> TRUE,
                                    seeded |-> TRUE, vis |-> "private", team |-> Nil]]
  IN
  /\ At(h, "home", "seed")
  /\ FreshBoard # {}
  /\ IF OneDefault(after) THEN dash' = after /\ tile' = tile \cup GadgetRows(d, r.n, StarterLayout)
     ELSE UNCHANGED dashVars
  /\ Go(h, [r EXCEPT !.pc = "read"])
  /\ UNCHANGED <<groundVars, itemVars, view>>

(* Not found when the default was deleted or stood down in between.        *)
ReadHome(h) ==
  /\ At(h, "home", "read")
  /\ End(h)
  /\ UNCHANGED <<groundVars, itemVars, view, dashVars>>

DashboardsStep(h) ==
  \/ CreateBoardBegin(h) \/ CreateDashboard(h) \/ UpdateBoardBegin(h) \/ UpdateDashboard(h)
  \/ DeleteBoardBegin(h) \/ SoftDeleteDashboard(h)
  \/ SetGadgetsBegin(h) \/ DeleteDashboardGadgets(h) \/ ReplaceGadgets(h)
  \/ ResolveHome(h) \/ CreateStarterDashboard(h) \/ ReadHome(h)
=============================================================================
