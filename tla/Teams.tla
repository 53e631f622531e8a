-------------------------------- MODULE Teams --------------------------------
(***************************************************************************)
(* Teams and their members: internal/core/teams,                           *)
(* internal/db/adapters/teams.go and internal/core/api/teams.  A team's    *)
(* path is its chain of ancestors ending in itself; a reparent rewrites    *)
(* the path of the whole subtree in one statement.                         *)
(***************************************************************************)
EXTENDS People

Drop(r, f) == [g \in DOMAIN r \ {f} |-> r[g]]
IsDefault(t) == t = DefaultTeam[TeamOrg[t]]

(* Every mutation is behind the admin guard and starts with teamInOrg.     *)
teamInOrg(o, t) == AdminGate(o) /\ TeamOrg[t] = o /\ TeamLive(t)

-----------------------------------------------------------------------------
(* Creating a team.  A team id stands for its slug as well: a second       *)
(* request for it finds the unique index taken.                            *)

Create(h) ==
  /\ Ready(h, "createteam")
  /\ \E t \in Team, p \in Team \cup {Nil} :
       /\ AdminGate(TeamOrg[t])
       /\ team[t].st = "absent"
       /\ Begin(h, [op |-> "createteam", pc |-> "insert", t |-> t, parent |-> p,
                    want |-> IF p = Nil THEN {} ELSE {<<"team", p>>}])
       /\ UNCHANGED orgVars

GetTeamForUpdate(p) == TeamLive(p)

(* The parent is locked and its path is as of the lock; the insert commits *)
(* in the same transaction.                                                *)
CreateTeam(h) ==
  LET t == req[h].t
      p == req[h].parent
      above == IF p = Nil THEN <<>> ELSE team[p].path
  IN
  /\ At(h, "createteam", "insert")
  /\ Free(h, req[h].want)
  /\ End(h)
  /\ team' = IF /\ team[t].st = "absent"
                /\ p # Nil => GetTeamForUpdate(p) /\ TeamOrg[p] = TeamOrg[t]
                /\ Len(above) + 1 <= MaxDepth
             THEN [team EXCEPT ![t] = [st |-> "live", parent |-> p, path |-> Append(above, t)]]
             ELSE team
  /\ UNCHANGED <<account, role, tm, grants, sess>>

-----------------------------------------------------------------------------
(* Moving a subtree *)

Update(h) ==
  /\ Ready(h, "reparent")
  /\ \E o \in Org, t \in Team, p \in Team \cup {Nil} :
       /\ teamInOrg(o, t)
       /\ p # t
       /\ Begin(h, [op |-> "reparent", pc |-> "subtree", o |-> o, t |-> t, parent |-> p])
       /\ UNCHANGED orgVars

(* ListSubtreeForUpdate starts: its snapshot chooses the rows to lock.     *)
ChooseSubtree(h) ==
  /\ req[h].op \in {"reparent", "deleteteam"} /\ req[h].pc = "subtree"
  /\ Go(h, With([req[h] EXCEPT !.pc = "locking"], [want |-> ListSubtreeForUpdate(req[h].t)]))
  /\ UNCHANGED orgVars

(* The rows that still match once they are locked.  No row, or another     *)
(* first row than the team itself: ErrNotFound.                            *)
LockedSubtree(h) == {r \in req[h].want : r[2] \in Subtree(req[h].t)}

subtreeHeight(t, rows) ==
  Max({Len(team[r[2]].path) - Len(team[t].path) + 1 : r \in rows})

LockSubtree(h) ==
  LET t == req[h].t
      rows == LockedSubtree(h)
  IN
  /\ At(h, "reparent", "locking")
  /\ Free(h, req[h].want)
  /\ IF <<"team", t>> \in rows /\ ~IsDefault(t)
     THEN GoLocked(h, rows,
            With(Drop([req[h] EXCEPT !.pc = "target"], "want"),
                 [height |-> subtreeHeight(t, rows),
                  want |-> IF req[h].parent = Nil THEN {} ELSE {<<"team", req[h].parent>>}]))
     ELSE End(h)
  /\ UNCHANGED orgVars

(* lockReparentTarget: the new parent's path is as of its lock, and it may *)
(* not lie below the team that moves.                                      *)
lockReparentTarget(h) ==
  LET t == req[h].t
      p == req[h].parent
      above == IF p = Nil THEN <<>> ELSE team[p].path
  IN
  /\ At(h, "reparent", "target")
  /\ Free(h, req[h].want)
  /\ IF /\ p # Nil => /\ GetTeamForUpdate(p)
                      /\ TeamOrg[p] = req[h].o
                      /\ t \notin Range(team[p].path)
        /\ Len(above) + req[h].height <= MaxDepth
     THEN GoLocked(h, req[h].want, With(Drop([req[h] EXCEPT !.pc = "rewrite"], "want"), [above |-> above]))
     ELSE End(h)
  /\ UNCHANGED orgVars

(* The path keeps its tail from the moved team down.                       *)
Rerooted(path, t, above) ==
  above \o SubSeq(path, CHOOSE i \in DOMAIN path : path[i] = t, Len(path))

(* One UPDATE over the subtree as it is now; the CHECK on the depth fails  *)
(* the whole statement.                                                    *)
ReparentSubtree(h) ==
  LET t == req[h].t
      moved == [x \in Subtree(t) |-> Rerooted(team[x].path, t, req[h].above)]
  IN
  /\ At(h, "reparent", "rewrite")
  /\ Free(h, ListSubtreeForUpdate(t))
  /\ End(h)
  /\ team' = IF \E x \in Subtree(t) : Len(moved[x]) > MaxDepth THEN team
             ELSE [x \in Team |->
                     IF x \notin Subtree(t) THEN team[x]
                     ELSE [team[x] EXCEPT !.path = moved[x],
                                          !.parent = IF x = t THEN req[h].parent ELSE @]]
  /\ UNCHANGED <<account, role, tm, grants, sess>>

-----------------------------------------------------------------------------
(* Deleting a team *)

Delete(h) ==
  /\ Ready(h, "deleteteam")
  /\ \E o \in Org, t \in Team :
       /\ teamInOrg(o, t)
       /\ Begin(h, [op |-> "deleteteam", pc |-> "subtree", o |-> o, t |-> t])
       /\ UNCHANGED orgVars

lockTeamForDeletion(h) ==
  LET t == req[h].t IN
  /\ At(h, "deleteteam", "locking")
  /\ Free(h, req[h].want)
  /\ IF LockedSubtree(h) = {<<"team", t>>} /\ ~IsDefault(t) /\ CountTeamOwnedSpaces(t) = 0
     THEN GoLocked(h, LockedSubtree(h),
            With(Drop([req[h] EXCEPT !.pc = "migrate"], "want"),
                 [primaries |-> {u \in User : tm[t][u] = "primary"}]))
     ELSE End(h)
  /\ UNCHANGED orgVars

(* Every member of the team is enrolled in the default team before the     *)
(* team's own rows go, and those the step before found to have it as       *)
(* primary get the default team instead.                                   *)
migrateMembersToDefault(h) ==
  LET d == DefaultTeam[req[h].o]
      t == req[h].t
  IN [x \in Team |-> [u \in User |->
       CASE x = t -> "none"
         [] x = d -> LET now == IF tm[t][u] = "none" THEN tm[d][u] ELSE AddTeamMember(tm, d, u)[d][u]
                     IN  IF u \in req[h].primaries /\ now # "none" THEN "primary" ELSE now
         [] OTHER -> tm[x][u]]]

DeleteTeam(h) ==
  LET o == req[h].o
      t == req[h].t
  IN
  /\ At(h, "deleteteam", "migrate")
  /\ Free(h, GrantRows({g \in grants : g.s = t}))
  /\ End(h)
  /\ IF OnePrimary(migrateMembersToDefault(h))
     THEN /\ tm' = migrateMembersToDefault(h)
          /\ grants' = DeleteGrantsBySubject(grants, o, t)
          /\ team' = [team EXCEPT ![t].st = "deleted"]
     ELSE UNCHANGED <<tm, grants, team>>
  /\ UNCHANGED <<account, role, sess>>

-----------------------------------------------------------------------------
(* Members *)

PutMember(h) ==
  /\ Ready(h, "putmember")
  /\ \E o \in Org, t \in Work.teams, u \in User, primary \in BOOLEAN :
       /\ teamInOrg(o, t)
       /\ Member(o, u)
       /\ Begin(h, [op |-> "putmember", pc |-> "get", o |-> o, t |-> t, u |-> u, primary |-> primary])
       /\ UNCHANGED orgVars

(* The adapter reads the team again, then inserts; nothing is locked.      *)
GetTeam(h) ==
  /\ At(h, "putmember", "get")
  /\ IF TeamLive(req[h].t) THEN Go(h, [req[h] EXCEPT !.pc = "add"]) ELSE End(h)
  /\ UNCHANGED orgVars

(* The foreign key to teams waits for a transaction that has the team row. *)
AddMember(h) ==
  /\ At(h, "putmember", "add")
  /\ Free(h, {<<"team", req[h].t>>})
  /\ tm' = AddTeamMember(tm, req[h].t, req[h].u)
  /\ IF req[h].primary THEN Go(h, [req[h] EXCEPT !.pc = "primary"]) ELSE End(h)
  /\ UNCHANGED <<account, role, team, grants, sess>>

SetPrimary(h) ==
  LET t == req[h].t
      u == req[h].u
  IN
  /\ At(h, "putmember", "primary")
  /\ End(h)
  /\ tm' = IF tm[t][u] = "none" THEN tm
           ELSE SetPrimaryFlag(ClearPrimaryTeam(tm, req[h].o, u), t, u)
  /\ UNCHANGED <<account, role, team, grants, sess>>

RemoveMember(h) ==
  /\ Ready(h, "removemember")
  /\ \E o \in Org, t \in Team, u \in User :
       /\ teamInOrg(o, t)
       /\ tm[t][u] # "none"
       /\ Begin(h, [op |-> "removemember", pc |-> "delete", o |-> o, t |-> t, u |-> u,
                    wasPrimary |-> tm[t][u] = "primary"])
       /\ UNCHANGED orgVars

GetFallbackPrimaryTeam(o, d, left) == IF d \in left THEN {d} ELSE left

(* restoreMembershipInvariants, from the primary flag read before the      *)
(* delete: re-enrolled in the default team when no live team is left, a    *)
(* fallback primary when the one removed was it.                           *)
restoreMembershipInvariants(h) ==
  LET o == req[h].o
      u == req[h].u
      d == DefaultTeam[o]
      without == [tm EXCEPT ![req[h].t][u] = "none"]
      left == {t \in OrgTeams(o) : TeamLive(t) /\ without[t][u] # "none"}
  IN
  IF left = {} THEN {[without EXCEPT ![d][u] = "primary"]}
  ELSE IF req[h].wasPrimary THEN {SetPrimaryFlag(without, t, u) : t \in GetFallbackPrimaryTeam(o, d, left)}
  ELSE {without}

RemoveTeamMember(h) ==
  /\ At(h, "removemember", "delete")
  /\ \E m \in restoreMembershipInvariants(h) : tm' = IF OnePrimary(m) THEN m ELSE tm
  /\ End(h)
  /\ UNCHANGED <<account, role, team, grants, sess>>

(* Provisioning's enrolment: the default team, primary if none is.         *)
EnsureDefaultMembership(h) ==
  /\ Ready(h, "ensuredefault")
  /\ \E o \in Org, u \in User :
       /\ Serve
       /\ Member(o, u)
       /\ tm' = EnrolIn(tm, o, DefaultTeam[o], u)
       /\ UNCHANGED <<account, role, team, grants, sess>>

TeamsStep(h) ==
  \/ Create(h) \/ CreateTeam(h)
  \/ Update(h) \/ ChooseSubtree(h) \/ LockSubtree(h) \/ lockReparentTarget(h) \/ ReparentSubtree(h)
  \/ Delete(h) \/ lockTeamForDeletion(h) \/ DeleteTeam(h)
  \/ PutMember(h) \/ GetTeam(h) \/ AddMember(h) \/ SetPrimary(h)
  \/ RemoveMember(h) \/ RemoveTeamMember(h) \/ EnsureDefaultMembership(h)
=============================================================================
