------------------------------- MODULE People -------------------------------
(***************************************************************************)
(* The administrators' people page: internal/core/people,                  *)
(* internal/db/adapters/people.go and internal/core/api/admin.  Each       *)
(* operation is a transaction of a few statements; the ones that can take  *)
(* an administrator away lock the admin memberships of the organization    *)
(* and count the others before they write.                                 *)
(***************************************************************************)
EXTENDS Org

(* The route group is behind RequireOrgAdmin404.                           *)
AdminGate(o) == \E by \in Admins(o) : Active(by)

Row(o, u) == {<<"membership", o, u>>}

(* The operations whose first statement is requireMembership.              *)
Lifecycle == {"deactivate", "reactivate", "forcelogout", "remove"}

lifecycleAction(h, op) ==
  /\ Ready(h, op)
  /\ \E o \in Org, u \in User :
       /\ AdminGate(o)
       /\ Member(o, u)
       /\ Begin(h, [op |-> op, pc |-> "member", o |-> o, u |-> u, was |-> role[o][u]])
       /\ UNCHANGED orgVars

DeactivatePerson(h)  == lifecycleAction(h, "deactivate")
ReactivatePerson(h)  == lifecycleAction(h, "reactivate")
ForceLogoutPerson(h) == lifecycleAction(h, "forcelogout")
RemovePerson(h)      == lifecycleAction(h, "remove")

-----------------------------------------------------------------------------
(* Locking and counting the other administrators *)

(* Removal takes the lock only when the membership it read was an admin's. *)
lockAdmins(h) ==
  /\ \/ At(h, "deactivate", "member")
     \/ At(h, "remove", "member") /\ IsAdminClass(req[h].was)
     \/ At(h, "update", "demote")
  /\ LET rows == IF req[h].op = "deactivate"
                 THEN LockAdminMembershipsForUserOrgs(req[h].u)
                 ELSE LockAdminMembershipsInOrg(req[h].o)
     IN  Go(h, With([req[h] EXCEPT !.pc = "locking"], [want |-> rows]))
  /\ UNCHANGED orgVars

(* The lock is granted; rows another transaction has meanwhile deleted or  *)
(* moved out of the admin class are dropped from the result.               *)
adminsLocked(h) ==
  /\ req[h].op \in {"deactivate", "remove", "update"} /\ req[h].pc = "locking"
  /\ LET still == {r \in req[h].want : IsAdminClass(role[r[2]][r[3]])}
     IN  GoLocked(h, still, [f \in DOMAIN req[h] \ {"want"} |->
                               IF f = "pc" THEN "count" ELSE req[h][f]])
  /\ UNCHANGED orgVars

(* lockAndRequireOtherAdmins, and its variant over every organization the  *)
(* target administers: refused with ErrLastAdmin, or on to the write.      *)
requireOtherAdmins(h) ==
  /\ req[h].op \in {"deactivate", "remove", "update"} /\ req[h].pc = "count"
  /\ LET last == IF req[h].op = "deactivate"
                 THEN ListOrgsWhereUserIsLastAdmin(req[h].u) # {}
                 ELSE CountOtherActiveOrgAdmins(req[h].o, req[h].u) = 0
     IN  IF last THEN End(h) ELSE Go(h, [req[h] EXCEPT !.pc = "write"])
  /\ UNCHANGED orgVars

-----------------------------------------------------------------------------
(* The writes, each with its commit *)

Deactivate(h) ==
  LET u == req[h].u IN
  /\ At(h, "deactivate", "write")
  /\ End(h)
  /\ IF Active(u)
     THEN /\ account' = DeactivateUserAccount(account, u)
          /\ sess' = RevokeAllUserSessions(sess, u)
     ELSE UNCHANGED <<account, sess>>
  /\ UNCHANGED <<role, team, tm, grants>>

Reactivate(h) ==
  LET u == req[h].u IN
  /\ At(h, "reactivate", "member")
  /\ End(h)
  /\ account' = IF Live(u) /\ ~Active(u) THEN ReactivateUserAccount(account, u) ELSE account
  /\ UNCHANGED <<role, team, tm, grants, sess>>

ForceLogout(h) ==
  LET u == req[h].u IN
  /\ At(h, "forcelogout", "member")
  /\ End(h)
  /\ IF Live(u)
     THEN /\ account' = BumpTokenGeneration(account, u)
          /\ sess' = RevokeAllUserSessions(sess, u)
     ELSE UNCHANGED <<account, sess>>
  /\ UNCHANGED <<role, team, tm, grants>>

(* The membership row, the person's rows in the organization's teams and   *)
(* the grants he holds there go together.                                  *)
RemoveFromOrg(h) ==
  LET o == req[h].o
      u == req[h].u
  IN
  /\ \/ At(h, "remove", "write")
     \/ At(h, "remove", "member") /\ ~IsAdminClass(req[h].was)
  /\ Free(h, Row(o, u) \cup GrantRows({g \in grants : g.s = u /\ SpaceOrg[g.sp] = o}))
  /\ End(h)
  /\ role' = [role EXCEPT ![o][u] = "none"]
  /\ tm' = DeleteTeamMembershipsInOrg(tm, o, u)
  /\ grants' = DeleteGrantsBySubject(grants, o, u)
  /\ UNCHANGED <<account, team, sess>>

-----------------------------------------------------------------------------
(* PATCH of one person: the role, then the primary team, a transaction     *)
(* each; a failure of the first leaves the second undone.  The service     *)
(* takes "member" and "admin" and any team; Work bounds them.              *)

UpdatePerson(h) ==
  /\ Ready(h, "update")
  /\ \E o \in Org, u \in User, to \in Work.roles \cup {Nil}, t \in Work.teams \cup {Nil} :
       /\ AdminGate(o)
       /\ to # Nil \/ t # Nil
       /\ Begin(h, [op |-> "update", pc |-> IF to # Nil THEN "role" ELSE "team",
                    o |-> o, u |-> u, to |-> to, t |-> t])
       /\ UNCHANGED orgVars

(* What is left of the request when the role is done.                      *)
applyPersonUpdates(h) ==
  IF req[h].t # Nil THEN Commit(h, [req[h] EXCEPT !.pc = "team"]) ELSE End(h)

(* requireMembership, and what the role it read leads to.                  *)
ChangeOrgRole(h) ==
  LET was == role[req[h].o][req[h].u]
      to  == req[h].to
  IN
  /\ At(h, "update", "role")
  /\ CASE was \in {"none", "owner"} -> End(h)
       [] was = to                  -> applyPersonUpdates(h)
       [] was # "owner" /\ IsAdminClass(was) /\ ~IsAdminClass(to)
                                    -> Go(h, [req[h] EXCEPT !.pc = "demote"])
       [] OTHER                     -> Go(h, [req[h] EXCEPT !.pc = "write"])
  /\ UNCHANGED orgVars

(* UPDATE ... WHERE org_id AND user_id: no row, no effect and no error.    *)
UpdateMembershipRole(h) ==
  LET o == req[h].o
      u == req[h].u
  IN
  /\ At(h, "update", "write")
  /\ Free(h, Row(o, u))
  /\ role' = [role EXCEPT ![o][u] = IF @ = "none" THEN @ ELSE req[h].to]
  /\ applyPersonUpdates(h)
  /\ UNCHANGED <<account, team, tm, grants, sess>>

(* requireMembership and GetTeamByID, then the three writes.               *)
ChangePrimaryTeam(h) ==
  LET o == req[h].o
      t == req[h].t
  IN
  /\ At(h, "update", "team")
  /\ IF Member(o, req[h].u) /\ TeamLive(t) /\ TeamOrg[t] = o
     THEN Go(h, [req[h] EXCEPT !.pc = "enrol"])
     ELSE End(h)
  /\ UNCHANGED orgVars

EnrolAsPrimary(h) ==
  LET u == req[h].u
      t == req[h].t
  IN
  /\ At(h, "update", "enrol")
  /\ tm' = SetPrimaryFlag(ClearPrimaryTeam(AddTeamMember(tm, t, u), req[h].o, u), t, u)
  /\ End(h)
  /\ UNCHANGED <<account, role, team, grants, sess>>

PeopleStep(h) ==
  \/ DeactivatePerson(h) \/ ReactivatePerson(h) \/ ForceLogoutPerson(h) \/ RemovePerson(h)
  \/ lockAdmins(h) \/ adminsLocked(h) \/ requireOtherAdmins(h)
  \/ Deactivate(h) \/ Reactivate(h) \/ ForceLogout(h) \/ RemoveFromOrg(h)
  \/ UpdatePerson(h) \/ ChangeOrgRole(h) \/ UpdateMembershipRole(h)
  \/ ChangePrimaryTeam(h) \/ EnrolAsPrimary(h)
=============================================================================
