------------------------------- MODULE Invites -------------------------------
(***************************************************************************)
(* Invitations: internal/core/invites, internal/core/api/invites and       *)
(* internal/db/adapters/invites.go.  An invitation is found by the hash of *)
(* its token; resending replaces the token in place, so tok counts the     *)
(* tokens the row has had and a request carries the one it was given.      *)
(***************************************************************************)
EXTENDS CredentialLinks

CONSTANT Invite

VARIABLES invite,   \* the invites rows
          joined    \* for the properties: the acceptances of each invitation,
                    \* each with the account and the token it came with

inviteVars == <<invite, joined>>
accountVars == <<serverVars, orgVars, linkVars, inviteVars>>

NoInvite == [st |-> "none", o |-> Nil, email |-> Nil, role |-> "member",
             team |-> Nil, tok |-> 0, expired |-> FALSE]

(* The invitations there are at first are rows nobody has accepted yet.    *)
ASSUME CastInvitesAreOpen ==
  \A m \in DOMAIN Casts : \A i \in DOMAIN Casts[m].invite :
    /\ DOMAIN Casts[m].invite[i] = DOMAIN NoInvite
    /\ Casts[m].invite[i].st \in {"active", "revoked"}

InviteInit ==
  /\ invite = [i \in Invite |-> IF i \in DOMAIN Cast.invite THEN Cast.invite[i] ELSE NoInvite]
  /\ joined = [i \in Invite |-> <<>>]

FreeInvite == {i \in Invite : invite[i].st = "none"}

(* invites_one_active_per_email.                                           *)
OneActivePerEmail(o, e) ==
  \A i \in Invite : invite[i].st = "active" => invite[i].o # o \/ invite[i].email # e

-----------------------------------------------------------------------------
(* The administrator's side *)

checkInviteTeam(o, t) == t # Nil => TeamLive(t) /\ TeamOrg[t] = o

(* checkInviteCreatable, then the insert, in two statements.               *)
CreateInvites(h) ==
  /\ Ready(h, "invite")
  /\ \E o \in Org, e \in Email, r \in Work.roles, t \in Work.teams \cup {Nil} :
       /\ AdminGate(o)
       /\ \A u \in GetUserByEmail(e) : ~Member(o, u)
       /\ checkInviteTeam(o, t)
       /\ Begin(h, [op |-> "invite", pc |-> "insert", o |-> o, email |-> e, role |-> r, team |-> t])
       /\ UNCHANGED <<orgVars, linkVars, inviteVars>>

CreateInvite(h) ==
  LET r == req[h] IN
  /\ At(h, "invite", "insert")
  /\ FreeInvite # {}
  /\ End(h)
  /\ invite' = IF OneActivePerEmail(r.o, r.email)
               THEN [invite EXCEPT ![CHOOSE i \in FreeInvite : TRUE] =
                       [st |-> "active", o |-> r.o, email |-> r.email, role |-> r.role,
                        team |-> r.team, tok |-> 1, expired |-> FALSE]]
               ELSE invite
  /\ UNCHANGED <<orgVars, linkVars, joined>>

RevokeInvite(h) ==
  /\ Ready(h, "revoke")
  /\ \E i \in Invite :
       /\ invite[i].st = "active"
       /\ AdminGate(invite[i].o)
       /\ Serve
       /\ invite' = [invite EXCEPT ![i].st = "revoked"]
       /\ UNCHANGED <<orgVars, linkVars, joined>>

(* Resend: a fresh token, and the expiry window starts again.              *)
RefreshInviteToken(h) ==
  /\ Ready(h, "resend")
  /\ \E i \in Invite :
       /\ invite[i].st = "active"
       /\ AdminGate(invite[i].o)
       /\ Serve
       /\ invite' = [invite EXCEPT ![i].tok = @ + 1, ![i].expired = FALSE]
       /\ UNCHANGED <<orgVars, linkVars, joined>>

InviteExpires(i) ==
  /\ invite[i].st = "active" /\ ~invite[i].expired
  /\ "inviteexpires" \in Work.ops
  /\ invite' = [invite EXCEPT ![i].expired = TRUE]
  /\ UNCHANGED <<serverVars, orgVars, linkVars, joined>>

-----------------------------------------------------------------------------
(* The invited person's side: one transaction of reads and one commit *)

Accept(h) ==
  /\ Ready(h, "accept")
  /\ \E i \in Invite : \E k \in 1 .. invite[i].tok, newUser \in BOOLEAN :
       /\ Begin(h, [op |-> "accept", pc |-> "load", i |-> i, tok |-> k, newUser |-> newUser])
       /\ UNCHANGED <<orgVars, linkVars, inviteVars>>

inviteState(i) ==
  IF invite[i].st = "active" /\ invite[i].expired THEN "expired" ELSE invite[i].st

loadAcceptableInvite(h) ==
  LET i == req[h].i IN
  /\ At(h, "accept", "load")
  /\ IF invite[i].tok = req[h].tok /\ inviteState(i) = "active"
     THEN Go(h, [req[h] EXCEPT !.pc = "resolve"])
     ELSE End(h)
  /\ UNCHANGED <<orgVars, linkVars, inviteVars>>

(* The invited team while it lives, the default team otherwise.            *)
resolveInviteTeam(i) ==
  LET t == invite[i].team IN IF t # Nil /\ TeamLive(t) THEN t ELSE DefaultTeam[invite[i].o]

(* The account that has the address in any organization, or a new one.     *)
resolveAcceptUser(h) ==
  LET e == invite[req[h].i].email
      known == GetUserByEmail(e)
      joining(u, new) == With([u |-> u, new |-> new, t |-> resolveInviteTeam(req[h].i)],
                              [req[h] EXCEPT !.pc = "join"])
  IN
  /\ At(h, "accept", "resolve")
  /\ \/ \E u \in known : IF Active(u)
                         THEN Go(h, joining(u, FALSE))
                         ELSE End(h)
     \/ known = {} /\ ~req[h].newUser /\ End(h)
     \/ /\ known = {} /\ req[h].newUser
        /\ \E u \in User : /\ account[u].st = "absent"
                           /\ Go(h, joining(u, TRUE))
  /\ UNCHANGED <<orgVars, linkVars, inviteVars>>

enrolAcceptTeam(i, t, u) == EnrolIn(tm, invite[i].o, t, u)

(* Account, membership, team and the guarded consumption commit together,  *)
(* or nothing does: the insert may find its address taken, and the         *)
(* consumption may find the invitation no longer acceptable.               *)
MarkInviteAccepted(h) ==
  LET i == req[h].i
      o == invite[i].o
      u == req[h].u
      ok == /\ inviteState(i) = "active"
            /\ req[h].new => account[u].st = "absent" /\ EmailFree(u, o, invite[i].email)
  IN
  /\ At(h, "accept", "join")
  /\ Free(h, {<<"team", req[h].t>>})
  /\ IF ok
     THEN /\ account' = IF req[h].new THEN CreateUser(account, u, o, invite[i].email, 1) ELSE account
          /\ role' = [role EXCEPT ![o][u] = IF @ = "none" THEN invite[i].role ELSE @]
          /\ tm' = enrolAcceptTeam(i, req[h].t, u)
          /\ invite' = [invite EXCEPT ![i].st = "accepted"]
          /\ joined' = [joined EXCEPT ![i] = Append(@, [u |-> u, tok |-> req[h].tok])]
          /\ IF req[h].new
             THEN Commit(h, [op |-> "accept", pc |-> "session", u |-> u, row |-> account'[u]])
             ELSE End(h)
     ELSE End(h) /\ UNCHANGED <<account, role, tm, invite, joined>>
  /\ UNCHANGED <<team, grants, sess, linkVars>>

(* Only the account created a moment ago is signed in.                     *)
signInAfterAccept(h) ==
  /\ At(h, "accept", "session")
  /\ CreateSession(req[h].u, req[h].row)
  /\ End(h)
  /\ UNCHANGED <<account, role, team, tm, grants, linkVars, inviteVars>>

InvitesStep(h) ==
  \/ CreateInvites(h) \/ CreateInvite(h) \/ RevokeInvite(h) \/ RefreshInviteToken(h)
  \/ Accept(h) \/ loadAcceptableInvite(h) \/ resolveAcceptUser(h)
  \/ MarkInviteAccepted(h) \/ signInAfterAccept(h)
=============================================================================
