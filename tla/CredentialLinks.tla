--------------------------- MODULE CredentialLinks ---------------------------
(***************************************************************************)
(* Single-use links that set a password, sign a new account in, or bind a  *)
(* new address: internal/core/credlink, internal/core/api/credlinks and    *)
(* internal/db/adapters/credential_links.go.                               *)
(***************************************************************************)
EXTENDS Sessions

CONSTANT Link

VARIABLES link,   \* the credential_links rows
          uses    \* for the properties: how often each link took effect

linkVars == <<link, uses>>

Purpose == {"signin", "password_reset", "email_change"}

(* A credential_links row; of an email_change, the address it asks for.    *)
LinkRow == [st : {"none", "live", "expired", "invalidated", "consumed"}, u : User \cup {Nil},
            purpose : Purpose, email : Email \cup {Nil}]
NoLink == [st |-> "none", u |-> Nil, purpose |-> "signin", email |-> Nil]

(* The links there are at first are outstanding.                           *)
ASSUME CastLinksAreSent ==
  \A m \in DOMAIN Casts : \A l \in DOMAIN Casts[m].link :
    /\ Casts[m].link[l] \in LinkRow
    /\ Casts[m].link[l].st = "live" /\ Casts[m].link[l].u \in User

LinkInit ==
  /\ link = [l \in Link |-> IF l \in DOMAIN Cast.link THEN Cast.link[l] ELSE NoLink]
  /\ uses = [l \in Link |-> 0]

Outstanding(u, p) == {l \in Link : link[l].st \in {"live", "expired"} /\ link[l].u = u /\ link[l].purpose = p}
FreeLink == {l \in Link : link[l].st = "none"}

(* The guard the redemption page and the redemption share: not consumed,   *)
(* not invalidated, not expired.                                           *)
RedeemableAgain(l) == link[l].st \in {"live", "consumed"}   \* mutant: consumed_at not asked
Redeemable(l) == link[l].st = "live"

-----------------------------------------------------------------------------
(* Issuing *)

(* mint: the handler goes on to supersede the links the snapshot of its    *)
(* UPDATE sees outstanding and to insert the new one.                      *)
MintRequest(u, p, e) ==
  [op |-> "issue", pc |-> "insert", u |-> u, purpose |-> p, email |-> e, old |-> Outstanding(u, p)]

(* Forgot password: any organization's account of that address.            *)
RequestReset(h) ==
  /\ Ready(h, "requestreset")
  /\ \E e \in Email : \E u \in GetUserByEmail(e) :
       /\ Active(u)
       /\ Begin(h, MintRequest(u, "password_reset", Nil))
       /\ UNCHANGED <<orgVars, linkVars>>

(* An administrator's reset link, within the organization.                 *)
IssueReset(h) ==
  /\ Ready(h, "issuereset")
  /\ \E o \in Org, e \in Email : \E u \in GetUserByEmailAndOrg(o, e) :
       /\ AdminGate(o)
       /\ Begin(h, MintRequest(u, "password_reset", Nil))
       /\ UNCHANGED <<orgVars, linkVars>>

(* Reauthenticated, and the address is free in the home organization.      *)
RequestEmailChange(h) ==
  /\ Ready(h, "requestemailchange")
  /\ \E s \in Sid, e \in Email :
       LET u == sess[s].u IN
       /\ Accepted(s)
       /\ account[u].pw > 0
       /\ e # account[u].email
       /\ GetUserByEmailAndOrg(account[u].home, e) = {}
       /\ Begin(h, MintRequest(u, "email_change", e))
       /\ UNCHANGED <<orgVars, linkVars>>

Issue(h) ==
  LET r == req[h]
      new == CHOOSE l \in FreeLink : TRUE
  IN
  /\ At(h, "issue", "insert")
  /\ FreeLink # {}
  /\ Free(h, {<<"link", l>> : l \in r.old})
  /\ End(h)
  /\ link' = [l \in Link |->
       CASE l = new -> [st |-> "live", u |-> r.u, purpose |-> r.purpose, email |-> r.email]
         [] l \in r.old /\ link[l].st \in {"live", "expired"} -> [link[l] EXCEPT !.st = "invalidated"]
         [] OTHER -> link[l]]
  /\ UNCHANGED <<orgVars, uses>>

maybeGrantDefaultSpace(o, u) ==
  {grants} \cup {CreateSpaceGrant(grants, sp, u, Viewer) :
                  sp \in {x \in Space : SpaceLive(x) /\ SpaceOrg[x] = o /\ FreeGrantId # {}}}

(* The account, its membership, its team and its sign-in link, in one      *)
(* transaction, for an administrator with an optional space grant and for  *)
(* the command line without one.                                           *)
CreateUserWithSignInLink(o, u, e, r) ==
  /\ account[u].st = "absent"
  /\ EmailFree(u, o, e)
  /\ FreeLink # {}
  /\ Serve
  /\ account' = CreateUser(account, u, o, e, 0)
  /\ role' = [role EXCEPT ![o][u] = r]
  /\ tm' = EnrolIn(tm, o, DefaultTeam[o], u)
  /\ link' = [link EXCEPT ![CHOOSE l \in FreeLink : TRUE] =
                [st |-> "live", u |-> u, purpose |-> "signin", email |-> Nil]]
  /\ UNCHANGED <<team, sess, uses>>

CreateUserForAdmin(h) ==
  /\ Ready(h, "createuser")
  /\ \E o \in Org, e \in Email, u \in User, r \in Work.roles :
       /\ AdminGate(o)
       /\ CreateUserWithSignInLink(o, u, e, r)
       /\ grants' \in maybeGrantDefaultSpace(o, u)

-----------------------------------------------------------------------------
(* The command line of whoever can reach the database: no session, no      *)
(* gate, and any role.                                                     *)

runCreateUserWithLink(h) ==
  /\ Ready(h, "admincreateuser")
  /\ \E o \in Org, e \in Email, u \in User, r \in Role :
       CreateUserWithSignInLink(o, u, e, r)
  /\ UNCHANGED grants

(* An account of that address, active or not, and then its new password,   *)
(* which signs it out; the links it was sent stay as they are.             *)
GetUserByEmailAcrossOrgs(h) ==
  /\ Ready(h, "breakglass")
  /\ \E e \in Email : \E u \in GetUserByEmail(e) :
       /\ Begin(h, [op |-> "breakglass", pc |-> "write", u |-> u])
       /\ UNCHANGED <<orgVars, linkVars>>

runResetPassword(h) ==
  /\ At(h, "breakglass", "write")
  /\ account' = UpdateUserPasswordHash(account, req[h].u)
  /\ End(h)
  /\ UNCHANGED <<role, team, tm, grants, sess, linkVars>>

LinkExpires(l) ==
  /\ Redeemable(l)
  /\ "linkexpires" \in Work.ops
  /\ link' = [link EXCEPT ![l].st = "expired"]
  /\ UNCHANGED <<serverVars, orgVars, uses>>

-----------------------------------------------------------------------------
(* Redeeming *)

Consume(h) ==
  /\ Ready(h, "consume")
  /\ \E l \in Link, password \in BOOLEAN :
       /\ link[l].st # "none"
       /\ Begin(h, [op |-> "consume", pc |-> "burn", l |-> l, password |-> password])
       /\ UNCHANGED <<orgVars, linkVars>>

(* The guarded UPDATE takes the row, and the account is read.              *)
ConsumeCredentialLink(h) ==
  LET l == req[h].l IN
  /\ At(h, "consume", "burn")
  /\ Free(h, {<<"link", l>>})
  /\ IF Redeemable(l) /\ Active(link[l].u) /\ (link[l].purpose # "email_change" => req[h].password)
     THEN GoLocked(h, {<<"link", l>>}, [req[h] EXCEPT !.pc = "apply"])
     ELSE End(h)
  /\ UNCHANGED <<orgVars, linkVars>>

(* The effect on the account; none when the new address has been taken,    *)
(* and then the link stays redeemable.                                     *)
applyPasswordEffect(u, purpose) ==
  /\ account' = UpdateUserPasswordHash(account, u)
  /\ sess' = IF purpose = "password_reset" THEN RevokeAllUserSessions(sess, u) ELSE sess

applyEmailEffect(u, e) ==
  /\ EmailFree(u, account[u].home, e)
  /\ account' = UpdateUserEmail(account, u, e)
  /\ UNCHANGED sess

applyConsumedEffect(h) ==
  LET l == req[h].l
      u == link[l].u
  IN
  /\ At(h, "consume", "apply")
  /\ IF link[l].purpose = "email_change"
     THEN applyEmailEffect(u, link[l].email)
     ELSE applyPasswordEffect(u, link[l].purpose)
  /\ link' = [link EXCEPT ![l].st = "consumed"]
  /\ uses' = [uses EXCEPT ![l] = @ + 1]
  /\ IF link[l].purpose = "signin"
     THEN Commit(h, [op |-> "consume", pc |-> "getuser", u |-> u])
     ELSE End(h)
  /\ UNCHANGED <<role, team, tm, grants>>

EmailTakenAtConsume(h) ==
  LET l == req[h].l IN
  /\ At(h, "consume", "apply")
  /\ link[l].purpose = "email_change"
  /\ ~EmailFree(link[l].u, account[link[l].u].home, link[l].email)
  /\ End(h)
  /\ UNCHANGED <<orgVars, linkVars>>

(* The sign-in that follows reads the account back as it is by then, and   *)
(* does not ask whether it is active.                                      *)
GetUserAfterConsume(h) ==
  /\ At(h, "consume", "getuser")
  /\ IF Live(req[h].u)
     THEN Go(h, [op |-> "consume", pc |-> "session", u |-> req[h].u, row |-> account[req[h].u]])
     ELSE End(h)
  /\ UNCHANGED <<orgVars, linkVars>>

signInAfterConsume(h) ==
  /\ At(h, "consume", "session")
  /\ CreateSession(req[h].u, req[h].row)
  /\ End(h)
  /\ UNCHANGED <<account, role, team, tm, grants, link, uses>>

LinksStep(h) ==
  \/ RequestReset(h) \/ IssueReset(h) \/ RequestEmailChange(h) \/ Issue(h)
  \/ CreateUserForAdmin(h) \/ runCreateUserWithLink(h) \/ GetUserByEmailAcrossOrgs(h) \/ runResetPassword(h)
  \/ Consume(h) \/ ConsumeCredentialLink(h) \/ applyConsumedEffect(h) \/ EmailTakenAtConsume(h)
  \/ GetUserAfterConsume(h) \/ signInAfterConsume(h)
=============================================================================
