------------------------------ MODULE Sessions ------------------------------
(***************************************************************************)
(* Signing in and out: internal/core/auth and internal/core/api/auth.  A   *)
(* sign-in reads the account, then opens a session row and mints a token   *)
(* pair carrying the generation it read and the session's id.              *)
(***************************************************************************)
EXTENDS Teams

FreeSid == {s \in Sid : sess[s].st = "none"}

(* CreateSession and IssueTokenPair, from the account row as it was read.  *)
CreateSession(u, row) ==
  /\ FreeSid # {}
  /\ sess' = [sess EXCEPT ![CHOOSE s \in FreeSid : TRUE] =
                [st |-> "live", u |-> u, gen |-> row.gen, pw |-> row.pw,
                 at |-> row.email, awake |-> row.active]]

(* Authenticate: a live, active account found by its address, whichever    *)
(* organization it is in, and the right password.                          *)
Login(h) ==
  /\ Ready(h, "login")
  /\ \E e \in Email : \E u \in GetUserByEmail(e) :
       /\ Active(u)
       /\ account[u].pw > 0
       /\ Begin(h, [op |-> "login", pc |-> "session", u |-> u, row |-> account[u]])
       /\ UNCHANGED orgVars

finishLogin(h) ==
  /\ At(h, "login", "session")
  /\ CreateSession(req[h].u, req[h].row)
  /\ End(h)
  /\ UNCHANGED <<account, role, team, tm, grants>>

(* A refresh token is judged as an access token is, and the new pair says  *)
(* what the old one said, with the generation that was read.               *)
liveRefreshGeneration(c) == {g \in {AuthState(c.user, c.sid).tgen} : checkAuthState(c)}

Refresh(h) ==
  /\ Ready(h, "refresh")
  /\ \E s \in Sid :
       /\ sess[s].st # "none"
       /\ \E g \in liveRefreshGeneration(Claims(s)) :
            Begin(h, [op |-> "refresh", pc |-> "mint", s |-> s, gen |-> g])
       /\ UNCHANGED orgVars

IssueTokenPair(h) ==
  /\ At(h, "refresh", "mint")
  /\ sess' = [sess EXCEPT ![req[h].s].gen = req[h].gen]
  /\ End(h)
  /\ UNCHANGED <<account, role, team, tm, grants>>

(* expires_at passes.                                                      *)
SessionExpires(s) ==
  /\ "sessionexpires" \in Work.ops
  /\ sess[s].st = "live"
  /\ sess' = [sess EXCEPT ![s].st = "expired"]
  /\ UNCHANGED <<account, role, team, tm, grants, serverVars>>

(* One device: its session row is revoked, the generation stays.           *)
Logout(h) ==
  /\ Ready(h, "logout")
  /\ \E s \in Sid :
       /\ Accepted(s)
       /\ Serve
       /\ sess' = RevokeSession(sess, s)
       /\ UNCHANGED <<account, role, team, tm, grants>>

(* Every device: the rows first, the generation second, in two statements  *)
(* with no transaction around them.                                        *)
LogoutAll(h) ==
  /\ Ready(h, "logoutall")
  /\ \E s \in Sid :
       /\ Accepted(s)
       /\ Begin(h, [op |-> "logoutall", pc |-> "rows", u |-> sess[s].u])
       /\ UNCHANGED orgVars

DeleteAllSessions(h) ==
  /\ At(h, "logoutall", "rows")
  /\ sess' = RevokeAllUserSessions(sess, req[h].u)
  /\ Go(h, [req[h] EXCEPT !.pc = "bump"])
  /\ UNCHANGED <<account, role, team, tm, grants>>

RevokeTokens(h) ==
  /\ At(h, "logoutall", "bump")
  /\ account' = BumpTokenGeneration(account, req[h].u)
  /\ End(h)
  /\ UNCHANGED <<role, team, tm, grants, sess>>

(* PATCH /auth/me changes the display name, and writes back the address it *)
(* read a statement earlier.                                               *)
UpdateMe(h) ==
  /\ Ready(h, "updateme")
  /\ \E s \in Sid :
       /\ Accepted(s)
       /\ Begin(h, [op |-> "updateme", pc |-> "write", u |-> sess[s].u,
                    email |-> account[sess[s].u].email])
       /\ UNCHANGED orgVars

UpdateProfile(h) ==
  LET u == req[h].u IN
  /\ At(h, "updateme", "write")
  /\ account' = IF Live(u) /\ EmailFree(u, account[u].home, req[h].email)
                THEN UpdateUserProfile(account, u, req[h].email) ELSE account
  /\ End(h)
  /\ UNCHANGED <<role, team, tm, grants, sess>>

SessionsStep(h) ==
  \/ Login(h) \/ finishLogin(h) \/ Refresh(h) \/ IssueTokenPair(h) \/ Logout(h)
  \/ LogoutAll(h) \/ DeleteAllSessions(h) \/ RevokeTokens(h)
  \/ UpdateMe(h) \/ UpdateProfile(h)
=============================================================================
