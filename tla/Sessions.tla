------------------------------ MODULE Sessions ------------------------------
(***************************************************************************)
(* The writers of the refresh-token whitelist of jwt_allauth: login and    *)
(* sign-up open sessions, /refresh/ rotates a token, /logout/ and          *)
(* /logout-all/ close sessions and the password change replaces them all;  *)
(* PATCH /user/ touches none of them, but writes the account back.         *)
(* Requests run concurrently against a database at READ COMMITTED: every   *)
(* statement outside a transaction commits by itself, a transaction of     *)
(* user_sessions_lock holds a row lock on the user until it ends, and a    *)
(* DELETE only removes the rows it saw when it began.                      *)
(*                                                                         *)
(* A whitelist row and the token it stands for carry the same immutable    *)
(* (session, user) pair, so both are kept by token number; the number is   *)
(* the primary key, in order of insertion.  A session is named by the      *)
(* token that opened it.                                                   *)
(***************************************************************************)
EXTENDS Naturals, FiniteSets

CONSTANTS
  User,         \* accounts
  Req,          \* request slots; a slot serves one request
  NoUser,       \* owner of a token not issued yet
  NoReq,        \* holder of a free row lock
  Mandatory,    \* ACCOUNT_EMAIL_VERIFICATION = 'mandatory'
  LogoutOnPasswordChange,   \* the setting of that name
  MaxToken,     \* bound: how many refresh tokens are ever issued
  MaxPassword   \* bound: a password changed this often is not changed again

ASSUME SessionsAssumption ==
  /\ NoUser \notin User
  /\ NoReq \notin Req
  /\ Mandatory \in BOOLEAN
  /\ LogoutOnPasswordChange \in BOOLEAN
  /\ MaxToken \in Nat
  /\ MaxPassword \in Nat

VARIABLES
  \* the whitelist
  issued,       \* how many refresh tokens were issued so far
  session,      \* the session claim of each token, 0 when not issued yet
  owner,        \* the user of each token
  live,         \* the tokens whose whitelist row exists
  disabled,     \* the tokens whitelisted with enabled = False
  \* the accounts
  standing,     \* "absent", "active" or "inactive" (is_active = False)
  verified,     \* accounts with a confirmed address
  password,     \* the password of each account: which of its changes it is from
  changes,      \* how many times it was changed
  expired,      \* sessions past their absolute lifetime
  lock,         \* the request holding the row lock of each user
  \* the requests
  pc,           \* what a request does next
  kind,         \* what a request is
  subj,         \* the account a request acts on
  tok,          \* the refresh token a request presents, 0 when none
  scope,        \* what a request revokes
  snap,         \* the rows its DELETE statement saw when it began
  ver,          \* the password a request opens its session with, or writes back
  was,          \* the standing it writes back
  \* history
  spent,        \* tokens that were rotated
  closed,       \* sessions whose rows a revocation deleted
  credential,   \* the password each session was opened with
  leaked,       \* sessions opened on an old password when the DELETE of the others had begun
  undone,       \* accounts a profile update has set back to what they were
  floor,        \* the newest password whose change has revoked what was there before
  upto          \* how many tokens were issued when a request began to revoke all of its user

storeVars == <<issued, session, owner, live, disabled, spent, closed, credential, leaked>>
accountVars == <<standing, verified, password, changes, expired, undone>>
reqVars == <<kind, subj, tok, scope, snap, ver, was, upto>>
vars == <<storeVars, accountVars, lock, pc, reqVars, floor>>

Token == 1..MaxToken
CredentialChange == {"change", "reset"}       \* the requests that set a password
Kind == {"none", "login", "signup", "refresh", "logout", "logoutAll", "patch"} \cup CredentialChange
Holding == {"rotate", "delete", "apply"}      \* inside user_sessions_lock
Ended == {"done", "crashed"}
Standing == {"absent", "active", "inactive"}
PC == {"new", "mint", "save", "patch", "claim", "await"} \cup Holding \cup Ended

Init ==
  /\ issued = 0
  /\ session = [t \in Token |-> 0]
  /\ owner = [t \in Token |-> NoUser]
  /\ live = {} /\ disabled = {} /\ spent = {} /\ closed = {}
  /\ leaked = {} /\ undone = {}
  /\ credential = [t \in Token |-> 0]
  /\ standing \in [User -> {"absent", "active"}]
  /\ verified = {u \in User : standing[u] = "active"}
  /\ password = [u \in User |-> 0]
  /\ changes = [u \in User |-> 0]
  /\ expired = {}
  /\ lock = [u \in User |-> NoReq]
  /\ pc = [r \in Req |-> "new"]
  /\ kind = [r \in Req |-> "none"]
  /\ subj = [r \in Req |-> NoUser]
  /\ tok = [r \in Req |-> 0]
  /\ scope = [r \in Req |-> "none"]
  /\ snap = [r \in Req |-> {}]
  /\ ver = [r \in Req |-> 0]
  /\ was = [r \in Req |-> "active"]
  /\ floor = [u \in User |-> 0]
  /\ upto = [r \in Req |-> 0]

-----------------------------------------------------------------------------
\* A request arrives: what it is, whom it is about and what it does first.
Arrive(r, k, u, t, sc, next) ==
  /\ pc[r] = "new"
  /\ pc' = [pc EXCEPT ![r] = next]
  /\ kind' = [kind EXCEPT ![r] = k]
  /\ subj' = [subj EXCEPT ![r] = u]
  /\ tok' = [tok EXCEPT ![r] = t]
  /\ scope' = [scope EXCEPT ![r] = sc]
  /\ ver' = [ver EXCEPT ![r] = IF next \in {"mint", "patch"} THEN password[u] ELSE 0]
  /\ was' = [was EXCEPT ![r] = IF next = "patch" THEN standing[u] ELSE "active"]
  /\ UNCHANGED <<storeVars, lock, snap, floor, upto>>

\* A bearer of an access token of u.  One is handed out with every refresh token but that
\* of a sign-up still to be confirmed; it outlives its session and, the authentication
\* being stateless, the deactivation of the account.
Bearer(u) == \E t \in (1..issued) \ disabled : owner[t] = u

\* LoginSerializer.validate up to the mint: the password is checked, the address has
\* to be confirmed while verification is mandatory, the account has to be active.
Login(r, u) ==
  /\ standing[u] = "active"
  /\ Mandatory => u \in verified
  /\ Arrive(r, "login", u, 0, "none", "mint")
  /\ UNCHANGED accountVars

\* RegisterView.perform_create up to the mint: the account is created and the
\* confirmation link is mailed.  (While ACCOUNT_PREVENT_ENUMERATION hides conflicts the
\* request ends here, as if it crashed.)
Signup(r, u) ==
  /\ standing[u] = "absent"
  /\ standing' = [standing EXCEPT ![u] = "active"]
  /\ Arrive(r, "signup", u, 0, "none", "mint")
  /\ UNCHANGED <<verified, password, changes, expired, undone>>

\* POST /refresh/ with any refresh token that was ever handed out.
Refresh(r, t) ==
  /\ t <= issued
  /\ Arrive(r, "refresh", owner[t], t, "none", "claim")
  /\ UNCHANGED accountVars

\* POST /logout/ with one of the tokens of the authenticated account.
Logout(r, t) ==
  /\ t <= issued
  /\ Bearer(owner[t])
  /\ Arrive(r, "logout", owner[t], t, "session", "await")
  /\ UNCHANGED accountVars

\* POST /logout-all/.
LogoutAll(r, u) ==
  /\ Bearer(u)
  /\ Arrive(r, "logoutAll", u, 0, "user", "await")
  /\ UNCHANGED accountVars

\* PasswordChangeView.post up to the save: load_capability_user refuses a missing or
\* inactive account, and the old password is the one in force.
Change(r, u) ==
  /\ Bearer(u)
  /\ standing[u] = "active"
  /\ changes[u] < MaxPassword
  /\ Arrive(r, "change", u, 0, "user", "save")
  /\ UNCHANGED accountVars

\* ResetPasswordView.post and SetPasswordView.post up to the save: the cookie was claimed
\* (module Credentials says which), and load_capability_user takes the account.  Cookies
\* are only ever handed out for an account with a confirmed address.
Reset(r, u) ==
  /\ standing[u] = "active"
  /\ u \in verified
  /\ changes[u] < MaxPassword
  /\ Arrive(r, "reset", u, 0, "user", "save")
  /\ UNCHANGED accountVars

\* UserDetailsView.patch loads the account; the access token it is authorised by says
\* nothing of its standing ...
LoadProfile(r, u) ==
  /\ Bearer(u)
  /\ Arrive(r, "patch", u, 0, "none", "patch")
  /\ UNCHANGED accountVars

\* ... and ModelSerializer.update writes it back, every column of it.
SaveProfile(r) ==
  LET u == subj[r] IN
  /\ pc[r] = "patch"
  /\ lock[u] = NoReq
  /\ password' = [password EXCEPT ![u] = ver[r]]
  /\ standing' = [standing EXCEPT ![u] = was[r]]
  /\ undone' = IF password' = password /\ standing' = standing THEN undone ELSE undone \cup {u}
  /\ pc' = [pc EXCEPT ![r] = "done"]
  /\ UNCHANGED <<storeVars, verified, changes, expired, lock, reqVars, floor>>

\* SetPasswordForm.save: the loaded instance is written back with the new hash, every
\* column of it, is_active (which was true when it was loaded) included.  The UPDATE
\* waits for a row lock held on the user.
SavePassword(r) ==
  LET u == subj[r] IN
  /\ pc[r] = "save"
  /\ lock[u] = NoReq
  /\ password' = [password EXCEPT ![u] = changes[u] + 1]
  /\ changes' = [changes EXCEPT ![u] = @ + 1]
  /\ standing' = [standing EXCEPT ![u] = "active"]
  /\ ver' = [ver EXCEPT ![r] = changes[u] + 1]
  /\ pc' = [pc EXCEPT ![r] = IF LogoutOnPasswordChange THEN "await"
                             ELSE IF kind[r] = "reset" THEN "mint" ELSE "done"]
  /\ UNCHANGED <<storeVars, verified, expired, undone, lock, kind, subj, tok, scope, snap,
                 was, floor, upto>>

\* Mutant of Insert: the key of the new row is not taken.
InsertUnnumbered(t, s, u, cred) ==
  /\ issued < MaxToken
  /\ t = issued + 1
  /\ session' = [session EXCEPT ![t] = s]
  /\ owner' = [owner EXCEPT ![t] = u]
  /\ credential' = [credential EXCEPT ![t] = cred]
  /\ UNCHANGED issued

\* A row of session s and user u is inserted for a new token t.
Insert(t, s, u, cred) ==
  /\ issued < MaxToken
  /\ t = issued + 1
  /\ issued' = t
  /\ session' = [session EXCEPT ![t] = s]
  /\ owner' = [owner EXCEPT ![t] = u]
  /\ credential' = [credential EXCEPT ![t] = cred]

\* Mutant of Mint: the sign-up forgets enabled=not verification_is_mandatory().
MintEnabled(r) ==
  /\ pc[r] = "mint"
  /\ \E t \in Token : Insert(t, t, subj[r], ver[r]) /\ live' = live \cup {t}
  /\ pc' = [pc EXCEPT ![r] = "done"]
  /\ UNCHANGED <<disabled, spent, closed, leaked, accountVars, lock, reqVars, floor>>

\* A credential change has begun to delete, or has deleted, the sessions opened with the
\* password r has checked.
Late(r) ==
  \/ ver[r] < floor[subj[r]]
  \/ \E q \in Req : /\ kind[q] \in CredentialChange /\ pc[q] = "apply"
                    /\ subj[q] = subj[r] /\ ver[r] < ver[q]

\* RefreshToken.for_user: a new session.  No lock is taken.
Mint(r) ==
  /\ pc[r] = "mint"
  /\ \E t \in Token :
       /\ Insert(t, t, subj[r], ver[r])
       /\ live' = live \cup {t}
       /\ disabled' = IF kind[r] = "signup" /\ Mandatory THEN disabled \cup {t}
                                                         ELSE disabled
       /\ leaked' = IF Late(r) THEN leaked \cup {t} ELSE leaked
  /\ pc' = [pc EXCEPT ![r] = "done"]
  /\ UNCHANGED <<spent, closed, accountVars, lock, reqVars, floor>>

-----------------------------------------------------------------------------
\* Mutants of Lock: nobody waits for the lock; or the rotation does not take it.
LockUnguarded(r) ==
  /\ pc[r] \in {"claim", "await"}
  /\ lock' = [lock EXCEPT ![subj[r]] = r]
  /\ pc' = [pc EXCEPT ![r] = IF @ = "claim" THEN "rotate" ELSE "delete"]
  /\ UNCHANGED <<storeVars, accountVars, reqVars, floor>>

LockRevocationsOnly(r) ==
  /\ pc[r] \in {"claim", "await"}
  /\ IF pc[r] = "claim" THEN UNCHANGED lock
                        ELSE /\ lock[subj[r]] = NoReq
                             /\ lock' = [lock EXCEPT ![subj[r]] = r]
  /\ pc' = [pc EXCEPT ![r] = IF @ = "claim" THEN "rotate" ELSE "delete"]
  /\ UNCHANGED <<storeVars, accountVars, reqVars, floor>>

\* user_sessions_lock: the row lock of the user is taken ...
Lock(r) ==
  LET u == subj[r] IN
  /\ pc[r] \in {"claim", "await"}
  /\ lock[u] = NoReq
  /\ lock' = [lock EXCEPT ![u] = r]
  /\ pc' = [pc EXCEPT ![r] = IF @ = "claim" THEN "rotate" ELSE "delete"]
  /\ UNCHANGED <<storeVars, accountVars, reqVars, floor>>

\* ... and given back when the transaction ends.
Unlock(r) == lock' = [lock EXCEPT ![subj[r]] = NoReq]

\* Mutant of Verdict: the signature of the token is taken for proof that it is live.
VerdictBySignature(t, u) ==
  IF t \in disabled THEN "disabled"
  ELSE IF session[t] \in expired THEN "expired"
  ELSE IF standing[u] # "active" THEN "inactive"
  ELSE "accepted"

\* What TokenRefreshSerializer.rotate answers to token t of user u.
Verdict(t, u) ==
  IF t \notin live THEN "replayed"
  ELSE IF t \in disabled THEN "disabled"
  ELSE IF session[t] \in expired THEN "expired"
  ELSE IF standing[u] # "active" THEN "inactive"
  ELSE "accepted"

\* Mutant of Rotate: the presented row is not deleted, and rejections change nothing.
RotateKeepingRow(r) ==
  /\ pc[r] = "rotate"
  /\ Unlock(r)
  /\ Verdict(tok[r], subj[r]) = "accepted"
  /\ \E n \in Token :
       /\ Insert(n, session[tok[r]], subj[r], credential[tok[r]])
       /\ live' = live \cup {n}
  /\ spent' = spent \cup {tok[r]}
  /\ pc' = [pc EXCEPT ![r] = "done"]
  /\ UNCHANGED <<disabled, closed, leaked, accountVars, reqVars, floor>>

\* The rest of the rotation, which the row lock makes one step: the presented row is
\* deleted and the row of the successor inserted, or the transaction is rolled back and
\* TokenRefreshSerializer.reject goes on to revoke what the rejection calls for.
Rotate(r) ==
  LET t == tok[r]
      answer == Verdict(t, subj[r])
  IN
  /\ pc[r] = "rotate"
  /\ Unlock(r)
  /\ \/ /\ answer = "accepted"
        /\ \E n \in Token :
             /\ Insert(n, session[t], subj[r], credential[t])
             /\ live' = (live \ {t}) \cup {n}
        /\ spent' = spent \cup {t}
        /\ pc' = [pc EXCEPT ![r] = "done"]
        /\ UNCHANGED scope
     \/ /\ answer = "disabled"
        /\ pc' = [pc EXCEPT ![r] = "done"]
        /\ UNCHANGED <<issued, session, owner, credential, live, spent, scope>>
     \/ /\ answer \in {"replayed", "expired", "inactive"}
        /\ pc' = [pc EXCEPT ![r] = "await"]
        /\ scope' = [scope EXCEPT ![r] = IF answer = "inactive" THEN "user"
                                                                ELSE "session"]
        /\ UNCHANGED <<issued, session, owner, credential, live, spent>>
  /\ UNCHANGED <<disabled, closed, leaked, accountVars, kind, subj, tok, snap, ver, was,
                 floor, upto>>

\* Mutant of Targets: the row is looked up by the presented token, not by its session.
TargetsByToken(r) ==
  {t \in 1..issued : IF scope[r] = "session" THEN t = tok[r] ELSE owner[t] = subj[r]}

\* The tokens a DELETE statement of request r addresses.
Targets(r) ==
  {t \in 1..issued : IF scope[r] = "session" THEN session[t] = session[tok[r]]
                                             ELSE owner[t] = subj[r]}

\* Mutant of Delete: a revocation that finds no row returns without ending its transaction.
DeleteKeepingLock(r) ==
  /\ pc[r] = "delete"
  /\ snap' = [snap EXCEPT ![r] = live \cap Targets(r)]
  /\ pc' = [pc EXCEPT ![r] = IF live \cap Targets(r) = {} THEN "done" ELSE "apply"]
  /\ UNCHANGED <<storeVars, accountVars, lock, kind, subj, tok, scope, ver, was, floor, upto>>

\* The DELETE begins: it will remove the rows it sees now.  A logout that finds no row
\* answers InvalidToken instead.
Delete(r) ==
  /\ pc[r] = "delete"
  /\ snap' = [snap EXCEPT ![r] = live \cap Targets(r)]
  /\ IF kind[r] = "logout" /\ live \cap Targets(r) = {}
       THEN Unlock(r) /\ pc' = [pc EXCEPT ![r] = "done"]
       ELSE UNCHANGED lock /\ pc' = [pc EXCEPT ![r] = "apply"]
  /\ upto' = IF scope[r] = "user" THEN [upto EXCEPT ![r] = issued] ELSE upto
  /\ UNCHANGED <<storeVars, accountVars, kind, subj, tok, scope, ver, was, floor>>

\* The DELETE ends and the transaction commits.  A credential change goes on to open the
\* session it answers with.
Apply(r) ==
  /\ pc[r] = "apply"
  /\ live' = live \ snap[r]
  /\ closed' = closed \cup {session[t] : t \in snap[r]}
  /\ snap' = [snap EXCEPT ![r] = {}]
  /\ Unlock(r)
  /\ pc' = [pc EXCEPT ![r] = IF kind[r] \in CredentialChange THEN "mint" ELSE "done"]
  /\ floor' = IF kind[r] \in CredentialChange /\ floor[subj[r]] < ver[r]
                THEN [floor EXCEPT ![subj[r]] = ver[r]] ELSE floor
  /\ UNCHANGED <<issued, session, owner, disabled, spent, credential, leaked, accountVars,
                 kind, subj, tok, scope, ver, was, upto>>

\* The process serving a request dies: its open transaction is rolled back, what it has
\* committed stays.
Crash(r) ==
  /\ pc[r] \notin {"new"} \cup Ended
  /\ pc' = [pc EXCEPT ![r] = "crashed"]
  /\ IF pc[r] \in Holding THEN Unlock(r) ELSE UNCHANGED lock
  /\ UNCHANGED <<storeVars, accountVars, reqVars, floor>>

-----------------------------------------------------------------------------
\* The project deactivates an account (the admin site, say); the UPDATE waits for a row
\* lock held on the user.
Deactivate(u) ==
  /\ standing[u] = "active"
  /\ lock[u] = NoReq
  /\ standing' = [standing EXCEPT ![u] = "inactive"]
  /\ UNCHANGED <<storeVars, verified, password, changes, expired, undone, lock, pc, reqVars,
                 floor>>

\* A session reaches its absolute lifetime (RefreshToken.session_expired).
Expire(s) ==
  /\ s \in {session[t] : t \in 1..issued} \ expired
  /\ expired' = expired \cup {s}
  /\ UNCHANGED <<storeVars, standing, verified, password, changes, undone, lock, pc, reqVars,
                 floor>>

Serve(r) ==
  \/ SavePassword(r) \/ SaveProfile(r)
  \/ Mint(r) \/ Lock(r) \/ Rotate(r) \/ Delete(r) \/ Apply(r)

\* Everything but the requests that redeem a capability, and the steps of requests.
Others ==
  \/ \E r \in Req, u \in User :
       Login(r, u) \/ Signup(r, u) \/ LogoutAll(r, u) \/ Change(r, u) \/ LoadProfile(r, u)
  \/ \E r \in Req, t \in Token : Refresh(r, t) \/ Logout(r, t)
  \/ \E r \in Req : Crash(r)
  \/ \E u \in User : Deactivate(u)
  \/ \E s \in Token : Expire(s)

Next ==
  \/ \E r \in Req, u \in User : Reset(r, u)
  \/ \E r \in Req : Serve(r)
  \/ Others

Spec == Init /\ [][Next]_vars

-----------------------------------------------------------------------------
TypeOK ==
  /\ issued \in 0..MaxToken
  /\ session \in [Token -> 0..MaxToken]
  /\ owner \in [Token -> User \cup {NoUser}]
  /\ live \subseteq 1..issued /\ disabled \subseteq 1..issued
  /\ spent \subseteq 1..issued /\ closed \subseteq 1..issued /\ expired \subseteq 1..issued
  /\ credential \in [Token -> Nat]
  /\ leaked \subseteq 1..issued /\ undone \subseteq User
  /\ standing \in [User -> Standing]
  /\ verified \subseteq User
  /\ password \in [User -> Nat] /\ changes \in [User -> Nat] /\ floor \in [User -> Nat]
  /\ lock \in [User -> Req \cup {NoReq}]
  /\ pc \in [Req -> PC]
  /\ kind \in [Req -> Kind]
  /\ subj \in [Req -> User \cup {NoUser}]
  /\ tok \in [Req -> 0..MaxToken]
  /\ scope \in [Req -> {"none", "session", "user"}]
  /\ snap \in [Req -> SUBSET Token]
  /\ ver \in [Req -> Nat] /\ was \in [Req -> Standing] /\ upto \in [Req -> 0..issued]

\* The whitelist as a set of sessions with atomic operations.
Store == INSTANCE SessionStore WITH
  MaxToken <- MaxToken, issued <- issued, session <- session, live <- live,
  spent <- spent, closed <- closed

\* Rotation, the revocations and the mints, interleaved statement by statement, are the
\* atomic operations of the abstract whitelist: user_sessions_lock is enough.
ImplementsStore == Store!StoreSpec

\* One credential never turns into two live sessions: however rotations of a session
\* interleave, one token of it at most can be rotated next.
OneTokenPerSession == Store!OneTokenPerSession

\* A refresh token is consumed exactly once: a rotated token is never accepted again.
SpentStaysDead == Store!SpentStaysDead

\* A session whose rows a revocation deleted has no token left, whatever rotation was in
\* flight when the revocation ran.
ClosedStaysClosed == Store!ClosedStaysClosed

\* When /logout/ or a rejected replay has answered, the session it was about has no live
\* token, and it never has one again.  When /logout-all/, a change of the password or the
\* refresh of an account that is not active has, the only sessions of the account are those
\* that were opened after it began to delete, its own among them.
RevocationTookEffect ==
  \A r \in Req, t \in live : pc[r] = "done" =>
    /\ scope[r] = "session" => session[t] # session[tok[r]]
    /\ scope[r] = "user" /\ owner[t] = subj[r] => session[t] > upto[r]

\* A password was set and the revocation that goes with it has not committed: the request
\* is on its way there, or its process died.
Unrevoked(q, u) ==
  /\ kind[q] \in CredentialChange /\ subj[q] = u
  /\ pc[q] \in {"await", "delete", "apply", "crashed"}
  /\ floor[u] < ver[q]

\* What is left of the promise that a change of the password closes every session opened
\* before, revocation.py:51.  A session opened with an earlier password is live only
\* - if it was minted when the others were being deleted or were gone already: its login had
\*   checked that password before, or a profile update saved late had put it back in force; or
\* - if the latest change has not come to its revocation, and never will when its process
\*   died, and no revocation has come to it otherwise.
SurvivorsExplained ==
  LogoutOnPasswordChange =>
    \A t \in live : credential[t] < changes[owner[t]] =>
      \/ session[t] \in leaked
      \/ credential[t] >= floor[owner[t]] /\ \E q \in Req : Unrevoked(q, owner[t])

\* Once the revocation of a password change has committed, no session opened with an
\* earlier password is live.
OldPasswordOpensNothing == \A t \in live : credential[t] >= floor[owner[t]]

\* Every request that was taken ends: no request waits for ever for a row lock.
EveryRequestEnds == \A r \in Req : pc[r] # "new" ~> pc[r] \in Ended

-----------------------------------------------------------------------------
\* Why it works, part by part.

\* A token belongs to one session and to one user, those of the token that opened it.
TokensInv ==
  /\ \A t \in 1..issued :
       /\ session[t] \in 1..t
       /\ session[session[t]] = session[t]
       /\ owner[t] \in User
       /\ owner[session[t]] = owner[t]
  /\ closed \subseteq 1..issued

\* What a request is about is settled when it arrives.
RequestsInv ==
  \A r \in Req :
    /\ pc[r] # "new" => subj[r] \in User
    /\ kind[r] \in CredentialChange => scope[r] = "user"
    /\ pc[r] = "save" => kind[r] \in CredentialChange
    /\ pc[r] \in {"claim", "rotate"} => kind[r] = "refresh"
    /\ pc[r] \in {"mint", "save", "patch", "claim", "rotate"} => scope[r] # "session"
    /\ pc[r] \in {"await", "delete", "apply"} => scope[r] # "none"
    /\ (pc[r] \in {"claim", "rotate"} \/ scope[r] = "session") =>
         tok[r] \in 1..issued /\ owner[tok[r]] = subj[r]

\* A request inside user_sessions_lock holds the row lock of its user.
LockInv == \A r \in Req : pc[r] \in Holding => lock[subj[r]] = r

\* While a DELETE runs, the rows it saw stay, and they are all it has to remove.
DeleteInv ==
  \A r \in Req : pc[r] = "apply" =>
    /\ snap[r] \subseteq live
    /\ \A t \in snap[r] : owner[t] = subj[r]
    /\ scope[r] = "session" =>
         \A t \in live : session[t] = session[tok[r]] => t \in snap[r]

\* What a request that revokes a session leaves behind.
SessionsCleared ==
  \A r \in Req : pc[r] = "done" /\ scope[r] = "session" =>
    \A t \in live : session[t] # session[tok[r]]

\* What one that revokes all sessions of its user has left, or is about to remove.
AccountCleared(r) ==
  /\ upto[r] # 0 => pc[r] \in {"apply", "mint"} \cup Ended
  /\ pc[r] # "crashed" /\ scope[r] = "user" =>
       \A t \in live : owner[t] = subj[r] =>
         session[t] > upto[r] \/ (pc[r] = "apply" /\ t \in snap[r])

AccountsCleared == \A r \in Req : AccountCleared(r)

\* The inductive invariant.
IInv ==
  /\ TypeOK
  /\ TokensInv
  /\ RequestsInv
  /\ LockInv
  /\ DeleteInv
  /\ OneTokenPerSession
  /\ SpentStaysDead
  /\ ClosedStaysClosed
  /\ SessionsCleared
  /\ AccountsCleared

=============================================================================
