------------------------------ MODULE TokenClock ------------------------------
(***************************************************************************)
(* The lifetimes of one session and of the rows kept for it: the exp and   *)
(* session_iat claims of refresh and access tokens, the age of the account *)
(* their other claims were read from, the session check of access tokens,  *)
(* and the purge of old rows.  Rows of single-use tokens are not kept:     *)
(* what the purge does to one depends on its age alone, so a property      *)
(* speaks of all rows there can be.  Nor is the account: what a token says *)
(* about it is what was committed when it was read, so a property speaks   *)
(* of every instant at which it may have changed.  Module Roles says what  *)
(* the claims are, and module Claims adds them.                            *)
(*                                                                         *)
(* Time is counted in ticks, Second of them to a second.  Claims are whole *)
(* seconds and the creation times of rows are not, and a row is created    *)
(* after the claims were computed: every boundary of the code is between   *)
(* two such times.                                                         *)
(***************************************************************************)
EXTENDS Integers

CONSTANTS
  Req,            \* request slots; a slot serves one request after another
  Second,         \* how many ticks a second has
  Lifetimes,      \* the choices of REFRESH_TOKEN_LIFETIME, ACCESS_TOKEN_LIFETIME and
                  \* JWT_ALLAUTH_SESSION_LIFETIME, in seconds
  NoLimit,        \* the session lifetime None
  LinkLife,       \* PASSWORD_RESET_TIMEOUT
  RowLife,        \* how long the other single-use tokens live
  MaxToken,       \* bound of the refresh tokens of the session
  MaxTime         \* bound of the clock

ASSUME ClockAssumption ==
  /\ Second \in Nat \ {0} /\ MaxToken \in Nat \ {0} /\ MaxTime \in Nat
  /\ NoLimit \notin Nat
  /\ \A l \in Lifetimes :
       /\ l = [refresh |-> l.refresh, access |-> l.access, session |-> l.session]
       /\ l.refresh \in Nat /\ l.access \in Nat /\ l.session \in Nat \cup {NoLimit}
  /\ LinkLife \in Nat /\ RowLife \in Nat

VARIABLES
  settings,   \* the lifetimes in force
  now,        \* the clock
  issued,     \* how many refresh tokens the session has had; a token is a number
  start,      \* the session_iat claim of each, in seconds, -1 when it has none
  exp,        \* the exp claim of each
  accessExp,  \* the exp claim of the access token handed out with each
  read,       \* when the account was read for its role and the other claims
  created,    \* when its row was created
  rows,       \* the tokens that are whitelisted
  pc,         \* what a request does next
  tok,        \* the refresh token it presents
  at,         \* when it built the token in memory
  loaded,     \* when a login loaded the account it opens the session for
  purging,    \* what the purge does next
  cutoff,     \* the instant it measures ages from
  \* history
  closed,     \* when the session was closed, -1 if it was not
  purged      \* the tokens whose row the purge removed

sessionVars == <<issued, start, exp, accessExp, read, created, rows>>
clockReqVars == <<pc, tok, at, loaded>>
purgeVars == <<purging, cutoff>>
clockHistVars == <<closed, purged>>
clockVars == <<settings, now, sessionVars, clockReqVars, purgeVars, clockHistVars>>

Token == 1..MaxToken
Time == 0..MaxTime
Kind == {"link", "capability", "row"}
ClockPC == {"idle", "load", "open", "rotate", "close"}

Larger(a, b) == IF a >= b THEN a ELSE b
Smaller(a, b) == IF a <= b THEN a ELSE b

\* datetime_to_epoch drops the fraction; a claim is compared as the instant it names.
Epoch(t) == t \div Second
Instant(s) == s * Second

\* cap_exp_to_session: an exp of a token whose session started at s.
Capped(e, s) ==
  IF settings.session = NoLimit \/ s = -1 THEN e ELSE Smaller(e, s + settings.session)

\* session_expired.
SessionExpired(s) ==
  settings.session # NoLimit /\ s # -1 /\ Instant(s + settings.session) <= now

\* Simple JWT turns a token down on its exp.
Alive(e) == Instant(e) > now

ClockInit ==
  /\ settings \in Lifetimes
  /\ now = 0
  \* A session opened by a version that knew no session_iat has one token.
  /\ issued \in {0, 1} /\ rows = 1..issued
  /\ start = [t \in Token |-> -1]
  /\ created = [t \in Token |-> 0] /\ read = [t \in Token |-> 0]
  /\ exp = [t \in Token |-> settings.refresh]
  /\ accessExp = [t \in Token |-> settings.access]
  /\ pc = [r \in Req |-> "idle"] /\ tok = [r \in Req |-> 0]
  /\ at = [r \in Req |-> 0] /\ loaded = [r \in Req |-> 0]
  /\ purging = "idle" /\ cutoff = 0
  /\ closed = -1 /\ purged = {}

Proceed(r, from, to) == pc[r] = from /\ pc' = [pc EXCEPT ![r] = to]

\* A request needs its token no longer.
Release(r, from, to) ==
  /\ Proceed(r, from, to)
  /\ tok' = [tok EXCEPT ![r] = 0]
  /\ at' = [at EXCEPT ![r] = 0]
  /\ loaded' = [loaded EXCEPT ![r] = 0]

\* Mutant of Issue: the row is stored under another number than the token carries.
IssueUnnumbered(t, s, old, seen) ==
  LET n == issued + 1 IN
  /\ n \in Token
  /\ start' = [start EXCEPT ![n] = s]
  /\ exp' = [exp EXCEPT ![n] = Capped(Epoch(t) + settings.refresh, s)]
  /\ accessExp' = [accessExp EXCEPT ![n] = Capped(Epoch(t) + settings.access, s)]
  /\ read' = [read EXCEPT ![n] = seen]
  /\ created' = [created EXCEPT ![n] = now]
  /\ rows' = (rows \ {old}) \cup {n}
  /\ UNCHANGED issued

\* The row of a token built at time t, in a session that started at s, from the account as
\* it was at time seen, takes the place of the row old.
Issue(t, s, old, seen) ==
  LET n == issued + 1 IN
  /\ n \in Token
  /\ issued' = n
  /\ start' = [start EXCEPT ![n] = s]
  /\ exp' = [exp EXCEPT ![n] = Capped(Epoch(t) + settings.refresh, s)]
  /\ accessExp' = [accessExp EXCEPT ![n] = Capped(Epoch(t) + settings.access, s)]
  /\ read' = [read EXCEPT ![n] = seen]
  /\ created' = [created EXCEPT ![n] = now]
  /\ rows' = (rows \ {old}) \cup {n}

-----------------------------------------------------------------------------
\* A login loads the account; the role and the attributes will be those of this instance ...
Load(r) ==
  /\ issued = 0 /\ \A q \in Req : pc[q] = "idle"
  /\ Proceed(r, "idle", "load")
  /\ loaded' = [loaded EXCEPT ![r] = now]
  /\ UNCHANGED <<settings, now, sessionVars, tok, at, purgeVars, clockHistVars>>

\* ... RefreshToken.for_user builds the token of a new session ...
Begin(r) ==
  /\ Proceed(r, "load", "open")
  /\ at' = [at EXCEPT ![r] = now]
  /\ UNCHANGED <<settings, now, sessionVars, tok, loaded, purgeVars, clockHistVars>>

\* ... and stores its row.
Open(r) ==
  /\ Issue(at[r], Epoch(at[r]), 0, loaded[r])
  /\ Release(r, "open", "idle")
  /\ UNCHANGED <<settings, now, purgeVars, clockHistVars>>

\* TokenRefreshSerializer.validate decodes the token, which turns an expired one down, and
\* waits for the lock.
Present(r, t) ==
  /\ t \in 1..issued /\ Alive(exp[t])
  /\ Proceed(r, "idle", "rotate")
  /\ tok' = [tok EXCEPT ![r] = t]
  /\ at' = [at EXCEPT ![r] = now]
  /\ UNCHANGED <<settings, now, sessionVars, loaded, purgeVars, clockHistVars>>

\* Mutants of Rotate: the successor starts a session of its own; or the privileges are
\* carried over from the old token.
RotateAnew(r) ==
  LET t == tok[r] IN
  /\ Release(r, "rotate", "idle")
  /\ t \in rows /\ ~ SessionExpired(start[t])
  /\ Issue(at[r], Epoch(at[r]), t, now)
  /\ UNCHANGED <<settings, now, purgeVars, clockHistVars>>

RotateUnsynced(r) ==
  LET t == tok[r] IN
  /\ Release(r, "rotate", "idle")
  /\ t \in rows /\ ~ SessionExpired(start[t])
  /\ Issue(at[r], IF start[t] = -1 THEN Epoch(at[r]) ELSE start[t], t, read[t])
  /\ UNCHANGED <<settings, now, purgeVars, clockHistVars>>

\* rotate: the claims count from when the token was decoded, a token without a session
\* start is anchored there, and sync_user_claims reads the account afresh, the row lock of
\* which is held.
Rotate(r) ==
  LET t == tok[r] IN
  /\ Release(r, "rotate", "idle")
  /\ t \in rows /\ ~ SessionExpired(start[t])
  /\ Issue(at[r], IF start[t] = -1 THEN Epoch(at[r]) ELSE start[t], t, now)
  /\ UNCHANGED <<settings, now, purgeVars, clockHistVars>>

\* A replayed token, and one of a session past its deadline, is rejected ...
Reject(r) ==
  LET t == tok[r] IN
  /\ Release(r, "rotate", "close")
  /\ t \notin rows \/ SessionExpired(start[t])
  /\ UNCHANGED <<settings, now, sessionVars, purgeVars, clockHistVars>>

CloseSession ==
  /\ rows' = {}
  /\ closed' = IF closed = -1 THEN now ELSE closed
  /\ UNCHANGED <<settings, now, issued, start, exp, accessExp, read, created, purgeVars, purged>>

\* ... and the whole session with it, in a transaction of its own.
Close(r) == Release(r, "close", "idle") /\ CloseSession

\* A logout or a credential change.
Logout == issued > 0 /\ CloseSession /\ UNCHANGED clockReqVars

-----------------------------------------------------------------------------
\* Mutant of SessionActive: the whitelist is not asked.
SessionActiveAlways == TRUE

\* session_is_active.
SessionActive == rows # {}

\* get_validated_token: the access token handed out with t authenticates a request, with the
\* session check or without.
Honoured(t, check) == Alive(accessExp[t]) /\ (check => SessionActive)

\* The age at which the flow of a single-use token turns it down: Django counts the seconds
\* of a link, a capability is an access token, and the other flows compare the row.
Usable(kind, made, stored) ==
  CASE kind = "link" -> Epoch(now) - Epoch(made) <= LinkLife
    [] kind = "capability" -> Alive(Epoch(made) + settings.access)
    [] kind = "row" -> stored >= now - Instant(RowLife)

\* Mutant of Retention: a capability is kept as long as any other row.
RetentionOfRows(kind) == IF kind = "link" THEN LinkLife ELSE RowLife

\* retentions.
Retention(kind) ==
  CASE kind = "link" -> LinkLife
    [] kind = "capability" -> settings.access
    [] kind = "row" -> RowLife

\* expired: what purge is about to delete.
Old(kind, stored) == purging = "tokens" /\ stored < cutoff - Instant(Retention(kind))

\* Mutant of SessionRetention: the lifetime of access tokens is not taken into account.
SessionRetentionOfRefresh == settings.refresh

\* session_retention.
SessionRetention == Larger(settings.refresh, settings.access)

\* The command jwt_allauth_purge_tokens: purge measures all ages from one instant ...
StartPurge ==
  /\ purging = "idle"
  /\ purging' = "tokens" /\ cutoff' = now
  /\ UNCHANGED <<settings, now, sessionVars, clockReqVars, clockHistVars>>

\* ... and deletes, purpose by purpose, the single-use tokens that are Old; purge_sessions
\* takes the next instant ...
PurgeTokens ==
  /\ purging = "tokens"
  /\ purging' = "sessions" /\ cutoff' = now
  /\ UNCHANGED <<settings, now, sessionVars, clockReqVars, clockHistVars>>

\* ... and deletes the refresh tokens that are past session_retention.
PurgeSessions ==
  LET old == {t \in rows : created[t] < cutoff - Instant(SessionRetention)} IN
  /\ purging = "sessions"
  /\ purging' = "idle" /\ cutoff' = 0
  /\ rows' = rows \ old
  /\ purged' = purged \cup old
  /\ UNCHANGED <<settings, now, issued, start, exp, accessExp, read, created, clockReqVars,
                 closed>>

Tick ==
  /\ now < MaxTime
  /\ now' = now + 1
  /\ UNCHANGED <<settings, sessionVars, clockReqVars, purgeVars, clockHistVars>>

ClockNext ==
  \/ \E r \in Req : Load(r) \/ Begin(r) \/ Open(r) \/ Rotate(r) \/ Reject(r) \/ Close(r)
  \/ \E r \in Req, t \in Token : Present(r, t)
  \/ Logout \/ StartPurge \/ PurgeTokens \/ PurgeSessions \/ Tick

ClockSpec == ClockInit /\ [][ClockNext]_clockVars

-----------------------------------------------------------------------------
Claim == [Token -> Nat]

ClockTypeOK ==
  /\ settings \in Lifetimes
  /\ now \in Time /\ cutoff \in 0..now
  /\ issued \in 0..MaxToken /\ rows \subseteq 1..issued /\ purged \subseteq 1..issued
  /\ start \in [Token -> Nat \cup {-1}]
  /\ exp \in Claim /\ accessExp \in Claim
  /\ created \in [Token -> 0..now] /\ read \in [Token -> 0..now]
  /\ pc \in [Req -> ClockPC] /\ tok \in [Req -> 0..issued]
  /\ at \in [Req -> 0..now] /\ loaded \in [Req -> 0..now]
  /\ purging \in {"idle", "tokens", "sessions"}
  /\ closed \in {-1} \cup 0..now

\* However often a session is rotated, no token of it outlives the deadline that its first
\* token with a session start has set: rotating moves no deadline, and a rotation that waits
\* for the lock does not stretch one.
NothingOutlivesSession ==
  settings.session # NoLimit =>
    \A t, u \in 1..issued : start[t] # -1 /\ t <= u =>
      exp[u] <= start[t] + settings.session /\ accessExp[u] <= start[t] + settings.session

\* The purge of sessions changes no answer: what it removes can neither be presented, nor is
\* it what an access token of the session is matched against.
PurgeEndsNothing ==
  /\ \A t \in purged : ~ Alive(exp[t])
  /\ purged # {} => \A t \in 1..issued : ~ Alive(accessExp[t])

\* A revocation ends the access tokens at once where they are checked, and elsewhere no later
\* than one access token lifetime after it: no rotation in flight stretches that.
ExposureBounded ==
  closed # -1 =>
    \A t \in 1..issued, check \in BOOLEAN :
      Honoured(t, check) => ~ check /\ now < closed + Instant(settings.access)

\* tokens.py, sync_user_claims, and permissions.py, which asks the claims and never the
\* account: whatever is changed about the account at an instant c, no access token acts on
\* what was there before for longer than an access token lifetime.  The one exception is
\* the login that had loaded the account by then: its lifetime counts from when it is done.
PrivilegesFade ==
  \A t \in 1..issued, c \in 0..now :
    read[t] <= c /\ Alive(accessExp[t]) =>
      now < Larger(c, IF t = 1 THEN created[t] ELSE c) + Instant(settings.access)

\* The purge of single-use tokens takes no row whose token is still good, except a link in
\* the last second of its life, whose age Django counts in whole seconds.
PurgeTakesNothingGood ==
  \A kind \in Kind, stored \in 0..now : \A made \in 0..stored :
    Old(kind, stored) /\ Usable(kind, made, stored) =>
      kind = "link" /\ now < made + Instant(LinkLife + 1)

=============================================================================
