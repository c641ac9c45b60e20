-------------------------- MODULE EmailConfirmation --------------------------
(***************************************************************************)
(* The confirmation link (VerifyEmailView.get, default flow) beside        *)
(* the session writers of Sessions.  The view switches the sign-up session *)
(* on and confirms the address, with no lock and no transaction: every     *)
(* query of it is a step of its own here.  A link may be opened several    *)
(* times, by a link scanner, a prefetch and the user, at once.             *)
(***************************************************************************)
EXTENDS Sessions, FiniteSetsExt

CONSTANTS
  Click,                  \* openings of a confirmation link
  SessionOnVerification   \* JWT_ALLAUTH_SESSION_ON_EMAIL_VERIFICATION

ASSUME ClickAssumption == SessionOnVerification \in BOOLEAN

VARIABLES
  click,        \* what a click does next
  target,       \* the account whose address the link confirms
  row,          \* the whitelist row the view loaded, 0 when there was none
  completes,    \* whether the view found that it completes the sign-up
  \* history
  seen          \* how many tokens were issued when the view looked for a row

clickVars == <<click, target, row, completes, seen>>
allVars == <<vars, clickVars>>

ClickPC == {"new", "row", "enable", "ask", "confirm", "mint"} \cup Ended

\* A click moves on without touching the accounts or the whitelist.
Step(c, from, to) ==
  /\ click[c] = from
  /\ click' = [click EXCEPT ![c] = to]

ConfirmInit ==
  /\ Init
  /\ click = [c \in Click |-> "new"]
  /\ target = [c \in Click |-> NoUser]
  /\ row = [c \in Click |-> 0]
  /\ completes = [c \in Click |-> FALSE]
  /\ seen = [c \in Click |-> 0]

\* get_object: allauth takes the key of a link until the address it was mailed to is confirmed.
\* That is the address of the sign-up, or one that the account, confirmed or not, has been
\* given since.
Follow(c, u) ==
  /\ standing[u] # "absent"
  /\ Step(c, "new", "row")
  /\ target' = [target EXCEPT ![c] = u]
  /\ UNCHANGED <<vars, row, completes, seen>>

\* RefreshTokenWhitelistModel.objects.filter(user=user).first(): the oldest row.
LoadRow(c) ==
  LET rows == {t \in live : owner[t] = target[c]} IN
  /\ Step(c, "row", IF rows = {} THEN "ask" ELSE "enable")
  /\ row' = [row EXCEPT ![c] = IF rows = {} THEN 0 ELSE Min(rows)]
  /\ seen' = [seen EXCEPT ![c] = issued]
  /\ UNCHANGED <<vars, target, completes>>

\* Mutants of EnableRow: the row is saved under a new key; or saved without the change.
EnableNewRow(c) ==
  /\ Step(c, "enable", "ask")
  /\ live' = live \cup {issued + 1}
  /\ disabled' = disabled \ {row[c]}
  /\ UNCHANGED <<issued, session, owner, spent, closed, credential, leaked, accountVars, lock,
                 pc, reqVars, floor, target, row, completes, seen>>

EnableNothing(c) ==
  /\ Step(c, "enable", "ask")
  /\ live' = live \cup {row[c]}
  /\ UNCHANGED <<issued, session, owner, disabled, spent, closed, credential, leaked,
                 accountVars, lock, pc, reqVars, floor, target, row, completes, seen>>

\* refresh.save(): an UPDATE of the row, and an INSERT of it when no row was updated.
EnableRow(c) ==
  /\ Step(c, "enable", "ask")
  /\ live' = live \cup {row[c]}
  /\ disabled' = disabled \ {row[c]}
  /\ UNCHANGED <<issued, session, owner, spent, closed, credential, leaked, accountVars, lock,
                 pc, reqVars, floor, target, row, completes, seen>>

\* completes_signup: no address of the account is confirmed yet.
AskCompletes(c) ==
  /\ Step(c, "ask", "confirm")
  /\ completes' = [completes EXCEPT ![c] = target[c] \notin verified]
  /\ UNCHANGED <<vars, target, row, seen>>

\* confirmation.confirm.
ConfirmAddress(c) ==
  /\ Step(c, "confirm", IF completes[c] /\ SessionOnVerification THEN "mint" ELSE "done")
  /\ verified' = verified \cup {target[c]}
  /\ UNCHANGED <<storeVars, standing, password, changes, expired, undone, lock, pc, reqVars,
                 floor, target, row, completes, seen>>

\* _start_session: a session for the browser that followed the link.
StartSession(c) ==
  LET u == target[c] IN
  /\ Step(c, "mint", "done")
  /\ \E t \in Token : Insert(t, t, u, password[u]) /\ live' = live \cup {t}
  /\ UNCHANGED <<disabled, spent, closed, leaked, accountVars, lock, pc, reqVars, floor, target,
                 row, completes, seen>>

\* The process serving a click dies.
CrashClick(c) ==
  /\ click[c] \notin {"new"} \cup Ended
  /\ click' = [click EXCEPT ![c] = "crashed"]
  /\ UNCHANGED <<vars, target, row, completes, seen>>

ServeClick(c) ==
  LoadRow(c) \/ EnableRow(c) \/ AskCompletes(c) \/ ConfirmAddress(c) \/ StartSession(c)

ConfirmNext ==
  \/ Next /\ UNCHANGED clickVars
  \/ \E c \in Click, u \in User : Follow(c, u)
  \/ \E c \in Click : ServeClick(c) \/ CrashClick(c)

ConfirmSpec == ConfirmInit /\ [][ConfirmNext]_allVars

\* A worker that has taken a request runs it to its end, and the database hands a released
\* row lock to one of those waiting.  Nothing is asked of the clicks, which hold no lock.
ConfirmFairSpec ==
  ConfirmSpec /\ \A r \in Req : WF_allVars(Serve(r) /\ UNCHANGED clickVars)

-----------------------------------------------------------------------------
ConfirmTypeOK ==
  /\ TypeOK
  /\ click \in [Click -> ClickPC]
  /\ target \in [Click -> User \cup {NoUser}]
  /\ row \in [Click -> 0..MaxToken]
  /\ completes \in [Click -> BOOLEAN]
  /\ seen \in [Click -> 0..issued]

\* The clicks that have written the row they loaded.
Enablers == {c \in Click : row[c] # 0 /\ click[c] \in {"ask", "confirm", "mint"} \cup Ended}

\* While verification is mandatory, a session of an unconfirmed account can only be
\* renewed if somebody has opened the confirmation link of that account.
UnconfirmedNeedsLink ==
  Mandatory =>
    \A t \in live \ disabled :
      owner[t] \in verified \/ \E c \in Enablers : target[c] = owner[t]

\* What a stale click does is confined: a token is live in a session that rotation or
\* revocation had taken it from only if a click put back a row of that session.
OnlyClicksResurrect ==
  \A t \in live : t \in spent \/ session[t] \in closed =>
    \E c \in Enablers : session[row[c]] = session[t]

\* A link that completed its course without dying leaves the account confirmed, and the
\* session of the sign-up, if it still is in the whitelist, can be rotated - unless the
\* link was followed before that session was minted, or an older one was there to be loaded.
ClickTurnsOn ==
  \A c \in Click : click[c] = "done" =>
    /\ target[c] \in verified
    /\ \A t \in live \cap disabled : owner[t] = target[c] =>
         t > seen[c] \/ row[c] \in 1..(t - 1)

=============================================================================
