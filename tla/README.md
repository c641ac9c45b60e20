# A verification of jwt-allauth

jwt-allauth adds JWT sessions, a refresh-token whitelist, credential flows and
TOTP to Django, on top of django-allauth and Simple JWT.  These modules specify
the part of it where correctness depends on the order in which concurrent
requests reach the database: the whitelist of refresh tokens, and the single-use
tokens, links, challenges and counters kept next to it.

Paths below are relative to the repository (`src/jwt_allauth/` unless said
otherwise).  A module's comment names the function an action translates;
`PROJECT.json` gives the lines.

## 1. Inventory

### Concurrency model

Requests are served by several workers over one database, at READ COMMITTED.
The library opens its own transactions and does not rely on `ATOMIC_REQUESTS`, so

* a statement outside `transaction.atomic()` commits by itself, and what a request
  has read may be stale when the request uses it;
* `user_sessions_lock` (`utils.py`) takes the row lock of the user for the length of
  a transaction, and orders what runs under it, and an UPDATE of that row waits for it;
* a DELETE removes the rows that it saw when it began: rows committed while it
  runs survive it.  This is the reason `user_sessions_lock` gives for itself;
* a worker may die between any two statements: its open transaction is rolled
  back, and what it committed before stays.

### Components

| Component | State | Operations | Where it is hard | What makes it correct |
| --- | --- | --- | --- | --- |
| Refresh-token whitelist (`tokens/tokens.py`, `tokens/models.py`, `utils.py`, `revocation.py`) | one row per token that can be rotated: jti, session, user, enabled; the row lock of the user | `RefreshToken.for_user`, `user_sessions_lock`, `revoke_on_credential_change` | rotation deletes and inserts, revocation deletes by session or user, both at once | one live token per session; consumed tokens stay dead; a revoked session stays revoked |
| Token rotation (`token_refresh/`) | none of its own | `validate`, `rotate`, `reject` | the rejection is applied in a second transaction | a replay revokes the whole session |
| Logout (`logout/`) | none | `/logout/`, `/logout-all/` | may run while the session is being rotated | after the answer nothing of the session is left |
| Login (`login/`) | `last_login` | password check, then mint or MFA challenge | a credential change between the check and the mint; claims are read before the token is built | a session belongs to the password in force; claims are no older than the login |
| Password change (`password_change/`) | the password, in the account row | save, revoke, mint | whole-row save; death between save and revocation | no earlier session survives |
| Sign-up (`registration/views.py`, `registration/serializers.py`) | account, address | claim the address, create the account, mail the link, mint a disabled session | the link may be followed before the mint; two sign-ups of one address | an unconfirmed account has no usable session while verification is mandatory |
| Confirmation link (`registration/email_verification/`) | addresses (allauth), whitelist row | enable the session, confirm the address, open a session; trade an invitation for a cookie | no lock; opened twice, by scanners and prefetches | enabling never revives a dead token |
| Password reset (`password_reset/`, `tokens/tokens.py`) | links and capabilities, rows of `GenericTokenModel` | mail a link, trade it for a cookie, redeem the cookie | claims by DELETE; a credential change in between | a link sets one password; stale links are worth nothing |
| Invitations (`registration/`, `adapter.py`, `SetPasswordView`) | the row of the mailed link, the capability | mail, click, replace the capability, set the first password | the link can be clicked again; two clicks at once; a click across the password being set | the latest click counts; a password ends the invitation; nobody is stranded while it lasts |
| MFA login (`mfa/views.py`, `mfa/gate.py`, `mfa/storage.py`) | challenges, recorded failures | create a challenge, verify, record, clear, purge | limits are checked before and recorded after the code is checked | guesses are bounded, a lockout ends |
| MFA enrolment (`mfa/views.py`) | set-up challenges, secrets, authenticators | set up, activate, deactivate | the authenticator exists before its first code was validated | activation happens once, for a secret of one's own |
| Token lifetime and claims (`tokens/tokens.py`, `authentication.py`) | claims of tokens | cap `exp`, compare the deadline, synchronise claims, check the session | boundaries | no token outlives its session |
| Roles and permissions (`roles.py`, `permissions.py`, `models.py`) | the role of an account, or its staff flags | derive the role, write it into claims, ask the claims | a role field may be absent, null or disagree with the flags; permissions read claims, never the account | a privilege taken away is gone one access token lifetime later |
| User details (`user_details/`) | none of its own | GET and PATCH of the profile | PATCH writes every column of an account it loaded earlier | only sessions opened later can use what it brings back |
| Settings (`apps.py`, `checks.py`, `app_settings.py`, `registration/urls.py`) | settings of the project | resolve the verification method, check the role field, choose the routes | two settings speak of verification, and endpoints, mails and routes each ask one of them | no combination the start-up accepts strands a sign-up |
| Retention purge (`tokens/purge.py`) | ages of rows | delete what is older than its retention | a retention shorter than a life | a purge changes no answer |
| Account addresses (`accounts.py`, `adapter.py`, `registration/serializers.py`) | addresses, accounts | claim, confirm, drop squatters | two claims of one address | one verified owner per address |
| Social login (`social/`) | provider accounts | login or sign-up, connect, disconnect | two disconnects at once; a provider connected to an account that owes a second factor, or that is gone by then | an account keeps a way to log in; connecting takes proof of the mailbox |
| Schema, throttling, CSRF, errors, scaffolding | - | framework glue, file generation | - | - |

Interactions: every component that opens a session calls `RefreshToken.for_user`;
every one that sets a password calls `revoke_on_credential_change`, which deletes
whitelist rows, generic tokens (links, capabilities, challenges, but not recorded MFA
failures) and pending addresses in one transaction under the lock.  The confirmation
view writes the whitelist row of a sign-up.  The components share nothing else than
the database.

## 2. Modules

    SessionStore          what the whitelist promises, operations atomic
      ^ implemented by
    Sessions              requests, statements, row locks, crashes     SessionsProofs
      ^ extended by       ^ extended by
    EmailConfirmation     Credentials       implements  Ticket, what a mailed link promises
                            EmailConfirmationProofs and CredentialsProofs extend SessionsProofs

    MFALogin              challenges and failure counters of one account   MFALoginProofs
    MFAEnrolment          the authenticator of one account             MFAEnrolmentProofs
    Invitations           one mailed invitation                        InvitationsProofs

    Settings              what the settings of a project amount to
      ^ extended by
    Accounts              everybody who wants one address              AccountsProofs

    TokenClock            one session, its claims and rows, over time
    Roles                 what is written into claims, and who asks them
      ^ both extended by
    Claims                what the tokens of a session say of an account that changes
                                                                TokenClockProofs, of both

The modules that stand apart share one call with the whitelist, `RefreshToken.for_user` or
`revoke_on_credential_change`, which is a step of theirs.  `Ticket` and `SessionStore` are the abstract
specifications: `Credentials` and `Sessions` instantiate them with a refinement mapping, and the
runs check the abstract specification as a property (`ImplementsTickets`, `ImplementsStore`).

An `MC...` module per specification adds the symmetry set where one is sound, and its `.cfg` files give the
constants.  Operators introduced as a mutant in a comment ("Mutant of Lock") are not part of
the specifications: each is a plausible bug, used to see that a property can fail.

### Sessions

| State | Code |
| --- | --- |
| `live`, `disabled`, `session`, `owner` | rows of `RefreshTokenWhitelistModel`, and the claims of the token a row stands for.  The pair (session, user) of a token never changes, so both are functions of the token number, and the number is the primary key |
| `standing`, `verified`, `password`, `changes` | `is_active`, confirmed `EmailAddress`, which password the hash is of, and how many there were |
| `expired` | sessions for which `RefreshToken.session_expired` holds |
| `lock` | who holds `SELECT ... FOR UPDATE` on the user |
| `pc`, `kind`, `subj`, `tok`, `scope`, `snap`, `ver`, `was` | a request: its next statement, and the local variables of its handler |
| `spent`, `closed`, `credential`, `floor`, `upto` | history: tokens that were rotated, sessions that a revocation deleted rows of, the password each session was opened with, the newest password whose revocation committed, the tokens there were when a revocation began |
| `leaked`, `undone` | history: sessions minted on an old password too late to be deleted with the others, accounts that a profile update has set back |

Every handler is a path through the actions, in the order of its statements:

    Login, Signup     -> Mint
    Refresh           -> Lock -> Rotate                      accepted or disabled
                                 Rotate -> Lock -> Delete -> Apply       rejected
    Logout, LogoutAll -> Lock -> Delete -> Apply
    Change, Reset     -> SavePassword -> Lock -> Delete -> Apply -> Mint
    LoadProfile       -> SaveProfile

and `Crash` may end it before any of them.  A path is as fine as the database allows others
to see it:

* `Rotate` is one step: once the user row and the whitelist row are locked, no statement of
  another writer modelled here reads or writes what it touches before it commits.  The one
  writer that ignores the locks is the confirmation view, which `EmailConfirmation`
  interleaves query by query.
* `Delete` and `Apply` are the beginning and the end of a DELETE.  Between them rows may be
  inserted by whoever does not wait for the lock: `Mint`.
* `Mint` is an INSERT without the lock.  On PostgreSQL its foreign key takes FOR KEY SHARE on
  the user row and so may wait for a holder of FOR UPDATE; the model lets it happen at any
  time, which covers every backend.
* `Login` runs inside `transaction.atomic` in the code.  At READ COMMITTED that does not order
  its read of the password against its INSERT, and the two steps of the model stay.
* With `ACCOUNT_PREVENT_ENUMERATION` a sign-up stops before the mint, which is a sign-up that
  crashes there.
* `SaveProfile` is `ModelSerializer.update`, which sets the fields of the profile and calls `save()` on an account loaded
  before: `UPDATE` of all columns, of which the model keeps the password and the standing.  `SavePassword` does the
  same with the standing.
* `Bearer` is who can send an authenticated request: authentication is stateless, so anyone
  who was ever given an access token.

### EmailConfirmation

Composes `Sessions` with openings of the confirmation link.  `Follow`, `LoadRow`, `EnableRow`,
`AskCompletes`, `ConfirmAddress` and `StartSession` are the queries of `VerifyEmailView.get`.
`EnableRow` is Django's `save()`: an UPDATE by primary key, and an INSERT when no row was
updated.  The view does not ask whose link it is: the link of a further address of a confirmed account takes the same
`save()`, so `Follow` is open to those, too, with `verified` saying whether the account has a confirmed address by then.
The branch for an invitation is `Invitations`.

### Credentials

Composes `Sessions` with reset mails and visits of the mailed links.  The single-use claim
`GenericTokenModel.consume` is `Claim` for a link and `Redeem` for a capability; `Redeem` is
joined with `Reset` of `Sessions`, and `Revoke` with `Apply`, so the commit that deletes the
sessions deletes links and capabilities as well.  That DELETE is not split in two as the one of the sessions is.  A DELETE
misses rows that are inserted while it runs, but the row of a link or of a capability refers to the account, and an INSERT of
it takes FOR KEY SHARE on the row that the revocation holds FOR UPDATE: it comes before the revocation or after it.  Sessions
are split because `SurvivorsExplained` is about just those that fall in between where a database does not lock so.  Django's check of a link is the comparison of
`made` with the password; `PASSWORD_RESET_TIMEOUT` and the last login, which a link depends on too, only remove
behaviours and are left out.  Two requests within one second derive the same link: one `Mail`.

`TicketState` is the refinement mapping to `Ticket`: a link is unknown, open, held by a visit, traded for a
capability, spent on a password, or dead, in that order and never back.

### MFALogin

One account, since every query of `mfa/storage.py` is about one.  `age` and the second index of
`attempts` are ages of rows, up to `Cap`, beyond which no query tells them apart.  `Present` to
`Answer` is one `/mfa/verify/` or `/mfa/verify-recovery/` request; the lockout is read in
`CheckLockout` and used after the code was checked, as in the view.  `tries` and `guesses` are
history variables.  Left out: a worker that dies between checking a code and recording the
failure (an uncounted guess per death), limits of 0 (which switch the limit off), the removal
of the authenticator.

### MFAEnrolment

One account again.  No view of enrolment opens a transaction, so every query is an action:
`CheckTOTP`, `DropSecrets`, `StoreSecret` for `/mfa/setup/`, `LoadSecret` to `Mint` for
`/mfa/activate/`; `Deactivate` is a single DELETE of both rows.  `totp` is the request whose activation
installed the authenticator, which is how a property can tell whose row was taken away.  A secret is named
by the request that stored it.  Which QR code a code comes from is the client's choice, so `CodeAccepted` and `CodeRejected`
are both possible, and the order of two secrets, which decides what `LoadSecret` loads, is left out.

### Invitations

One invited account - or one that is not, with a link of its own: `InviteInit` has every row
`send_confirmation_mail` writes, and the rows of earlier versions.  `Open` to `HandOver` is a click,
`Redeem` to `Respond` a `SetPasswordView.post`.  A capability is named by its click.  `Age` ends the window of the link, which
opens nothing from then on, `Purge` deletes its row, and `Lapse` is a capability that expires or is purged.  At a site with open
sign-up a link that is no invitation falls through to the default flow, of which this
module keeps only that it confirms the address; `EmailConfirmation` has the rest.

### Accounts and Settings

Every account and provider account that wants one address.  A request reads who holds the address (`Read...`) and
commits later (`Commit...`); what it read is in `list` and `target`.  The predicates `Proven`, `Claimed` and
`ClaimedByUse` are those of `accounts.py`, staff and superusers included; `Appoint` and `Dismiss` are an operator who edits
these flags, at any time.  `entered` is everyone a session was opened for.

The settings of a project are chosen in `AccountsInit` from `Project`, which holds any of those that `Settings` says the
start-up accepts: `ResolveEmailVerification` reconciles `EMAIL_VERIFICATION` with `ACCOUNT_EMAIL_VERIFICATION`, and the
predicates of `utils.py` decide which endpoints exist, whether a link is mailed, and whether its route does.  Two more decide
what a login leaves behind:

* `lastLogin` is `UPDATE_LAST_LOGIN`.  `Stamp` is what the code writes where it asks this setting: after a password login
  (`login/serializers.py`) and after a login by a provider (`social/flows.py`).  A sign-up that is logged in by
  `complete_signup` is stamped by a signal of Django's, which does not ask.
* `mode` is `JWT_ALLAUTH_MFA_TOTP_MODE`.  `MayOwe` is `second_factor_pending`: where MFA is required everybody is asked for a
  second factor, or to enrol one; where it is optional, who enrolled one, for which a session was needed.  The factor itself is
  that of `MFALogin` and `MFAEnrolment`; here it is answered at once or never.  A password login is challenged before
  it is stamped, and answering stamps nothing (`Login`); a login by a connected provider is stamped first (`SocialLogin`); a
  provider that is about to be connected is not, and nothing is stamped (`ChallengeLink`).

### TokenClock, Roles, Claims

`TokenClock` is one session in ticks, `Second` to a second.  `Epoch` drops the fraction, as claims do, and rows keep it.
`at` is when a token was built in memory: Simple JWT fixes `current_time` there, so a rotation that waits for the lock
computes its claims from an earlier instant than its row is created at.  `loaded` is when a login loaded the account whose
claims it writes, and `read` when the account behind each token was.  Rows of single-use tokens are not
state: what `purge` does to one depends on its age, so `PurgeTakesNothingGood` quantifies over every age.

`Roles` is `roles.py`, the claims of `tokens/tokens.py` and `permissions.py`, as functions of an account, of a
configured map of attributes and of claims; claims are plain functions from names to values.  `Claims` joins the two: the account and the map change at some instant, `Told`
folds `ForUser` and `SyncUserClaims` over the tokens of the session, and `ClaimsFollow` compares what is said with what a
login would say now.  The change is a quantifier in the property, so it ranges over every instant, every pair of accounts
and every pair of maps at no cost in states.

## 3. Runs

| Run | Question | Size |
| --- | --- | --- |
| `sessions` | Do interleaved rotations, logouts, resets, password changes and profile updates implement the atomic whitelist, and what does a password change not end? | 1 account, 4 requests, 4 tokens: 1.4 million states |
| `confirm` | What can the unlocked save of the confirmation view do to the whitelist, and does everybody get the row lock in the end? | 2 clicks beside 2 requests, 4 tokens: 660,000 states |
| `credentials` | Does every mailed link keep the promise of `Ticket`, which link works, and what is left of links after a credential change? | 2 mails, 3 visits, 2 requests, 2 passwords: 720,000 states |
| `mfa` | By how much can concurrent verifications exceed the guess budgets, and does a lockout end? | 2 requests, 2 challenges, window shorter than the life of a challenge: 760,000 states |
| `enrolment` | Whose authenticator survives concurrent activations and deactivations, which QR codes are good for one, and how many sessions does enrolling open? | 3 requests, 2 set-up challenges, MFA required or optional: 1.1 million states |
| `invitation` | Which click counts, and can an invited person be left without a way in before the window closes? | 3 clicks, 2 requests, open and closed sites, with and without revocation: 120,000 states |
| `accounts` | Who may supersede, link and disconnect whom, and is every sign-up confirmed or able to be? | 2 requests, 3 accounts, 2 provider accounts, 12 projects: 1.9 million states |
| `clock` | What do claims, session check and purge decide on each side of a deadline, and what do tokens say of an account that has changed? | 2 requests, 3 tokens, 2 ticks to a second, 5 ticks, refresh and access lifetimes unequal, with and without a session limit: 2.5 million states |
| `resurrected`, `old_password`, `mfa_limit`, `claimed` | Section 5 | small |

Bounds, and why they are enough:

* one account (one address in `Accounts`): no statement reads or writes rows of two accounts, and two accounts share no
  lock.  (The proofs about `Sessions` are for any number.)
* four requests: a session that is opened, rotated, revoked, and one request more to race with any of
  them; a credential change opens a session itself.
* `MaxToken`: a guard of `Insert` and of `Issue`.  A request that needs a token beyond it waits for ever, as if its
  worker hung outside a transaction - or inside one, in `Rotate`, which is why `EveryRequestEnds` runs with
  as many tokens as requests can use.
* `MaxPassword`: a guard of `Change` and `Reset` when they arrive; those under way together may go beyond it.
* two requests in `credentials`: a change or a redemption beside another request.  A profile update that undoes a password
  needs a third (to have been logged in), which `sessions` has; `RevocationTakesResets` allows for it.
* equal lifetimes in `clock` are left out for time: every deadline of theirs is one of those in an unequal pair.
* `Roles`: one role of the project's own beside the built-in ones, one attribute with one value or none; permissions and
  synchronisation treat every attribute and every further role alike.
* `Cap`: an age at which rows neither count nor protect anything.  It abstracts, it does not cut.
* three accounts: one that holds the address, one that supersedes it, and one that competes with that;
  two provider accounts, so that each can be the other's alternative.
* twelve projects (`Projects`): each of the three verification settings with each of the three registrations that differ, under
  Django's and the library's defaults (logins stamped as `lastLogin` says, MFA disabled); and, where every way in is open,
  mandatory verification with logins unstamped and MFA optional or required, and optional verification with
  MFA required.  The proofs are for any set of projects.
* staff (`FewStaff`, a constraint): in the projects that do not invite, and of accounts that signed up.  Staff only makes an
  account count as proven, as an invitation does where there are some; the proofs have staff everywhere.
* three clicks: two that replace the capability at once, and one before or after them.
* `MaxTime`: five ticks let a session of two seconds pass its deadline with both a rotation and a purge
  on either side.  Half a second is the coarsest tick that tells an instant from the second it is in.
* requests serve once in `Sessions` and `Invitations`: a client that sends another request is another slot.
  Elsewhere slots are reused, and counters are bounded by the limits themselves.

`CHECK_DEADLOCK FALSE` is set where slots are used up: a run in which all of them have ended stops.
`confirm` and `mfa` check liveness and use no symmetry.

Properties, by the hazard they are for:

* `OneTokenPerSession`, `SpentStaysDead`: two rotations of one token, a replay, a rotation after
  a rotation.  `RevocationTookEffect`: a rotation in flight when a logout, a rejected replay or a credential
  change deletes its session, or all sessions of its account.  `ImplementsStore`: all of these at
  once, and that nothing else happens to the whitelist.  `SurvivorsExplained`: logins, profile updates and dead
  processes across a password change; it lists the ways in which a session on an old password can be
  live, and so says that there is no other.
* `EveryRequestEnds`: a branch that keeps the row lock, a wait in a circle.
* `UnconfirmedNeedsLink`: a session usable before anybody followed the link.  `OnlyClicksResurrect`
  confines what `save()` of a stale row can bring back.  `ClickTurnsOn`: a click that
  lost a race and left the user with a dead session.
* `ImplementsTickets`, `LatestOnly`, `RevocationTakesResets`: a link opened twice, a cookie sent twice, a rejected
  password, reset requests that delete each other's links, visits that replace each other's capabilities, a credential
  change while links and cookies are outstanding.
* `LatestClick`, `PasswordEndsInvitation`: clicks at once, and a click that spans the password being set.
  `NoDeadEnd`: weak passwords, crashes, expiry and purges, each of which costs a capability.  It asks for a way in that works, and
  so for none when the window has passed without a password (Section 5).
* `ChallengeBudget`, `AccountBudget`: verifications at once, purges, fresh challenges, password changes,
  as ways to more guesses.  `LockoutEnds`: a lockout that renews itself.
* `BootstrapOnce`: set-up challenges presented twice.  `HalfEnrolled`: the view says an authenticator is not active
  until a code was validated, and yet installs it first; this is what that can leave behind.
  Likewise a deactivation between the two rows of an activation.  `ConfirmedStays`: a refused activation that deletes by
  type and not by key.  `OldSecretsEnd`: two setups at once, or one beside an activation or a credential change.
* `EnteredIsClaimed`: an account that was let in as an invitee and becomes free for the taking when the invitation
  expires.  It asks for settings under which a login leaves a mark, or needs a confirmed address (Section 5 has the others).
  `LinkNeedsProof`: a provider connected to an account that somebody registered for an address that is not theirs; an account that
  was made staff counts as its operator's word.
  `KeepsAWayIn`: disconnecting the last provider; two disconnects at once, each on the strength of
  the other, do get through, and so does an invitee whom a provider vouched for while MFA is required; the property says that
  nothing else does.
  `NoSignUpIsStranded`: verification demanded by one setting and its link switched off by another.
* `NothingOutlivesSession`: a rotation that moves the deadline, or stretches it while it waits.
  `ExposureBounded`: an access token handed out across a revocation.  `PurgeEndsNothing`, `PurgeTakesNothingGood`: a
  retention shorter than a life.  `PrivilegesFade`, `ClaimsFollow`: a privilege that outlives its withdrawal, carried by a
  login in flight, a rotation that does not read the account again, or a claim that the synchronisation leaves behind.

Each of them has a mutant that it catches (`PROJECT.json`, "mutants").

### Fairness

* `ConfirmFairSpec`: weak fairness of `Serve(r)`, for each request.  A worker that has taken a request runs it,
  and the database hands a released row lock to one of those that wait.  Weak fairness is enough
  because slots serve once: each holder ends and nobody can be overtaken for ever.  Nothing is asked of
  clicks, which hold no lock.  `Crash` is not fair: workers need not die, and when one does its
  transaction is rolled back.
* `MFAFairSpec`: weak fairness of `Tick` only.  Time passes; no request has to come for a lockout to end.

## 4. Proofs

For every value of the constants, from the named assumptions about them alone.  These say that a "none" value is
not a member of the set it stands beside and what the numbers are; that `TokenClock` has room for one token
(`MaxToken` is a bound of the model, and `ClockInit` has a session of one token); that the projects of `Accounts` have settings
the start-up accepts; and that `MFALogin` has finitely many requests and
challenges, without which a budget of "as many as run at once" would say nothing.

| Module | Theorem | Statement |
| --- | --- | --- |
| `SessionsProofs` | `Invariance` | `Spec => []IInv` |
| | `TypeCorrect` | `Spec => []TypeOK` |
| | `OneToken` | `Spec => []OneTokenPerSession` |
| | `ConsumedOnce` | `Spec => []SpentStaysDead` |
| | `RevocationIsFinal` | `Spec => []ClosedStaysClosed` |
| | `LogoutIsFinal` | `Spec => []RevocationTookEffect` |
| | `SurvivorsExplainedHolds` | `Spec => []SurvivorsExplained` |
| | `Refinement` | `Spec => ImplementsStore` |
| `MFAEnrolmentProofs` | `EnrolTypeCorrect`, `BootstrapOnceHolds`, `HalfEnrolledHolds`, `OldSecretsEndHolds` | `EnrolSpec => []` of each |
| | `ConfirmedStaysHolds` | `EnrolSpec => ConfirmedStays` |
| `InvitationsProofs` | `InviteTypeCorrect`, `LatestClickHolds`, `PasswordEndsInvitationHolds`, `NoDeadEndHolds` | `InviteSpec => []` of each |
| `AccountsProofs` | `AccountsTypeCorrect`, `EnteredIsClaimedHolds`, `LinkNeedsProofHolds`, `NoSignUpIsStrandedHolds`, `KeepsAWayInHolds` | `AccountsSpec => []` of each |
| `CredentialsProofs` | `CredTypeCorrect`, `LatestOnlyHolds`, `RevocationTakesResetsHolds` | `CredSpec => []` of each |
| | `TicketRefinement` | `CredSpec => ImplementsTickets` |
| | `SessionsRefinement` | `CredSpec => Spec` |
| | `ResetsEndSessions` | `CredSpec => ImplementsStore /\ []SurvivorsExplained` |
| `EmailConfirmationProofs` | `ConfirmTypeCorrect`, `UnconfirmedNeedsLinkHolds`, `OnlyClicksResurrectHolds`, `ClickTurnsOnHolds` | `ConfirmSpec => []` of each |
| `MFALoginProofs` | `MFATypeCorrect`, `ChallengeBudgetHolds`, `AccountBudgetHolds` | `MFASpec => []` of each |
| `TokenClockProofs` | `ClockTypeCorrect`, `NothingOutlivesSessionHolds`, `PurgeEndsNothingHolds`, `ExposureBoundedHolds`, `PrivilegesFadeHolds`, `PurgeTakesNothingGoodHolds`, `ClaimsFollowHolds` | `ClockSpec => []` of each |

Every invariant that a run checks is proved so.  None is inductive by itself; each module names what it needs.

`IInv` joins the four properties of `Sessions` with

* `TokensInv`: a token names a session that was opened before it, by a token of the same user, so
  that a new session is disjoint from all earlier ones, and "the session of the presented token"
  stays inside the account whose lock is held;
* `RequestsInv`: the kind, scope and token of a request agree with where it is, so that a request
  in `rotate` presents a token of the user whose lock it waited for;
* `LockInv`: a request in `rotate`, `delete` or `apply` holds the lock of its user - and so no other
  request on the same user is in one of them;
* `DeleteInv`: the rows that a DELETE saw are live until it ends, and are all rows of the session.
  It is what mutual exclusion buys: a rotation would both remove one of
  them and insert another, and the only insertion that takes no lock, `Mint`, starts a
  session of its own.

One lemma per action shows that a step preserves `IInv`; `Refinement` maps `Mint` to `Open`, an
accepted `Rotate` to `Exchange`, `Apply` to `Close` of the sessions it deleted, and every other step to a
stutter.  `DeleteInv` makes `Apply` a `Close`: without it a session could be closed by halves.

`SurvivorsExplained` needs three more, over `IInv`: `LateMintInv` (a session older than the last revocation was minted
late), `PendingInv` (while the DELETE of a change runs, an older session is among the rows it saw or was minted beside it)
and `LatestInv` (the latest password of an account was revoked for, or the request that set it is on the way or
died).  The second is inductive because a rotation, which could carry an old session past the DELETE, needs the lock.

`EnrolInv` adds `OwnsFactor` (a request past `Install` owns the authenticator, confirmed once its code was, unless a
deactivation came between), `OwnsSession` (where MFA is required nothing is deactivated, so the owner of the
authenticator is the only request that can get to the session) and `StoresBeside` (which setups have yet to store their
secret).  There is no lock: what excludes a second winner is the unique row of the authenticator.

`InviteInv` adds `ReplacedBeside` (since a click deleted the capabilities, only those it overlaps were stored),
`PromisedBefore` (a click that was promised a capability before there was a password is among those under way when
it was saved) and `ConfirmedFirst` (a capability comes after a confirmed address).  `NoDeadEnd` follows with: the row of the link is gone
only after its window, or after a password.

`AccountsInv` adds `EnteredByUse` (under the settings of `EnteredIsClaimed`, who was let in is verified or used; being invited or
staff does not enter into it, as either can end), `BornWithAWayIn` (a sign-up has a password, and who came by a provider was let
in with it), `InvitedByAdmin` (an open invitation is of an invited account) and `SlotsSound` (what a request read still holds
when it commits, or its account is gone).  For `KeepsAWayIn` that is that a disconnect in flight has an alternative on its list.
For `LinkNeedsProof` it is that an account which was found proven is still confirmed, invited or was staff, though it may be
dismissed in between: hence the history `appointed`.  `NoSignUpIsStranded` is inductive beside it, since the settings are among
those the start-up accepts and never change.

`CredInv` is `IInv` and `LatestInv`, which hold beside mails and visits as these write no row of the whitelist, with:
`Begun` (what a link, a visit and a capability have behind them), `InOrder` and `LastInserted` (a link that is gone
without having been used or revoked has a later one of the account; a mail that has yet to delete the others while a later one is
inserted is beside it), `ReplacedInTurn` (the same of capabilities), `Latest` (only a profile update puts an earlier password
back), `OpenedInForce` (a visit that has its link still to claim opened it with the password in force, and no revocation
came since) and `OneHolder` (one visit gets a link, one request the capability).  `TicketRefinement` reads the state of a link off where it
is: by `OneHolder` it is in one place, so a step moves it along one arrow of `Ticket`, or leaves it alone (`Moves`).
`SessionsRefinement` is the other direction of the composition: a step of `Credentials` is one of `Sessions` or leaves it alone, so
the theorems about `Sessions` hold beside mails and visits too.

`ConfirmInv` cannot contain `IInv`: a click writes its row without the lock, and brings back what a rotation or a DELETE removed,
so neither `OneTokenPerSession` nor `SpentStaysDead` nor `DeleteInv` holds beside it.  What does is `Core`: types, `TokensInv`,
`RequestsInv`, `LockInv`, and of `DeleteInv` only that the rows a DELETE saw are still there (`SnapInv`).  `SessionsProofs` therefore
proves `Core` by itself (`CoreNext`), and the rest of `IInv` over it.  To `Core` come `ClicksInv` (a loaded row
is of the account of the link), `MailboxInv` (while verification is mandatory, every token that can be rotated, and every request that
has given a password, is of an account that was opened), `ConfinedInv` (a session that no click has touched
has one live token, neither rotated nor of a closed session) and `SwitchInv` (from when a click has looked for a
row it leaves none of the account switched off, but for those of the exceptions of `ClickTurnsOn` and the one it is about to write).
`SwitchInv` needs that a click takes the least row that is switched off, which exists because the
naturals are well-founded.

`MFAInv` counts.  `AccountLimit` and `ChallengeLimit` bound what is recorded together with the requests that are past the
limit and have yet to record, so that the excess is never more than those; `GuessesRecorded` and `TriesRecorded` say
that a wrong code is a row or is about to be one, whatever is purged; `WinsLimit` that who has used a challenge has yet to
delete it, if it exists.  The sums are cardinalities of sets of units (`Units`, `Total`): a fold over the rows has no proof here, and a
cardinality follows from the lemmas about finite sets when a row is added, grows old or is dropped.

`ClockInv` starts from facts about whole seconds: what a claim loses of an instant is less than a second, and a lifetime of
whole seconds added to a claim is added to the instant it names (`EpochBefore`, `EpochAfter`, `InstantType`).  It joins `Newest` (the only
row is that of the newest token), `Opener` (a login has its session to itself), `OneDeadline` (one start, and no promise beyond it),
`StoredAfter` (claims are no younger than rows, rows no younger than those of successors, and a rotation reads the
account when it stores the row) and `Over` (a purged or closed session has no row and gets none).

`ClaimsFollow` is `PrivilegesFade` for what the claims say: the tokens with old claims are the first ones of
the session, so one that still works has new ones (`OldTokensAreGone`), and `LaterTokensTell` shows that such a token says what a
login would now, whatever the tokens before it said.  `Told` is a recursive function over the tokens, on which no induction theorem
can be used; the proofs take the least token for which the claim fails and look at its predecessor (`SomethingTold`, `AllWellformed`).

Model-checked only: `EveryRequestEnds` and `LockoutEnds`, since the prover does neither liveness nor ENABLED; and the runs of
Section 5, which are counterexamples.  `ConsumedOnce` is about `Sessions`; beside the confirmation view it
does not hold (Section 5), and `OnlyClicksResurrect` is what remains.

## 5. Where the code and its documentation disagree

1. `resurrected`.  "A refresh token is consumed exactly once" (`docs/source/refresh_token.rst`).  `VerifyEmailView.get`
   loads the oldest whitelist row and saves it back later, without a lock and without `update_fields`.  If the
   token of the row is rotated in between, which takes a session that is usable before confirmation
   (`optional` verification), `save()` re-inserts it.  `OnlyClicksResurrect` bounds the damage.
2. `old_password`.  "Every writer of the set takes this lock first" (`utils.py`).  `RefreshToken.for_user` does
   not, so a login that checked the old password can open a session after the DELETE of the
   password change began.
3. `mfa_limit`.  "Concurrent requests cannot exceed them" (`docs/source/mfa_totp.rst`).  Codes are checked
   before the lock is taken, so verifications that run at once are all checked.  The excess is at most
   the number of requests that run at once (`ChallengeBudget`, `AccountBudget`).
4. `claimed`.  An account that is verified or in use "is off limits" (`accounts.py`).  `_claim_email` lists the accounts it
   may supersede and deletes them in the same transaction, without a lock or a second look; at READ COMMITTED one that is
   confirmed or logged in to in between is deleted all the same.

Smaller ones are the exceptions the properties name: two clicks at once leave two capabilities of an invitation
(`LatestClick`); two disconnects at once leave nothing to log in with (`KeepsAWayIn`); a visit that has claimed a reset link
and not yet stored its capability is missed by a credential change (`RevocationTakesResets`); a click that spans the setting
of the first password hands out a capability after it (`PasswordEndsInvitation`); a link is purged in the last second of
its life, where `purge.py` says it can never be honoured again (`PurgeTakesNothingGood`); "only the latest one stays alive",
says `password_reset/views.py` of capabilities and `make_token` does of links, which two visits or two requests at once do not
keep to (`LatestOnly`).

Where a login leaves no mark, an account in use looks abandoned.  "`last_login` [...] does say the account has been worked in", says
`accounts.py`, "and that is enough to refuse to delete it".  But with `UPDATE_LAST_LOGIN` off nothing except a sign-up's own
login is stamped, and a password login that is asked for a second factor is not stamped at all.  An account that is in use but
unconfirmed can then be superseded by the next sign-up: one that failed before its sign-up was logged in, or an invitee whom a
provider vouched for, once the invitation has expired.  These are the settings that
`EnteredIsClaimed` sets aside.

Where MFA is required, an invitee whom a provider vouches for is challenged and left unconnected (`ChallengeLink`), with no
password either: what the exception of `KeepsAWayIn` is for.  "Login and set-password already require a verified address", says
`mfa/views.py` of challenges; this one does not, and only the enrolment asks for it, so the second such login, which has
a factor to verify, opens a session for an unconfirmed account under mandatory verification.

"A dead invitation should not keep an e-mail address hostage" (`accounts.py`).  One that was clicked does: the click confirms
the address, and a confirmed address cannot be invited or registered again.  If the window then passes without a
password, the link is refused, no reset is mailed to an account that has none, and what remains is a provider that vouches for the
address.  `NoDeadEnd` therefore promises nothing beyond the window.

`PATCH /user/` is a lost update: the account is loaded, validated and written back whole, so a password change or a
deactivation that commits in between is undone, and the replaced password is in force again.  No document speaks of it.  The
sessions the change had ended stay ended, as `SurvivorsExplained` says; what returns is the password.

Two documents disagree with the code without any protocol being involved: `docs/source/api_endpoints.rst` lists PUT for the
profile, which `UserDetailsView` does not serve, and the docstring of `BasePermissionStaffExcluded` describes another rule
than its `has_permission`, which `Roles` translates.

## 6. Plan

Every component of Section 1 that keeps state is modelled.  To come:

1. Proofs: the invariants and action properties of the runs are proved.  Next are what they do not say of the compositions:
   that `EmailConfirmation` implements the whitelist with clicks as a further way to open a session.
2. `Accounts` with `clean_email` as a function of addresses, so that two spellings of an address can meet.
3. `TokenClock` with settings that change between two deployments, the hazard of `PROJECT.json` that no property covers.

## 7. Not modelled

* Signatures, hashing, formats of tokens, cookies, CSRF, headers and throttling: a token is a number, and who
  may present it is part of the actions.
* django-allauth, Django's forms and Simple JWT, except for what the handlers use of them: `save()`, the
  password token generator, the e-mail confirmation.
* The start-up checks of `checks.py` other than that of the role field, which look at names, routes and versions and only
  ever warn; `app_settings.py`, which imports classes by name.
* Schema, the command-line scaffolding, test helpers: functions of their arguments, or file generation.
* GET of the profile, the list of authenticators, the report of unknown purposes: reads.
