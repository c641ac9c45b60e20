------------------------------- MODULE Accounts -------------------------------
(***************************************************************************)
(* Who holds an e-mail address: sign-ups, invitations and identity         *)
(* providers compete for it.  An account nobody claimed is superseded by   *)
(* the next sign-up; a provider that vouches for the address is connected  *)
(* to the account whose owner has proved control of the mailbox.           *)
(*                                                                         *)
(* Every query is about one address, so there is one here.  The verdict    *)
(* about it is reached before the writes that rest on it: the read and the *)
(* commit of each request are two actions.  Which of the ways in are open, *)
(* and what becomes of an unconfirmed address, is up to the settings.      *)
(***************************************************************************)
EXTENDS Settings

CONSTANTS
  Project,      \* the settings of the projects considered
  Req,          \* request slots; a slot serves one request after another
  Account,      \* account identifiers, none of which is used twice
  NoAccount,    \* the owner of a provider account that is not connected
  Provider,     \* provider accounts, all of which vouch for the address
  NoProvider    \* what a request works on that is about none

\* JWT_ALLAUTH_MFA_TOTP_MODE.
Mode == {"disabled", "optional", "required"}

ASSUME AccountsAssumption ==
  /\ NoAccount \notin Account /\ NoProvider \notin Provider
  /\ Project \subseteq [verification : Verification, registration : Registration,
                         UPDATE_LAST_LOGIN : BOOLEAN, mode : Mode]

VARIABLES
  verification, \* the settings of e-mail verification, once reconciled
  registration, \* the settings of invitations and self-registration
  lastLogin,    \* UPDATE_LAST_LOGIN: a login stamps the account
  mode,         \* the setting of MFA
  origin,       \* how each account came about; "none" has not yet, "gone" is deleted
  accounts,     \* the accounts that exist
  holds,        \* the accounts that have an EmailAddress row of the address
  verified,     \* the accounts whose row is verified
  used,         \* the accounts with a last_login
  password,     \* the accounts with a usable password
  invited,      \* the accounts with an open invitation
  staff,        \* the accounts that are staff or superuser
  conn,         \* the account each provider account is connected to
  pc,           \* what a request does next
  target,       \* the account it works on
  via,          \* the provider account it works on
  list,         \* what it read: the accounts to supersede, or the caller's connections
  \* history, all but the last of accounts that exist
  entered,      \* the accounts a session was opened for
  appointed,    \* the accounts that were staff or superuser at some time
  linked,       \* the accounts a provider was connected to because of the address
  raced,        \* accounts disconnected on a list that was out of date
  wronged       \* accounts destroyed after somebody had come to own or use them

projectVars == <<verification, registration, lastLogin, mode>>
accountVars == <<origin, accounts, holds, verified, used, password, invited, staff>>
slotVars == <<pc, target, via, list>>
histVars == <<entered, appointed, linked, raced, wronged>>
allVars == <<projectVars, accountVars, conn, slotVars, histVars>>

Origin == {"none", "signup", "invited", "social", "gone"}
PC == {"idle", "signup", "stamp", "invite", "link", "create", "unlink"}

AccountsInit ==
  /\ \E project \in Project :
       /\ verification = project.verification /\ registration = project.registration
       /\ lastLogin = project.UPDATE_LAST_LOGIN /\ mode = project.mode
  /\ origin = [a \in Account |-> "none"]
  /\ accounts = {} /\ holds = {} /\ verified = {} /\ used = {}
  /\ password = {} /\ invited = {} /\ staff = {}
  /\ conn = [p \in Provider |-> NoAccount]
  /\ pc = [r \in Req |-> "idle"]
  /\ target = [r \in Req |-> NoAccount]
  /\ via = [r \in Req |-> NoProvider]
  /\ list = [r \in Req |-> {}]
  /\ entered = {} /\ appointed = {} /\ linked = {} /\ raced = {} /\ wronged = {}

Connections(a) == {p \in Provider : conn[p] = a}

\* mailbox_control_proven.
Proven(a) == a \in staff \/ a \in verified \/ (a \in invited /\ a \notin password)

\* account_is_claimed.
Claimed(a) == a \in used \/ Proven(a)

\* The same with reserve_invitations=False.
ClaimedByUse(a) == a \in used \/ a \in staff \/ a \in verified

\* second_factor_pending: with MFA required every account owes a second factor; with MFA
\* optional those that enrolled one, for which they needed a session.
MayOwe(a) == mode = "required" \/ (mode = "optional" /\ a \in entered)

MayOweNothing == mode # "required"

\* update_last_login, where the code asks the setting first.
Stamp(a) == IF lastLogin THEN {a} ELSE {}

\* A request is answered, or takes its next step after what it read.
Answer(r) ==
  /\ pc' = [pc EXCEPT ![r] = "idle"]
  /\ target' = [target EXCEPT ![r] = NoAccount]
  /\ via' = [via EXCEPT ![r] = NoProvider]
  /\ list' = [list EXCEPT ![r] = {}]

Proceed(r, step, a, p, read) ==
  /\ pc[r] = "idle"
  /\ pc' = [pc EXCEPT ![r] = step]
  /\ target' = [target EXCEPT ![r] = a]
  /\ via' = [via EXCEPT ![r] = p]
  /\ list' = [list EXCEPT ![r] = read]
  /\ UNCHANGED <<projectVars, accountVars, conn, histVars>>

\* A transaction deletes the accounts vs, whole, and creates account a of origin o, with
\* the address.  When another account holds it by then, a may be left without.
Supersede(vs, a, o) ==
  LET rest == holds \ vs IN
  /\ origin[a] = "none"
  /\ origin' = [b \in Account |-> IF b = a THEN o ELSE IF b \in vs THEN "gone" ELSE origin[b]]
  /\ accounts' = (accounts \ vs) \cup {a}
  /\ staff' = staff \ vs /\ appointed' = appointed \ vs
  /\ linked' = linked \ vs /\ raced' = raced \ vs
  /\ \/ holds' = rest \cup {a}
     \/ rest # {} /\ holds' = rest
  /\ wronged' = wronged \cup {v \in vs \cap accounts : ClaimedByUse(v)}

\* Mutant of Kept: the connections of a deleted account stay.
KeptAll(vs) == conn

\* The connections left when the accounts vs are gone.
Kept(vs) == [p \in Provider |-> IF conn[p] \in vs THEN NoAccount ELSE conn[p]]

-----------------------------------------------------------------------------
\* RegisterSerializer._claim_email: nobody claimed the address, or the request is refused.
ReadSignUp(r) ==
  /\ SelfRegistrationEnabled(registration)
  /\ \A a \in holds : ~ Claimed(a)
  /\ Proceed(r, "signup", NoAccount, NoProvider, holds)

\* RegisterSerializer.save: the accounts superseded go, and the new one comes, confirmed at
\* once if no link is going to be.
CommitSignUp(r) ==
  LET vs == list[r] IN
  /\ pc[r] = "signup"
  /\ \E a \in Account :
       /\ Supersede(vs, a, "signup")
       /\ password' = (password \ vs) \cup {a}
       /\ target' = [target EXCEPT ![r] = a]
       /\ verified' = (verified \ vs) \cup
            (IF VerificationEnabled(verification) \/ ~ verified \subseteq vs
             THEN {} ELSE {a} \cap holds')
  /\ used' = used \ vs /\ invited' = invited \ vs
  /\ conn' = Kept(vs)
  /\ pc' = [pc EXCEPT ![r] = "stamp"]
  /\ list' = [list EXCEPT ![r] = {}]
  /\ entered' = entered \ vs
  /\ UNCHANGED <<projectVars, via>>

\* RegisterView.perform_create: complete_signup logs the account in unless verification is
\* mandatory, and a session follows.  An account that is gone by now fails the request.
StampSignUp(r) ==
  LET in == {target[r]} \cap accounts IN
  /\ pc[r] = "stamp"
  /\ Answer(r)
  /\ IF VerificationIsMandatory(verification) THEN UNCHANGED <<used, entered>>
     ELSE used' = used \cup in /\ entered' = entered \cup in
  /\ UNCHANGED <<projectVars, origin, accounts, holds, verified, password, invited, staff, conn,
                 appointed, linked, raced, wronged>>

\* UserRegisterSerializer: an administrator may supersede an invitation, too ...
ReadInvite(r) ==
  /\ InvitationsEnabled(registration)
  /\ \A a \in holds : ~ ClaimedByUse(a)
  /\ Proceed(r, "invite", NoAccount, NoProvider, holds)

\* ... and the new account has no password but an open invitation.
CommitInvite(r) ==
  LET vs == list[r] IN
  /\ pc[r] = "invite"
  /\ Answer(r)
  /\ \E a \in Account :
       /\ Supersede(vs, a, "invited")
       /\ invited' = (invited \ vs) \cup {a}
  /\ verified' = verified \ vs /\ used' = used \ vs /\ password' = password \ vs
  /\ conn' = Kept(vs)
  /\ entered' = entered \ vs
  /\ UNCHANGED projectVars

\* The invitation link expires.
ExpireInvitation(a) ==
  /\ a \in invited
  /\ invited' = invited \ {a}
  /\ UNCHANGED <<projectVars, origin, accounts, holds, verified, used, password, staff, conn,
                 slotVars, histVars>>

\* An operator makes an account staff or superuser, or an ordinary one again.
Appoint(a) ==
  /\ a \in accounts \ staff
  /\ staff' = staff \cup {a} /\ appointed' = appointed \cup {a}
  /\ UNCHANGED <<projectVars, origin, accounts, holds, verified, used, password, invited, conn,
                 slotVars, entered, linked, raced, wronged>>

Dismiss(a) ==
  /\ a \in staff
  /\ staff' = staff \ {a}
  /\ UNCHANGED <<projectVars, origin, accounts, holds, verified, used, password, invited, conn,
                 slotVars, histVars>>

\* The confirmation link is opened, if there is one; an address has one verified row at most.
Confirm(a) ==
  /\ a \in holds /\ verified = {}
  /\ LinkIsRouted(verification, registration)
  /\ origin[a] = "signup" => LinkIsMailed(verification)
  /\ origin[a] = "invited" => a \in invited
  /\ verified' = {a}
  /\ UNCHANGED <<projectVars, origin, accounts, holds, used, password, invited, staff, conn,
                 slotVars, histVars>>

\* SetPasswordView.post: an invitee redeems the capability that the link was traded for.
SetPassword(a) ==
  /\ a \in verified \ password /\ origin[a] = "invited"
  /\ password' = password \cup {a}
  /\ invited' = invited \ {a}
  /\ entered' = entered \cup {a}
  /\ UNCHANGED <<projectVars, origin, accounts, holds, verified, used, staff, conn, slotVars,
                 appointed, linked, raced, wronged>>

\* A login opens a session, at once or when its second factor is answered; an account whose
\* address is unconfirmed is refused while verification is mandatory.
LetIn(a) ==
  /\ VerificationIsMandatory(verification) => a \in verified
  /\ entered' = entered \cup {a}
  /\ UNCHANGED <<projectVars, origin, accounts, holds, verified, password, invited, staff, conn,
                 slotVars, appointed, linked, raced, wronged>>

\* LoginSerializer.validate: the second factor is asked for before last_login is stamped,
\* and the views that open the session when it is answered stamp nothing.
Login(a) ==
  /\ a \in accounts \cap password
  /\ LetIn(a)
  /\ \/ MayOweNothing /\ used' = used \cup Stamp(a)
     \/ MayOwe(a) /\ UNCHANGED used

\* authenticate_social_login, with a provider account that is connected: the stamp comes first.
SocialLogin(p) ==
  /\ conn[p] # NoAccount
  /\ LetIn(conn[p])
  /\ used' = used \cup Stamp(conn[p])

-----------------------------------------------------------------------------
\* Mutant of ReadLink: registration's predicate decides.
ReadLinkClaimed(r, p) ==
  /\ conn[p] = NoAccount
  /\ \E a \in holds : Claimed(a) /\ Proceed(r, "link", a, p, {})

\* resolve_email_for_provider, for a provider account that is not: somebody proved control
\* of the mailbox ...
ReadLink(r, p) ==
  /\ conn[p] = NoAccount
  /\ \E a \in holds : Proven(a) /\ Proceed(r, "link", a, p, {})

\* ... or nobody did and nobody uses the account either, or the request is refused.
ReadCreate(r, p) ==
  /\ SelfRegistrationEnabled(registration)
  /\ conn[p] = NoAccount
  /\ \A a \in holds : ~ Proven(a) /\ a \notin used
  /\ Proceed(r, "create", NoAccount, p, holds)

\* Mutant of Link: the login is not recorded on the account.
LinkUnstamped(a, p) ==
  /\ conn' = [conn EXCEPT ![p] = a]
  /\ linked' = linked \cup {a}
  /\ entered' = entered \cup {a}
  /\ UNCHANGED used

\* sociallogin.connect, update_last_login and the session.
Link(a, p) ==
  /\ conn' = [conn EXCEPT ![p] = a]
  /\ linked' = linked \cup {a}
  /\ entered' = entered \cup {a}
  /\ used' = used \cup Stamp(a)

\* The transaction is rolled back when somebody else connected the provider account, when
\* the owner is gone, and when the address is unconfirmed while verification is mandatory.
CommitLink(r) ==
  LET a == target[r]
      p == via[r]
  IN
  /\ pc[r] = "link" /\ MayOweNothing
  /\ IF conn[p] = NoAccount /\ a \in accounts /\ (VerificationIsMandatory(verification) => a \in verified)
     THEN Link(a, p) ELSE UNCHANGED <<conn, linked, entered, used>>
  /\ Answer(r)
  /\ UNCHANGED <<projectVars, origin, accounts, holds, verified, password, invited, staff,
                 appointed, raced, wronged>>

\* SocialSecondFactorPending: an owner who owes a second factor is challenged before anything
\* else is asked, and nothing is connected nor stamped.  The answer opens a session.
ChallengeLink(r) ==
  LET a == target[r] IN
  /\ pc[r] = "link" /\ a \in accounts /\ MayOwe(a)
  /\ entered' = entered \cup {a}
  /\ Answer(r)
  /\ UNCHANGED <<projectVars, accountVars, conn, appointed, linked, raced, wronged>>

\* _signup: the accounts superseded go, and the new one comes with the provider account and,
\* if it got the address, a verified row of it.  It is stamped as the other logins are.
CommitCreate(r) ==
  LET vs == list[r]
      p == via[r]
  IN
  /\ pc[r] = "create" /\ conn[p] = NoAccount
  /\ \E a \in Account :
       /\ Supersede(vs, a, "social")
       /\ verified' = (verified \ vs) \cup ({a} \cap holds')
       /\ a \in holds' => verified \subseteq vs
       /\ VerificationIsMandatory(verification) => a \in verified'
       /\ used' = (used \ vs) \cup Stamp(a)
       /\ conn' = [Kept(vs) EXCEPT ![p] = a]
       /\ entered' = (entered \ vs) \cup {a}
  /\ password' = password \ vs /\ invited' = invited \ vs
  /\ Answer(r)
  /\ UNCHANGED projectVars

\* connect_social_login, for a caller with a session.
Connect(a, p) ==
  /\ conn[p] = NoAccount /\ a \in accounts \cap entered
  /\ conn' = [conn EXCEPT ![p] = a]
  /\ UNCHANGED <<projectVars, accountVars, slotVars, histVars>>

\* Mutant of ReadDisconnect: the account need not keep a way in.
ReadDisconnectAny(r, p) ==
  /\ conn[p] \in entered
  /\ Proceed(r, "unlink", conn[p], p, Connections(conn[p]))

\* SocialAccountDisconnectView.delete lists the connections of the caller; the last one of
\* an account without a password stays.
ReadDisconnect(r, p) ==
  /\ conn[p] \in entered
  /\ Connections(conn[p]) # {p} \/ conn[p] \in password
  /\ Proceed(r, "unlink", conn[p], p, Connections(conn[p]))

\* The row goes by its primary key: no other request finds it, nor deletes one that has
\* been connected since.
CommitDisconnect(r) ==
  LET a == target[r]
      p == via[r]
      same == {q \in Req : pc[q] = "unlink" /\ via[q] = p /\ target[q] = a}
  IN
  /\ pc[r] = "unlink"
  /\ conn' = [conn EXCEPT ![p] = IF @ = a THEN NoAccount ELSE @]
  /\ raced' = IF list[r] \subseteq Connections(a) THEN raced ELSE raced \cup ({a} \cap accounts)
  /\ pc' = [pc EXCEPT ![r] = "idle"]
  /\ target' = [q \in Req |-> IF q \in same THEN NoAccount ELSE target[q]]
  /\ via' = [via EXCEPT ![r] = NoProvider]
  /\ list' = [list EXCEPT ![r] = {}]
  /\ UNCHANGED <<projectVars, accountVars, entered, appointed, linked, wronged>>

\* A request fails before it commits, or its process dies.
Fail(r) ==
  /\ pc[r] # "idle"
  /\ Answer(r)
  /\ UNCHANGED <<projectVars, accountVars, conn, histVars>>

AccountsNext ==
  \/ \E r \in Req :
       \/ ReadSignUp(r) \/ CommitSignUp(r) \/ StampSignUp(r)
       \/ ReadInvite(r) \/ CommitInvite(r)
       \/ CommitLink(r) \/ ChallengeLink(r) \/ CommitCreate(r) \/ CommitDisconnect(r)
       \/ Fail(r)
  \/ \E r \in Req, p \in Provider : ReadLink(r, p) \/ ReadCreate(r, p) \/ ReadDisconnect(r, p)
  \/ \E a \in Account :
       \/ ExpireInvitation(a) \/ Appoint(a) \/ Dismiss(a)
       \/ Confirm(a) \/ SetPassword(a) \/ Login(a)
  \/ \E p \in Provider : SocialLogin(p)
  \/ \E a \in Account, p \in Provider : Connect(a, p)

AccountsSpec == AccountsInit /\ [][AccountsNext]_allVars

-----------------------------------------------------------------------------
AccountsTypeOK ==
  /\ verification \in Verification /\ registration \in Registration
  /\ lastLogin \in BOOLEAN /\ mode \in Mode
  /\ origin \in [Account -> Origin]
  /\ accounts = {a \in Account : origin[a] \notin {"none", "gone"}}
  /\ holds \subseteq accounts /\ verified \subseteq holds
  /\ used \subseteq accounts /\ password \subseteq accounts /\ invited \subseteq accounts
  /\ staff \subseteq accounts \cap appointed
  /\ conn \in [Provider -> accounts \cup {NoAccount}]
  /\ pc \in [Req -> PC]
  /\ target \in [Req -> Account \cup {NoAccount}]
  /\ via \in [Req -> Provider \cup {NoProvider}]
  /\ list \in [Req -> (SUBSET Account) \cup (SUBSET Provider)]
  /\ entered \subseteq accounts /\ appointed \subseteq accounts /\ linked \subseteq accounts
  /\ raced \subseteq accounts /\ wronged \subseteq Account

\* Whoever was let in is safe from the sign-ups that come later: the account counts as
\* claimed for as long as it exists, even once the invitation that let a provider connect to
\* it has expired.  That takes a stamp on every login or a confirmed address behind it, and a
\* second factor that is not asked of an account nobody was let into: where logins are not
\* stamped, or a second factor comes between, an account in use looks abandoned.
EnteredIsClaimed ==
  mode # "required" /\ (lastLogin \/ VerificationIsMandatory(verification)) =>
    \A a \in entered : Claimed(a)

\* A provider that vouches for the address is connected to no account whose owner only
\* typed it: that account is confirmed, or an administrator created it for the address or
\* made it staff.
LinkNeedsProof ==
  \A a \in linked :
    a \in verified \/ origin[a] = "invited" \/ a \in appointed

\* social/views.py, SocialAccountDisconnectView: nobody who was let in is left without a
\* way in, except by disconnecting two providers at once, each on the strength of the other,
\* and but for an invitee whom a provider vouched for while MFA is required: the challenge
\* that answers the provider leaves it unconnected.
KeepsAWayIn ==
  \A a \in entered :
    \/ a \in password \/ Connections(a) # {} \/ a \in raced
    \/ mode = "required" /\ origin[a] = "invited"

\* apps.py, _resolve_email_verification: whatever the settings say, a sign-up can become
\* the verified owner of the address it holds, unless somebody else is: either it was
\* confirmed at once, or a link is mailed and routed.  Only the account wrongly destroyed
\* may have been in the way.
NoSignUpIsStranded ==
  verified = {} /\ wronged = {} =>
    \A a \in holds : origin[a] = "signup" =>
      LinkIsMailed(verification) /\ LinkIsRouted(verification, registration)

\* accounts.py, superseded_accounts: an account that is verified or in use is off limits, as is staff.
ClaimedIsOffLimits == wronged = {}

=============================================================================
