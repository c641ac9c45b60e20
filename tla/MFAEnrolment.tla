----------------------------- MODULE MFAEnrolment -----------------------------
(***************************************************************************)
(* Enrolling an authenticator: /mfa/setup/ stores a secret, /mfa/activate/ *)
(* installs the authenticator and confirms a code from it, and             *)
(* /mfa/deactivate/ removes it.  Where MFA is required, a login of an      *)
(* account without one hands out a setup challenge, which authorizes both  *)
(* views in place of a session and buys a session at the end.              *)
(*                                                                         *)
(* None of these views opens a transaction: every query is an action.      *)
(* Every query is about one account, so there is one here.  A row that has *)
(* expired answers like one that is gone, and is modelled as gone.  A      *)
(* secret is named by the request that stored it.                          *)
(***************************************************************************)
EXTENDS Naturals

CONSTANTS
  Req,          \* request slots; a slot serves one request after another
  NoReq,        \* the installer of no authenticator
  Challenge,    \* setup challenge identifiers
  NoChallenge   \* a request that carries no setup challenge

ASSUME EnrolAssumption == NoReq \notin Req /\ NoChallenge \notin Challenge

VARIABLES
  required,     \* JWT_ALLAUTH_MFA_TOTP_MODE: required, else optional
  setup,        \* the setup challenges whose row exists
  secret,       \* the requests whose setup secret is stored
  totp,         \* the request whose activation installed the authenticator
  recovery,     \* whether there are recovery codes
  verified,     \* whether the address is confirmed, or need not be
  session,      \* whether the owner holds an access token
  pc,           \* what a request does next
  on,           \* the setup challenge it carries
  \* history
  proved,       \* whether a code from the installed authenticator was confirmed
  racing,       \* the setups that had yet to store theirs when secrets were last deleted
  torn,         \* whether a deactivation hit an activation between its two rows
  sessions      \* how many sessions enrolling has opened, by state

factorVars == <<setup, secret, totp, recovery>>
enrolReqVars == <<pc, on>>
enrolHistVars == <<racing, proved, torn, sessions>>
ownerVars == <<required, verified, session>>
enrolVars == <<ownerVars, factorVars, enrolReqVars, enrolHistVars>>

EnrolPC == {"idle", "challenge", "check", "drop", "store", "load", "install", "validate",
            "secret", "codes", "consume", "mint", "crashed"}

EnrolInit ==
  /\ required \in BOOLEAN
  /\ setup = {} /\ secret = {} /\ totp = NoReq /\ recovery = FALSE
  /\ verified \in BOOLEAN /\ session \in BOOLEAN
  /\ session \/ required     \* where MFA is optional a login opens a session
  /\ pc = [r \in Req |-> "idle"]
  /\ on = [r \in Req |-> NoChallenge]
  /\ racing = {} /\ proved = FALSE /\ torn = FALSE
  /\ sessions = [enabled |-> 0, disabled |-> 0]

HasTOTP == totp # NoReq

Move(r, from, to) == pc[r] = from /\ pc' = [pc EXCEPT ![r] = to]

\* A request is answered.
Answer(r, from) ==
  /\ Move(r, from, "idle")
  /\ on' = [on EXCEPT ![r] = NoChallenge]

\* DELETE of every secret of the account; a setup about to store one is not held up.
DeleteSecrets ==
  /\ secret' = {}
  /\ racing' = {q \in Req : pc'[q] = "store"}

-----------------------------------------------------------------------------
\* mfa_challenge, for an account that has no authenticator while MFA is required ...
Login(r) ==
  /\ required /\ ~ HasTOTP
  /\ Move(r, "idle", "challenge")
  /\ UNCHANGED <<ownerVars, factorVars, on, enrolHistVars>>

\* Mutant of CreateChallenge: the identifier may be blank.
CreateBlank(r) ==
  /\ Answer(r, "challenge")
  /\ \E c \in Challenge \cup {NoChallenge} : setup' = setup \cup {c}
  /\ UNCHANGED <<ownerVars, secret, totp, recovery, enrolHistVars>>

\* ... creates a setup challenge with an identifier never used before.
CreateChallenge(r) ==
  /\ Answer(r, "challenge")
  /\ \E c \in Challenge \ setup :
       /\ \A q \in Req : on[q] # c
       /\ setup' = setup \cup {c}
  /\ UNCHANGED <<ownerVars, secret, totp, recovery, enrolHistVars>>

\* IsAuthenticatedOrHasMFASetupChallenge: a caller with a session passes whatever it
\* carries, any other one by a challenge in force.
Enter(r, first) ==
  /\ Move(r, "idle", first)
  /\ \/ session /\ \E c \in Challenge \cup {NoChallenge} : on' = [on EXCEPT ![r] = c]
     \/ \E c \in setup : on' = [on EXCEPT ![r] = c]
  /\ UNCHANGED <<ownerVars, factorVars, enrolHistVars>>

Setup(r) == Enter(r, "check")
Activate(r) == Enter(r, "load")

\* MFASetupView.post refuses an account that has an authenticator ...
CheckTOTP(r) ==
  /\ IF HasTOTP THEN Answer(r, "check") ELSE Move(r, "check", "drop") /\ UNCHANGED on
  /\ UNCHANGED <<ownerVars, factorVars, enrolHistVars>>

\* ... and store_setup_secret deletes the secrets of the account, then inserts one.
DropSecrets(r) ==
  /\ Move(r, "drop", "store")
  /\ DeleteSecrets
  /\ UNCHANGED <<ownerVars, setup, totp, recovery, on, proved, torn, sessions>>

StoreSecret(r) ==
  /\ Answer(r, "store")
  /\ secret' = secret \cup {r}
  /\ UNCHANGED <<ownerVars, setup, totp, recovery, enrolHistVars>>

\* load_setup_secret loads the latest.  Whether that is the one the client has scanned is up to
\* the client.
LoadSecret(r) ==
  /\ IF secret # {} THEN Move(r, "load", "install") /\ UNCHANGED on ELSE Answer(r, "load")
  /\ UNCHANGED <<ownerVars, factorVars, enrolHistVars>>

\* TOTP.activate inserts the authenticator before any code of it is checked; a second one
\* of the account breaks the unique constraint, and the request fails.
Install(r) ==
  /\ IF HasTOTP
     THEN Answer(r, "install") /\ UNCHANGED <<totp, proved>>
     ELSE /\ Move(r, "install", "validate") /\ UNCHANGED on
          /\ totp' = r /\ proved' = FALSE
  /\ UNCHANGED <<ownerVars, setup, secret, recovery, racing, torn, sessions>>

\* The code is right.  The check reads no row: the authenticator may be gone by now.
CodeAccepted(r) ==
  /\ Move(r, "validate", "secret")
  /\ proved' = (proved \/ totp = r)
  /\ UNCHANGED <<ownerVars, factorVars, on, racing, torn, sessions>>

\* Mutants of CodeRejected: the authenticator of the account is deleted, not the one this
\* request installed; or none is.
CodeRejectedByType(r) ==
  /\ Answer(r, "validate")
  /\ totp' = NoReq /\ proved' = FALSE
  /\ UNCHANGED <<ownerVars, setup, secret, recovery, racing, torn, sessions>>

CodeRejectedKeeping(r) ==
  /\ Answer(r, "validate")
  /\ UNCHANGED <<ownerVars, factorVars, enrolHistVars>>

\* The code is wrong: temp_totp.instance.delete(), by primary key.
CodeRejected(r) ==
  /\ Answer(r, "validate")
  /\ totp' = IF totp = r THEN NoReq ELSE totp
  /\ proved' = (proved /\ totp # r)
  /\ UNCHANGED <<ownerVars, setup, secret, recovery, racing, torn, sessions>>

\* delete_setup_secret.
ForgetSecret(r) ==
  /\ Move(r, "secret", "codes")
  /\ DeleteSecrets
  /\ UNCHANGED <<ownerVars, setup, totp, recovery, on, proved, torn, sessions>>

\* RecoveryCodes.activate gets the codes or creates them.  Without a setup challenge the
\* request is answered.
GetRecoveryCodes(r) ==
  /\ IF on[r] = NoChallenge THEN Answer(r, "codes")
     ELSE Move(r, "codes", "consume") /\ UNCHANGED on
  /\ recovery' = TRUE
  /\ UNCHANGED <<ownerVars, setup, secret, totp, enrolHistVars>>

\* delete_setup_challenge; where MFA is required the session follows.
ConsumeChallenge(r) ==
  /\ setup' = setup \ {on[r]}
  /\ IF required THEN Move(r, "consume", "mint") /\ UNCHANGED on ELSE Answer(r, "consume")
  /\ UNCHANGED <<ownerVars, secret, totp, recovery, enrolHistVars>>

\* RefreshToken.for_user: disabled while the address waits for its confirmation.
Mint(r) ==
  /\ Answer(r, "mint")
  /\ sessions' = IF verified THEN [sessions EXCEPT !.enabled = @ + 1]
                             ELSE [sessions EXCEPT !.disabled = @ + 1]
  /\ session' = (session \/ verified)
  /\ UNCHANGED <<required, verified, factorVars, racing, proved, torn>>

\* Mutants of Deactivate: whatever the mode; or the recovery codes stay.
DeactivateAnyMode ==
  /\ HasTOTP \/ recovery
  /\ totp' = NoReq /\ recovery' = FALSE /\ proved' = FALSE
  /\ torn' = (torn \/ \E r \in Req : pc[r] \in {"validate", "secret", "codes"})
  /\ UNCHANGED <<ownerVars, setup, secret, enrolReqVars, racing, sessions>>

DeactivateTOTP ==
  /\ ~ required
  /\ HasTOTP
  /\ totp' = NoReq /\ proved' = FALSE
  /\ torn' = (torn \/ \E r \in Req : pc[r] \in {"validate", "secret", "codes"})
  /\ UNCHANGED <<ownerVars, setup, secret, recovery, enrolReqVars, racing, sessions>>

\* MFADeactivateView.post: one DELETE takes the authenticator and the recovery codes.
Deactivate ==
  /\ session /\ ~ required
  /\ HasTOTP \/ recovery
  /\ totp' = NoReq /\ recovery' = FALSE /\ proved' = FALSE
  /\ torn' = (torn \/ \E r \in Req : pc[r] \in {"validate", "secret", "codes"})
  /\ UNCHANGED <<ownerVars, setup, secret, enrolReqVars, racing, sessions>>

\* A pending row expires, or revoke_on_credential_change drops them all.
ExpireChallenge(c) ==
  /\ c \in setup
  /\ setup' = setup \ {c}
  /\ UNCHANGED <<ownerVars, secret, totp, recovery, enrolReqVars, enrolHistVars>>

ExpireSecret(s) ==
  /\ s \in secret
  /\ secret' = secret \ {s}
  /\ UNCHANGED <<ownerVars, setup, totp, recovery, enrolReqVars, enrolHistVars>>

\* Mutant of CredentialsChanged: the secrets are not among the purposes it drops.
CredentialsKeepSecrets ==
  /\ setup' = {}
  /\ racing' = {q \in Req : pc[q] = "store"}
  /\ UNCHANGED <<ownerVars, secret, totp, recovery, enrolReqVars, proved, torn, sessions>>

CredentialsChanged ==
  /\ UNCHANGED <<ownerVars, totp, recovery, enrolReqVars, proved, torn, sessions>>
  /\ setup' = {}
  /\ DeleteSecrets

\* The owner follows the confirmation link.
ConfirmAddress ==
  /\ ~ verified
  /\ verified' = TRUE
  /\ UNCHANGED <<required, session, factorVars, enrolReqVars, enrolHistVars>>

\* The process serving a request dies.
Crash(r) ==
  /\ pc[r] \notin {"idle", "crashed"}
  /\ pc' = [pc EXCEPT ![r] = "crashed"]
  /\ UNCHANGED <<ownerVars, factorVars, on, enrolHistVars>>

Enrol(r) ==
  \/ Login(r) \/ CreateChallenge(r) \/ Setup(r) \/ Activate(r)
  \/ CheckTOTP(r) \/ DropSecrets(r) \/ StoreSecret(r)
  \/ LoadSecret(r) \/ Install(r) \/ CodeAccepted(r) \/ CodeRejected(r)
  \/ ForgetSecret(r) \/ GetRecoveryCodes(r) \/ ConsumeChallenge(r) \/ Mint(r)
  \/ Crash(r)

EnrolNext ==
  \/ \E r \in Req : Enrol(r)
  \/ \E c \in Challenge : ExpireChallenge(c)
  \/ \E s \in Req : ExpireSecret(s)
  \/ Deactivate \/ CredentialsChanged \/ ConfirmAddress

EnrolSpec == EnrolInit /\ [][EnrolNext]_enrolVars

-----------------------------------------------------------------------------
EnrolTypeOK ==
  /\ required \in BOOLEAN /\ recovery \in BOOLEAN
  /\ verified \in BOOLEAN /\ session \in BOOLEAN
  /\ proved \in BOOLEAN /\ torn \in BOOLEAN
  /\ setup \subseteq Challenge /\ secret \subseteq Req /\ racing \subseteq Req
  /\ totp \in Req \cup {NoReq}
  /\ pc \in [Req -> EnrolPC]
  /\ on \in [Req -> Challenge \cup {NoChallenge}]
  /\ sessions \in [enabled : Nat, disabled : Nat]

\* Enrolment opens one session at most, however many setup challenges were handed out and
\* however many requests present them at once, and only where MFA is required, to an
\* account whose authenticator was confirmed and, when enabled, whose address was.
BootstrapOnce ==
  /\ sessions.enabled + sessions.disabled <= 1
  /\ sessions.enabled + sessions.disabled = 1 => required /\ HasTOTP /\ proved
  /\ sessions.enabled = 1 => verified

\* An authenticator that no code confirmed, or that came without recovery codes, is that of
\* an activation still running or of one that died: no refusal leaves one behind.  Recovery
\* codes without a confirmed authenticator are left by a deactivation that overlapped an
\* activation, and by nothing else.
HalfEnrolled ==
  /\ HasTOTP /\ ~ proved => pc[totp] \in {"validate", "crashed"}
  /\ HasTOTP /\ ~ recovery => pc[totp] \in {"validate", "secret", "codes", "crashed"}
  /\ recovery => (HasTOTP /\ proved) \/ torn

\* A new setup, an activation and a credential change each end every secret handed out
\* before.  The exception is a setup that runs beside one of them and stores its secret after
\* the DELETE: it leaves a second QR code, or one that outlives an activation or a change.
OldSecretsEnd == secret \subseteq racing

\* A confirmed authenticator is taken away by a deactivation only, which takes the recovery
\* codes too: a refused activation of another request never touches it.
ConfirmedStays == [][proved /\ ~ proved' => ~ required /\ ~ recovery']_enrolVars

=============================================================================
