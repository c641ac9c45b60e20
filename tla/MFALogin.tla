------------------------------ MODULE MFALogin ------------------------------
(***************************************************************************)
(* The second factor of a login: /login/ hands out a challenge, and        *)
(* /mfa/verify/ or /mfa/verify-recovery/ trades it and a code for a        *)
(* session.  Failed codes are rows of GenericTokenModel, counted per       *)
(* challenge and per account; only recording one takes the row lock of the *)
(* user.  Every query is about one account, so there is one here.          *)
(*                                                                         *)
(* Time is measured in ticks.  The age of a row is kept instead of its     *)
(* creation time, up to Cap, where no query tells ages apart any more.     *)
(***************************************************************************)
EXTENDS Naturals, FiniteSets, FiniteSetsExt

CONSTANTS
  Req,            \* request slots; a slot serves one request after another
  Challenge,      \* challenge identifiers
  NoChallenge,    \* what an idle slot works on
  ChallengeMax,   \* JWT_ALLAUTH_MFA_CHALLENGE_MAX_ATTEMPTS
  UserMax,        \* JWT_ALLAUTH_MFA_MAX_ATTEMPTS
  MaxAge,         \* MFA_TOKEN_MAX_AGE_SECONDS
  Window          \* JWT_ALLAUTH_MFA_LOCKOUT_SECONDS

ASSUME MFAAssumption ==
  /\ NoChallenge \notin Challenge
  /\ ChallengeMax \in Nat \ {0} /\ UserMax \in Nat \ {0}
  /\ MaxAge \in Nat /\ Window \in Nat
  /\ IsFiniteSet(Req) /\ IsFiniteSet(Challenge)

VARIABLES
  challenges,   \* the challenges whose row exists
  age,          \* the age of each challenge
  attempts,     \* how many failures are recorded, by challenge and age
  pc,           \* what a request does next
  on,           \* the challenge it presents
  \* history
  tries,        \* wrong codes checked for each challenge since the last success
  guesses,      \* wrong codes checked since the last success, by age
  wins          \* right codes checked for each challenge

rowVars == <<challenges, age, attempts>>
reqVars == <<pc, on>>
histVars == <<tries, guesses, wins>>
mfaVars == <<rowVars, reqVars, histVars>>

Cap == Max({MaxAge, Window}) + 1
Age == 0..Cap
PC == {"idle", "create", "lockout", "code", "record", "forget", "clear"}

None == [a \in Age |-> 0]

\* The sum of f over S, by counting.
Units(f, S) == UNION {{x} \X (1..f[x]) : x \in S}
Total(f, S) == Cardinality(Units(f, S))

\* How many of the counted rows are at most w old.
Within(count, w) == Total(count, 0..w)

\* Ages advance, and the oldest rows stay at Cap.
Older(count) ==
  [a \in Age |-> IF a = 0 THEN 0
                 ELSE IF a = Cap THEN count[Cap] + count[Cap - 1] ELSE count[a - 1]]

MFAInit ==
  /\ challenges = {}
  /\ age = [c \in Challenge |-> 0]
  /\ attempts = [c \in Challenge |-> None]
  /\ pc = [r \in Req |-> "idle"]
  /\ on = [r \in Req |-> NoChallenge]
  /\ tries = [c \in Challenge |-> 0]
  /\ guesses = None
  /\ wins = [c \in Challenge |-> 0]

\* The failures recorded for the account that are at most w old.
Recorded(w) ==
  Total([row \in Challenge \X Age |-> attempts[row[1]][row[2]]], Challenge \X (0..w))

\* login_lockout_remaining: the recorded failures of the window use up the budget.
Recent == Recorded(Window)

\* Mutant of Locked: failures count for as long as their rows exist.
LockedByTable == Recorded(Cap) >= UserMax

Locked == Recent >= UserMax

\* Mutant of Purged: rows go as soon as the lockout no longer counts them.
PurgedByWindow(count) == [a \in Age |-> IF a > Window THEN 0 ELSE count[a]]

\* _purge_expired_attempts: rows that neither limit counts any more.
Purged(count) == [a \in Age |-> IF a > Max({Window, MaxAge}) THEN 0 ELSE count[a]]

\* _is_expired.
Expired(c) == age[c] > MaxAge

Move(r, from, to) == pc[r] = from /\ pc' = [pc EXCEPT ![r] = to]

-----------------------------------------------------------------------------
\* mfa_challenge: the login of an account with an authenticator reads the lockout ...
Login(r) ==
  /\ ~ Locked
  /\ Move(r, "idle", "create")
  /\ UNCHANGED <<rowVars, on, histVars>>

\* ... and creates a challenge with an identifier never used before: one that no row and
\* no request refers to.
CreateChallenge(r) ==
  /\ Move(r, "create", "idle")
  /\ \E c \in Challenge \ challenges :
       /\ \A q \in Req : on[q] # c
       /\ Purged(attempts[c]) = None
       /\ challenges' = {d \in challenges : ~ Expired(d)} \cup {c}
       /\ age' = [age EXCEPT ![c] = 0]
       /\ tries' = [tries EXCEPT ![c] = 0]
       /\ wins' = [wins EXCEPT ![c] = 0]
  /\ attempts' = [c \in Challenge |-> Purged(attempts[c])]
  /\ UNCHANGED <<on, guesses>>

\* get_login_challenge_user, with a challenge in force ...
Present(r, c) ==
  /\ c \in challenges /\ ~ Expired(c)
  /\ Move(r, "idle", "lockout")
  /\ on' = [on EXCEPT ![r] = c]
  /\ UNCHANGED <<rowVars, histVars>>

\* ... or with an expired one, whose row is deleted.
PresentExpired(c) ==
  /\ c \in challenges /\ Expired(c)
  /\ challenges' = challenges \ {c}
  /\ UNCHANGED <<age, attempts, reqVars, histVars>>

\* A request is answered.
Answer(r, from) ==
  /\ Move(r, from, "idle")
  /\ on' = [on EXCEPT ![r] = NoChallenge]

\* No code is checked during a lockout.
CheckLockout(r) ==
  /\ IF Locked THEN Answer(r, "lockout")
               ELSE Move(r, "lockout", "code") /\ UNCHANGED on
  /\ UNCHANGED <<rowVars, histVars>>

\* The code is right ...
CodeAccepted(r) ==
  /\ Move(r, "code", "forget")
  /\ wins' = [wins EXCEPT ![on[r]] = @ + 1]
  /\ UNCHANGED <<rowVars, on, tries, guesses>>

\* ... or wrong.
CodeRejected(r) ==
  /\ Move(r, "code", "record")
  /\ tries' = [tries EXCEPT ![on[r]] = @ + 1]
  /\ guesses' = [guesses EXCEPT ![0] = @ + 1]
  /\ UNCHANGED <<rowVars, on, wins>>

\* Mutant of RecordFailure: the counter runs down.
RecordDown(r) ==
  /\ Answer(r, "record")
  /\ attempts' = [attempts EXCEPT ![on[r]][0] = @ - 1]
  /\ UNCHANGED <<challenges, age, histVars>>

\* record_failed_login_attempt, one transaction under the row lock: when the budget of
\* the account is used up every challenge is dropped, else when that of the challenge is
\* the challenge is.
RecordFailure(r) ==
  LET c == on[r] IN
  /\ Answer(r, "record")
  /\ attempts' = [[d \in Challenge |-> Purged(attempts[d])] EXCEPT ![c][0] = @ + 1]
  /\ challenges' = IF Locked' THEN {}
                   ELSE IF Within(attempts'[c], Cap) >= ChallengeMax THEN challenges \ {c}
                   ELSE challenges
  /\ UNCHANGED <<age, histVars>>

\* delete_login_challenge after a success, then clear_failed_login_attempts and the mint.
ForgetChallenge(r) ==
  /\ Move(r, "forget", "clear")
  /\ challenges' = challenges \ {on[r]}
  /\ UNCHANGED <<age, attempts, on, histVars>>

ClearFailures(r) ==
  /\ Answer(r, "clear")
  /\ attempts' = [c \in Challenge |-> None]
  /\ tries' = [c \in Challenge |-> 0]
  /\ guesses' = None
  /\ UNCHANGED <<challenges, age, wins>>

\* Mutant of CredentialsChanged: the counter goes with the other rows.
CredentialsChangedClearing ==
  /\ challenges' = {}
  /\ attempts' = [c \in Challenge |-> None]
  /\ UNCHANGED <<age, reqVars, histVars>>

\* revoke_on_credential_change drops the pending challenges and keeps the counter.
CredentialsChanged ==
  /\ challenges' = {}
  /\ UNCHANGED <<age, attempts, reqVars, histVars>>

Tick ==
  /\ age' = [c \in Challenge |-> Min({age[c] + 1, Cap})]
  /\ attempts' = [c \in Challenge |-> Older(attempts[c])]
  /\ guesses' = [Older(guesses) EXCEPT ![Cap] = 0]
  /\ UNCHANGED <<challenges, reqVars, tries, wins>>

Verify(r) ==
  \/ CheckLockout(r) \/ CodeAccepted(r) \/ CodeRejected(r)
  \/ RecordFailure(r) \/ ForgetChallenge(r) \/ ClearFailures(r)

MFANext ==
  \/ \E r \in Req : Login(r) \/ CreateChallenge(r) \/ Verify(r)
  \/ \E r \in Req, c \in Challenge : Present(r, c)
  \/ \E c \in Challenge : PresentExpired(c)
  \/ CredentialsChanged
  \/ Tick

MFASpec == MFAInit /\ [][MFANext]_mfaVars

\* Time passes.
MFAFairSpec == MFASpec /\ WF_mfaVars(Tick)

-----------------------------------------------------------------------------
MFATypeOK ==
  /\ challenges \subseteq Challenge
  /\ age \in [Challenge -> Age]
  /\ \A c \in Challenge : attempts[c] \in [Age -> Nat]
  /\ pc \in [Req -> PC]
  /\ on \in [Req -> Challenge \cup {NoChallenge}]
  /\ tries \in [Challenge -> Nat]
  /\ guesses \in [Age -> Nat]
  /\ wins \in [Challenge -> Nat]

\* Requests may pass the lockout check together, but that is all they gain: between two
\* successes the wrong codes checked for one challenge exceed its budget at most by the
\* number of requests that run at once, whenever rows are purged.  Nor does anybody count
\* how often a challenge is deleted: it opens that many sessions at most.
ChallengeBudget ==
  \A c \in Challenge :
    /\ tries[c] <= ChallengeMax - 1 + Cardinality(Req)
    /\ wins[c] <= Cardinality(Req)

\* The same of the account: asking for fresh challenges, waiting for a purge or changing
\* the password buys no guesses within a window.
AccountBudget == Within(guesses, Window) <= UserMax - 1 + Cardinality(Req)

\* A lockout ends by itself: failures stop being recorded while it lasts, and the ones
\* that were counted age out of the window.
LockoutEnds == Locked ~> ~ Locked

\* mfa_totp.rst: the limits are enforced under a row lock, so concurrent requests cannot
\* exceed them.
LimitIsExact == Within(guesses, Window) <= UserMax

=============================================================================
