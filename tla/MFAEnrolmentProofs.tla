-------------------------- MODULE MFAEnrolmentProofs --------------------------
(***************************************************************************)
(* The invariants of MFAEnrolment, for any number of requests and setup    *)
(* challenges.                                                             *)
(***************************************************************************)
EXTENDS MFAEnrolment, TLAPS

Opened == sessions.enabled + sessions.disabled

\* A request that has installed the authenticator still owns it, confirmed once its code
\* was, unless a deactivation came between.
OwnsFactor ==
  \A r \in Req :
    /\ pc[r] = "validate" => (totp = r /\ ~ proved) \/ torn
    /\ pc[r] \in {"secret", "codes"} => (totp = r /\ proved) \/ torn
    /\ pc[r] = "validate" /\ totp = r => ~ proved

\* Where MFA is required nothing is deactivated, and the request that owns the
\* authenticator is the only one that can get to the session.
OwnsSession ==
  required =>
    /\ ~ torn
    /\ \A r \in Req : pc[r] \in {"validate", "secret", "codes", "consume", "mint"} =>
                        totp = r /\ Opened = 0
    /\ \A r \in Req : pc[r] \in {"consume", "mint"} => proved

\* Where MFA is optional no request gets to the session.
NoneToOpen == ~ required => session /\ Opened = 0 /\ \A r \in Req : pc[r] # "mint"

\* A setup between its two statements is one that the last DELETE did not hold up.
StoresBeside == \A r \in Req : pc[r] = "store" => r \in racing

EnrolInv ==
  /\ EnrolTypeOK /\ BootstrapOnce /\ HalfEnrolled /\ OldSecretsEnd
  /\ StoresBeside /\ OwnsFactor /\ OwnsSession /\ NoneToOpen
  /\ proved => HasTOTP

LEMMA EnrolInitInv == EnrolInit => EnrolInv
  <1> SUFFICES ASSUME EnrolInit PROVE EnrolInv
    OBVIOUS
  <1>1. EnrolTypeOK
    BY EnrolAssumption DEF EnrolInit, EnrolTypeOK, EnrolPC
  <1>2. ~ HasTOTP /\ ~ recovery /\ ~ proved /\ ~ torn /\ Opened = 0 /\ sessions.enabled = 0
    BY EnrolAssumption DEF EnrolInit, HasTOTP, Opened
  <1>3. \A r \in Req : pc[r] = "idle"
    BY DEF EnrolInit
  <1>4. (required \/ session) /\ secret = {}
    BY DEF EnrolInit
  <1> QED
    BY <1>1, <1>2, <1>3, <1>4
    DEF EnrolInv, BootstrapOnce, HalfEnrolled, OldSecretsEnd, StoresBeside, OwnsFactor,
        OwnsSession, NoneToOpen, Opened

\* Every step of the module preserves the invariant.
LEMMA EnrolNextInv == EnrolInv /\ [EnrolNext]_enrolVars => EnrolInv'
  <1> SUFFICES ASSUME EnrolInv, [EnrolNext]_enrolVars PROVE EnrolInv'
    OBVIOUS
  <1> USE EnrolAssumption
      DEF EnrolInv, EnrolTypeOK, EnrolPC, BootstrapOnce, HalfEnrolled, OldSecretsEnd,
          StoresBeside, OwnsFactor, OwnsSession, NoneToOpen, HasTOTP, Opened,
          ownerVars, factorVars, enrolReqVars, enrolHistVars, Move, Answer, DeleteSecrets
  <1>1. ASSUME NEW r \in Req, Login(r) PROVE EnrolInv'
    BY <1>1 DEF Login
  <1>2. ASSUME NEW r \in Req, CreateChallenge(r) PROVE EnrolInv'
    BY <1>2 DEF CreateChallenge
  <1>3. ASSUME NEW r \in Req, Setup(r) PROVE EnrolInv'
    BY <1>3 DEF Setup, Enter
  <1>4. ASSUME NEW r \in Req, Activate(r) PROVE EnrolInv'
    BY <1>4 DEF Activate, Enter
  <1>5. ASSUME NEW r \in Req, CheckTOTP(r) PROVE EnrolInv'
    BY <1>5 DEF CheckTOTP
  <1>6. ASSUME NEW r \in Req, DropSecrets(r) PROVE EnrolInv'
    BY <1>6 DEF DropSecrets
  <1>7. ASSUME NEW r \in Req, StoreSecret(r) PROVE EnrolInv'
    BY <1>7 DEF StoreSecret
  <1>8. ASSUME NEW r \in Req, LoadSecret(r) PROVE EnrolInv'
    BY <1>8 DEF LoadSecret
  <1>9. ASSUME NEW r \in Req, Install(r) PROVE EnrolInv'
    <2>1. CASE HasTOTP
      BY <1>9, <2>1 DEF Install
    <2>2. CASE ~ HasTOTP
      <3>1. /\ pc[r] = "install" /\ pc' = [pc EXCEPT ![r] = "validate"]
            /\ totp' = r /\ ~ proved' /\ torn' = torn
            /\ recovery' = recovery /\ sessions' = sessions
            /\ required' = required /\ verified' = verified /\ session' = session
        BY <1>9, <2>2 DEF Install
      <3>2. EnrolTypeOK'
        BY <1>9, <2>2 DEF Install
      <3>3. OwnsFactor'
        BY <2>2, <3>1
      <3>4. OwnsSession'
        BY <2>2, <3>1
      <3>5. OldSecretsEnd' /\ StoresBeside'
        BY <1>9, <2>2 DEF Install
      <3> QED
        BY <2>2, <3>1, <3>2, <3>3, <3>4, <3>5
    <2> QED
      BY <2>1, <2>2
  <1>10. ASSUME NEW r \in Req, CodeAccepted(r) PROVE EnrolInv'
    BY <1>10 DEF CodeAccepted
  <1>11. ASSUME NEW r \in Req, CodeRejected(r) PROVE EnrolInv'
    BY <1>11 DEF CodeRejected
  <1>12. ASSUME NEW r \in Req, ForgetSecret(r) PROVE EnrolInv'
    BY <1>12 DEF ForgetSecret
  <1>13. ASSUME NEW r \in Req, GetRecoveryCodes(r) PROVE EnrolInv'
    BY <1>13 DEF GetRecoveryCodes
  <1>14. ASSUME NEW r \in Req, ConsumeChallenge(r) PROVE EnrolInv'
    BY <1>14 DEF ConsumeChallenge
  <1>15. ASSUME NEW r \in Req, Mint(r) PROVE EnrolInv'
    BY <1>15 DEF Mint
  <1>16. ASSUME NEW r \in Req, Crash(r) PROVE EnrolInv'
    BY <1>16 DEF Crash
  <1>17. CASE Deactivate
    BY <1>17 DEF Deactivate
  <1>18. ASSUME NEW c \in Challenge, ExpireChallenge(c) PROVE EnrolInv'
    BY <1>18 DEF ExpireChallenge
  <1>19. ASSUME NEW s \in Req, ExpireSecret(s) PROVE EnrolInv'
    BY <1>19 DEF ExpireSecret
  <1>20. CASE CredentialsChanged
    BY <1>20 DEF CredentialsChanged
  <1>21. CASE ConfirmAddress
    BY <1>21 DEF ConfirmAddress
  <1>22. CASE UNCHANGED enrolVars
    BY <1>22 DEF enrolVars
  <1> QED
    BY <1>1, <1>2, <1>3, <1>4, <1>5, <1>6, <1>7, <1>8, <1>9, <1>10, <1>11,
       <1>12, <1>13, <1>14, <1>15, <1>16, <1>17, <1>18, <1>19, <1>20, <1>21, <1>22
    DEF EnrolNext, Enrol

LEMMA EnrolInvariant == EnrolSpec => []EnrolInv
  BY EnrolInitInv, EnrolNextInv, PTL DEF EnrolSpec

\* Every reachable state of the enrolment is well typed.
THEOREM EnrolTypeCorrect == EnrolSpec => []EnrolTypeOK
  BY EnrolInvariant, PTL DEF EnrolInv

\* Enrolment opens one session at most, to an account whose factor was confirmed, however
\* many requests and setup challenges there are.
THEOREM BootstrapOnceHolds == EnrolSpec => []BootstrapOnce
  BY EnrolInvariant, PTL DEF EnrolInv

\* Refused activations leave nothing half done, however many run at once.
THEOREM HalfEnrolledHolds == EnrolSpec => []HalfEnrolled
  BY EnrolInvariant, PTL DEF EnrolInv

\* A secret handed out before a setup, an activation or a credential change is gone after
\* it, unless its setup had yet to store it.
THEOREM OldSecretsEndHolds == EnrolSpec => []OldSecretsEnd
  BY EnrolInvariant, PTL DEF EnrolInv

\* Only a deactivation takes a confirmed authenticator away, recovery codes included.
THEOREM ConfirmedStaysHolds == EnrolSpec => ConfirmedStays
  <1>1. EnrolInv /\ [EnrolNext]_enrolVars =>
          [proved /\ ~ proved' => ~ required /\ ~ recovery']_enrolVars
    <2> SUFFICES ASSUME EnrolInv, EnrolNext, proved, ~ proved'
                 PROVE ~ required /\ ~ recovery'
      BY DEF enrolVars
    <2> USE DEF EnrolInv
    <2>1. ASSUME NEW r \in Req, Install(r) PROVE FALSE
      BY <2>1 DEF Install
    <2>2. ASSUME NEW r \in Req, CodeRejected(r) PROVE FALSE
      BY <2>2 DEF CodeRejected, OwnsFactor, Answer, Move
    <2>3. ASSUME NEW r \in Req, CodeAccepted(r) PROVE FALSE
      BY <2>3 DEF CodeAccepted
    <2>4. CASE Deactivate
      BY <2>4 DEF Deactivate
    <2>5. ASSUME NEW r \in Req, Login(r) \/ CreateChallenge(r) \/ Setup(r) \/ Activate(r)
            \/ CheckTOTP(r) \/ DropSecrets(r) \/ StoreSecret(r) \/ LoadSecret(r)
            \/ ForgetSecret(r) \/ GetRecoveryCodes(r) \/ ConsumeChallenge(r) \/ Mint(r)
            \/ Crash(r)
          PROVE FALSE
      BY <2>5 DEF Login, CreateChallenge, Setup, Activate, Enter, CheckTOTP, DropSecrets,
           StoreSecret, LoadSecret, ForgetSecret, DeleteSecrets, GetRecoveryCodes, ConsumeChallenge, Mint,
           Crash, enrolHistVars
    <2>6. ASSUME (\E c \in Challenge : ExpireChallenge(c))
                 \/ (\E s \in Req : ExpireSecret(s)) \/ CredentialsChanged \/ ConfirmAddress
          PROVE FALSE
      BY <2>6 DEF ExpireChallenge, ExpireSecret, CredentialsChanged, ConfirmAddress,
           enrolHistVars
    <2> QED
      BY <2>1, <2>2, <2>3, <2>4, <2>5, <2>6 DEF EnrolNext, Enrol
  <1> QED
    BY <1>1, EnrolInvariant, PTL DEF EnrolSpec, ConfirmedStays

=============================================================================
