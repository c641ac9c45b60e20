---------------------------- MODULE AccountsProofs ----------------------------
(***************************************************************************)
(* The invariants of Accounts, for any number of requests, accounts and    *)
(* provider accounts.                                                      *)
(***************************************************************************)
EXTENDS Accounts, TLAPS

\* Where EnteredIsClaimed speaks, an account that was let in is verified or used: being
\* invited or staff does not enter into it.
EnteredByUse ==
  mode # "required" /\ (lastLogin \/ VerificationIsMandatory(verification)) =>
    \A a \in entered : a \in used \/ a \in verified

\* Whoever was not invited was born with a way in.
BornWithAWayIn ==
  \A a \in accounts :
    /\ origin[a] = "signup" => a \in password
    /\ origin[a] = "social" => a \in entered

\* Only an administrator invites.
InvitedByAdmin == \A a \in invited : origin[a] = "invited"

\* What a request read still holds when it commits.
SlotSound(r) ==
  /\ pc[r] \in {"link", "create", "unlink"} => via[r] \in Provider
  /\ pc[r] \in {"signup", "invite", "create"} => list[r] \subseteq Account
  /\ target[r] \in Account => origin[target[r]] # "none"
  /\ pc[r] = "stamp" => target[r] \in Account
  /\ pc[r] = "stamp" /\ target[r] \in accounts => target[r] \in password
  /\ pc[r] = "link" => target[r] \in Account
  /\ pc[r] = "link" /\ target[r] \in accounts =>
       target[r] \in verified \/ origin[target[r]] = "invited" \/ target[r] \in appointed
  /\ pc[r] = "unlink" =>
       /\ list[r] \subseteq Provider /\ via[r] \in list[r]
       /\ target[r] \in accounts => target[r] \in password \/ list[r] # {via[r]}

SlotsSound == \A r \in Req : SlotSound(r)

AccountsInv ==
  /\ AccountsTypeOK /\ EnteredByUse /\ LinkNeedsProof /\ KeepsAWayIn
  /\ BornWithAWayIn /\ InvitedByAdmin /\ SlotsSound

LEMMA AccountsInitInv == AccountsInit => AccountsInv
  BY AccountsAssumption
  DEF AccountsInit, AccountsInv, AccountsTypeOK, EnteredByUse, LinkNeedsProof, KeepsAWayIn,
      BornWithAWayIn, InvitedByAdmin, SlotsSound, SlotSound, Origin, PC, Connections, Mode

LEMMA AccountsNextInv == AccountsInv /\ [AccountsNext]_allVars => AccountsInv'
  <1> SUFFICES ASSUME AccountsInv, [AccountsNext]_allVars PROVE AccountsInv'
    OBVIOUS
  <1> USE AccountsAssumption
      DEF AccountsInv, AccountsTypeOK, EnteredByUse, LinkNeedsProof, KeepsAWayIn, BornWithAWayIn,
          InvitedByAdmin, SlotsSound, SlotSound, Origin, PC, Connections,
          projectVars, accountVars, slotVars, histVars, Answer, Mode
  <1>1. ASSUME NEW r \in Req, ReadSignUp(r) PROVE AccountsInv'
    <2>1. AccountsTypeOK'
      BY <1>1 DEF ReadSignUp, Proceed
    <2>2. (EnteredByUse /\ LinkNeedsProof /\ BornWithAWayIn /\ InvitedByAdmin)'
      BY <1>1 DEF ReadSignUp, Proceed
    <2>3. KeepsAWayIn'
      BY <1>1 DEF ReadSignUp, Proceed
    <2>4. SlotsSound'
      <3>1. pc'[r] = "signup" /\ list'[r] = holds
        BY <1>1 DEF ReadSignUp, Proceed
      <3>2. SlotSound(r)'
        BY <1>1, <2>1, <3>1 DEF ReadSignUp, Proceed
      <3>3. ASSUME NEW q \in Req, q # r PROVE SlotSound(q)'
        BY <1>1, <3>3 DEF ReadSignUp, Proceed
      <3> QED
        BY <3>2, <3>3
    <2> QED
      BY <2>1, <2>2, <2>3, <2>4
  <1>2. ASSUME NEW r \in Req, CommitSignUp(r) PROVE AccountsInv'
    BY <1>2 DEF CommitSignUp, Supersede, Kept
  <1>3. ASSUME NEW r \in Req, StampSignUp(r) PROVE AccountsInv'
    BY <1>3 DEF StampSignUp
  <1>4. ASSUME NEW r \in Req, ReadInvite(r) PROVE AccountsInv'
    <2>1. AccountsTypeOK'
      BY <1>4 DEF ReadInvite, Proceed
    <2>2. (EnteredByUse /\ LinkNeedsProof /\ BornWithAWayIn /\ InvitedByAdmin)'
      BY <1>4 DEF ReadInvite, Proceed
    <2>3. KeepsAWayIn'
      BY <1>4 DEF ReadInvite, Proceed
    <2>4. SlotsSound'
      <3>1. pc'[r] = "invite" /\ list'[r] = holds
        BY <1>4 DEF ReadInvite, Proceed
      <3>2. SlotSound(r)'
        BY <1>4, <2>1, <3>1 DEF ReadInvite, Proceed
      <3>3. ASSUME NEW q \in Req, q # r PROVE SlotSound(q)'
        BY <1>4, <3>3 DEF ReadInvite, Proceed
      <3> QED
        BY <3>2, <3>3
    <2> QED
      BY <2>1, <2>2, <2>3, <2>4
  <1>5. ASSUME NEW r \in Req, CommitInvite(r) PROVE AccountsInv'
    <2>1. AccountsTypeOK'
      BY <1>5 DEF CommitInvite, Supersede, Kept
    <2>2. (EnteredByUse /\ LinkNeedsProof /\ BornWithAWayIn /\ InvitedByAdmin)'
      BY <1>5 DEF CommitInvite, Supersede, Kept
    <2>3. KeepsAWayIn'
      BY <1>5 DEF CommitInvite, Supersede, Kept
    <2>4. SlotsSound'
      <3>1. pc'[r] = "idle"
        BY <1>5 DEF CommitInvite, Supersede, Kept
      <3>2. SlotSound(r)'
        BY <1>5, <2>1, <3>1 DEF CommitInvite, Supersede, Kept
      <3>3. ASSUME NEW q \in Req, q # r PROVE SlotSound(q)'
        BY <1>5, <3>3 DEF CommitInvite, Supersede, Kept
      <3> QED
        BY <3>2, <3>3
    <2> QED
      BY <2>1, <2>2, <2>3, <2>4
  <1>6. ASSUME NEW r \in Req, CommitLink(r) PROVE AccountsInv'
    BY <1>6 DEF CommitLink, Link, Stamp, MayOweNothing
  <1>7. ASSUME NEW r \in Req, ChallengeLink(r) PROVE AccountsInv'
    BY <1>7 DEF ChallengeLink, MayOwe
  <1>8. ASSUME NEW r \in Req, CommitCreate(r) PROVE AccountsInv'
    <2>1. AccountsTypeOK'
      BY <1>8 DEF CommitCreate, Supersede, Kept, Stamp
    <2>2. (EnteredByUse /\ LinkNeedsProof /\ BornWithAWayIn /\ InvitedByAdmin)'
      <3>1. EnteredByUse'
        BY <1>8 DEF CommitCreate, Supersede, Stamp
      <3>2. LinkNeedsProof'
        BY <1>8 DEF CommitCreate, Supersede
      <3>3. BornWithAWayIn'
        BY <1>8 DEF CommitCreate, Supersede
      <3>4. InvitedByAdmin'
        BY <1>8 DEF CommitCreate, Supersede
      <3> QED
        BY <3>1, <3>2, <3>3, <3>4
    <2>3. KeepsAWayIn'
      BY <1>8 DEF CommitCreate, Supersede, Kept, Stamp
    <2>4. SlotsSound'
      <3>1. pc'[r] = "idle"
        BY <1>8 DEF CommitCreate, Supersede, Kept, Stamp
      <3>2. SlotSound(r)'
        BY <1>8, <2>1, <3>1 DEF CommitCreate, Supersede, Kept, Stamp
      <3>3. ASSUME NEW q \in Req, q # r PROVE SlotSound(q)'
        BY <1>8, <3>3 DEF CommitCreate, Supersede, Kept, Stamp
      <3> QED
        BY <3>2, <3>3
    <2> QED
      BY <2>1, <2>2, <2>3, <2>4
  <1>9. ASSUME NEW r \in Req, CommitDisconnect(r) PROVE AccountsInv'
    BY <1>9 DEF CommitDisconnect
  <1>10. ASSUME NEW r \in Req, Fail(r) PROVE AccountsInv'
    BY <1>10 DEF Fail
  <1>11. ASSUME NEW r \in Req, NEW p \in Provider, ReadLink(r, p) PROVE AccountsInv'
    BY <1>11 DEF ReadLink, Proceed, Proven
  <1>12. ASSUME NEW r \in Req, NEW p \in Provider, ReadCreate(r, p) PROVE AccountsInv'
    <2>1. AccountsTypeOK'
      BY <1>12 DEF ReadCreate, Proceed
    <2>2. (EnteredByUse /\ LinkNeedsProof /\ BornWithAWayIn /\ InvitedByAdmin)'
      BY <1>12 DEF ReadCreate, Proceed
    <2>3. KeepsAWayIn'
      BY <1>12 DEF ReadCreate, Proceed
    <2>4. SlotsSound'
      <3>1. pc'[r] = "create" /\ list'[r] = holds /\ via'[r] = p
        BY <1>12 DEF ReadCreate, Proceed
      <3>2. SlotSound(r)'
        BY <1>12, <2>1, <3>1 DEF ReadCreate, Proceed
      <3>3. ASSUME NEW q \in Req, q # r PROVE SlotSound(q)'
        BY <1>12, <3>3 DEF ReadCreate, Proceed
      <3> QED
        BY <3>2, <3>3
    <2> QED
      BY <2>1, <2>2, <2>3, <2>4
  <1>13. ASSUME NEW r \in Req, NEW p \in Provider, ReadDisconnect(r, p) PROVE AccountsInv'
    <2>1. AccountsTypeOK'
      BY <1>13 DEF ReadDisconnect, Proceed
    <2>2. (EnteredByUse /\ LinkNeedsProof /\ BornWithAWayIn /\ InvitedByAdmin)'
      BY <1>13 DEF ReadDisconnect, Proceed
    <2>3. KeepsAWayIn'
      BY <1>13 DEF ReadDisconnect, Proceed
    <2>4. SlotsSound'
      <3>1. pc'[r] = "unlink" /\ list'[r] = Connections(conn[p]) /\ via'[r] = p /\ target'[r] = conn[p]
        BY <1>13 DEF ReadDisconnect, Proceed
      <3>2. SlotSound(r)'
        BY <1>13, <2>1, <3>1 DEF ReadDisconnect, Proceed
      <3>3. ASSUME NEW q \in Req, q # r PROVE SlotSound(q)'
        BY <1>13, <3>3 DEF ReadDisconnect, Proceed
      <3> QED
        BY <3>2, <3>3
    <2> QED
      BY <2>1, <2>2, <2>3, <2>4
  <1>14. ASSUME NEW a \in Account, ExpireInvitation(a) PROVE AccountsInv'
    BY <1>14 DEF ExpireInvitation
  <1>15. ASSUME NEW a \in Account, Appoint(a) PROVE AccountsInv'
    BY <1>15 DEF Appoint
  <1>16. ASSUME NEW a \in Account, Dismiss(a) PROVE AccountsInv'
    BY <1>16 DEF Dismiss
  <1>17. ASSUME NEW a \in Account, Confirm(a) PROVE AccountsInv'
    BY <1>17 DEF Confirm
  <1>18. ASSUME NEW a \in Account, SetPassword(a) PROVE AccountsInv'
    BY <1>18 DEF SetPassword
  <1>19. ASSUME NEW a \in Account, Login(a) PROVE AccountsInv'
    BY <1>19 DEF Login, LetIn, Stamp, MayOwe, MayOweNothing
  <1>20. ASSUME NEW p \in Provider, SocialLogin(p) PROVE AccountsInv'
    BY <1>20 DEF SocialLogin, LetIn, Stamp
  <1>21. ASSUME NEW a \in Account, NEW p \in Provider, Connect(a, p) PROVE AccountsInv'
    BY <1>21 DEF Connect
  <1>22. CASE UNCHANGED allVars
    BY <1>22 DEF allVars
  <1> QED
    BY <1>1, <1>2, <1>3, <1>4, <1>5, <1>6, <1>7, <1>8, <1>9, <1>10, <1>11, <1>12, <1>13,
       <1>14, <1>15, <1>16, <1>17, <1>18, <1>19, <1>20, <1>21, <1>22
    DEF AccountsNext

\* The inductive invariant of Accounts holds in every reachable state.
LEMMA AccountsInvariant == AccountsSpec => []AccountsInv
  BY AccountsInitInv, AccountsNextInv, PTL DEF AccountsSpec

\* Type correctness: only accounts that exist hold the address, are verified, have a
\* password or an invitation, or own a provider account.
THEOREM AccountsTypeCorrect == AccountsSpec => []AccountsTypeOK
  BY AccountsInvariant, PTL DEF AccountsInv

\* accounts.py, account_is_claimed: an account that was let in stays claimed where every way in
\* stamps last_login or needs the address to be verified: logins are stamped, or verification
\* is mandatory, and a second factor comes between for nobody who was not let in before.
THEOREM EnteredIsClaimedHolds == AccountsSpec => []EnteredIsClaimed
  <1>1. AccountsInv => EnteredIsClaimed
    BY DEF AccountsInv, EnteredByUse, EnteredIsClaimed, Claimed, Proven
  <1> QED
    BY <1>1, AccountsInvariant, PTL

\* apps.py, _resolve_email_verification: the two settings agree, so that verification is on
\* only if its links are mailed, and then they are routed.
LEMMA SettingsAgree ==
  ASSUME NEW v \in Verification, NEW g \in Registration, VerificationEnabled(v)
  PROVE  LinkIsMailed(v) /\ LinkIsRouted(v, g)
  <1>1. PICK cd \in Configured \X Declared : v = DefaultAllauth(cd[1], cd[2])
    BY DEF Verification
  <1> DEFINE method == ResolveEmailVerification(cd[1], cd[2])
  <1>2. v = [EMAIL_VERIFICATION |-> method # "none", ACCOUNT_EMAIL_VERIFICATION |-> method]
    BY <1>1 DEF DefaultAllauth
  <1>3. v.EMAIL_VERIFICATION = (method # "none") /\ v.ACCOUNT_EMAIL_VERIFICATION = method
    <2> HIDE DEF method
    <2> QED
      BY <1>2, Zenon
  <1>4. method # "none"
    <2> HIDE DEF method
    <2> QED
      BY <1>3 DEF VerificationEnabled
  <1>5. LinkIsMailed(v)
    <2> HIDE DEF method
    <2> QED
      BY <1>3, <1>4 DEF LinkIsMailed
  <1> QED
    BY <1>5 DEF LinkIsRouted

\* Whatever the settings of a project are, a sign-up can become the verified owner of the
\* address it holds, unless somebody is or was destroyed by a request that was out of date.
THEOREM NoSignUpIsStrandedHolds == AccountsSpec => []NoSignUpIsStranded
  <1>1. AccountsInit => NoSignUpIsStranded
    BY DEF AccountsInit, NoSignUpIsStranded
  <1>2. AccountsInv /\ NoSignUpIsStranded /\ [AccountsNext]_allVars => NoSignUpIsStranded'
    <2> SUFFICES ASSUME AccountsInv, NoSignUpIsStranded, [AccountsNext]_allVars
                 PROVE  NoSignUpIsStranded'
      OBVIOUS
    <2> USE DEF NoSignUpIsStranded, AccountsInv, AccountsTypeOK, projectVars, accountVars,
                slotVars, histVars
    <2>1. ASSUME NEW r \in Req, CommitSignUp(r) PROVE NoSignUpIsStranded'
      <3>1. CASE VerificationEnabled(verification)
        BY <2>1, <3>1, SettingsAgree DEF CommitSignUp
      <3>2. CASE ~ VerificationEnabled(verification)
        <4> SUFFICES ASSUME verified' = {}, wronged' = {},
                            NEW a \in holds', origin'[a] = "signup"
                     PROVE  LinkIsMailed(verification) /\ LinkIsRouted(verification, registration)
          BY <2>1 DEF CommitSignUp
        <4>1. wronged = {} /\ verified \cap list[r] = {}
          BY <2>1 DEF CommitSignUp, Supersede, ClaimedByUse
        <4>2. verified = {}
          BY <2>1, <4>1 DEF CommitSignUp
        <4>3. a \in holds /\ origin[a] = "signup"
          BY <2>1, <3>2, <4>2 DEF CommitSignUp, Supersede
        <4> QED
          BY <4>1, <4>2, <4>3
      <3> QED
        BY <3>1, <3>2
    <2>2. ASSUME NEW r \in Req, CommitInvite(r) PROVE NoSignUpIsStranded'
      BY <2>2 DEF CommitInvite, Supersede, ClaimedByUse
    <2>3. ASSUME NEW r \in Req, CommitCreate(r) PROVE NoSignUpIsStranded'
      BY <2>3 DEF CommitCreate, Supersede, ClaimedByUse
    <2>4. CASE \E r \in Req : \/ StampSignUp(r) \/ CommitLink(r) \/ ChallengeLink(r)
                            \/ CommitDisconnect(r) \/ Fail(r)
      BY <2>4 DEF StampSignUp, CommitLink, ChallengeLink, CommitDisconnect, Fail
    <2>5. CASE \E r \in Req : ReadSignUp(r) \/ ReadInvite(r)
      BY <2>5 DEF ReadSignUp, ReadInvite, Proceed
    <2>6. CASE \E r \in Req, p \in Provider :
                 ReadLink(r, p) \/ ReadCreate(r, p) \/ ReadDisconnect(r, p)
      BY <2>6 DEF ReadLink, ReadCreate, ReadDisconnect, Proceed
    <2>7. CASE \E a \in Account : \/ ExpireInvitation(a) \/ Appoint(a) \/ Dismiss(a)
                                \/ Confirm(a) \/ SetPassword(a) \/ Login(a)
      BY <2>7 DEF ExpireInvitation, Appoint, Dismiss, Confirm, SetPassword, Login, LetIn
    <2>8. CASE \/ \E p \in Provider : SocialLogin(p)
               \/ \E a \in Account, p \in Provider : Connect(a, p)
      BY <2>8 DEF SocialLogin, Connect, LetIn
    <2>9. CASE UNCHANGED allVars
      BY <2>9 DEF allVars
    <2> QED
      BY <2>1, <2>2, <2>3, <2>4, <2>5, <2>6, <2>7, <2>8, <2>9 DEF AccountsNext
  <1> QED
    BY <1>1, <1>2, AccountsInvariant, PTL DEF AccountsSpec

\* accounts.py, resolve_email_for_provider: a provider is connected by address only to an
\* account whose owner confirmed the address, was invited to it or was made staff.
THEOREM LinkNeedsProofHolds == AccountsSpec => []LinkNeedsProof
  BY AccountsInvariant, PTL DEF AccountsInv

\* social/views.py, SocialAccountDisconnectView: an account without a password keeps a
\* connection, unless one was disconnected on a list that was out of date.
THEOREM KeepsAWayInHolds == AccountsSpec => []KeepsAWayIn
  BY AccountsInvariant, PTL DEF AccountsInv

=============================================================================
