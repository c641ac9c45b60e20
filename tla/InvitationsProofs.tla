-------------------------- MODULE InvitationsProofs --------------------------
(***************************************************************************)
(* The invariants of Invitations, for any number of visits and requests.   *)
(***************************************************************************)
EXTENDS Invitations, TLAPS

\* Whoever was promised a capability, has one or has redeemed one has seen the address
\* confirmed.
ConfirmedFirst ==
  /\ \A v \in Visit : visit[v] \in {"drop", "hand"} => gives[v] /\ verified
  /\ caps # {} => verified
  /\ \A s \in Setter : setter[s] # "new" => verified

\* The requests that have saved a password are the only ones that take a working link away, and
\* they came by a link that confirmed the address.
SavedFirst ==
  /\ \A s \in Setter : setter[s] \in {"revoke", "forget", "answer"} => password # 0
  /\ purpose = "invitation" /\ password # 0 => verified

\* A capability that has been stored since this visit deleted the others was being replaced
\* beside it.
ReplacedBeside ==
  /\ \A v, w \in Visit : visit[v] = "hand" /\ w \in caps => <<v, w>> \in beside /\ <<w, v>> \in beside
  /\ \A v, w \in Visit : visit[v] = "hand" /\ visit[w] = "hand" /\ v # w => <<v, w>> \in beside
  /\ \A v \in caps : visit[v] = "done"

\* A visit that loaded the account before it had a password, and is still under way when it
\* has one, was under way when it was saved.
PromisedBefore ==
  /\ password # 0 => \A v \in Visit : visit[v] \in UnderWay /\ gives[v] => v \in overlapped
  /\ settled => password # 0

InviteInv ==
  /\ InviteTypeOK /\ LatestClick /\ PasswordEndsInvitation /\ NoDeadEnd
  /\ ConfirmedFirst /\ SavedFirst /\ ReplacedBeside /\ PromisedBefore

LEMMA InviteInitInv == InviteInit => InviteInv
  <1> SUFFICES ASSUME InviteInit PROVE InviteInv
    OBVIOUS
  <1>1. visit = [v \in Visit |-> "new"] /\ setter = [s \in Setter |-> "new"] /\ caps = {}
    BY DEF InviteInit
  <1>2. InviteTypeOK
    <2>1. settled \in BOOLEAN /\ password \in Nat
      BY DEF InviteInit
    <2> QED
      BY <2>1 DEF InviteInit, InviteTypeOK, UnderWay, SetterPC
  <1>3. NoDeadEnd /\ (settled => password # 0)
    BY DEF InviteInit, NoDeadEnd, WayIn, Serves
  <1>4. purpose = "invitation" => password = 0
    BY DEF InviteInit
  <1> QED
    BY <1>1, <1>2, <1>3, <1>4
    DEF InviteInv, LatestClick, PasswordEndsInvitation, ConfirmedFirst, SavedFirst,
        ReplacedBeside, PromisedBefore, UnderWay

\* Every step of the module preserves the invariant.
LEMMA InviteNextInv == InviteInv /\ [InviteNext]_inviteVars => InviteInv'
  <1> SUFFICES ASSUME InviteInv, [InviteNext]_inviteVars PROVE InviteInv'
    OBVIOUS
  <1> USE InvitationAssumption
      DEF InviteInv, InviteTypeOK, LatestClick, PasswordEndsInvitation, NoDeadEnd, WayIn, Serves,
          ConfirmedFirst, SavedFirst, ReplacedBeside, PromisedBefore, UnderWay, SetterPC,
          linkVars, accountVars, inviteVisitVars, setterVars, inviteHistVars, Visits, Sets
  <1>1. ASSUME NEW v \in Visit, Open(v) PROVE InviteInv'
    BY <1>1 DEF Open
  <1>2. ASSUME NEW v \in Visit, ConfirmKey(v) PROVE InviteInv'
    BY <1>2 DEF ConfirmKey
  <1>3. ASSUME NEW v \in Visit, DropCapabilities(v) PROVE InviteInv'
    BY <1>3 DEF DropCapabilities
  <1>4. ASSUME NEW v \in Visit, HandOver(v) PROVE InviteInv'
    <2>1. /\ visit[v] = "hand" /\ visit' = [visit EXCEPT ![v] = "done"]
          /\ caps' = caps \cup {v}
          /\ beside' = beside /\ gives' = gives /\ setter' = setter
      BY <1>4 DEF HandOver
    <2>2. InviteTypeOK' /\ NoDeadEnd' /\ SavedFirst' /\ ConfirmedFirst' /\ PromisedBefore'
      BY <1>4 DEF HandOver
    <2>3. LatestClick'
      BY <2>1
    <2>4. ReplacedBeside'
      BY <2>1
    <2>5. PasswordEndsInvitation'
      BY <1>4 DEF HandOver
    <2> QED
      BY <2>2, <2>3, <2>4, <2>5
  <1>5. ASSUME NEW v \in Visit, CrashVisit(v) PROVE InviteInv'
    BY <1>5 DEF CrashVisit
  <1>6. ASSUME NEW s \in Setter, NEW v \in Visit, Redeem(s, v) PROVE InviteInv'
    BY <1>6 DEF Redeem
  <1>7. ASSUME NEW s \in Setter, LoadUser(s) PROVE InviteInv'
    BY <1>7 DEF LoadUser
  <1>8. ASSUME NEW s \in Setter, Refuse(s) PROVE InviteInv'
    BY <1>8 DEF Refuse
  <1>9. ASSUME NEW s \in Setter, SavePassword(s) PROVE InviteInv'
    BY <1>9 DEF SavePassword
  <1>10. ASSUME NEW s \in Setter, Revoke(s) PROVE InviteInv'
    BY <1>10 DEF Revoke
  <1>11. ASSUME NEW s \in Setter, ForgetLink(s) PROVE InviteInv'
    BY <1>11 DEF ForgetLink
  <1>12. ASSUME NEW s \in Setter, Respond(s) PROVE InviteInv'
    BY <1>12 DEF Respond
  <1>13. ASSUME NEW s \in Setter, CrashSetter(s) PROVE InviteInv'
    BY <1>13 DEF CrashSetter
  <1>14. CASE SetActive
    BY <1>14 DEF SetActive
  <1>15. CASE Age
    BY <1>15 DEF Age
  <1>16. CASE Purge
    BY <1>16 DEF Purge
  <1>17. ASSUME NEW v \in Visit, Lapse(v) PROVE InviteInv'
    BY <1>17 DEF Lapse
  <1>18. CASE UNCHANGED inviteVars
    BY <1>18 DEF inviteVars
  <1> QED
    BY <1>1, <1>2, <1>3, <1>4, <1>5, <1>6, <1>7, <1>8, <1>9, <1>10, <1>11, <1>12, <1>13,
       <1>14, <1>15, <1>16, <1>17, <1>18
    DEF InviteNext

LEMMA InvitationsInvariant == InviteSpec => []InviteInv
  BY InviteInitInv, InviteNextInv, PTL DEF InviteSpec

\* Type correctness of Invitations.
THEOREM InviteTypeCorrect == InviteSpec => []InviteTypeOK
  BY InvitationsInvariant, PTL DEF InviteInv

\* Two capabilities are alive at once only if two clicks replaced the capability at the same
\* time (the two statements at the end of _claim_invitation).
THEOREM LatestClickHolds == InviteSpec => []LatestClick
  BY InvitationsInvariant, PTL DEF InviteInv

\* After the password is set and the rest revoked, the invitation is worth a capability only
\* to a click that was under way at the time.
THEOREM PasswordEndsInvitationHolds == InviteSpec => []PasswordEndsInvitation
  BY InvitationsInvariant, PTL DEF InviteInv

\* An invited person has a way in until the window passes, and for good once a password is set:
\* the link while it works, or a confirmed address with a password.
THEOREM NoDeadEndHolds == InviteSpec => []NoDeadEnd
  BY InvitationsInvariant, PTL DEF InviteInv

=============================================================================
