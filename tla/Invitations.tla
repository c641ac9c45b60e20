------------------------------ MODULE Invitations ------------------------------
(***************************************************************************)
(* One account and the confirmation link that was mailed for it, at a site *)
(* with invitations.  Opening the link trades it for a cookie              *)
(* (VerifyEmailView._claim_invitation), and the cookie sets the first      *)
(* password (SetPasswordView.post).  Unlike a reset link, an invitation is *)
(* not consumed by opening it, and no step of an opening is in a           *)
(* transaction with another.                                               *)
(*                                                                         *)
(* A capability is named by the visit that was given it.                   *)
(***************************************************************************)
EXTENDS Integers

CONSTANTS
  Visit,      \* openings of the link
  Setter,     \* requests to set the password
  NoVisit     \* the capability of a request that has presented none

ASSUME InvitationAssumption == NoVisit \notin Visit

VARIABLES
  site,        \* whether sign-up is open, and whether a new password revokes
  purpose,     \* what the row of the link was stored for
  present,     \* whether that row exists
  fresh,       \* whether the link is younger than the confirmation window
  verified,    \* whether the account has a confirmed address
  active,      \* is_active
  password,    \* the password of the account, 0 when it is unusable
  visit,       \* what a visit does next
  gives,       \* whether it is to hand out a capability
  caps,        \* the capabilities whose row exists
  setter,      \* what a set-password request does next
  by,          \* the capability it has claimed
  opened,      \* the requests that got a session, or the challenge to set MFA up
  \* history
  beside,      \* pairs of visits that were replacing the capability at the same time
  overlapped,  \* visits that were on their way when a password was saved
  settled      \* a password was there from the start, or set and the rest revoked

linkVars == <<site, purpose, present, fresh>>
accountVars == <<verified, active, password>>
inviteVisitVars == <<visit, gives>>
setterVars == <<setter, by, opened>>
inviteHistVars == <<beside, overlapped, settled>>
inviteVars ==
  <<linkVars, accountVars, inviteVisitVars, caps, setterVars, inviteHistVars>>

UnderWay == {"confirm", "drop", "hand"}
SetterPC == {"new", "load", "save", "revoke", "forget", "answer", "done"}

InviteInit ==
  /\ site \in [open : BOOLEAN, revokes : BOOLEAN]
  /\ purpose \in {"invitation", "confirmation"}
  /\ password \in {0, 1} /\ verified \in BOOLEAN
  \* send_confirmation_mail calls an account without a password that is being created an
  \* invitation; every other account, and a row of an earlier version, is confirmed.
  /\ purpose = "invitation" => password = 0 /\ ~ verified
  /\ present = TRUE /\ fresh = TRUE /\ active = TRUE
  /\ visit = [v \in Visit |-> "new"] /\ gives = [v \in Visit |-> FALSE]
  /\ setter = [s \in Setter |-> "new"] /\ by = [s \in Setter |-> NoVisit]
  /\ caps = {} /\ opened = {} /\ beside = {} /\ overlapped = {}
  /\ settled = (password # 0)

\* _serves_invitation.
Serves == purpose = "invitation" \/ (~ site.open /\ password = 0)

Visits(v, from, to) == visit[v] = from /\ visit' = [visit EXCEPT ![v] = to]
Sets(s, from, to) == setter[s] = from /\ setter' = [setter EXCEPT ![s] = to]

-----------------------------------------------------------------------------
\* Mutant of Open: any account that is served gets a capability.
OpenAny(v) ==
  /\ present /\ fresh
  /\ active \/ (site.open /\ ~ Serves)
  /\ Visits(v, "new", "confirm")
  /\ gives' = [gives EXCEPT ![v] = Serves]
  /\ UNCHANGED <<linkVars, accountVars, caps, setterVars, inviteHistVars>>

\* Mutant of Open: a click consumes the link, as a reset link is consumed.
OpenOnce(v) ==
  /\ present /\ fresh
  /\ active \/ (site.open /\ ~ Serves)
  /\ Visits(v, "new", "confirm")
  /\ gives' = [gives EXCEPT ![v] = Serves /\ password = 0]
  /\ present' = ~ Serves
  /\ UNCHANGED <<site, purpose, fresh, accountVars, caps, setterVars, inviteHistVars>>

\* _claim_invitation loads the row with its account: no capability is due for a link that is
\* no invitation, nor for an account that has a password.  A link that is no invitation is
\* confirmed by this view or, at an open site, by the default flow, which does not ask
\* whether the account is active.
Open(v) ==
  /\ present /\ fresh
  /\ active \/ (site.open /\ ~ Serves)
  /\ Visits(v, "new", "confirm")
  /\ gives' = [gives EXCEPT ![v] = Serves /\ password = 0]
  /\ UNCHANGED <<linkVars, accountVars, caps, setterVars, inviteHistVars>>

\* _confirm_key: a key that allauth turns down is let pass if the address was confirmed
\* before.
ConfirmKey(v) ==
  LET good == fresh \/ verified IN
  /\ Visits(v, "confirm", IF good /\ gives[v] THEN "drop" ELSE "done")
  /\ verified' = good
  /\ UNCHANGED <<linkVars, active, password, gives, caps, setterVars, inviteHistVars>>

\* Mutant of DropCapabilities: earlier capabilities stay.
DropNoCapabilities(v) ==
  LET others == {w \in Visit : visit[w] = "hand"} IN
  /\ Visits(v, "drop", "hand")
  /\ beside' = beside \cup ({v} \X others) \cup (others \X {v})
  /\ UNCHANGED <<linkVars, accountVars, gives, caps, setterVars, overlapped, settled>>

\* The capabilities of earlier visits are deleted ...
DropCapabilities(v) ==
  LET others == {w \in Visit : visit[w] = "hand"} IN
  /\ Visits(v, "drop", "hand")
  /\ caps' = {}
  /\ beside' = beside \cup ({v} \X others) \cup (others \X {v})
  /\ UNCHANGED <<linkVars, accountVars, gives, setterVars, overlapped, settled>>

\* ... and then that of this one is stored.
HandOver(v) ==
  /\ Visits(v, "hand", "done")
  /\ caps' = caps \cup {v}
  /\ UNCHANGED <<linkVars, accountVars, gives, setterVars, inviteHistVars>>

CrashVisit(v) ==
  /\ visit[v] \in UnderWay
  /\ visit' = [visit EXCEPT ![v] = "done"]
  /\ UNCHANGED <<linkVars, accountVars, gives, caps, setterVars, inviteHistVars>>

-----------------------------------------------------------------------------
\* Mutant of Redeem: the request is not told from the capability.
RedeemUnnamed(s, v) ==
  /\ v \in caps
  /\ Sets(s, "new", "load")
  /\ caps' = caps \ {v}
  /\ by' = [by EXCEPT ![s] = s]
  /\ UNCHANGED <<linkVars, accountVars, inviteVisitVars, opened, inviteHistVars>>

\* SetPasswordView.post with the cookie of visit v: consume claims the capability ...
Redeem(s, v) ==
  /\ v \in caps
  /\ Sets(s, "new", "load")
  /\ caps' = caps \ {v}
  /\ by' = [by EXCEPT ![s] = v]
  /\ UNCHANGED <<linkVars, accountVars, inviteVisitVars, opened, inviteHistVars>>

\* ... load_capability_user turns an inactive account down ...
LoadUser(s) ==
  /\ Sets(s, "load", IF active THEN "save" ELSE "done")
  /\ UNCHANGED <<linkVars, accountVars, inviteVisitVars, caps, by, opened, inviteHistVars>>

\* ... and the form may turn the password down ...
Refuse(s) ==
  /\ Sets(s, "save", "done")
  /\ UNCHANGED <<linkVars, accountVars, inviteVisitVars, caps, by, opened, inviteHistVars>>

\* ... or save it, and with it the account as it was loaded.
SavePassword(s) ==
  /\ Sets(s, "save", IF site.revokes THEN "revoke" ELSE "forget")
  /\ password' = password + 1
  /\ active' = TRUE
  /\ overlapped' = overlapped \cup {v \in Visit : visit[v] \in UnderWay}
  /\ UNCHANGED <<linkVars, verified, inviteVisitVars, caps, by, opened, beside, settled>>

\* revoke_on_credential_change deletes every link and capability, unless the site has opted
\* out ...
Revoke(s) ==
  /\ Sets(s, "revoke", "forget")
  /\ caps' = {}
  /\ present' = FALSE
  /\ settled' = TRUE
  /\ UNCHANGED <<site, purpose, fresh, accountVars, inviteVisitVars, by, opened, beside,
                 overlapped>>

\* ... the link goes in any case ...
ForgetLink(s) ==
  /\ Sets(s, "forget", "answer")
  /\ present' = FALSE
  /\ UNCHANGED <<site, purpose, fresh, accountVars, inviteVisitVars, caps, by, opened,
                 inviteHistVars>>

\* ... and the answer opens a session, or MFA enrolment where that is required.
Respond(s) ==
  /\ Sets(s, "answer", "done")
  /\ opened' = opened \cup {s}
  /\ UNCHANGED <<linkVars, accountVars, inviteVisitVars, caps, by, inviteHistVars>>

CrashSetter(s) ==
  /\ setter[s] \notin {"new", "done"}
  /\ setter' = [setter EXCEPT ![s] = "done"]
  /\ UNCHANGED <<linkVars, accountVars, inviteVisitVars, caps, by, opened, inviteHistVars>>

-----------------------------------------------------------------------------
\* An administrator switches the account off and on.
SetActive ==
  /\ active' = ~ active
  /\ UNCHANGED <<linkVars, verified, password, inviteVisitVars, caps, setterVars,
                 inviteHistVars>>

\* The confirmation window passes.
Age ==
  /\ fresh /\ fresh' = FALSE
  /\ UNCHANGED <<site, purpose, present, accountVars, inviteVisitVars, caps, setterVars,
                 inviteHistVars>>

\* A purge removes the row of a link past the window, by the retention of its purpose.
Purge ==
  /\ present /\ ~ fresh
  /\ present' = FALSE
  /\ UNCHANGED <<site, purpose, fresh, accountVars, inviteVisitVars, caps, setterVars,
                 inviteHistVars>>

\* A capability expires like the access token it is, and its row is purged.
Lapse(v) ==
  /\ v \in caps
  /\ caps' = caps \ {v}
  /\ UNCHANGED <<linkVars, accountVars, inviteVisitVars, setterVars, inviteHistVars>>

InviteNext ==
  \/ \E v \in Visit :
       \/ Open(v) \/ ConfirmKey(v) \/ DropCapabilities(v) \/ HandOver(v) \/ CrashVisit(v)
       \/ Lapse(v)
  \/ \E s \in Setter, v \in Visit : Redeem(s, v)
  \/ \E s \in Setter :
       \/ LoadUser(s) \/ Refuse(s) \/ SavePassword(s) \/ Revoke(s)
       \/ ForgetLink(s) \/ Respond(s) \/ CrashSetter(s)
  \/ SetActive \/ Age \/ Purge

InviteSpec == InviteInit /\ [][InviteNext]_inviteVars

-----------------------------------------------------------------------------
InviteTypeOK ==
  /\ site \in [open : BOOLEAN, revokes : BOOLEAN]
  /\ purpose \in {"invitation", "confirmation"}
  /\ present \in BOOLEAN /\ fresh \in BOOLEAN /\ verified \in BOOLEAN /\ active \in BOOLEAN
  /\ password \in Nat
  /\ visit \in [Visit -> UnderWay \cup {"new", "done"}]
  /\ gives \in [Visit -> BOOLEAN]
  /\ caps \subseteq Visit
  /\ setter \in [Setter -> SetterPC]
  /\ by \in [Setter -> Visit \cup {NoVisit}]
  /\ opened \subseteq Setter
  /\ beside \subseteq Visit \X Visit /\ overlapped \subseteq Visit /\ settled \in BOOLEAN

\* "Only the capability handed out by the latest click stays valid": two are valid at once
\* only if their clicks replaced the capability at the same time.
LatestClick == \A v, w \in caps : v # w => <<v, w>> \in beside

\* Once the account has a password and what was outstanding is revoked, the link is worth a
\* capability only to a click that was under way when a password was saved; for an account
\* that had a password when its link was mailed it never is.
PasswordEndsInvitation == settled => caps \subseteq overlapped

\* The ways into the account, as far as it is active: the link, which works until the window
\* has passed, or a password together with the confirmed address that a login and a reset ask
\* for.
WayIn == (present /\ fresh) \/ (verified /\ password # 0)

\* Nobody is stranded while the invitation lasts, nor after a password was set, however many
\* capabilities are lost to weak passwords, expiry and crashes.  Who lets the window pass without
\* a password has no way in: a click may have confirmed the address by then, and a confirmed
\* address is not invited again, nor is a reset mailed to an account without a password.
NoDeadEnd == Serves /\ (fresh \/ password # 0) => WayIn

=============================================================================
