---------------------------- MODULE Credentials ----------------------------
(***************************************************************************)
(* The password reset beside the session writers of Sessions.  A reset     *)
(* request mails a link (GenericToken.make_token), opening the link trades *)
(* it for a capability kept in a cookie (PasswordResetConfirmView.get) and *)
(* redeeming the cookie sets the password (ResetPasswordView.post).  Links *)
(* and capabilities are rows of GenericTokenModel, claimed by deleting     *)
(* them; nothing but the last step takes the row lock of the user.         *)
(*                                                                         *)
(* A link is named by the request that mailed it and a capability by the   *)
(* visit that was given it.                                                *)
(***************************************************************************)
EXTENDS Sessions, Sequences

CONSTANTS
  Mail,       \* reset requests
  Visit,      \* openings of a mailed link
  NoMail,     \* what a visit that has not begun opens
  NoVisit     \* the capability of a request that redeems none

ASSUME CredentialsAssumption == NoMail \notin Mail /\ NoVisit \notin Visit

VARIABLES
  mail,         \* what a reset request does next
  addressee,    \* the account it was made for
  made,         \* the password its link is derived from
  links,        \* the links whose row exists
  visit,        \* what a visit does next
  via,          \* the link it opens
  drop,         \* the capabilities its DELETE statement saw when it began
  caps,         \* the capabilities whose row exists
  by,           \* the capability a request has redeemed
  \* history
  overlapped,   \* visits that had claimed a link when a revocation committed
  order,        \* the reset requests, as their links were inserted
  ended,        \* links that a visit claimed or a revocation deleted
  crossed       \* requests that inserted a link, and visits that replaced a capability,
                \* while another one of the account was between the same two statements

tableVars == <<links, caps>>
mailVars == <<mail, addressee, made>>
visitVars == <<visit, via, drop>>
pastVars == <<overlapped, order, ended, crossed>>
credVars == <<tableVars, mailVars, visitVars, by, pastVars>>

CredInit ==
  /\ Init
  /\ mail = [m \in Mail |-> "new"]
  /\ addressee = [m \in Mail |-> NoUser]
  /\ made = [m \in Mail |-> 0]
  /\ links = {} /\ caps = {}
  /\ overlapped = {} /\ order = <<>> /\ ended = {} /\ crossed = {}
  /\ visit = [v \in Visit |-> "new"]
  /\ via = [v \in Visit |-> NoMail]
  /\ drop = [v \in Visit |-> {}]
  /\ by = [r \in Req |-> NoVisit]

\* The account a visit is about.
Visitor(v) == addressee[via[v]]

LinksOf(u) == {m \in links : addressee[m] = u}
CapsOf(u) == {v \in caps : Visitor(v) = u}

-----------------------------------------------------------------------------
\* PasswordResetSerializer.save: the address is confirmed, the account active; the link is
\* derived from the password the account is loaded with.
RequestReset(m, u) ==
  /\ mail[m] = "new"
  /\ standing[u] = "active" /\ u \in verified
  /\ mail' = [mail EXCEPT ![m] = "insert"]
  /\ addressee' = [addressee EXCEPT ![m] = u]
  /\ made' = [made EXCEPT ![m] = password[u]]
  /\ UNCHANGED <<vars, tableVars, visitVars, by, pastVars>>

\* History: x begins while the others are at it.
Crossing(x, others) == IF others = {} THEN {} ELSE others \cup {x}

Pruning(u) == {m \in Mail : mail[m] = "prune" /\ addressee[m] = u}

\* make_token: the row of the link is inserted ...
InsertLink(m) ==
  /\ mail[m] = "insert"
  /\ mail' = [mail EXCEPT ![m] = "prune"]
  /\ links' = links \cup {m}
  /\ order' = Append(order, m)
  /\ crossed' = crossed \cup Crossing(m, Pruning(addressee[m]))
  /\ UNCHANGED <<vars, caps, addressee, made, visitVars, by, overlapped, ended>>

\* Mutant of Prune: the other links are left alone.
PruneNothing(m) ==
  /\ mail[m] = "prune"
  /\ mail' = [mail EXCEPT ![m] = "sent"]
  /\ UNCHANGED <<vars, addressee, made, tableVars, visitVars, by, pastVars>>

\* ... then the other links of the account are deleted, and the mail is sent.
Prune(m) ==
  /\ mail[m] = "prune"
  /\ mail' = [mail EXCEPT ![m] = "sent"]
  /\ links' = links \ (LinksOf(addressee[m]) \ {m})
  /\ UNCHANGED <<vars, addressee, made, caps, visitVars, by, pastVars>>

\* PasswordResetConfirmView.get loads the account; Django's check holds as long as the
\* password it reads is the one the link is derived from.  (The address and the last login
\* go into a link too: a visit they make it refuse is a visit that does not happen.)
OpenLink(v, m) ==
  LET u == addressee[m] IN
  /\ visit[v] = "new"
  /\ mail[m] = "sent"
  /\ standing[u] = "active"
  /\ password[u] = made[m]
  /\ visit' = [visit EXCEPT ![v] = "claim"]
  /\ via' = [via EXCEPT ![v] = m]
  /\ UNCHANGED <<vars, tableVars, mailVars, drop, by, pastVars>>

\* Mutant of Claim: the number of rows the DELETE reports is not looked at.
ClaimUncounted(v) ==
  /\ visit[v] = "claim"
  /\ links' = links \ {via[v]}
  /\ ended' = ended \cup ({via[v]} \cap links)
  /\ visit' = [visit EXCEPT ![v] = "replace"]
  /\ UNCHANGED <<vars, caps, mailVars, via, drop, by, overlapped, order, crossed>>

\* GenericTokenModel.consume: whoever deletes the row has the link.
Claim(v) ==
  /\ visit[v] = "claim"
  /\ links' = links \ {via[v]}
  /\ ended' = ended \cup ({via[v]} \cap links)
  /\ visit' = [visit EXCEPT ![v] = IF via[v] \in links THEN "replace" ELSE "done"]
  /\ UNCHANGED <<vars, caps, mailVars, via, drop, by, overlapped, order, crossed>>

Replacing(u) == {v \in Visit : visit[v] = "hand" /\ Visitor(v) = u}

\* The transaction that replaces the capability: its DELETE sees what is there now ...
Replace(v) ==
  /\ visit[v] = "replace"
  /\ visit' = [visit EXCEPT ![v] = "hand"]
  /\ drop' = [drop EXCEPT ![v] = CapsOf(Visitor(v))]
  /\ crossed' = crossed \cup Crossing(v, Replacing(Visitor(v)))
  /\ UNCHANGED <<vars, tableVars, mailVars, via, by, overlapped, order, ended>>

\* Mutant of Hand: the row is written with the token of the link.
HandLink(v) ==
  /\ visit[v] = "hand"
  /\ visit' = [visit EXCEPT ![v] = "done"]
  /\ caps' = (caps \ drop[v]) \cup {via[v]}
  /\ drop' = [drop EXCEPT ![v] = {}]
  /\ UNCHANGED <<vars, links, mailVars, via, by, pastVars>>

\* ... and the new row is inserted; the answer carries the cookie.
Hand(v) ==
  /\ visit[v] = "hand"
  /\ visit' = [visit EXCEPT ![v] = "done"]
  /\ caps' = (caps \ drop[v]) \cup {v}
  /\ drop' = [drop EXCEPT ![v] = {}]
  /\ UNCHANGED <<vars, links, mailVars, via, by, pastVars>>

\* The process serving a reset request or a visit dies.
CrashMail(m) ==
  /\ mail[m] \in {"insert", "prune"}
  /\ mail' = [mail EXCEPT ![m] = "crashed"]
  /\ UNCHANGED <<vars, tableVars, addressee, made, visitVars, by, pastVars>>

CrashVisit(v) ==
  /\ visit[v] \in {"claim", "replace", "hand"}
  /\ visit' = [visit EXCEPT ![v] = "crashed"]
  /\ UNCHANGED <<vars, tableVars, mailVars, via, drop, by, pastVars>>

-----------------------------------------------------------------------------
\* ResetPasswordView.post with the cookie of visit v: the capability is claimed, and the
\* request goes on to save the password ...
Redeem(r, v) ==
  /\ v \in caps
  /\ caps' = caps \ {v}
  /\ Reset(r, Visitor(v))
  /\ by' = [by EXCEPT ![r] = v]
  /\ UNCHANGED <<links, mailVars, visitVars, pastVars>>

\* ... unless the account is inactive or the form rejects the new password, in which case
\* the capability is gone all the same.
Waste(v) ==
  /\ v \in caps
  /\ caps' = caps \ {v}
  /\ UNCHANGED <<vars, links, mailVars, visitVars, by, pastVars>>

\* The commit of a credential change.
Revoking(r) == pc[r] = "apply" /\ kind[r] \in CredentialChange

\* Mutant of Revoke: only the sessions and the links go.
RevokeNoCapability(r) ==
  /\ Revoking(r)
  /\ Apply(r)
  /\ links' = links \ LinksOf(subj[r])
  /\ ended' = ended \cup LinksOf(subj[r])
  /\ overlapped' = overlapped \cup
       {v \in Visit : visit[v] \in {"replace", "hand"} /\ Visitor(v) = subj[r]}
  /\ UNCHANGED <<caps, mailVars, visitVars, by, order, crossed>>

\* revoke_on_credential_change: the commit that deletes the sessions deletes the links and
\* the capabilities of the account too.
Revoke(r) ==
  LET u == subj[r] IN
  /\ Revoking(r)
  /\ Apply(r)
  /\ links' = links \ LinksOf(u)
  /\ ended' = ended \cup LinksOf(u)
  /\ caps' = caps \ CapsOf(u)
  /\ overlapped' = overlapped \cup
       {v \in Visit : visit[v] \in {"replace", "hand"} /\ Visitor(v) = u}
  /\ UNCHANGED <<mailVars, visitVars, by, order, crossed>>

CredNext ==
  \/ \E m \in Mail, u \in User : RequestReset(m, u)
  \/ \E m \in Mail : InsertLink(m) \/ Prune(m) \/ CrashMail(m)
  \/ \E v \in Visit, m \in Mail : OpenLink(v, m)
  \/ \E v \in Visit : Claim(v) \/ Replace(v) \/ Hand(v) \/ CrashVisit(v) \/ Waste(v)
  \/ \E r \in Req, v \in Visit : Redeem(r, v)
  \/ \E r \in Req : Revoke(r) \/ (~ Revoking(r) /\ Serve(r) /\ UNCHANGED credVars)
  \/ Others /\ UNCHANGED credVars

CredSpec == CredInit /\ [][CredNext]_<<vars, credVars>>

-----------------------------------------------------------------------------
CredTypeOK ==
  /\ TypeOK
  /\ mail \in [Mail -> {"new", "insert", "prune", "sent", "crashed"}]
  /\ addressee \in [Mail -> User \cup {NoUser}]
  /\ made \in [Mail -> Nat]
  /\ links \subseteq Mail
  /\ visit \in [Visit -> {"new", "claim", "replace", "hand"} \cup Ended]
  /\ via \in [Visit -> Mail \cup {NoMail}]
  /\ drop \in [Visit -> SUBSET Visit]
  /\ caps \subseteq Visit
  /\ by \in [Req -> Visit \cup {NoVisit}]
  /\ overlapped \subseteq Visit
  /\ order \in Seq(Mail)
  /\ ended \subseteq Mail
  /\ crossed \subseteq Mail \cup Visit

-----------------------------------------------------------------------------
\* How far a link has come, and what it has done.
Opening(m) == {v \in Visit : via[v] = m}
ResetsBy(m) == {r \in Req : by[r] # NoVisit /\ via[by[r]] = m}

TicketState(m) ==
  IF ResetsBy(m) # {} THEN "spent"
  ELSE IF Opening(m) \cap caps # {} THEN "cap"
  ELSE IF \E v \in Opening(m) : visit[v] \in {"replace", "hand"} THEN "held"
  ELSE IF m \in links THEN "open"
  ELSE IF mail[m] \in {"new", "insert"} THEN "none"
  ELSE "dead"

Tickets == INSTANCE Ticket WITH
  Link <- Mail,
  state <- [m \in Mail |-> TicketState(m)],
  resets <- [m \in Mail |-> Cardinality(ResetsBy(m))]

\* Every mailed link keeps the promise of Ticket: however often it is opened at once,
\* however often the cookie is sent, and whichever writer deletes the row meanwhile, it
\* goes forward only and sets at most one password.
ImplementsTickets == Tickets!TicketSpec

\* Of the links that were mailed, one per account works.
OneLinkWorks ==
  \A m, n \in links : mail[m] = "sent" /\ mail[n] = "sent" /\ addressee[m] = addressee[n] => m = n

Later(m, n) == \E i, j \in DOMAIN order : i < j /\ order[i] = m /\ order[j] = n

\* The row of the last link that was mailed is there until the link is used or revoked,
\* unless the request ran beside another one of the account: each may then have deleted the
\* other's link.
LastLinkWorks ==
  \A m \in Mail :
    mail[m] = "sent" /\ m \notin links \cup ended \cup crossed =>
      \E n \in Mail : addressee[n] = addressee[m] /\ Later(m, n)

\* An account has one capability, unless two visits replaced it at once.
OneCapability ==
  \A v, w \in caps : Visitor(v) = Visitor(w) /\ v # w => {v, w} \subseteq crossed

\* make_token inserts before it deletes and get deletes before it inserts, neither under
\* a lock: what a user may rely on is that the last link works and the others do not.
LatestOnly == OneLinkWorks /\ LastLinkWorks /\ OneCapability

\* The visits that have claimed a link and hold, or will be given, its capability.
Claimants == caps \cup {v \in Visit : visit[v] \in {"replace", "hand"}}

\* Once the revocation of a credential change has committed, nothing is left of the
\* earlier links but what a visit had already claimed, and not yet handed over, when it
\* committed: stale links are not accepted, stale capabilities are gone.
RevocationTakesResets ==
  \A v \in Claimants \ overlapped :
    made[via[v]] >= floor[Visitor(v)] \/ Visitor(v) \in undone

=============================================================================
