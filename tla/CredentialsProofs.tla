--------------------------- MODULE CredentialsProofs ---------------------------
(***************************************************************************)
(* The invariants of Credentials and that every mailed link implements     *)
(* Ticket, for any number of accounts, requests, mails and visits.  What   *)
(* the session writers do beside it is proved in SessionsProofs.           *)
(***************************************************************************)
EXTENDS Credentials, SessionsProofs, FiniteSetTheorems, SequenceTheorems

\* What a mail, a link, a visit and a capability have been through.
Begun ==
  /\ \A m \in Mail : mail[m] # "new" => addressee[m] \in User
  /\ \A m \in links : mail[m] \in {"prune", "sent", "crashed"}
  /\ \A v \in Visit : visit[v] # "new" => via[v] \in Mail /\ mail[via[v]] = "sent"
  /\ \A v \in caps : visit[v] = "done"

Inserted(m) == \E i \in DOMAIN order : order[i] = m

\* A mail is in the order from when its link is inserted.  One that is still to delete the
\* others while a later one of the account is inserted is beside it.
InOrder ==
  /\ \A m \in Mail : mail[m] \in {"prune", "sent"} \/ m \in links => Inserted(m)
  /\ \A m \in Mail : Inserted(m) => mail[m] \notin {"new", "insert"}
  /\ \A m, n \in Mail :
       mail[n] = "prune" /\ addressee[m] = addressee[n] /\ Later(n, m) => m \in crossed

\* The row of a link that was ever inserted is there, or went for a reason, or for a later one.
LastInserted ==
  \A m \in Mail : Inserted(m) /\ m \notin links \cup ended \cup crossed =>
    \E n \in Mail : addressee[n] = addressee[m] /\ Later(m, n)

\* A capability that a replacement under way has not seen, and two replacements under way,
\* are beside each other.
ReplacedInTurn ==
  \A v \in Visit : visit[v] = "hand" =>
    /\ \A w \in caps \ drop[v] : Visitor(w) = Visitor(v) => {v, w} \subseteq crossed
    /\ \A w \in Visit : visit[w] = "hand" /\ Visitor(w) = Visitor(v) /\ v # w =>
         {v, w} \subseteq crossed

\* Only a profile update puts an earlier password back.
Latest == \A u \in User : u \in undone \/ password[u] = changes[u]

\* A visit that has its link still to claim opened it with the password in force, and no
\* revocation came since, or else the row is gone.
OpenedInForce ==
  \A v \in Visit : visit[v] = "claim" /\ via[v] \in links =>
    made[via[v]] >= floor[Visitor(v)] \/ Visitor(v) \in undone

\* The visits that got their link, and what became of it.
Holder(v) ==
  visit[v] \in {"replace", "hand"} \/ v \in caps \/ \E r \in Req : by[r] = v

\* One visit gets the link, its row is gone then, and one request gets the capability.
OneHolder ==
  /\ \A v \in Visit : Holder(v) => via[v] \notin links
  /\ \A v, w \in Visit : Holder(v) /\ Holder(w) /\ via[v] = via[w] => v = w
  /\ \A r \in Req : by[r] # NoVisit => by[r] \notin caps /\ visit[by[r]] = "done"
  /\ \A q, r \in Req : by[r] # NoVisit /\ by[q] = by[r] => q = r
  /\ \A r \in Req : pc[r] = "new" => by[r] = NoVisit

CredInv ==
  /\ IInv /\ LatestInv
  /\ CredTypeOK /\ Begun /\ InOrder /\ LastInserted /\ OneLinkWorks /\ ReplacedInTurn
  /\ OneCapability /\ Latest /\ OpenedInForce /\ RevocationTakesResets /\ OneHolder

-----------------------------------------------------------------------------
\* What the session writers do to an account and to a request: only a revocation of a
\* credential change moves a floor, nothing is redone that was undone, and a request arrives
\* once.
LEMMA AccountFacts ==
  ASSUME IInv, [Next]_vars
  PROVE  /\ \A r \in Req : pc'[r] = "new" => pc[r] = "new"
         /\ undone \subseteq undone'
         /\ Latest => Latest'
         /\ (\A r \in Req : ~ (Revoking(r) /\ Apply(r))) => floor' = floor
  <1> USE DEF accountVars, reqVars, Latest
  <1>0. /\ pc \in [Req -> PC] /\ subj \in [Req -> User \cup {NoUser}]
        /\ password \in [User -> Nat] /\ changes \in [User -> Nat]
        /\ \A r \in Req : pc[r] # "new" => subj[r] \in User
    BY DEF IInv, TypeOK, RequestsInv
  <1>1. ASSUME NEW r \in Req, NEW k, NEW u, NEW t, NEW sc, NEW next,
               Arrive(r, k, u, t, sc, next), UNCHANGED <<password, changes, undone>>
        PROVE  /\ \A q \in Req : pc'[q] = "new" => pc[q] = "new"
               /\ undone \subseteq undone' /\ (Latest => Latest') /\ floor' = floor
    BY <1>0, <1>1 DEF Arrive
  <1>2. ASSUME NEW r \in Req, NEW u \in User,
               \/ Login(r, u) \/ Signup(r, u) \/ LogoutAll(r, u) \/ Change(r, u)
               \/ LoadProfile(r, u) \/ Reset(r, u)
        PROVE  /\ \A q \in Req : pc'[q] = "new" => pc[q] = "new"
               /\ undone \subseteq undone' /\ (Latest => Latest') /\ floor' = floor
    BY <1>1, <1>2 DEF Login, Signup, LogoutAll, Change, LoadProfile, Reset
  <1>3. ASSUME NEW r \in Req, NEW t \in Token, Refresh(r, t) \/ Logout(r, t)
        PROVE  /\ \A q \in Req : pc'[q] = "new" => pc[q] = "new"
               /\ undone \subseteq undone' /\ (Latest => Latest') /\ floor' = floor
    BY <1>1, <1>3 DEF Refresh, Logout
  <1>4. ASSUME NEW r \in Req, SavePassword(r)
        PROVE  /\ \A q \in Req : pc'[q] = "new" => pc[q] = "new"
               /\ undone \subseteq undone' /\ (Latest => Latest') /\ floor' = floor
    BY <1>0, <1>4 DEF SavePassword
  <1>5. ASSUME NEW r \in Req, SaveProfile(r)
        PROVE  /\ \A q \in Req : pc'[q] = "new" => pc[q] = "new"
               /\ undone \subseteq undone' /\ (Latest => Latest') /\ floor' = floor
    <2>1. /\ \A q \in Req : pc'[q] = "new" => pc[q] = "new"
          /\ undone \subseteq undone' /\ floor' = floor
      BY <1>0, <1>5 DEF SaveProfile
    <2>2. /\ \A u \in User \ {subj[r]} : password'[u] = password[u]
          /\ changes' = changes
          /\ subj[r] \in undone' \/ password' = password
      BY <1>0, <1>5 DEF SaveProfile
    <2> QED
      BY <2>1, <2>2
  <1>6. ASSUME NEW r \in Req, Mint(r) \/ Lock(r) \/ Rotate(r) \/ Delete(r) \/ Crash(r)
        PROVE  /\ \A q \in Req : pc'[q] = "new" => pc[q] = "new"
               /\ undone \subseteq undone' /\ (Latest => Latest') /\ floor' = floor
    <2>1. UNCHANGED <<password, changes, undone, floor>>
      BY <1>6 DEF Mint, Lock, Rotate, Delete, Crash
    <2>2. \A q \in Req : pc'[q] = "new" => pc[q] = "new"
      BY <1>0, <1>6 DEF Mint, Lock, Rotate, Delete, Crash
    <2> QED
      BY <2>1, <2>2
  <1>7. ASSUME NEW r \in Req, Apply(r)
        PROVE  /\ \A q \in Req : pc'[q] = "new" => pc[q] = "new"
               /\ undone \subseteq undone' /\ (Latest => Latest')
               /\ ~ Revoking(r) => floor' = floor
    BY <1>0, <1>7 DEF Apply, Revoking
  <1>8. CASE UNCHANGED <<pc, password, changes, undone, floor>>
    BY <1>8
  <1> QED
    BY <1>2, <1>3, <1>4, <1>5, <1>6, <1>7, <1>8
    DEF Next, Others, Serve, Deactivate, Expire, vars

\* A step of Credentials is a step of Sessions, or leaves it alone.
LEMMA CredStep ==
  ASSUME CredTypeOK, Begun, [CredNext]_<<vars, credVars>> PROVE [Next]_vars
  <1>1. ASSUME NEW r \in Req, NEW v \in Visit, Redeem(r, v) PROVE Next
    <2>1. v \in caps /\ Reset(r, Visitor(v))
      BY <1>1 DEF Redeem
    <2>2. Visitor(v) \in User
      BY <2>1 DEF Begun, Visitor
    <2> QED
      BY <2>1, <2>2 DEF Next
  <1>2. ASSUME NEW r \in Req, Revoke(r) PROVE Next
    BY <1>2 DEF Revoke, Next, Serve
  <1>3. CASE \/ \E m \in Mail, u \in User : RequestReset(m, u)
             \/ \E m \in Mail : InsertLink(m) \/ Prune(m) \/ CrashMail(m)
             \/ \E v \in Visit, m \in Mail : OpenLink(v, m)
             \/ \E v \in Visit : Claim(v) \/ Replace(v) \/ Hand(v) \/ CrashVisit(v) \/ Waste(v)
    BY <1>3 DEF RequestReset, InsertLink, Prune, CrashMail, OpenLink, Claim, Replace, Hand,
       CrashVisit, Waste
  <1>4. CASE \/ \E r \in Req : ~ Revoking(r) /\ Serve(r) /\ UNCHANGED credVars
             \/ Others /\ UNCHANGED credVars
    BY <1>4 DEF Next
  <1>5. CASE UNCHANGED <<vars, credVars>>
    BY <1>5
  <1> QED
    BY <1>1, <1>2, <1>3, <1>4, <1>5 DEF CredNext
-----------------------------------------------------------------------------
LEMMA CredInitInv == CredInit => CredInv
  <1> SUFFICES ASSUME CredInit PROVE CredInv
    OBVIOUS
  <1> USE DEF CredInit
  <1>1. IInv /\ TypeOK
    BY InitIInv DEF IInv
  <1>2. LatestInv /\ Latest
    BY DEF Init, LatestInv, Latest
  <1>3. order \in Seq(Mail) /\ DOMAIN order = {}
    OBVIOUS
  <1>4. CredTypeOK
    BY <1>1, <1>3 DEF CredTypeOK, Ended
  <1>5. Begun /\ InOrder /\ LastInserted /\ OneLinkWorks
    BY <1>3 DEF Begun, InOrder, LastInserted, OneLinkWorks, Inserted, Later
  <1>6. ReplacedInTurn /\ OneCapability /\ OpenedInForce /\ RevocationTakesResets
    BY DEF ReplacedInTurn, OneCapability, OpenedInForce, RevocationTakesResets, Claimants
  <1>7. OneHolder
    BY DEF OneHolder, Holder
  <1> QED
    BY <1>1, <1>2, <1>4, <1>5, <1>6, <1>7 DEF CredInv

\* What appending to the order does to it.
LEMMA AppendFacts ==
  ASSUME order \in Seq(Mail), NEW m \in Mail, order' = Append(order, m)
  PROVE  /\ order' \in Seq(Mail)
         /\ DOMAIN order' = DOMAIN order \cup {Len(order) + 1}
         /\ order'[Len(order) + 1] = m
         /\ DOMAIN order \subseteq Nat
         /\ \A i \in DOMAIN order : order'[i] = order[i] /\ i < Len(order) + 1
  OBVIOUS

LEMMA CredTypeNext ==
  ASSUME CredInv, [CredNext]_<<vars, credVars>>, TypeOK' PROVE CredTypeOK'
  <1> USE DEF CredInv, CredTypeOK, Ended, tableVars, mailVars, visitVars, pastVars, credVars
  <1>1. ASSUME NEW m \in Mail, NEW u \in User, RequestReset(m, u) PROVE CredTypeOK'
    <2>1. password[u] \in Nat
      BY DEF TypeOK
    <2> QED
      BY <1>1, <2>1 DEF RequestReset
  <1>2. ASSUME NEW m \in Mail, InsertLink(m) PROVE CredTypeOK'
    <2>1. order' \in Seq(Mail)
      BY <1>2, AppendFacts DEF InsertLink
    <2>2. crossed' \subseteq Mail \cup Visit
      BY <1>2 DEF InsertLink, Crossing, Pruning
    <2>3. mail' \in [Mail -> {"new", "insert", "prune", "sent", "crashed"}] /\ links' \subseteq Mail
      BY <1>2 DEF InsertLink
    <2> QED
      BY <1>2, <2>1, <2>2, <2>3 DEF InsertLink
  <1>3. ASSUME NEW m \in Mail, Prune(m) PROVE CredTypeOK'
    BY <1>3 DEF Prune
  <1>4. ASSUME NEW m \in Mail, CrashMail(m) PROVE CredTypeOK'
    BY <1>4 DEF CrashMail
  <1>5. ASSUME NEW v \in Visit, NEW m \in Mail, OpenLink(v, m) PROVE CredTypeOK'
    BY <1>5 DEF OpenLink
  <1>6. ASSUME NEW v \in Visit, Claim(v) PROVE CredTypeOK'
    BY <1>6 DEF Claim
  <1>7. ASSUME NEW v \in Visit, Replace(v) PROVE CredTypeOK'
    <2>1. drop' \in [Visit -> SUBSET Visit]
      BY <1>7 DEF Replace, CapsOf
    <2>2. crossed' \subseteq Mail \cup Visit
      BY <1>7 DEF Replace, Crossing, Replacing
    <2> QED
      BY <1>7, <2>1, <2>2 DEF Replace
  <1>8. ASSUME NEW v \in Visit, Hand(v) PROVE CredTypeOK'
    BY <1>8 DEF Hand
  <1>9. ASSUME NEW v \in Visit, CrashVisit(v) PROVE CredTypeOK'
    BY <1>9 DEF CrashVisit
  <1>10. ASSUME NEW v \in Visit, Waste(v) PROVE CredTypeOK'
    BY <1>10 DEF Waste
  <1>11. ASSUME NEW r \in Req, NEW v \in Visit, Redeem(r, v) PROVE CredTypeOK'
    BY <1>11 DEF Redeem
  <1>12. ASSUME NEW r \in Req, Revoke(r) PROVE CredTypeOK'
    BY <1>12 DEF Revoke, LinksOf
  <1>13. CASE UNCHANGED credVars
    BY <1>13
  <1> QED
    BY <1>1, <1>2, <1>3, <1>4, <1>5, <1>6, <1>7, <1>8, <1>9, <1>10, <1>11, <1>12, <1>13
    DEF CredNext

LEMMA BegunNext ==
  ASSUME CredInv, [CredNext]_<<vars, credVars>> PROVE Begun'
  <1> USE DEF CredInv, CredTypeOK, Begun, tableVars, mailVars, visitVars, pastVars, credVars
  <1>1. ASSUME NEW m \in Mail, NEW u \in User, RequestReset(m, u) PROVE Begun'
    BY <1>1 DEF RequestReset
  <1>2. ASSUME NEW m \in Mail, InsertLink(m) PROVE Begun'
    BY <1>2 DEF InsertLink
  <1>3. ASSUME NEW m \in Mail, Prune(m) PROVE Begun'
    BY <1>3 DEF Prune
  <1>4. ASSUME NEW m \in Mail, CrashMail(m) PROVE Begun'
    BY <1>4 DEF CrashMail
  <1>5. ASSUME NEW v \in Visit, NEW m \in Mail, OpenLink(v, m) PROVE Begun'
    BY <1>5 DEF OpenLink
  <1>6. ASSUME NEW v \in Visit, Claim(v) PROVE Begun'
    BY <1>6 DEF Claim
  <1>7. ASSUME NEW v \in Visit, Replace(v) PROVE Begun'
    BY <1>7 DEF Replace
  <1>8. ASSUME NEW v \in Visit, Hand(v) PROVE Begun'
    BY <1>8 DEF Hand
  <1>9. ASSUME NEW v \in Visit, CrashVisit(v) PROVE Begun'
    BY <1>9 DEF CrashVisit
  <1>10. ASSUME NEW v \in Visit, Waste(v) PROVE Begun'
    BY <1>10 DEF Waste
  <1>11. ASSUME NEW r \in Req, NEW v \in Visit, Redeem(r, v) PROVE Begun'
    BY <1>11 DEF Redeem
  <1>12. ASSUME NEW r \in Req, Revoke(r) PROVE Begun'
    BY <1>12 DEF Revoke
  <1>13. CASE UNCHANGED credVars
    BY <1>13
  <1> QED
    BY <1>1, <1>2, <1>3, <1>4, <1>5, <1>6, <1>7, <1>8, <1>9, <1>10, <1>11, <1>12, <1>13
    DEF CredNext
-----------------------------------------------------------------------------
\* A step that inserts no link and prunes none may take links away, for a reason.
LEMMA OrderUnmoved ==
  ASSUME CredInv, UNCHANGED <<addressee, order, crossed>>, links' \subseteq links,
         links \ links' \subseteq ended', ended \subseteq ended',
         \A m \in Mail : mail'[m] = mail[m] \/ (mail[m] = "prune" /\ mail'[m] = "crashed")
                                           \/ (mail[m] = "insert" /\ mail'[m] = "crashed")
  PROVE  InOrder' /\ LastInserted' /\ OneLinkWorks'
  <1> USE DEF CredInv
  <1>1. InOrder'
    BY DEF InOrder, Inserted, Later
  <1>2. LastInserted'
    BY DEF LastInserted, Inserted, Later
  <1>3. OneLinkWorks'
    BY DEF OneLinkWorks, CredTypeOK
  <1> QED
    BY <1>1, <1>2, <1>3

LEMMA OrderNext ==
  ASSUME CredInv, [CredNext]_<<vars, credVars>>
  PROVE  InOrder' /\ LastInserted' /\ OneLinkWorks'
  <1> USE DEF CredInv, tableVars, mailVars, visitVars, pastVars, credVars
  <1>0. /\ mail \in [Mail -> {"new", "insert", "prune", "sent", "crashed"}]
        /\ addressee \in [Mail -> User \cup {NoUser}]
        /\ links \subseteq Mail /\ order \in Seq(Mail)
    BY DEF CredTypeOK
  \* What the order says stays as it is if the order does.
  <1>l. ASSUME UNCHANGED order
        PROVE  \A x, y \in Mail : (Later(x, y)' <=> Later(x, y)) /\ (Inserted(x)' <=> Inserted(x))
    BY <1>l DEF Later, Inserted
  <1>1. ASSUME NEW m \in Mail, NEW u \in User, RequestReset(m, u)
        PROVE  InOrder' /\ LastInserted' /\ OneLinkWorks'
    <2>1. /\ mail[m] = "new" /\ mail' = [mail EXCEPT ![m] = "insert"]
          /\ addressee' = [addressee EXCEPT ![m] = u]
          /\ UNCHANGED <<links, order, ended, crossed>>
      BY <1>1 DEF RequestReset
    <2>2. m \notin links /\ ~ Inserted(m)
      BY <2>1 DEF Begun, InOrder
    <2>3. \A x, y \in Mail : Later(x, y) => Inserted(x) /\ Inserted(y)
      BY DEF Later, Inserted
    <2>4. InOrder'
      BY <1>0, <1>l, <2>1, <2>2, <2>3 DEF InOrder
    <2>5. LastInserted'
      BY <1>0, <1>l, <2>1, <2>2, <2>3 DEF LastInserted
    <2>6. OneLinkWorks'
      BY <1>0, <2>1, <2>2 DEF OneLinkWorks
    <2> QED
      BY <2>4, <2>5, <2>6
  <1>2. ASSUME NEW m \in Mail, InsertLink(m) PROVE InOrder' /\ LastInserted' /\ OneLinkWorks'
    <2> DEFINE end == Len(order) + 1
    <2>1. /\ mail[m] = "insert" /\ mail' = [mail EXCEPT ![m] = "prune"]
          /\ links' = links \cup {m} /\ order' = Append(order, m)
          /\ crossed' = crossed \cup Crossing(m, Pruning(addressee[m]))
          /\ UNCHANGED <<addressee, ended>>
      BY <1>2 DEF InsertLink
    <2>2. /\ DOMAIN order' = DOMAIN order \cup {end} /\ order'[end] = m
          /\ DOMAIN order \subseteq Nat /\ end \in Nat
          /\ \A i \in DOMAIN order : order'[i] = order[i] /\ i < end
      BY <1>0, <2>1, AppendFacts
    <2>3. m \notin links /\ ~ Inserted(m)
      BY <2>1 DEF Begun, InOrder
    <2> HIDE DEF end
    <2>4. \A x \in Mail : Inserted(x)' <=> Inserted(x) \/ x = m
      BY <2>2 DEF Inserted
    <2>5. \A x, y \in Mail : Later(x, y) => Later(x, y)'
      BY <2>2 DEF Later
    <2>6. \A x, y \in Mail : Later(x, y)' => Later(x, y) \/ (y = m /\ x # m)
      BY <2>2, <2>3 DEF Later, Inserted
    <2>7. InOrder'
      <3>1. \A x \in Mail : mail'[x] \in {"prune", "sent"} \/ x \in links' => Inserted(x)'
        BY <1>0, <2>1, <2>4 DEF InOrder
      <3>2. \A x \in Mail : Inserted(x)' => mail'[x] \notin {"new", "insert"}
        BY <1>0, <2>1, <2>4 DEF InOrder
      <3>3. ASSUME NEW x \in Mail, NEW n \in Mail, mail'[n] = "prune",
                   addressee[x] = addressee[n], Later(n, x)'
            PROVE  x \in crossed'
        <4>1. CASE x = m /\ n # m
          <5>1. n \in Pruning(addressee[m])
            BY <1>0, <2>1, <3>3, <4>1 DEF Pruning
          <5> QED
            BY <2>1, <4>1, <5>1 DEF Crossing
        <4>2. CASE Later(n, x)
          <5>1. n # m
            BY <2>3, <4>2 DEF Later, Inserted
          <5> QED
            BY <1>0, <2>1, <3>3, <4>2, <5>1 DEF InOrder
        <4> QED
          BY <2>6, <3>3, <4>1, <4>2
      <3> QED
        BY <2>1, <3>1, <3>2, <3>3 DEF InOrder
    <2>8. LastInserted'
      BY <1>0, <2>1, <2>4, <2>5 DEF LastInserted
    <2>9. OneLinkWorks'
      BY <1>0, <2>1 DEF OneLinkWorks
    <2> QED
      BY <2>7, <2>8, <2>9
  <1>3. ASSUME NEW m \in Mail, Prune(m) PROVE InOrder' /\ LastInserted' /\ OneLinkWorks'
    <2>1. /\ mail[m] = "prune" /\ mail' = [mail EXCEPT ![m] = "sent"]
          /\ links' = links \ (LinksOf(addressee[m]) \ {m})
          /\ UNCHANGED <<addressee, order, ended, crossed>>
      BY <1>3 DEF Prune
    <2>2. InOrder'
      BY <1>0, <1>l, <2>1 DEF InOrder
    <2>3. LastInserted'
      <3> SUFFICES ASSUME NEW x \in Mail, Inserted(x), x \notin links' \cup ended \cup crossed
                   PROVE  \E n \in Mail : addressee[n] = addressee[x] /\ Later(x, n)
        BY <1>l, <2>1 DEF LastInserted
      <3>1. CASE x \notin links
        BY <3>1 DEF LastInserted
      \* The link went just now: the one that is mailed is later, or was inserted beside it.
      <3>2. CASE x \in links
        <4>1. x # m /\ addressee[x] = addressee[m]
          BY <2>1, <3>2 DEF LinksOf
        <4>2. PICK i \in DOMAIN order : order[i] = x
          BY DEF Inserted
        <4>3. PICK j \in DOMAIN order : order[j] = m
          BY <2>1 DEF InOrder, Inserted
        <4>4. ~ Later(m, x)
          BY <2>1, <4>1 DEF InOrder
        <4>5. i \in Nat /\ j \in Nat /\ i # j
          BY <1>0, <4>1, <4>2, <4>3
        <4>6. i < j \/ j < i
          BY <4>5
        <4>7. Later(x, m)
          BY <4>2, <4>3, <4>4, <4>6 DEF Later
        <4> QED
          BY <4>1, <4>7
      <3> QED
        BY <3>1, <3>2
    <2>4. OneLinkWorks'
      BY <1>0, <2>1 DEF OneLinkWorks, LinksOf
    <2> QED
      BY <2>2, <2>3, <2>4
  <1>4. ASSUME NEW m \in Mail, CrashMail(m) PROVE InOrder' /\ LastInserted' /\ OneLinkWorks'
    BY <1>0, <1>4, OrderUnmoved DEF CrashMail
  <1>5. ASSUME NEW v \in Visit, NEW m \in Mail, OpenLink(v, m)
        PROVE  InOrder' /\ LastInserted' /\ OneLinkWorks'
    BY <1>5, OrderUnmoved DEF OpenLink
  <1>6. ASSUME NEW v \in Visit, Claim(v) PROVE InOrder' /\ LastInserted' /\ OneLinkWorks'
    BY <1>6, OrderUnmoved DEF Claim
  <1>7. ASSUME NEW v \in Visit, Replace(v) PROVE InOrder' /\ LastInserted' /\ OneLinkWorks'
    <2>1. UNCHANGED <<mail, addressee, links, order, ended>> /\ crossed \subseteq crossed'
      BY <1>7 DEF Replace
    <2> QED
      BY <1>l, <2>1 DEF InOrder, LastInserted, OneLinkWorks
  <1>8. ASSUME NEW v \in Visit, Hand(v) \/ CrashVisit(v) \/ Waste(v)
        PROVE  InOrder' /\ LastInserted' /\ OneLinkWorks'
    BY <1>8, OrderUnmoved DEF Hand, CrashVisit, Waste
  <1>9. ASSUME NEW r \in Req, NEW v \in Visit, Redeem(r, v)
        PROVE  InOrder' /\ LastInserted' /\ OneLinkWorks'
    BY <1>9, OrderUnmoved DEF Redeem
  <1>10. ASSUME NEW r \in Req, Revoke(r) PROVE InOrder' /\ LastInserted' /\ OneLinkWorks'
    BY <1>10, OrderUnmoved DEF Revoke
  <1>11. CASE UNCHANGED credVars
    BY <1>11, OrderUnmoved
  <1> QED
    BY <1>1, <1>2, <1>3, <1>4, <1>5, <1>6, <1>7, <1>8, <1>9, <1>10, <1>11 DEF CredNext
-----------------------------------------------------------------------------
\* The account a visit is about is settled when it begins.
LEMMA VisitorSettled ==
  ASSUME CredInv, [CredNext]_<<vars, credVars>>
  PROVE  \A v \in Visit : visit[v] # "new" =>
           /\ via'[v] = via[v] /\ Visitor(v)' = Visitor(v) /\ made'[via[v]] = made[via[v]]
           /\ Visitor(v) \in User
  <1> USE DEF CredInv, CredTypeOK, Begun, tableVars, mailVars, visitVars, pastVars, credVars,
              Visitor
  <1>1. ASSUME NEW m \in Mail, NEW u \in User, RequestReset(m, u)
        PROVE  \A v \in Visit : visit[v] # "new" =>
                 /\ via'[v] = via[v] /\ addressee'[via'[v]] = addressee[via[v]]
                 /\ made'[via[v]] = made[via[v]]
    BY <1>1 DEF RequestReset
  <1>2. ASSUME NEW v \in Visit, NEW m \in Mail, OpenLink(v, m)
        PROVE  \A w \in Visit : visit[w] # "new" =>
                 /\ via'[w] = via[w] /\ addressee'[via'[w]] = addressee[via[w]]
                 /\ made'[via[w]] = made[via[w]]
    BY <1>2 DEF OpenLink
  <1>3. ASSUME UNCHANGED <<addressee, made, via>>
        PROVE  \A w \in Visit : visit[w] # "new" =>
                 /\ via'[w] = via[w] /\ addressee'[via'[w]] = addressee[via[w]]
                 /\ made'[via[w]] = made[via[w]]
    BY <1>3
  <1>4. \A v \in Visit : visit[v] # "new" => addressee[via[v]] \in User
    OBVIOUS
  <1> QED
    BY <1>1, <1>2, <1>3, <1>4
    DEF CredNext, InsertLink, Prune, CrashMail, Claim, Replace, Hand, CrashVisit, Waste,
        Redeem, Revoke

LEMMA ReplacedNext ==
  ASSUME CredInv, [CredNext]_<<vars, credVars>> PROVE ReplacedInTurn' /\ OneCapability'
  <1> USE DEF CredInv, tableVars, mailVars, visitVars, pastVars, credVars
  <1>0. /\ visit \in [Visit -> {"new", "claim", "replace", "hand"} \cup Ended]
        /\ drop \in [Visit -> SUBSET Visit] /\ caps \subseteq Visit
        /\ \A v \in caps : visit[v] = "done"
    BY DEF CredTypeOK, Begun
  <1>v. \A v \in Visit : visit[v] # "new" => Visitor(v)' = Visitor(v)
    BY VisitorSettled
  \* A step that hands no capability out and begins no replacement.
  <1>1. ASSUME caps' \subseteq caps, crossed \subseteq crossed',
               \A v \in Visit : visit'[v] = "hand" => visit[v] = "hand" /\ drop'[v] = drop[v]
        PROVE  ReplacedInTurn' /\ OneCapability'
    <2>1. ASSUME NEW v \in Visit, visit'[v] = "hand", NEW w \in caps' \ drop'[v],
                 Visitor(w)' = Visitor(v)'
          PROVE  {v, w} \subseteq crossed'
      <3>1. visit[v] = "hand" /\ w \in caps \ drop[v] /\ w \in Visit /\ visit[w] = "done"
        BY <1>0, <1>1, <2>1
      <3>2. Visitor(w) = Visitor(v)
        BY <1>v, <2>1, <3>1
      <3> QED
        BY <1>1, <3>1, <3>2 DEF ReplacedInTurn
    <2>2. ASSUME NEW v \in Visit, visit'[v] = "hand", NEW w \in Visit, visit'[w] = "hand",
                 Visitor(w)' = Visitor(v)', v # w
          PROVE  {v, w} \subseteq crossed'
      <3>1. visit[v] = "hand" /\ visit[w] = "hand"
        BY <1>1, <2>2
      <3>2. Visitor(w) = Visitor(v)
        BY <1>v, <2>2, <3>1
      <3> QED
        BY <1>1, <2>2, <3>1, <3>2 DEF ReplacedInTurn
    <2>3. ASSUME NEW v \in caps', NEW w \in caps', Visitor(v)' = Visitor(w)', v # w
          PROVE  {v, w} \subseteq crossed'
      <3>1. v \in Visit /\ w \in Visit /\ visit[v] = "done" /\ visit[w] = "done"
        BY <1>0, <1>1
      <3>2. Visitor(v) = Visitor(w)
        BY <1>v, <2>3, <3>1
      <3> QED
        BY <1>1, <2>3, <3>2 DEF OneCapability
    <2> QED
      BY <2>1, <2>2, <2>3 DEF ReplacedInTurn, OneCapability
  <1>2. ASSUME NEW v \in Visit, Replace(v) PROVE ReplacedInTurn' /\ OneCapability'
    <2>1. /\ visit[v] = "replace" /\ visit' = [visit EXCEPT ![v] = "hand"]
          /\ drop' = [drop EXCEPT ![v] = CapsOf(Visitor(v))]
          /\ crossed' = crossed \cup Crossing(v, Replacing(Visitor(v)))
          /\ UNCHANGED <<caps, via, addressee>>
      BY <1>2 DEF Replace
    <2>2. \A w \in Visit : Visitor(w)' = Visitor(w)
      BY <2>1 DEF Visitor
    <2>3. drop'[v] = CapsOf(Visitor(v)) /\ visit'[v] = "hand"
      BY <1>0, <2>1
    <2>4. \A w \in Visit \ {v} : visit'[w] = visit[w] /\ drop'[w] = drop[w]
      BY <1>0, <2>1
    <2>5. \A w \in Visit : visit[w] = "hand" /\ Visitor(w) = Visitor(v) =>
            {v, w} \subseteq crossed'
      BY <2>1 DEF Crossing, Replacing
    <2>6. \A w \in caps \ drop'[v] : Visitor(w) # Visitor(v)
      BY <2>3 DEF CapsOf
    <2>7. OneCapability'
      BY <1>0, <2>1, <2>2 DEF OneCapability
    <2>8. ReplacedInTurn'
      <3>1. ASSUME NEW x \in Visit, visit'[x] = "hand", NEW w \in caps \ drop'[x],
                   Visitor(w) = Visitor(x)
            PROVE  {x, w} \subseteq crossed'
        BY <2>1, <2>4, <2>6, <3>1 DEF ReplacedInTurn
      <3>2. ASSUME NEW x \in Visit, visit'[x] = "hand", NEW w \in Visit, visit'[w] = "hand",
                   Visitor(w) = Visitor(x), x # w
            PROVE  {x, w} \subseteq crossed'
        <4>1. CASE x = v
          BY <2>4, <2>5, <3>2, <4>1
        <4>2. CASE w = v
          BY <2>4, <2>5, <3>2, <4>2
        <4>3. CASE x # v /\ w # v
          BY <2>1, <2>4, <3>2, <4>3 DEF ReplacedInTurn
        <4> QED
          BY <4>1, <4>2, <4>3
      <3> QED
        BY <1>0, <2>1, <2>2, <3>1, <3>2 DEF ReplacedInTurn
    <2> QED
      BY <2>7, <2>8
  <1>3. ASSUME NEW v \in Visit, Hand(v) PROVE ReplacedInTurn' /\ OneCapability'
    <2>1. /\ visit[v] = "hand" /\ visit' = [visit EXCEPT ![v] = "done"]
          /\ caps' = (caps \ drop[v]) \cup {v} /\ drop' = [drop EXCEPT ![v] = {}]
          /\ UNCHANGED <<via, addressee, crossed>>
      BY <1>3 DEF Hand
    <2>2. \A w \in Visit : Visitor(w)' = Visitor(w)
      BY <2>1 DEF Visitor
    <2>3. \A w \in Visit : visit'[w] = "hand" => w # v /\ visit[w] = "hand" /\ drop'[w] = drop[w]
      BY <1>0, <2>1
    <2>4. \A w \in caps \ drop[v] : Visitor(w) = Visitor(v) => {v, w} \subseteq crossed
      BY <2>1 DEF ReplacedInTurn
    <2>5. OneCapability'
      BY <1>0, <2>1, <2>2, <2>4 DEF OneCapability
    <2>6. ReplacedInTurn'
      <3>1. ASSUME NEW x \in Visit, visit'[x] = "hand", NEW w \in caps' \ drop'[x],
                   Visitor(w) = Visitor(x)
            PROVE  {x, w} \subseteq crossed
        BY <2>1, <2>3, <3>1 DEF ReplacedInTurn
      <3>2. ASSUME NEW x \in Visit, visit'[x] = "hand", NEW w \in Visit, visit'[w] = "hand",
                   Visitor(w) = Visitor(x), x # w
            PROVE  {x, w} \subseteq crossed
        BY <2>3, <3>2 DEF ReplacedInTurn
      <3> QED
        BY <1>0, <2>1, <2>2, <3>1, <3>2 DEF ReplacedInTurn
    <2> QED
      BY <2>5, <2>6
  <1>4. ASSUME NEW v \in Visit, NEW m \in Mail, OpenLink(v, m)
        PROVE  ReplacedInTurn' /\ OneCapability'
    <2>1. /\ caps' = caps /\ crossed' = crossed /\ drop' = drop
          /\ visit' = [visit EXCEPT ![v] = "claim"]
      BY <1>4 DEF OpenLink
    <2> QED
      BY <1>0, <1>1, <2>1
  <1>5. ASSUME NEW v \in Visit, Claim(v) \/ CrashVisit(v) \/ Waste(v)
        PROVE  ReplacedInTurn' /\ OneCapability'
    <2>1. /\ caps' \subseteq caps /\ crossed' = crossed /\ drop' = drop
          /\ \A w \in Visit : visit'[w] = "hand" => visit[w] = "hand"
      BY <1>0, <1>5 DEF Claim, CrashVisit, Waste
    <2> QED
      BY <1>1, <2>1
  <1>6. CASE caps' \subseteq caps /\ crossed \subseteq crossed' /\ UNCHANGED <<visit, drop>>
    BY <1>1, <1>6
  <1> QED
    BY <1>2, <1>3, <1>4, <1>5, <1>6
    DEF CredNext, RequestReset, InsertLink, Prune, CrashMail, Redeem, Revoke
-----------------------------------------------------------------------------
\* The newest password whose change has revoked is one of the account's.
LEMMA FloorType ==
  ASSUME IInv, NEW u \in User
  PROVE  floor[u] \in Nat /\ changes[u] \in Nat /\ password[u] \in Nat
  BY DEF IInv, TypeOK

LEMMA InForceNext ==
  ASSUME CredInv, [CredNext]_<<vars, credVars>> PROVE OpenedInForce' /\ RevocationTakesResets'
  <1> USE DEF CredInv, tableVars, mailVars, visitVars, pastVars, credVars
  <1>0. /\ visit \in [Visit -> {"new", "claim", "replace", "hand"} \cup Ended]
        /\ caps \subseteq Visit
        /\ \A v \in caps : visit[v] = "done"
    BY DEF CredTypeOK, Begun
  <1>v. \A v \in Visit : visit[v] # "new" =>
          /\ via'[v] = via[v] /\ Visitor(v)' = Visitor(v) /\ made'[via[v]] = made[via[v]]
          /\ Visitor(v) \in User
    BY VisitorSettled
  <1>u. [Next]_vars
    BY CredStep
  <1>f. /\ undone \subseteq undone'
        /\ (\A r \in Req : ~ (Revoking(r) /\ Apply(r))) => floor' = floor
    BY <1>u, AccountFacts
  \* A step that opens no link, claims none and revokes nothing: a link that is there was
  \* there, or is one that nobody can have opened.
  <1>1. ASSUME floor' = floor, Claimants' \subseteq Claimants, overlapped \subseteq overlapped',
               \A v \in Visit : visit'[v] = "claim" => visit[v] = "claim",
               \A m \in links' : m \in links \/ mail[m] # "sent"
        PROVE  OpenedInForce' /\ RevocationTakesResets'
    <2>1. ASSUME NEW v \in Visit, visit'[v] = "claim", via'[v] \in links'
          PROVE  made'[via'[v]] >= floor'[Visitor(v)'] \/ Visitor(v)' \in undone'
      <3>1. visit[v] = "claim" /\ via[v] \in links
        BY <1>1, <1>v, <2>1 DEF Begun
      <3> QED
        BY <1>1, <1>f, <1>v, <3>1 DEF OpenedInForce
    <2>2. ASSUME NEW v \in Claimants' \ overlapped'
          PROVE  made'[via'[v]] >= floor'[Visitor(v)'] \/ Visitor(v)' \in undone'
      <3>1. v \in Claimants \ overlapped
        BY <1>1
      <3>2. v \in Visit /\ visit[v] # "new"
        BY <1>0, <3>1 DEF Claimants
      <3> QED
        BY <1>1, <1>f, <1>v, <3>1, <3>2 DEF RevocationTakesResets
    <2> QED
      BY <2>1, <2>2 DEF OpenedInForce, RevocationTakesResets
  <1>2. ASSUME NEW v \in Visit, NEW m \in Mail, OpenLink(v, m)
        PROVE  OpenedInForce' /\ RevocationTakesResets'
    <2>1. /\ visit[v] = "new" /\ mail[m] = "sent" /\ password[addressee[m]] = made[m]
          /\ visit' = [visit EXCEPT ![v] = "claim"] /\ via' = [via EXCEPT ![v] = m]
          /\ UNCHANGED <<vars, links, caps, mail, addressee, made, overlapped>>
      BY <1>2 DEF OpenLink
    <2>2. addressee[m] \in User /\ UNCHANGED <<floor, undone>>
      BY <2>1 DEF Begun, vars, accountVars
    <2>3. via'[v] = m /\ Visitor(v)' = addressee[m] /\ v \notin Claimants'
      BY <1>0, <2>1 DEF CredTypeOK, Visitor, Claimants
    <2>4. made[m] >= floor[addressee[m]] \/ addressee[m] \in undone
      BY <2>1, <2>2, FloorType DEF Latest, LatestInv
    <2>5. \A w \in Visit \ {v} : visit'[w] = visit[w] /\ via'[w] = via[w] /\ Visitor(w)' = Visitor(w)
      BY <2>1 DEF Visitor, CredTypeOK
    <2>6. OpenedInForce'
      BY <2>1, <2>2, <2>3, <2>4, <2>5 DEF OpenedInForce
    <2>7. Claimants' \subseteq Claimants
      BY <1>0, <2>1 DEF Claimants
    <2>8. RevocationTakesResets'
      <3> SUFFICES ASSUME NEW w \in Claimants' \ overlapped'
                   PROVE  made'[via'[w]] >= floor'[Visitor(w)'] \/ Visitor(w)' \in undone'
        BY DEF RevocationTakesResets
      <3>1. w \in Claimants \ overlapped /\ w \in Visit \ {v}
        BY <1>0, <2>1, <2>3, <2>7 DEF Claimants
      <3> QED
        BY <2>1, <2>2, <2>5, <3>1 DEF RevocationTakesResets
    <2> QED
      BY <2>6, <2>8
  <1>3. ASSUME NEW v \in Visit, Claim(v) PROVE OpenedInForce' /\ RevocationTakesResets'
    <2>1. /\ visit[v] = "claim" /\ links' = links \ {via[v]}
          /\ visit' = [visit EXCEPT ![v] = IF via[v] \in links THEN "replace" ELSE "done"]
          /\ UNCHANGED <<vars, caps, mail, addressee, made, via, overlapped>>
      BY <1>3 DEF Claim
    <2>2. UNCHANGED <<floor, undone>> /\ \A w \in Visit : Visitor(w)' = Visitor(w)
      BY <2>1 DEF vars, accountVars, Visitor
    <2>3. OpenedInForce'
      BY <1>0, <2>1, <2>2 DEF OpenedInForce
    <2>4. RevocationTakesResets'
      <3>0. Claimants' \subseteq Visit
        BY <1>0, <2>1 DEF Claimants
      <3> SUFFICES ASSUME NEW w \in Claimants' \ overlapped
                   PROVE  made[via[w]] >= floor[Visitor(w)] \/ Visitor(w) \in undone
        BY <2>1, <2>2, <3>0 DEF RevocationTakesResets
      <3>1. w \in Claimants \/ (w = v /\ via[v] \in links)
        BY <1>0, <2>1 DEF Claimants
      <3> QED
        BY <2>1, <3>1 DEF OpenedInForce, RevocationTakesResets
    <2> QED
      BY <2>3, <2>4
  <1>4. ASSUME NEW r \in Req, Revoke(r) PROVE OpenedInForce' /\ RevocationTakesResets'
    <2> DEFINE u == subj[r]
    <2>1. /\ Apply(r) /\ links' = links \ LinksOf(u) /\ caps' = caps \ CapsOf(u)
          /\ overlapped' = overlapped \cup
               {v \in Visit : visit[v] \in {"replace", "hand"} /\ Visitor(v) = u}
          /\ UNCHANGED <<mail, addressee, made, visit, via>>
      BY <1>4 DEF Revoke
    <2>2. \A x \in User \ {u} : floor'[x] = floor[x]
      BY <2>1 DEF Apply, IInv, TypeOK
    <2>3. \A v \in Visit : Visitor(v)' = Visitor(v)
      BY <2>1 DEF Visitor
    <2>4. ASSUME NEW v \in Visit, visit'[v] = "claim", via'[v] \in links'
          PROVE  made[via[v]] >= floor'[Visitor(v)] \/ Visitor(v) \in undone'
      <3>1. visit[v] = "claim" /\ via[v] \in links /\ Visitor(v) # u
        BY <2>1, <2>4 DEF LinksOf, Visitor
      <3> QED
        BY <1>f, <1>v, <2>2, <3>1 DEF OpenedInForce
    <2>5. ASSUME NEW v \in Claimants' \ overlapped'
          PROVE  made[via[v]] >= floor'[Visitor(v)] \/ Visitor(v) \in undone'
      <3>1. v \in Claimants \ overlapped /\ Visitor(v) # u
        BY <2>1 DEF Claimants, CapsOf
      <3>2. v \in Visit /\ visit[v] # "new"
        BY <1>0, <3>1 DEF Claimants
      <3> QED
        BY <1>f, <1>v, <2>2, <3>1, <3>2 DEF RevocationTakesResets
    <2> QED
      BY <1>0, <2>1, <2>3, <2>4, <2>5 DEF OpenedInForce, RevocationTakesResets, Claimants
  <1>5. ASSUME NEW v \in Visit, Replace(v) \/ Hand(v) \/ CrashVisit(v) \/ Waste(v)
        PROVE  OpenedInForce' /\ RevocationTakesResets'
    <2>1. UNCHANGED <<vars, links, overlapped>>
      BY <1>5 DEF Replace, Hand, CrashVisit, Waste
    <2>2. Claimants' \subseteq Claimants
      BY <1>0, <1>5 DEF Replace, Hand, CrashVisit, Waste, Claimants
    <2>3. \A w \in Visit : visit'[w] = "claim" => visit[w] = "claim"
      BY <1>0, <1>5 DEF Replace, Hand, CrashVisit, Waste
    <2> QED
      BY <1>1, <2>1, <2>2, <2>3 DEF vars
  <1>6. ASSUME NEW m \in Mail, NEW u \in User, RequestReset(m, u)
        PROVE  OpenedInForce' /\ RevocationTakesResets'
    BY <1>1, <1>6 DEF RequestReset, vars, Claimants
  <1>7. ASSUME NEW m \in Mail, InsertLink(m) \/ Prune(m) \/ CrashMail(m)
        PROVE  OpenedInForce' /\ RevocationTakesResets'
    <2>1. \A n \in links' : n \in links \/ mail[n] # "sent"
      BY <1>7 DEF InsertLink, Prune, CrashMail
    <2>2. UNCHANGED <<vars, visit, caps, overlapped>>
      BY <1>7 DEF InsertLink, Prune, CrashMail
    <2> QED
      BY <1>1, <2>1, <2>2 DEF vars, Claimants
  <1>8. ASSUME NEW r \in Req, NEW v \in Visit, Redeem(r, v)
        PROVE  OpenedInForce' /\ RevocationTakesResets'
    <2>1. caps' \subseteq caps /\ UNCHANGED <<links, visit, overlapped>>
      BY <1>8 DEF Redeem
    <2>2. floor' = floor
      BY <1>8 DEF Redeem, Reset, Arrive
    <2> QED
      BY <1>1, <2>1, <2>2 DEF Claimants
  <1>9. ASSUME UNCHANGED credVars, \A r \in Req : ~ (Revoking(r) /\ Apply(r))
        PROVE  OpenedInForce' /\ RevocationTakesResets'
    BY <1>1, <1>9, <1>f DEF Claimants
  <1>10. ASSUME NEW r \in Req, ~ Revoking(r), Serve(r), UNCHANGED credVars
         PROVE  OpenedInForce' /\ RevocationTakesResets'
    <2>1. \A q \in Req : Revoking(q) /\ Apply(q) => q = r
      <3> SUFFICES ASSUME NEW q \in Req, Revoking(q), Apply(q), q # r PROVE FALSE
        OBVIOUS
      <3>1. pc[q] = "apply" /\ pc'[q] # "apply"
        BY DEF Revoking, Apply, IInv, TypeOK, CredentialChange
      <3>2. pc'[q] = pc[q]
        BY <1>10 DEF Serve, SavePassword, SaveProfile, Mint, Lock, Rotate, Delete, Apply,
           IInv, TypeOK
      <3> QED
        BY <3>1, <3>2
    <2> QED
      BY <1>9, <1>10, <2>1
  <1>11. CASE Others /\ UNCHANGED credVars
    <2>1. floor' = floor
      BY <1>11 DEF Others, Login, Signup, LogoutAll, Change, LoadProfile, Refresh, Logout,
         Arrive, Crash, Deactivate, Expire
    <2> QED
      BY <1>1, <1>11, <2>1 DEF Claimants
  <1>12. CASE UNCHANGED <<vars, credVars>>
    BY <1>1, <1>12 DEF vars, Claimants
  <1> QED
    BY <1>2, <1>3, <1>4, <1>5, <1>6, <1>7, <1>8, <1>10, <1>11, <1>12 DEF CredNext
-----------------------------------------------------------------------------
\* A request that was taken stays with the capability it has redeemed, or none; nobody becomes
\* a holder here.
LEMMA HoldersUnmoved ==
  ASSUME CredInv, [CredNext]_<<vars, credVars>>, by' = by,
         \A v \in Visit : Holder(v)' => Holder(v),
         \A m \in links' : m \in links \/ mail[m] # "sent",
         caps' \subseteq caps, \A v \in Visit : visit[v] = "done" => visit'[v] = "done"
  PROVE  OneHolder'
  <1> USE DEF CredInv
  <1>1. \A r \in Req : pc'[r] = "new" => pc[r] = "new"
    BY CredStep, AccountFacts
  <1>2. \A v \in Visit : visit[v] # "new" => via'[v] = via[v]
    BY VisitorSettled
  <1>3. \A v \in Visit : Holder(v) => visit[v] # "new" /\ via[v] \in Mail /\ mail[via[v]] = "sent"
    BY CredentialsAssumption DEF Holder, OneHolder, Begun
  <1>4. \A r \in Req : by[r] # NoVisit => by[r] \in Visit
    BY DEF CredTypeOK
  <1>5. \A v \in Visit : Holder(v)' => via'[v] \notin links'
    BY <1>2, <1>3 DEF OneHolder
  <1>6. \A v, w \in Visit : Holder(v)' /\ Holder(w)' /\ via'[v] = via'[w] => v = w
    BY <1>2, <1>3 DEF OneHolder
  <1> QED
    BY <1>1, <1>4, <1>5, <1>6 DEF OneHolder

LEMMA HolderNext == ASSUME CredInv, [CredNext]_<<vars, credVars>> PROVE OneHolder'
  <1> USE DEF CredInv, tableVars, mailVars, visitVars, pastVars, credVars
  <1>0. /\ visit \in [Visit -> {"new", "claim", "replace", "hand"} \cup Ended]
        /\ caps \subseteq Visit /\ by \in [Req -> Visit \cup {NoVisit}]
        /\ via \in [Visit -> Mail \cup {NoMail}]
        /\ \A v \in caps : visit[v] = "done"
    BY DEF CredTypeOK, Begun
  <1>1. ASSUME NEW m \in Mail, NEW u \in User, RequestReset(m, u) PROVE OneHolder'
    BY <1>1, HoldersUnmoved DEF RequestReset, Holder
  <1>2. ASSUME NEW m \in Mail, InsertLink(m) \/ Prune(m) \/ CrashMail(m) PROVE OneHolder'
    <2>1. UNCHANGED <<visit, caps, by>>
      BY <1>2 DEF InsertLink, Prune, CrashMail
    <2>2. \A n \in links' : n \in links \/ mail[n] # "sent"
      BY <1>2 DEF InsertLink, Prune, CrashMail
    <2> QED
      BY <2>1, <2>2, HoldersUnmoved DEF Holder
  <1>3. ASSUME NEW v \in Visit, NEW m \in Mail, OpenLink(v, m) PROVE OneHolder'
    <2>1. /\ UNCHANGED <<links, caps, by>>
          /\ visit[v] = "new" /\ visit' = [visit EXCEPT ![v] = "claim"]
      BY <1>3 DEF OpenLink
    <2>2. \A w \in Visit : Holder(w)' => Holder(w)
      BY <1>0, <2>1 DEF Holder
    <2> QED
      BY <1>0, <2>1, <2>2, HoldersUnmoved
  <1>4. ASSUME NEW v \in Visit, Claim(v) PROVE OneHolder'
    <2>1. /\ visit[v] = "claim" /\ links' = links \ {via[v]}
          /\ visit' = [visit EXCEPT ![v] = IF via[v] \in links THEN "replace" ELSE "done"]
          /\ UNCHANGED <<vars, caps, by, via>>
      BY <1>4 DEF Claim
    <2>2. CASE via[v] \notin links
      <3>1. \A w \in Visit : Holder(w)' => Holder(w)
        BY <1>0, <2>1, <2>2 DEF Holder
      <3> QED
        BY <1>0, <2>1, <3>1, HoldersUnmoved
    \* The row was there, so that nobody had the link.
    <2>3. CASE via[v] \in links
      <3>1. \A w \in Visit : Holder(w)' => Holder(w) \/ w = v
        BY <1>0, <2>1 DEF Holder
      <3>2. \A w \in Visit : Holder(w) => via[w] # via[v]
        BY <2>3 DEF OneHolder
      <3>3. \A w \in Visit : Holder(w)' => via'[w] \notin links'
        BY <2>1, <3>1 DEF OneHolder
      <3>4. \A w, x \in Visit : Holder(w)' /\ Holder(x)' /\ via'[w] = via'[x] => w = x
        BY <2>1, <3>1, <3>2 DEF OneHolder
      <3>5. \A r \in Req : by'[r] # NoVisit => by'[r] \notin caps' /\ visit'[by'[r]] = "done"
        BY <1>0, <2>1 DEF OneHolder
      <3> QED
        BY <2>1, <3>3, <3>4, <3>5 DEF OneHolder, vars
    <2> QED
      BY <2>2, <2>3
  <1>5. ASSUME NEW v \in Visit, Replace(v) \/ Hand(v) \/ CrashVisit(v) \/ Waste(v)
        PROVE  OneHolder'
    <2>1. UNCHANGED <<vars, links, by, via>> /\ visit[v] \in {"claim", "replace", "hand", "done"}
      BY <1>0, <1>5 DEF Replace, Hand, CrashVisit, Waste
    <2>2. \A w \in Visit : Holder(w)' => Holder(w)
      BY <1>0, <1>5 DEF Replace, Hand, CrashVisit, Waste, Holder
    <2>3. \A w \in Visit : visit[w] = "done" => visit'[w] = "done"
      BY <1>0, <1>5 DEF Replace, Hand, CrashVisit, Waste
    <2>4. \A w \in caps' : w \in caps \/ visit[w] = "hand"
      BY <1>5 DEF Replace, Hand, CrashVisit, Waste
    <2>5. \A r \in Req : by[r] # NoVisit => by[r] \notin caps' /\ visit'[by[r]] = "done"
      BY <1>0, <2>3, <2>4 DEF OneHolder
    <2> QED
      BY <2>1, <2>2, <2>5 DEF OneHolder, vars
  <1>6. ASSUME NEW r \in Req, NEW v \in Visit, Redeem(r, v) PROVE OneHolder'
    <2>1. /\ v \in caps /\ caps' = caps \ {v} /\ by' = [by EXCEPT ![r] = v]
          /\ UNCHANGED <<links, visit, via>>
          /\ pc[r] = "new" /\ pc' = [pc EXCEPT ![r] = "save"]
      BY <1>6 DEF Redeem, Reset, Arrive
    <2>2. by[r] = NoVisit /\ \A q \in Req : by[q] # v
      BY <1>0, <2>1, CredentialsAssumption DEF OneHolder
    <2>3. by'[r] = v /\ \A q \in Req \ {r} : by'[q] = by[q]
      BY <1>0, <2>1
    <2>4. \A w \in Visit : Holder(w)' => Holder(w)
      BY <2>1, <2>3 DEF Holder
    <2>5. pc'[r] # "new" /\ \A q \in Req \ {r} : pc'[q] = pc[q]
      BY <2>1 DEF IInv, TypeOK
    <2>6. \A q \in Req : by'[q] # NoVisit => by'[q] \notin caps' /\ visit[by'[q]] = "done"
      BY <1>0, <2>1, <2>3 DEF OneHolder
    <2>7. \A p, q \in Req : by'[q] # NoVisit /\ by'[p] = by'[q] => p = q
      BY <2>2, <2>3 DEF OneHolder
    <2> QED
      BY <2>1, <2>3, <2>4, <2>5, <2>6, <2>7 DEF OneHolder
  <1>7. ASSUME NEW r \in Req, Revoke(r) PROVE OneHolder'
    <2>1. links' \subseteq links /\ caps' \subseteq caps /\ UNCHANGED <<visit, by>>
      BY <1>7 DEF Revoke
    <2> QED
      BY <2>1, HoldersUnmoved DEF Holder
  <1>8. CASE UNCHANGED credVars
    BY <1>8, HoldersUnmoved DEF Holder
  <1> QED
    BY <1>1, <1>2, <1>3, <1>4, <1>5, <1>6, <1>7, <1>8 DEF CredNext

-----------------------------------------------------------------------------
\* Every step of the module preserves the invariant.
LEMMA CredNextInv == CredInv /\ [CredNext]_<<vars, credVars>> => CredInv'
  <1> SUFFICES ASSUME CredInv, [CredNext]_<<vars, credVars>> PROVE CredInv'
    OBVIOUS
  <1>1. [Next]_vars
    BY CredStep DEF CredInv
  <1>2. IInv' /\ LatestInv' /\ Latest' /\ TypeOK'
    BY <1>1, NextIInv, LatestNext, AccountFacts DEF CredInv, IInv
  <1>3. CredTypeOK' /\ Begun'
    BY <1>2, CredTypeNext, BegunNext
  <1> QED
    BY <1>2, <1>3, OrderNext, ReplacedNext, InForceNext, HolderNext DEF CredInv

LEMMA CredInvariant == CredSpec => []CredInv
  BY CredInitInv, CredNextInv, PTL DEF CredSpec

\* Type correctness of Credentials.
THEOREM CredTypeCorrect == CredSpec => []CredTypeOK
  BY CredInvariant, PTL DEF CredInv

\* make_token inserts and then deletes, the confirmation view deletes and then inserts, with
\* no lock: one mailed link of an account works, the last one stays until it is used or
\* revoked, and an account has one capability, but for requests that ran side by side.
THEOREM LatestOnlyHolds == CredSpec => []LatestOnly
  <1>1. CredInv => LastLinkWorks
    BY DEF CredInv, InOrder, LastInserted, LastLinkWorks
  <1>2. CredInv => LatestOnly
    BY <1>1 DEF CredInv, LatestOnly
  <1> QED
    BY <1>2, CredInvariant, PTL

\* revoke_on_credential_change leaves no link and no capability from before the change, but
\* those of a visit it ran beside.
THEOREM RevocationTakesResetsHolds == CredSpec => []RevocationTakesResets
  BY CredInvariant, PTL DEF CredInv
-----------------------------------------------------------------------------
\* The refinement.  How far a link has come is told by who has it.
Held(v) == visit[v] \in {"replace", "hand"}
Fresh(m) == mail[m] \in {"new", "insert"}

At(m, s, rs) == TicketState(m) = s /\ ResetsBy(m) = rs

Places ==
  /\ \A v \in caps : At(via[v], "cap", {})
  /\ \A v \in Visit : Held(v) => At(via[v], "held", {})
  /\ \A r \in Req : by[r] # NoVisit => At(via[by[r]], "spent", {r})
  /\ \A m \in links : At(m, "open", {})
  /\ \A m \in Mail : Fresh(m) => At(m, "none", {})
  /\ \A m \in Mail \ links :
       ~ Fresh(m) /\ (\A v \in Visit : Holder(v) => via[v] # m) => At(m, "dead", {})

LEMMA LinkPlaces == CredInv => Places
  <1> SUFFICES ASSUME CredInv PROVE Places
    OBVIOUS
  <1> USE DEF CredInv, At, TicketState, Held, Fresh
  <1>0. /\ caps \subseteq Visit /\ by \in [Req -> Visit \cup {NoVisit}]
        /\ \A v \in caps : visit[v] = "done"
        /\ NoVisit \notin Visit
    BY CredentialsAssumption DEF CredTypeOK, Begun
  <1>1. \A r \in Req : by[r] # NoVisit => by[r] \in Visit /\ Holder(by[r])
    BY <1>0 DEF Holder
  <1>2. \A v \in Visit : Holder(v) => via[v] \in Mail /\ ~ Fresh(via[v]) /\ via[v] \notin links
    BY <1>0, <1>1 DEF OneHolder, Begun, Holder
  <1>3. ASSUME NEW v \in caps PROVE At(via[v], "cap", {})
    <2>1. Holder(v) /\ v \in Visit
      BY <1>0, <1>3 DEF Holder
    <2>2. ResetsBy(via[v]) = {}
      BY <1>1, <2>1, <1>3 DEF ResetsBy, OneHolder
    <2>3. Opening(via[v]) \cap caps # {}
      BY <2>1, <1>3 DEF Opening
    <2> QED
      BY <2>2, <2>3
  <1>4. ASSUME NEW v \in Visit, Held(v) PROVE At(via[v], "held", {})
    <2>1. Holder(v)
      BY <1>4 DEF Holder
    <2>2. ResetsBy(via[v]) = {}
      BY <1>1, <2>1, <1>4 DEF ResetsBy, OneHolder
    <2>3. Opening(via[v]) \cap caps = {}
      BY <1>0, <2>1, <1>4 DEF Opening, OneHolder, Holder
    <2>4. \E w \in Opening(via[v]) : visit[w] \in {"replace", "hand"}
      BY <1>4 DEF Opening
    <2> QED
      BY <2>2, <2>3, <2>4
  <1>5. ASSUME NEW r \in Req, by[r] # NoVisit PROVE At(via[by[r]], "spent", {r})
    <2>1. \A q \in Req : by[q] # NoVisit /\ via[by[q]] = via[by[r]] => q = r
      BY <1>1, <1>5 DEF OneHolder
    <2>2. ResetsBy(via[by[r]]) = {r}
      BY <2>1, <1>5 DEF ResetsBy
    <2> QED
      BY <2>2
  <1>6. ASSUME NEW m \in Mail, \A v \in Visit : Holder(v) => via[v] # m
        PROVE  /\ ResetsBy(m) = {} /\ Opening(m) \cap caps = {}
               /\ ~ \E v \in Opening(m) : visit[v] \in {"replace", "hand"}
    <2>1. ResetsBy(m) = {}
      BY <1>1, <1>6 DEF ResetsBy
    <2>2. Opening(m) \cap caps = {} /\ ~ \E v \in Opening(m) : visit[v] \in {"replace", "hand"}
      BY <1>6 DEF Opening, Holder
    <2> QED
      BY <2>1, <2>2
  <1>7. \A m \in links : m \in Mail /\ (\A v \in Visit : Holder(v) => via[v] # m)
    BY <1>2 DEF CredTypeOK
  <1>8. \A m \in Mail : Fresh(m) => m \notin links /\ (\A v \in Visit : Holder(v) => via[v] # m)
    BY <1>2 DEF Begun
  <1>9. \A m \in links : At(m, "open", {})
    BY <1>6, <1>7
  <1>10. \A m \in Mail : Fresh(m) => At(m, "none", {})
    BY <1>6, <1>8
  <1>11. \A m \in Mail \ links :
           ~ Fresh(m) /\ (\A v \in Visit : Holder(v) => via[v] # m) => At(m, "dead", {})
    BY <1>6
  <1> HIDE DEF At
  <1> QED
    BY <1>3, <1>4, <1>5, <1>9, <1>10, <1>11 DEF Places

\* A move of one link, with the requests that have reset a password by it.
Moves(m) ==
  \/ /\ <<TicketState(m), TicketState(m)'>> \in {<<"none", "open">>, <<"open", "held">>,
                                                 <<"held", "cap">>}
     /\ ResetsBy(m)' = ResetsBy(m)
  \/ /\ TicketState(m) = "cap" /\ TicketState(m)' = "spent"
     /\ ResetsBy(m) = {} /\ \E r \in Req : ResetsBy(m)' = {r}
  \/ TicketState(m) # "spent" /\ TicketState(m)' = "dead" /\ ResetsBy(m)' = ResetsBy(m)
  \/ TicketState(m)' = TicketState(m) /\ ResetsBy(m)' = ResetsBy(m)

\* Nobody or one request has reset a password by a link.
LEMMA OneReset ==
  ASSUME CredInv, NEW m \in Mail PROVE ResetsBy(m) = {} \/ \E r \in Req : ResetsBy(m) = {r}
  BY LinkPlaces DEF Places, At, ResetsBy

LEMMA MovesAreTickets ==
  ASSUME CredInv, \A m \in Mail : Moves(m) PROVE Tickets!TicketNext
  <1> SUFFICES ASSUME NEW m \in Mail
               PROVE  \/ Tickets!Mailed(m) \/ Tickets!Claimed(m) \/ Tickets!Traded(m)
                      \/ Tickets!Spent(m) \/ Tickets!Void(m) \/ Tickets!Stay(m)
    BY DEF Tickets!TicketNext
  <1>1. Cardinality({}) = 0 /\ \A r \in Req : Cardinality({r}) = 1
    BY FS_EmptySet, FS_Singleton
  <1>2. Cardinality(ResetsBy(m)) \in Nat
    BY <1>1, OneReset
  <1>3. ResetsBy(m)' = ResetsBy(m) => Tickets!Sets(m, 0)
    BY <1>2 DEF Tickets!Sets
  <1>4. ResetsBy(m) = {} /\ (\E r \in Req : ResetsBy(m)' = {r}) => Tickets!Sets(m, 1)
    BY <1>1 DEF Tickets!Sets
  <1>5. Moves(m)
    OBVIOUS
  <1> QED
    BY <1>3, <1>4, <1>5
    DEF Moves, Tickets!Mailed, Tickets!Claimed, Tickets!Traded, Tickets!Spent, Tickets!Void,
        Tickets!Stay, Tickets!Advance
\* A link that has the same holders, and row, as before is where it was.
LEMMA StaysPut ==
  ASSUME NEW m \in Mail, ResetsBy(m)' = ResetsBy(m), m \in links' <=> m \in links,
         Fresh(m)' <=> Fresh(m),
         (\E v \in Visit : via'[v] = m /\ v \in caps')
           <=> (\E v \in Visit : via[v] = m /\ v \in caps),
         (\E v \in Visit : via'[v] = m /\ Held(v)') <=> (\E v \in Visit : via[v] = m /\ Held(v))
  PROVE  Moves(m)
  <1>1. Opening(m)' \cap caps' # {} <=> Opening(m) \cap caps # {}
    BY DEF Opening
  <1>2. (\E v \in Opening(m)' : visit'[v] \in {"replace", "hand"})
          <=> (\E v \in Opening(m) : visit[v] \in {"replace", "hand"})
    BY DEF Opening, Held
  <1> QED
    BY <1>1, <1>2 DEF Moves, TicketState, Fresh

\* Every step moves each link on, voids it or leaves it where it is.
LEMMA CredMoves ==
  ASSUME CredInv, CredInv', [CredNext]_<<vars, credVars>>, NEW m \in Mail PROVE Moves(m)
  <1> USE DEF CredInv, tableVars, mailVars, visitVars, pastVars, credVars
  <1>0. /\ visit \in [Visit -> {"new", "claim", "replace", "hand"} \cup Ended]
        /\ caps \subseteq Visit /\ by \in [Req -> Visit \cup {NoVisit}]
        /\ mail \in [Mail -> {"new", "insert", "prune", "sent", "crashed"}]
        /\ links \subseteq Mail /\ via \in [Visit -> Mail \cup {NoMail}]
        /\ \A v \in caps : visit[v] = "done"
        /\ \A v \in Visit : visit[v] # "new" => via[v] \in Mail /\ mail[via[v]] = "sent"
        /\ \A n \in links : ~ Fresh(n)
    BY DEF CredTypeOK, Begun, Fresh
  <1>p. Places /\ Places'
    <2>1. CredInv => Places
      BY LinkPlaces
    <2>2. CredInv' => Places'
      BY LinkPlaces, PTL
    <2> QED
      BY <2>1, <2>2
  <1>r. UNCHANGED <<by, via>> => ResetsBy(m)' = ResetsBy(m)
    BY DEF ResetsBy
  <1>h. /\ \A v \in Visit : Holder(v) => via[v] \notin links
        /\ \A v, w \in Visit : Holder(v) /\ Holder(w) /\ via[v] = via[w] => v = w
        /\ \A r \in Req : by[r] # NoVisit => by[r] \notin caps /\ visit[by[r]] = "done"
    BY DEF OneHolder
  \* A link that has lost its holder, or its row, is dead.
  <1>d. ASSUME UNCHANGED <<by, via>>, m \notin links', ~ Fresh(m)',
               \A v \in Visit : Holder(v)' => via[v] # m, TicketState(m) # "spent"
        PROVE  Moves(m)
    BY <1>d, <1>p, <1>r DEF Places, At, Moves
  \* So is one whose capability is gone, unless it was redeemed.
  <1>c. ASSUME UNCHANGED <<by, via, mail>>, links' \subseteq links, NEW w \in caps, w \notin caps',
               via[w] = m, \A v \in Visit : Held(v)' => Held(v),
               \A v \in caps' : v \in caps \/ Held(v)
        PROVE  Moves(m)
    <2>1. w \in Visit /\ Holder(w) /\ m \notin links /\ mail[m] = "sent"
      BY <1>0, <1>h, <1>c DEF Holder
    <2>2. TicketState(m) = "cap"
      BY <1>c, <1>p DEF Places, At
    <2>3. \A v \in Visit : Holder(v)' => Holder(v)
      BY <1>c DEF Holder, Held
    <2>4. ~ Holder(w)'
      BY <1>0, <1>c, <1>h, <2>1, CredentialsAssumption DEF Holder, Held
    <2>5. \A v \in Visit : Holder(v)' => via[v] # m
      BY <1>c, <1>h, <2>1, <2>3, <2>4
    <2> QED
      BY <1>c, <1>d, <2>1, <2>2, <2>5 DEF Fresh
  <1>1. ASSUME NEW n \in Mail, NEW u \in User, RequestReset(n, u) PROVE Moves(m)
    <2>1. /\ UNCHANGED <<links, caps, visit, via, by>>
          /\ mail[n] = "new" /\ mail' = [mail EXCEPT ![n] = "insert"]
      BY <1>1 DEF RequestReset
    <2>2. Fresh(m)' <=> Fresh(m)
      BY <1>0, <2>1 DEF Fresh
    <2> QED
      BY <1>r, <2>1, <2>2, StaysPut DEF Held
  <1>2. ASSUME NEW n \in Mail, InsertLink(n) PROVE Moves(m)
    <2>1. /\ UNCHANGED <<caps, visit, via, by>> /\ links' = links \cup {n}
          /\ mail[n] = "insert" /\ mail' = [mail EXCEPT ![n] = "prune"]
      BY <1>2 DEF InsertLink
    <2>2. CASE m = n
      BY <1>p, <1>r, <2>1, <2>2 DEF Places, At, Fresh, Moves
    <2>3. CASE m # n
      <3>1. (Fresh(m)' <=> Fresh(m)) /\ (m \in links' <=> m \in links)
        BY <1>0, <2>1, <2>3 DEF Fresh
      <3> QED
        BY <1>r, <2>1, <3>1, StaysPut DEF Held
    <2> QED
      BY <2>2, <2>3
  <1>3. ASSUME NEW n \in Mail, Prune(n) PROVE Moves(m)
    <2>1. /\ UNCHANGED <<caps, visit, via, by>> /\ links' \subseteq links
          /\ mail[n] = "prune" /\ mail' = [mail EXCEPT ![n] = "sent"]
      BY <1>3 DEF Prune
    <2>2. Fresh(m)' <=> Fresh(m)
      BY <1>0, <2>1 DEF Fresh
    <2>3. CASE m \in links /\ m \notin links'
      <3>1. ~ Fresh(m) /\ TicketState(m) = "open"
        BY <1>0, <1>p, <2>3 DEF Places, At
      <3>2. \A v \in Visit : Holder(v)' => via[v] # m
        BY <1>h, <2>1, <2>3 DEF Holder
      <3> QED
        BY <1>d, <2>1, <2>2, <2>3, <3>1, <3>2
    <2>4. CASE m \in links <=> m \in links'
      BY <1>r, <2>1, <2>2, <2>4, StaysPut DEF Held
    <2> QED
      BY <2>1, <2>3, <2>4
  <1>4. ASSUME NEW n \in Mail, CrashMail(n) PROVE Moves(m)
    <2>1. /\ UNCHANGED <<links, caps, visit, via, by>>
          /\ mail[n] \in {"insert", "prune"} /\ mail' = [mail EXCEPT ![n] = "crashed"]
      BY <1>4 DEF CrashMail
    <2>2. CASE m = n /\ Fresh(m)
      <3>1. m \notin links /\ TicketState(m) = "none" /\ ~ Fresh(m)'
        BY <1>0, <1>p, <2>1, <2>2 DEF Places, At, Fresh
      <3>2. \A v \in Visit : Holder(v) => via[v] # m
        BY <1>0, <1>h, <2>1, <2>2, CredentialsAssumption DEF Holder, Fresh
      <3> QED
        BY <1>d, <2>1, <3>1, <3>2 DEF Holder
    <2>3. CASE ~ (m = n /\ Fresh(m))
      <3>1. Fresh(m)' <=> Fresh(m)
        BY <1>0, <2>1, <2>3 DEF Fresh
      <3> QED
        BY <1>r, <2>1, <3>1, StaysPut DEF Held
    <2> QED
      BY <2>2, <2>3
  <1>5. ASSUME NEW v \in Visit, NEW n \in Mail, OpenLink(v, n) PROVE Moves(m)
    <2>1. /\ UNCHANGED <<links, caps, mail, by>> /\ visit[v] = "new"
          /\ visit' = [visit EXCEPT ![v] = "claim"] /\ via' = [via EXCEPT ![v] = n]
      BY <1>5 DEF OpenLink
    <2>2. v \notin caps /\ ~ Held(v) /\ ~ Held(v)' /\ \A r \in Req : by[r] # v
      BY <1>0, <1>h, <2>1, CredentialsAssumption DEF Held
    <2>3. \A w \in Visit \ {v} : via'[w] = via[w] /\ (Held(w)' <=> Held(w))
      BY <1>0, <2>1 DEF Held
    <2>4. ResetsBy(m)' = ResetsBy(m)
      <3>1. \A r \in Req : by[r] # NoVisit => by[r] \in Visit \ {v}
        BY <1>0, <2>2
      <3> QED
        BY <2>1, <2>3, <3>1 DEF ResetsBy
    <2> QED
      BY <2>1, <2>2, <2>3, <2>4, StaysPut DEF Fresh
  <1>6. ASSUME NEW v \in Visit, Claim(v) PROVE Moves(m)
    <2>1. /\ visit[v] = "claim" /\ links' = links \ {via[v]}
          /\ visit' = [visit EXCEPT ![v] = IF via[v] \in links THEN "replace" ELSE "done"]
          /\ UNCHANGED <<caps, by, via, mail>>
      BY <1>6 DEF Claim
    <2>2. \A w \in Visit \ {v} : Held(w)' <=> Held(w)
      BY <1>0, <2>1 DEF Held
    <2>3. Held(v)' <=> via[v] \in links
      BY <1>0, <2>1 DEF Held
    <2>4. CASE m = via[v] /\ via[v] \in links
      BY <1>p, <1>r, <2>1, <2>3, <2>4 DEF Places, At, Moves
    <2>5. CASE ~ (m = via[v] /\ via[v] \in links)
      <3>1. via[v] = m => ~ Held(v) /\ ~ Held(v)'
        BY <2>1, <2>3, <2>5 DEF Held
      <3> QED
        BY <1>r, <2>1, <2>2, <2>5, <3>1, StaysPut DEF Fresh
    <2> QED
      BY <2>4, <2>5
  <1>7. ASSUME NEW v \in Visit, Replace(v) PROVE Moves(m)
    <2>1. /\ UNCHANGED <<links, caps, mail, via, by>> /\ visit[v] = "replace"
          /\ visit' = [visit EXCEPT ![v] = "hand"]
      BY <1>7 DEF Replace
    <2>2. \A w \in Visit : Held(w)' <=> Held(w)
      BY <1>0, <2>1 DEF Held
    <2> QED
      BY <1>r, <2>1, <2>2, StaysPut DEF Fresh
  <1>8. ASSUME NEW v \in Visit, Hand(v) PROVE Moves(m)
    <2>1. /\ visit[v] = "hand" /\ visit' = [visit EXCEPT ![v] = "done"]
          /\ caps' = (caps \ drop[v]) \cup {v} /\ UNCHANGED <<links, mail, via, by>>
      BY <1>8 DEF Hand
    <2>2. \A w \in Visit \ {v} : (Held(w)' <=> Held(w)) /\ (w \in caps' => w \in caps)
      BY <1>0, <2>1 DEF Held
    <2>3. Held(v) /\ ~ Held(v)' /\ v \in caps' /\ v \notin caps
      BY <1>0, <2>1 DEF Held
    <2>4. CASE m = via[v]
      BY <1>p, <1>r, <2>1, <2>3, <2>4 DEF Places, At, Moves
    \* The capability that this one takes the place of.
    <2>5. ASSUME m # via[v], NEW w \in caps \ caps', via[w] = m PROVE Moves(m)
      <3>1. \A x \in Visit : Held(x)' => Held(x)
        BY <2>2, <2>3
      <3>2. \A x \in caps' : x \in caps \/ Held(x)
        BY <2>1, <2>3
      <3> QED
        BY <1>c, <2>1, <2>5, <3>1, <3>2
    <2>6. CASE m # via[v] /\ \A w \in caps \ caps' : via[w] # m
      BY <1>0, <1>r, <2>1, <2>2, <2>6, StaysPut DEF Fresh
    <2> QED
      BY <2>4, <2>5, <2>6
  <1>9. ASSUME NEW v \in Visit, CrashVisit(v) PROVE Moves(m)
    <2>1. /\ visit[v] \in {"claim", "replace", "hand"} /\ visit' = [visit EXCEPT ![v] = "crashed"]
          /\ UNCHANGED <<links, caps, mail, via, by>>
      BY <1>9 DEF CrashVisit
    <2>2. (\A w \in Visit \ {v} : Held(w)' <=> Held(w)) /\ ~ Held(v)'
      BY <1>0, <2>1 DEF Held
    <2>3. CASE Held(v) /\ m = via[v]
      <3>1. Holder(v) /\ v \notin caps /\ m \notin links /\ mail[m] = "sent"
        BY <1>0, <1>h, <2>1, <2>3 DEF Holder, Held
      <3>2. TicketState(m) = "held" /\ ResetsBy(m) = {}
        BY <1>p, <2>3 DEF Places, At
      <3>3. \A x \in Visit : Holder(x)' => Holder(x) /\ x # v
        BY <1>0, <1>h, <2>1, <2>2, <3>1, CredentialsAssumption DEF Holder, Held
      <3>4. \A x \in Visit : Holder(x)' => via[x] # m
        BY <1>h, <2>3, <3>1, <3>3
      <3> QED
        BY <1>d, <2>1, <3>1, <3>2, <3>4 DEF Fresh
    <2>4. CASE ~ (Held(v) /\ m = via[v])
      BY <1>r, <2>1, <2>2, <2>4, StaysPut DEF Fresh
    <2> QED
      BY <2>3, <2>4
  <1>10. ASSUME NEW v \in Visit, Waste(v) PROVE Moves(m)
    <2>1. v \in caps /\ caps' = caps \ {v} /\ UNCHANGED <<links, visit, mail, via, by>>
      BY <1>10 DEF Waste
    <2>2. CASE via[v] = m
      BY <1>c, <2>1, <2>2 DEF Held
    <2>3. CASE via[v] # m
      BY <1>r, <2>1, <2>3, StaysPut DEF Fresh, Held
    <2> QED
      BY <2>2, <2>3
  <1>11. ASSUME NEW r \in Req, NEW v \in Visit, Redeem(r, v) PROVE Moves(m)
    <2>1. /\ v \in caps /\ caps' = caps \ {v} /\ by' = [by EXCEPT ![r] = v]
          /\ UNCHANGED <<links, visit, mail, via>> /\ pc[r] = "new"
      BY <1>11 DEF Redeem, Reset, Arrive
    <2>2. by[r] = NoVisit /\ by'[r] = v /\ \A q \in Req \ {r} : by'[q] = by[q]
      BY <1>0, <2>1 DEF OneHolder
    <2>3. CASE via[v] = m
      <3>1. TicketState(m) = "cap" /\ ResetsBy(m) = {}
        BY <1>p, <2>1, <2>3 DEF Places, At
      <3>2. TicketState(m)' = "spent" /\ ResetsBy(m)' = {r}
        BY <1>p, <2>1, <2>2, <2>3, CredentialsAssumption DEF Places, At
      <3> QED
        BY <3>1, <3>2 DEF Moves
    <2>4. CASE via[v] # m
      <3>1. ResetsBy(m)' = ResetsBy(m)
        BY <2>1, <2>2, <2>4 DEF ResetsBy
      <3> QED
        BY <2>1, <2>4, <3>1, StaysPut DEF Fresh, Held
    <2> QED
      BY <2>3, <2>4
  <1>12. ASSUME NEW r \in Req, Revoke(r) PROVE Moves(m)
    <2>1. /\ links' \subseteq links /\ caps' \subseteq caps /\ UNCHANGED <<visit, mail, via, by>>
      BY <1>12 DEF Revoke
    <2>2. CASE m \in links /\ m \notin links'
      <3>1. ~ Fresh(m) /\ TicketState(m) = "open"
        BY <1>0, <1>p, <2>2 DEF Places, At
      <3>2. \A v \in Visit : Holder(v)' => via[v] # m
        BY <1>h, <2>1, <2>2 DEF Holder
      <3> QED
        BY <1>d, <2>1, <2>2, <3>1, <3>2 DEF Fresh
    <2>3. ASSUME NEW w \in caps, w \notin caps', via[w] = m PROVE Moves(m)
      BY <1>c, <2>1, <2>3 DEF Held
    <2>4. CASE (m \in links <=> m \in links') /\ \A w \in caps : via[w] = m => w \in caps'
      BY <1>0, <1>r, <2>1, <2>4, StaysPut DEF Fresh, Held
    <2> QED
      BY <2>1, <2>2, <2>3, <2>4
  <1>13. CASE UNCHANGED credVars
    BY <1>13, <1>r, StaysPut DEF Fresh, Held
  <1> QED
    BY <1>1, <1>2, <1>3, <1>4, <1>5, <1>6, <1>7, <1>8, <1>9, <1>10, <1>11, <1>12, <1>13
    DEF CredNext

\* However often a link is opened and its cookie sent, and whichever writer deletes a row
\* meanwhile, each mailed link goes forward only and sets one password at most: links and
\* capabilities that are claimed by deleting their row implement Ticket.
THEOREM TicketRefinement == CredSpec => ImplementsTickets
  <1>1. CredInit => Tickets!TicketInit
    <2> SUFFICES ASSUME CredInit PROVE Tickets!TicketInit
      OBVIOUS
    <2>1. Places
      BY CredInitInv, LinkPlaces
    <2>2. \A m \in Mail : TicketState(m) = "none" /\ ResetsBy(m) = {}
      BY <2>1 DEF CredInit, Places, At, Fresh
    <2> QED
      BY <2>2, FS_EmptySet DEF Tickets!TicketInit
  <1>2. CredInv /\ CredInv' /\ [CredNext]_<<vars, credVars>> =>
          [Tickets!TicketNext]_Tickets!ticketVars
    BY CredMoves, MovesAreTickets
  <1> QED
    BY <1>1, <1>2, CredInvariant, PTL DEF CredSpec, ImplementsTickets, Tickets!TicketSpec

-----------------------------------------------------------------------------
\* Mails and visits write rows of their own only, and redeem a capability by a request of
\* Sessions: beside them the session writers behave as they do alone, so whatever is proved
\* of Sessions holds.
THEOREM SessionsRefinement == CredSpec => Spec
  <1>1. CredInit => Init
    BY DEF CredInit
  <1>2. CredInv /\ [CredNext]_<<vars, credVars>> => [Next]_vars
    BY CredStep DEF CredInv
  <1> QED
    BY <1>1, <1>2, CredInvariant, PTL DEF CredSpec, Spec

\* A password that is reset by a mailed link ends sessions like one that is changed by who
\* knows the old one: the whitelist is still the atomic one, and every session on an old
\* password is explained (revoke_on_credential_change).
THEOREM ResetsEndSessions == CredSpec => ImplementsStore /\ []SurvivorsExplained
  BY SessionsRefinement, Refinement, SurvivorsExplainedHolds, PTL

=============================================================================
