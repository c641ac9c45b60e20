----------------------- MODULE EmailConfirmationProofs -----------------------
(***************************************************************************)
(* Proofs about EmailConfirmation.  The clicks write the whitelist without *)
(* the row lock, so a session may again have a token that rotation or a    *)
(* revocation took from it: of the inductive invariant of Sessions only    *)
(* Core is left.  What holds besides it follows each click and the row it  *)
(* has loaded.                                                             *)
(***************************************************************************)
EXTENDS EmailConfirmation, SessionsProofs, WellFoundedInduction

-----------------------------------------------------------------------------
\* The whitelist row a click has loaded is one of the account whose link it is.
ClicksInv ==
  \A c \in Click :
    /\ click[c] # "new" => target[c] \in User
    /\ row[c] # 0 => row[c] \in 1..issued /\ owner[row[c]] = target[c]
    /\ click[c] \in {"new", "row"} => row[c] = 0
    /\ click[c] = "enable" => row[c] # 0

\* Somebody has opened the link of account u, or u needs no link any more.
Opened(u) == u \in verified \/ \E c \in Enablers : target[c] = u

\* While verification is mandatory, whoever was handed a token that can be rotated, or has
\* given the password of the account, is of an account that was opened.
MailboxInv ==
  Mandatory =>
    /\ \A t \in (1..issued) \ disabled : Opened(owner[t])
    /\ \A r \in Req : kind[r] \in {"login"} \cup CredentialChange => Opened(subj[r])
    /\ \A r \in Req : pc[r] = "mint" => kind[r] \in {"login", "signup"} \cup CredentialChange

\* A click has written a row of session s, which rotation or a revocation may have deleted.
Touched(s) == \E c \in Enablers : session[row[c]] = s

\* A session no click has touched is as rotations and revocations leave it: one live token,
\* neither rotated nor of a session that was closed.
ConfinedInv ==
  \A t \in live : ~ Touched(session[t]) =>
    /\ t \notin spent
    /\ session[t] \notin closed
    /\ \A u \in live : session[u] = session[t] => u = t

\* From the moment it has looked for a row, a click leaves no row of its account switched off,
\* but those it could not see, those behind the row it took and the one it is about to write.
SwitchInv ==
  \A c \in Click :
    /\ click[c] \in {"mint", "done"} => target[c] \in verified
    /\ click[c] \in {"enable", "ask", "confirm", "mint", "done"} =>
         \A t \in live \cap disabled : owner[t] = target[c] =>
           \/ t > seen[c]
           \/ row[c] \in 1..(t - 1)
           \/ click[c] = "enable" /\ t = row[c]

ConfirmInv == Core /\ ConfirmTypeOK /\ ClicksInv /\ MailboxInv /\ ConfinedInv /\ SwitchInv

-----------------------------------------------------------------------------
(* What the steps of the requests do to the whitelist.                     *)

\* Token n is issued, of session s and user u; the tokens there were stay what they are.
Issues(n, s, u) ==
  /\ n = issued + 1 /\ issued' = n /\ n \notin 1..issued
  /\ 1..issued' = (1..issued) \cup {n}
  /\ session'[n] = s /\ owner'[n] = u
  /\ \A t \in 1..issued : session'[t] = session[t] /\ owner'[t] = owner[t]

Opens(r) ==
  \E n \in Token :
    /\ Issues(n, n, subj[r])
    /\ live' = live \cup {n}
    /\ disabled' = IF kind[r] = "signup" /\ Mandatory THEN disabled \cup {n} ELSE disabled
    /\ UNCHANGED <<spent, closed>>

Exchanges ==
  \E n \in Token, t \in live \ disabled :
    /\ Issues(n, session[t], owner[t])
    /\ live' = (live \ {t}) \cup {n}
    /\ spent' = spent \cup {t}
    /\ UNCHANGED <<disabled, closed>>

Removes ==
  \E S \in SUBSET live :
    /\ live' = live \ S
    /\ closed' = closed \cup {session[t] : t \in S}
    /\ UNCHANGED <<issued, session, owner, disabled, spent>>

Rests == UNCHANGED <<issued, session, owner, live, disabled, spent, closed>>

LEMMA MintOpens ==
  ASSUME Core, NEW r \in Req, Mint(r)
  PROVE  Opens(r)
<1>1. PICK n \in Token : /\ Insert(n, n, subj[r], ver[r])
                         /\ live' = live \cup {n}
                         /\ disabled' = IF kind[r] = "signup" /\ Mandatory
                                          THEN disabled \cup {n} ELSE disabled
  BY DEF Mint
<1>2. subj[r] \in User /\ ver[r] \in Nat /\ UNCHANGED <<spent, closed>>
  BY DEF Mint, Core, TypeOK, RequestsInv
<1>3. Issues(n, n, subj[r])
  BY <1>1, <1>2, InsertFacts DEF Core, Issues
<1> QED BY <1>1, <1>2, <1>3 DEF Opens

LEMMA RotateExchanges ==
  ASSUME Core, NEW r \in Req, Rotate(r)
  PROVE  Exchanges \/ Rests
<1> DEFINE t == tok[r]
<1>1. CASE Verdict(t, subj[r]) = "accepted"
  <2>1. PICK n \in Token : /\ Insert(n, session[t], subj[r], credential[t])
                           /\ live' = (live \ {t}) \cup {n}
                           /\ spent' = spent \cup {t}
    BY <1>1 DEF Rotate
  <2>2. t \in live \ disabled /\ UNCHANGED <<disabled, closed>>
    BY <1>1 DEF Rotate, Verdict
  <2>3. t \in 1..issued /\ owner[t] = subj[r] /\ subj[r] \in User
    BY SMT DEF Rotate, Core, RequestsInv
  <2>4. /\ session[t] \in 1..issued /\ session[session[t]] = session[t]
        /\ owner[session[t]] = subj[r] /\ credential[t] \in Nat
    BY <2>3, SMT DEF Core, TypeOK, TokensInv, Token
  <2>5. Issues(n, session[t], owner[t])
    BY <2>1, <2>3, <2>4, InsertFacts DEF Core, Issues
  <2> QED BY <2>1, <2>2, <2>5 DEF Exchanges
<1>2. CASE Verdict(t, subj[r]) # "accepted"
  BY <1>2 DEF Rotate, Rests
<1> QED BY <1>1, <1>2

LEMMA ApplyRemoves ==
  ASSUME Core, NEW r \in Req, Apply(r)
  PROVE  Removes
<1>1. snap[r] \in SUBSET live
  BY DEF Apply, Core, SnapInv
<1> QED BY <1>1 DEF Apply, Removes

\* A step of the requests opens a session, exchanges a token, removes rows or leaves the
\* whitelist alone; it confirms no address.
LEMMA RowsMove ==
  ASSUME Core, [Next]_vars
  PROVE  /\ verified' = verified
         /\ (\E r \in Req : Mint(r) /\ Opens(r)) \/ Exchanges \/ Removes \/ Rests
<1> USE DEF storeVars, accountVars
<1>1. CASE \E r \in Req : Serve(r)
  <2>1. PICK r \in Req : Serve(r)
    BY <1>1
  <2>2. verified' = verified
    BY <2>1 DEF Serve, SavePassword, SaveProfile, Mint, Lock, Rotate, Delete, Apply
  <2>3. CASE SavePassword(r) \/ SaveProfile(r) \/ Lock(r) \/ Delete(r)
    BY <2>3 DEF SavePassword, SaveProfile, Lock, Delete, Rests
  <2> QED BY <2>1, <2>2, <2>3, MintOpens, RotateExchanges, ApplyRemoves DEF Serve
<1>2. CASE \E r \in Req, u \in User : \/ Login(r, u) \/ Signup(r, u) \/ LogoutAll(r, u)
                                      \/ Change(r, u) \/ LoadProfile(r, u) \/ Reset(r, u)
  BY <1>2 DEF Login, Signup, LogoutAll, Change, LoadProfile, Reset, Arrive, Rests
<1>3. CASE \E r \in Req, t \in Token : Refresh(r, t) \/ Logout(r, t)
  BY <1>3 DEF Refresh, Logout, Arrive, Rests
<1>4. CASE \E r \in Req : Crash(r)
  BY <1>4 DEF Crash, Rests
<1>5. CASE (\E u \in User : Deactivate(u)) \/ (\E s \in Token : Expire(s)) \/ UNCHANGED vars
  BY <1>5 DEF Deactivate, Expire, vars, Rests
<1> QED BY <1>1, <1>2, <1>3, <1>4, <1>5 DEF Next, Others

\* Tokens are only added.
LEMMA TokensStay ==
  ASSUME Core, [Next]_vars
  PROVE  /\ issued \in Nat /\ issued' \in Nat /\ issued <= issued'
         /\ 1..issued \subseteq 1..issued'
         /\ \A t \in 1..issued : session'[t] = session[t] /\ owner'[t] = owner[t]
<1>1. issued \in Nat
  BY DEF Core, TypeOK
<1>2. CASE \E n \in Token : \E s, u : Issues(n, s, u)
  <2>0. PICK n \in Token : \E s, u : Issues(n, s, u)
    BY <1>2
  <2>1. PICK s, u : Issues(n, s, u)
    BY <2>0
  <2>2. issued' = issued + 1
    BY <2>1 DEF Issues
  <2> QED BY <1>1, <2>1, <2>2 DEF Issues
<1>3. CASE UNCHANGED <<issued, session, owner>>
  BY <1>1, <1>3
<1> QED BY <1>2, <1>3, RowsMove DEF Opens, Exchanges, Removes, Rests

-----------------------------------------------------------------------------
(* What a click has written lasts.                                         *)

\* Whatever adds openings, tokens and confirmed addresses, and changes none, keeps an account
\* open and a session touched.
LEMMA Lasting ==
  ASSUME ClicksInv, Enablers \subseteq Enablers', verified \subseteq verified',
         \A c \in Enablers : target'[c] = target[c] /\ row'[c] = row[c],
         \A t \in 1..issued : session'[t] = session[t]
  PROVE  /\ \A u : Opened(u) => Opened(u)'
         /\ \A s : Touched(s) => Touched(s)'
<1>1. ASSUME NEW u, Opened(u) PROVE Opened(u)'
  BY <1>1 DEF Opened
<1>2. ASSUME NEW s, Touched(s) PROVE Touched(s)'
  <2>1. PICK c \in Enablers : session[row[c]] = s
    BY <1>2 DEF Touched
  <2>2. row[c] \in 1..issued
    BY DEF Enablers, ClicksInv
  <2> QED BY <2>1, <2>2 DEF Touched
<1> QED BY <1>1, <1>2

\* A step of the requests moves no click.
LEMMA LastingNext ==
  ASSUME Core, ClicksInv, [Next]_vars, UNCHANGED clickVars
  PROVE  /\ Enablers' = Enablers
         /\ \A u : Opened(u) => Opened(u)'
         /\ \A s : Touched(s) => Touched(s)'
<1>1. Enablers' = Enablers /\ target' = target /\ row' = row
  BY DEF clickVars, Enablers
<1> QED BY <1>1, TokensStay, RowsMove, Lasting

-----------------------------------------------------------------------------
(* The steps of the requests.                                              *)

LEMMA NextClicks ==
  ASSUME Core, ConfirmTypeOK, ClicksInv, [Next]_vars, UNCHANGED clickVars
  PROVE  Core' /\ ConfirmTypeOK' /\ ClicksInv'
<1>1. Core'
  BY CoreNext
<1>2. ConfirmTypeOK'
  <2>1. \A n \in 0..issued : n \in 0..issued'
    BY TokensStay, SMT
  <2>2. seen' \in [Click -> 0..issued']
    BY <2>1 DEF ConfirmTypeOK, clickVars
  <2> QED BY <1>1, <2>2 DEF ConfirmTypeOK, Core, clickVars
<1>3. ClicksInv'
  BY TokensStay DEF ClicksInv, clickVars
<1> QED BY <1>1, <1>2, <1>3

\* Which requests there are, and whose: all but a login and a change of the password is of no
\* matter, and these are of an account that was opened.
LEMMA RequestsOpened ==
  ASSUME Core, MailboxInv, Mandatory, [Next]_vars
  PROVE  \A q \in Req :
           /\ kind'[q] \in {"login"} \cup CredentialChange => Opened(subj'[q])
           /\ pc'[q] = "mint" => kind'[q] \in {"login", "signup"} \cup CredentialChange
<1> USE DEF CredentialChange
<1>1. ASSUME NEW r \in Req, NEW k, NEW u, NEW t, NEW sc, NEW next, Arrive(r, k, u, t, sc, next),
             k \in {"login"} \cup CredentialChange => Opened(u),
             next = "mint" => k \in {"login", "signup"}
      PROVE  \A q \in Req :
               /\ kind'[q] \in {"login"} \cup CredentialChange => Opened(subj'[q])
               /\ pc'[q] = "mint" => kind'[q] \in {"login", "signup"} \cup CredentialChange
  <2>1. kind'[r] = k /\ subj'[r] = u /\ pc'[r] = next
    BY <1>1 DEF Arrive, Core, TypeOK
  <2>2. \A q \in Req \ {r} : kind'[q] = kind[q] /\ subj'[q] = subj[q] /\ pc'[q] = pc[q]
    BY <1>1 DEF Arrive, Core, TypeOK
  <2> QED BY <1>1, <2>1, <2>2 DEF MailboxInv
<1>2. ASSUME UNCHANGED <<kind, subj>>,
             \A q \in Req : pc'[q] = "mint" => pc[q] = "mint" \/ kind[q] \in CredentialChange
      PROVE  \A q \in Req :
               /\ kind'[q] \in {"login"} \cup CredentialChange => Opened(subj'[q])
               /\ pc'[q] = "mint" => kind'[q] \in {"login", "signup"} \cup CredentialChange
  BY <1>2 DEF MailboxInv
<1>3. ASSUME NEW u \in User, Bearer(u) PROVE Opened(u)
  BY <1>3 DEF Bearer, MailboxInv
<1>4. CASE \E r \in Req, u \in User : \/ Login(r, u) \/ Signup(r, u) \/ LogoutAll(r, u)
                                      \/ Change(r, u) \/ LoadProfile(r, u) \/ Reset(r, u)
  <2>1. PICK r \in Req, u \in User : \/ Login(r, u) \/ Signup(r, u) \/ LogoutAll(r, u)
                                     \/ Change(r, u) \/ LoadProfile(r, u) \/ Reset(r, u)
    BY <1>4
  <2>2. CASE Login(r, u)
    BY <1>1, <2>2 DEF Login, Opened
  <2>3. CASE Change(r, u)
    BY <1>1, <1>3, <2>3 DEF Change
  <2>4. CASE Reset(r, u)
    BY <1>1, <2>4 DEF Reset, Opened
  <2>5. CASE Signup(r, u) \/ LogoutAll(r, u) \/ LoadProfile(r, u)
    BY <1>1, <2>5 DEF Signup, LogoutAll, LoadProfile
  <2> QED BY <2>1, <2>2, <2>3, <2>4, <2>5
<1>5. CASE \E r \in Req, t \in Token : Refresh(r, t) \/ Logout(r, t)
  BY <1>1, <1>5 DEF Refresh, Logout
<1>6. CASE \E r \in Req : \/ SavePassword(r) \/ SaveProfile(r) \/ Mint(r) \/ Lock(r)
                          \/ Rotate(r) \/ Delete(r) \/ Apply(r) \/ Crash(r)
  <2>1. PICK r \in Req : \/ SavePassword(r) \/ SaveProfile(r) \/ Mint(r) \/ Lock(r)
                         \/ Rotate(r) \/ Delete(r) \/ Apply(r) \/ Crash(r)
    BY <1>6
  <2>2. UNCHANGED <<kind, subj>>
    BY <2>1 DEF SavePassword, SaveProfile, Mint, Lock, Rotate, Delete, Apply, Crash, reqVars
  <2>3. \A q \in Req \ {r} : pc'[q] = pc[q]
    BY <2>1 DEF SavePassword, SaveProfile, Mint, Lock, Rotate, Delete, Apply, Crash,
                Core, TypeOK
  <2>4. pc'[r] = "mint" => kind[r] \in CredentialChange
    BY <2>1 DEF SavePassword, SaveProfile, Mint, Lock, Rotate, Delete, Apply, Crash,
                Core, TypeOK
  <2> QED BY <1>2, <2>2, <2>3, <2>4
<1>7. CASE UNCHANGED <<pc, kind, subj>>
  BY <1>2, <1>7
<1> QED BY <1>4, <1>5, <1>6, <1>7
       DEF Next, Others, Serve, Deactivate, Expire, vars, reqVars

LEMMA NextMailbox ==
  ASSUME Core, ClicksInv, MailboxInv, [Next]_vars, UNCHANGED clickVars
  PROVE  MailboxInv'
<1> SUFFICES ASSUME Mandatory
             PROVE  /\ \A t \in (1..issued') \ disabled' : Opened(owner[t])'
                    /\ \A q \in Req : kind'[q] \in {"login"} \cup CredentialChange =>
                         Opened(subj[q])'
                    /\ \A q \in Req : pc'[q] = "mint" =>
                         kind'[q] \in {"login", "signup"} \cup CredentialChange
  BY DEF MailboxInv, CredentialChange
<1>1. \A u : Opened(u) => Opened(u)'
  BY LastingNext
<1>2. \A t \in (1..issued) \ disabled : Opened(owner[t])
  BY DEF MailboxInv
<1>3. ASSUME NEW t \in (1..issued') \ disabled' PROVE Opened(owner'[t])
  <2>1. CASE t \in 1..issued /\ disabled \subseteq disabled'
    BY <1>2, <1>3, <2>1, TokensStay
  <2>2. CASE \E r \in Req : Mint(r) /\ Opens(r)
    <3>1. PICK r \in Req : Mint(r) /\ Opens(r)
      BY <2>2
    <3>2. kind[r] = "signup" \/ Opened(subj[r])
      BY <3>1 DEF Mint, MailboxInv
    <3> QED BY <1>3, <2>1, <3>1, <3>2 DEF Opens, Issues
  <2>3. CASE Exchanges
    <3>1. live \subseteq 1..issued
      BY DEF Core, TypeOK
    <3> QED BY <1>2, <1>3, <2>1, <2>3, <3>1 DEF Exchanges, Issues
  <2>4. CASE Removes \/ Rests
    BY <1>3, <2>1, <2>4 DEF Removes, Rests
  <2> QED BY <2>2, <2>3, <2>4, RowsMove
<1> QED BY <1>1, <1>3, RequestsOpened

LEMMA NextConfined ==
  ASSUME Core, ClicksInv, ConfinedInv, [Next]_vars, UNCHANGED clickVars
  PROVE  ConfinedInv'
<1>1. \A s : Touched(s) => Touched(s)'
  BY LastingNext
<1>2. /\ live \subseteq 1..issued /\ spent \subseteq 1..issued /\ closed \subseteq 1..issued
      /\ \A t \in 1..issued : session[t] \in 1..issued
  BY SMT DEF Core, TypeOK, TokensInv
<1>3. CASE \E r \in Req : Mint(r) /\ Opens(r)
  <2>1. PICK r \in Req : Opens(r)
    BY <1>3
  <2>2. PICK n \in Token : /\ Issues(n, n, subj[r]) /\ live' = live \cup {n}
                           /\ UNCHANGED <<spent, closed>>
    BY <2>1 DEF Opens
  <2>3. \A t \in live : session'[t] = session[t] /\ session[t] # n /\ t # n
    BY <1>2, <2>2 DEF Issues
  <2>4. n \notin spent /\ n \notin closed /\ session'[n] = n
    BY <1>2, <2>2 DEF Issues
  <2> QED BY <1>1, <2>2, <2>3, <2>4 DEF ConfinedInv
<1>4. CASE Exchanges
  <2>1. PICK n \in Token, x \in live \ disabled :
          /\ Issues(n, session[x], owner[x])
          /\ live' = (live \ {x}) \cup {n}
          /\ spent' = spent \cup {x}
          /\ UNCHANGED <<disabled, closed>>
    BY <1>4 DEF Exchanges
  <2>2. /\ \A t \in live : session'[t] = session[t] /\ t # n
        /\ n \notin spent' /\ session'[n] = session[x]
    BY <1>2, <2>1 DEF Issues
  <2> QED BY <1>1, <2>1, <2>2 DEF ConfinedInv
<1>5. CASE Removes
  <2>1. PICK S \in SUBSET live : /\ live' = live \ S
                                 /\ closed' = closed \cup {session[t] : t \in S}
                                 /\ UNCHANGED <<session, spent>>
    BY <1>5 DEF Removes
  <2> QED BY <1>1, <2>1 DEF ConfinedInv
<1>6. CASE Rests
  BY <1>1, <1>6 DEF ConfinedInv, Rests
<1> QED BY <1>3, <1>4, <1>5, <1>6, RowsMove

\* A token a request issues is newer than every look a click has had.
LEMMA NextSwitch ==
  ASSUME Core, ConfirmTypeOK, SwitchInv, [Next]_vars, UNCHANGED clickVars
  PROVE  SwitchInv'
<1>1. live \subseteq 1..issued /\ disabled \subseteq 1..issued /\ issued \in Nat
  BY DEF Core, TypeOK
<1>2. ASSUME NEW t \in live' \cap disabled'
      PROVE  (t \in live \cap disabled /\ owner'[t] = owner[t]) \/ t = issued + 1
  <2>1. CASE t \in live \cap disabled
    BY <1>1, <2>1, TokensStay
  <2>2. CASE \E r \in Req : Opens(r)
    BY <1>2, <2>1, <2>2 DEF Opens, Issues
  <2>3. CASE Exchanges
    BY <1>2, <2>1, <2>3 DEF Exchanges, Issues
  <2>4. CASE Removes \/ Rests
    BY <1>2, <2>1, <2>4 DEF Removes, Rests
  <2> QED BY <2>2, <2>3, <2>4, RowsMove
<1>3. \A c \in Click : seen[c] \in Nat /\ issued + 1 > seen[c]
  BY <1>1, SMT DEF ConfirmTypeOK
<1>4. verified' = verified
  BY RowsMove
<1> QED BY <1>2, <1>3, <1>4 DEF SwitchInv, clickVars

-----------------------------------------------------------------------------
(* The steps of the clicks.                                                *)

\* A click that touches neither the accounts nor the whitelist leaves what others have
\* written as it is: only what it knows itself has to be looked at.
LEMMA QuietClick ==
  ASSUME ConfirmInv, UNCHANGED vars, NEW c \in Click,
         click' \in [Click -> ClickPC], target' \in [Click -> User \cup {NoUser}],
         row' \in [Click -> 0..MaxToken], completes' \in [Click -> BOOLEAN],
         seen' \in [Click -> 0..issued],
         \A d \in Click \ {c} : /\ click'[d] = click[d] /\ target'[d] = target[d]
                               /\ row'[d] = row[d] /\ seen'[d] = seen[d],
         c \in Enablers =>
           target'[c] = target[c] /\ row'[c] = row[c] /\ click'[c] \in {"ask", "confirm", "mint"} \cup Ended,
         /\ click'[c] # "new" => target'[c] \in User
         /\ row'[c] # 0 => row'[c] \in 1..issued /\ owner[row'[c]] = target'[c]
         /\ click'[c] \in {"new", "row"} => row'[c] = 0
         /\ click'[c] = "enable" => row'[c] # 0
         /\ click'[c] \in {"mint", "done"} => target'[c] \in verified
         /\ click'[c] \in {"enable", "ask", "confirm", "mint", "done"} =>
              \A t \in live \cap disabled : owner[t] = target'[c] =>
                \/ t > seen'[c]
                \/ row'[c] \in 1..(t - 1)
                \/ click'[c] = "enable" /\ t = row'[c]
  PROVE  ConfirmInv'
<1> USE DEF vars, storeVars, accountVars, reqVars
<1>1. Core'
  BY CoreNext DEF ConfirmInv
<1>2. ConfirmTypeOK'
  BY <1>1 DEF ConfirmInv, ConfirmTypeOK, Core
<1>3. ClicksInv'
  BY DEF ConfirmInv, ClicksInv
<1>4. SwitchInv'
  BY DEF ConfirmInv, SwitchInv
<1>5. /\ \A u : Opened(u) => Opened(u)'
      /\ \A s : Touched(s) => Touched(s)'
  <2>1. /\ Enablers \subseteq Enablers'
        /\ \A d \in Enablers : target'[d] = target[d] /\ row'[d] = row[d]
    BY DEF Enablers
  <2> QED BY <2>1, Lasting DEF ConfirmInv
<1>6. MailboxInv'
  BY <1>5 DEF ConfirmInv, MailboxInv
<1>7. ConfinedInv'
  BY <1>5 DEF ConfirmInv, ConfinedInv
<1> QED BY <1>1, <1>2, <1>3, <1>4, <1>6, <1>7 DEF ConfirmInv

LEMMA FollowStep ==
  ASSUME ConfirmInv, NEW c \in Click, NEW u \in User, Follow(c, u)
  PROVE  ConfirmInv'
<1>1. /\ click[c] = "new" /\ click' = [click EXCEPT ![c] = "row"]
      /\ target' = [target EXCEPT ![c] = u]
      /\ UNCHANGED <<vars, row, completes, seen>>
  BY DEF Follow, Step
<1>2. /\ click'[c] = "row" /\ target'[c] = u /\ row[c] = 0
      /\ click' \in [Click -> ClickPC] /\ target' \in [Click -> User \cup {NoUser}]
      /\ c \notin Enablers
  BY <1>1 DEF ConfirmInv, ConfirmTypeOK, ClicksInv, ClickPC, Enablers
<1>3. \A d \in Click \ {c} : click'[d] = click[d] /\ target'[d] = target[d]
  BY <1>1 DEF ConfirmInv, ConfirmTypeOK
<1> QED BY <1>1, <1>2, <1>3, QuietClick DEF ConfirmInv, ConfirmTypeOK

\* A set of numbers has a least one.
LEMMA LeastRow ==
  ASSUME NEW S \in SUBSET Nat, S # {}
  PROVE  Min(S) \in S /\ \A t \in S : Min(S) <= t
<1>1. PICK x \in S : \A y \in S : ~ <<y, x>> \in OpToRel(<, Nat)
  BY NatLessThanWellFounded, WFMin
<1>2. \A y \in S : x <= y
  <2> SUFFICES ASSUME NEW y \in S, ~ x <= y PROVE FALSE
    OBVIOUS
  <2>1. x \in Nat /\ y \in Nat /\ y < x
    BY SMT
  <2> QED BY <1>1, <2>1 DEF OpToRel
<1> QED BY <1>2 DEF Min

\* The click takes the oldest row: what is switched off behind it is newer.
LEMMA LoadRowStep ==
  ASSUME ConfirmInv, NEW c \in Click, LoadRow(c)
  PROVE  ConfirmInv'
<1> DEFINE rows == {t \in live : owner[t] = target[c]}
<1>1. /\ click[c] = "row"
      /\ click' = [click EXCEPT ![c] = IF rows = {} THEN "ask" ELSE "enable"]
      /\ row' = [row EXCEPT ![c] = IF rows = {} THEN 0 ELSE Min(rows)]
      /\ seen' = [seen EXCEPT ![c] = issued]
      /\ UNCHANGED <<vars, target, completes>>
  BY DEF LoadRow, Step
<1>2. live \subseteq 1..issued /\ issued \in 0..MaxToken /\ issued \in Nat /\ target[c] \in User
  BY <1>1 DEF ConfirmInv, Core, TypeOK, ClicksInv
<1>3. /\ \A d \in Click \ {c} : click'[d] = click[d] /\ row'[d] = row[d] /\ seen'[d] = seen[d]
      /\ click'[c] = IF rows = {} THEN "ask" ELSE "enable"
      /\ row'[c] = IF rows = {} THEN 0 ELSE Min(rows)
      /\ seen'[c] = issued /\ c \notin Enablers
  BY <1>1 DEF ConfirmInv, ConfirmTypeOK, Enablers, Ended
<1>4. /\ click' \in [Click -> ClickPC] /\ seen' \in [Click -> 0..issued]
  BY <1>1, <1>2, SMT DEF ConfirmInv, ConfirmTypeOK, ClickPC
<1>5. rows # {} => /\ Min(rows) \in rows /\ Min(rows) \in 1..issued
                   /\ \A t \in rows : Min(rows) <= t
  <2>1. rows \in SUBSET Nat /\ rows \subseteq 1..issued
    BY <1>2
  <2> QED BY <2>1, LeastRow
<1>6. row' \in [Click -> 0..MaxToken]
  <2>1. (IF rows = {} THEN 0 ELSE Min(rows)) \in 0..MaxToken
    <3>1. \A t \in 1..issued : t \in 0..MaxToken
      BY <1>2, SessionsAssumption, SMT
    <3>2. 0 \in 0..MaxToken
      BY SessionsAssumption, SMT
    <3> QED BY <1>5, <3>1, <3>2
  <2> QED BY <1>1, <2>1 DEF ConfirmInv, ConfirmTypeOK
<1>7. \A t \in live \cap disabled : owner[t] = target[c] =>
        row'[c] \in 1..(t - 1) \/ (click'[c] = "enable" /\ t = row'[c])
  BY <1>2, <1>3, <1>5, SMT
<1>8. row'[c] # 0 => row'[c] \in 1..issued /\ owner[row'[c]] = target[c]
  BY <1>3, <1>5
<1>9. click'[c] = "enable" => row'[c] # 0
  BY <1>2, <1>3, <1>5, SMT
<1>10. /\ click'[c] \in {"ask", "enable"} /\ completes' \in [Click -> BOOLEAN]
       /\ target' \in [Click -> User \cup {NoUser}] /\ target' = target
  BY <1>1, <1>3 DEF ConfirmInv, ConfirmTypeOK
<1> QED BY <1>1, <1>2, <1>3, <1>4, <1>6, <1>7, <1>8, <1>9, <1>10, QuietClick

LEMMA AskStep ==
  ASSUME ConfirmInv, NEW c \in Click, AskCompletes(c)
  PROVE  ConfirmInv'
<1>1. /\ click[c] = "ask" /\ click' = [click EXCEPT ![c] = "confirm"]
      /\ completes' = [completes EXCEPT ![c] = target[c] \notin verified]
      /\ UNCHANGED <<vars, target, row, seen>>
  BY DEF AskCompletes, Step
<1>2. /\ \A d \in Click \ {c} : click'[d] = click[d]
      /\ click'[c] = "confirm" /\ click' \in [Click -> ClickPC]
      /\ completes' \in [Click -> BOOLEAN]
  BY <1>1 DEF ConfirmInv, ConfirmTypeOK, ClickPC
<1> QED BY <1>1, <1>2, QuietClick DEF ConfirmInv, ConfirmTypeOK, ClicksInv, SwitchInv

\* A click that dies has written its row, or it is not known that it has not.
LEMMA CrashClickStep ==
  ASSUME ConfirmInv, NEW c \in Click, CrashClick(c)
  PROVE  ConfirmInv'
<1>1. /\ click[c] # "new" /\ click' = [click EXCEPT ![c] = "crashed"]
      /\ UNCHANGED <<vars, target, row, completes, seen>>
  BY DEF CrashClick
<1>2. /\ \A d \in Click \ {c} : click'[d] = click[d]
      /\ click'[c] = "crashed" /\ click' \in [Click -> ClickPC]
  BY <1>1 DEF ConfirmInv, ConfirmTypeOK, ClickPC, Ended
<1> QED BY <1>1, <1>2, QuietClick DEF ConfirmInv, ConfirmTypeOK, ClicksInv, Ended

\* The row goes back into the whitelist, switched on: its session has been touched, so what
\* rotation and revocation promise of it is not claimed any more.
LEMMA EnableRowStep ==
  ASSUME ConfirmInv, NEW c \in Click, EnableRow(c)
  PROVE  ConfirmInv'
<1> DEFINE x == row[c]
<1>1. /\ click[c] = "enable" /\ click' = [click EXCEPT ![c] = "ask"]
      /\ live' = live \cup {x} /\ disabled' = disabled \ {x}
      /\ UNCHANGED <<issued, session, owner, spent, closed, credential, leaked, accountVars, lock,
                     pc, reqVars, floor, target, row, completes, seen>>
  BY DEF EnableRow, Step
<1>2. x # 0 /\ x \in 1..issued /\ owner[x] = target[c]
  BY <1>1 DEF ConfirmInv, ClicksInv
<1>3. /\ click'[c] = "ask" /\ \A d \in Click \ {c} : click'[d] = click[d]
      /\ click' \in [Click -> ClickPC]
  BY <1>1 DEF ConfirmInv, ConfirmTypeOK, ClickPC
<1>4. Core'
  <2>1. TypeOK'
    BY <1>1, <1>2 DEF ConfirmInv, Core, TypeOK, accountVars, reqVars
  <2>2. TokensInv' /\ RequestsInv' /\ LockInv' /\ SnapInv'
    BY <1>1 DEF ConfirmInv, Core, TokensInv, RequestsInv, LockInv, SnapInv, reqVars
  <2> QED BY <2>1, <2>2 DEF Core
<1>5. ConfirmTypeOK'
  BY <1>1, <1>3, <1>4 DEF ConfirmInv, ConfirmTypeOK, Core
<1>6. ClicksInv'
  BY <1>1, <1>2, <1>3 DEF ConfirmInv, ClicksInv
<1>7. c \in Enablers' /\ Enablers \subseteq Enablers'
  BY <1>1, <1>2, <1>3 DEF Enablers
<1>8. /\ \A u : Opened(u) => Opened(u)'
      /\ \A s : Touched(s) => Touched(s)'
  BY <1>1, <1>7, Lasting DEF ConfirmInv, accountVars
<1>9. MailboxInv'
  <2>1. Opened(owner[x])'
    BY <1>1, <1>2, <1>7 DEF Opened
  <2>2. \A t \in (1..issued) \ disabled' : t = x \/ t \in (1..issued) \ disabled
    BY <1>1
  <2> QED BY <1>1, <1>8, <2>1, <2>2 DEF ConfirmInv, MailboxInv, reqVars
<1>10. ConfinedInv'
  <2>1. Touched(session[x])'
    BY <1>1, <1>7 DEF Touched
  <2> QED BY <1>1, <1>8, <2>1 DEF ConfirmInv, ConfinedInv
<1>11. SwitchInv'
  <2>1. \A t \in live' \cap disabled' : t \in live \cap disabled /\ t # x
    BY <1>1
  <2> QED BY <1>1, <1>3, <2>1 DEF ConfirmInv, SwitchInv, accountVars
<1> QED BY <1>4, <1>5, <1>6, <1>9, <1>10, <1>11 DEF ConfirmInv

LEMMA ConfirmStep ==
  ASSUME ConfirmInv, NEW c \in Click, ConfirmAddress(c)
  PROVE  ConfirmInv'
<1>1. /\ click[c] = "confirm"
      /\ click' = [click EXCEPT ![c] =
                     IF completes[c] /\ SessionOnVerification THEN "mint" ELSE "done"]
      /\ verified' = verified \cup {target[c]}
      /\ UNCHANGED <<storeVars, standing, password, changes, expired, undone, lock, pc, reqVars,
                     floor, target, row, completes, seen>>
  BY DEF ConfirmAddress, Step
<1> USE DEF storeVars, reqVars
<1>2. target[c] \in User
  BY <1>1 DEF ConfirmInv, ClicksInv
<1>3. /\ click'[c] \in {"mint", "done"} /\ \A d \in Click \ {c} : click'[d] = click[d]
      /\ click' \in [Click -> ClickPC]
  BY <1>1 DEF ConfirmInv, ConfirmTypeOK, ClickPC, Ended
<1>4. Core'
  <2>1. TypeOK'
    BY <1>1, <1>2 DEF ConfirmInv, Core, TypeOK
  <2>2. TokensInv' /\ RequestsInv' /\ LockInv' /\ SnapInv'
    BY <1>1 DEF ConfirmInv, Core, TokensInv, RequestsInv, LockInv, SnapInv
  <2> QED BY <2>1, <2>2 DEF Core
<1>5. ConfirmTypeOK' /\ ClicksInv'
  BY <1>1, <1>3, <1>4 DEF ConfirmInv, ConfirmTypeOK, ClicksInv, Core
<1>6. Enablers \subseteq Enablers'
  BY <1>1, <1>3 DEF Enablers, Ended
<1>7. /\ \A u : Opened(u) => Opened(u)'
      /\ \A s : Touched(s) => Touched(s)'
  BY <1>1, <1>6, Lasting DEF ConfirmInv
<1>8. MailboxInv' /\ ConfinedInv'
  BY <1>1, <1>7 DEF ConfirmInv, MailboxInv, ConfinedInv
<1>9. SwitchInv'
  BY <1>1, <1>3 DEF ConfirmInv, SwitchInv
<1> QED BY <1>4, <1>5, <1>8, <1>9 DEF ConfirmInv

\* The session that answers a click is new: no click has touched it, and its account was
\* confirmed by the click itself.
LEMMA StartSessionStep ==
  ASSUME ConfirmInv, NEW c \in Click, StartSession(c)
  PROVE  ConfirmInv'
<1> DEFINE u == target[c]
<1>1. PICK n \in Token : Insert(n, n, u, password[u]) /\ live' = live \cup {n}
  BY DEF StartSession
<1>2. /\ click[c] = "mint" /\ click' = [click EXCEPT ![c] = "done"]
      /\ UNCHANGED <<disabled, spent, closed, leaked, accountVars, lock, pc, reqVars, floor, target,
                     row, completes, seen>>
  BY DEF StartSession, Step
<1> USE DEF accountVars, reqVars
<1>3. /\ u \in User /\ u \in verified /\ password[u] \in Nat
      /\ live \subseteq 1..issued /\ spent \subseteq 1..issued /\ closed \subseteq 1..issued
      /\ disabled \subseteq 1..issued
  BY <1>2 DEF ConfirmInv, ClicksInv, SwitchInv, Core, TypeOK
<1>4. Issues(n, n, u)
  BY <1>1, <1>3, InsertFacts DEF ConfirmInv, Core, Issues
<1>5. /\ issued \in Nat /\ issued' \in 0..MaxToken
      /\ session' \in [Token -> 0..MaxToken]
      /\ owner' \in [Token -> User \cup {NoUser}]
      /\ credential' \in [Token -> Nat]
      /\ \A t \in 1..issued : session[t] # n
  BY <1>1, <1>3, InsertFacts DEF ConfirmInv, Core
<1>6. /\ click'[c] = "done" /\ \A d \in Click \ {c} : click'[d] = click[d]
      /\ click' \in [Click -> ClickPC]
  BY <1>2 DEF ConfirmInv, ConfirmTypeOK, ClickPC, Ended
<1>7. issued' = issued + 1 /\ \A k \in 0..issued : k \in 0..issued'
  BY <1>4, <1>5, SMT DEF Issues
<1>8. Core'
  <2>1. TypeOK'
    <3>1. upto' \in [Req -> 0..issued']
      BY <1>2, <1>7 DEF ConfirmInv, Core, TypeOK
    <3>2. /\ live' \subseteq 1..issued' /\ disabled' \subseteq 1..issued'
          /\ spent' \subseteq 1..issued' /\ closed' \subseteq 1..issued'
          /\ expired' \subseteq 1..issued' /\ leaked' \subseteq 1..issued'
      BY <1>1, <1>2, <1>3, <1>4 DEF ConfirmInv, Core, TypeOK, Issues
    <3> QED BY <1>2, <1>5, <3>1, <3>2 DEF ConfirmInv, Core, TypeOK
  <2>2. TokensInv'
    <3>1. \A t \in 1..issued' : /\ session'[t] \in 1..t
                               /\ session'[session'[t]] = session'[t]
                               /\ owner'[t] \in User
                               /\ owner'[session'[t]] = owner'[t]
      BY <1>1, <1>3, InsertFacts DEF ConfirmInv, Core
    <3>2. closed' \subseteq 1..issued'
      BY <1>2, <1>3, <1>4 DEF Issues
    <3> QED BY <3>1, <3>2 DEF TokensInv
  <2>3. RequestsInv'
    BY <1>2, <1>4 DEF ConfirmInv, Core, RequestsInv, Issues
  <2>4. LockInv' /\ SnapInv'
    <3>1. \A r \in Req : pc[r] = "apply" => \A t \in snap[r] : t \in live /\ owner[t] = subj[r]
      BY DEF ConfirmInv, Core, SnapInv
    <3> QED BY <1>1, <1>2, <1>3, <1>4, <3>1 DEF ConfirmInv, Core, LockInv, SnapInv, Issues
  <2> QED BY <2>1, <2>2, <2>3, <2>4 DEF Core
<1>9. ConfirmTypeOK'
  <2>1. seen' \in [Click -> 0..issued']
    BY <1>2, <1>7 DEF ConfirmInv, ConfirmTypeOK
  <2> QED BY <1>2, <1>6, <1>8, <2>1 DEF ConfirmInv, ConfirmTypeOK, Core
<1>10. ClicksInv'
  BY <1>2, <1>4, <1>6 DEF ConfirmInv, ClicksInv, Issues
<1>11. Enablers \subseteq Enablers'
  BY <1>2, <1>6 DEF Enablers, Ended
<1>12. /\ \A v : Opened(v) => Opened(v)'
       /\ \A s : Touched(s) => Touched(s)'
  BY <1>2, <1>4, <1>11, Lasting DEF ConfirmInv, Issues
<1>13. MailboxInv'
  <2>1. Opened(u)
    BY <1>3 DEF Opened
  <2>2. \A t \in (1..issued') \ disabled' :
          (t \in (1..issued) \ disabled /\ owner'[t] = owner[t]) \/ owner'[t] = u
    BY <1>2, <1>4 DEF Issues
  <2> QED BY <1>2, <1>12, <2>1, <2>2 DEF ConfirmInv, MailboxInv
<1>14. ConfinedInv'
  <2>1. n \notin spent' /\ n \notin closed' /\ session'[n] = n
    BY <1>2, <1>3, <1>4 DEF Issues
  <2>2. \A t \in live : session'[t] = session[t] /\ session[t] # n
    BY <1>3, <1>4, <1>5 DEF Issues
  <2> QED BY <1>1, <1>2, <1>12, <2>1, <2>2 DEF ConfirmInv, ConfinedInv
<1>15. SwitchInv'
  <2>1. \A t \in live' \cap disabled' : t \in live \cap disabled /\ owner'[t] = owner[t]
    BY <1>1, <1>2, <1>3, <1>4 DEF Issues
  <2> QED BY <1>2, <1>6, <2>1 DEF ConfirmInv, SwitchInv
<1> QED BY <1>8, <1>9, <1>10, <1>13, <1>14, <1>15 DEF ConfirmInv

-----------------------------------------------------------------------------
\* Before anybody has followed a link there is nothing to say of the clicks.
LEMMA ConfirmInitInv == ConfirmInit => ConfirmInv
<1> SUFFICES ASSUME ConfirmInit PROVE ConfirmInv
  OBVIOUS
<1>1. Core
  BY InitIInv, CoreOfInvariant DEF ConfirmInit
<1>2. /\ issued = 0 /\ live = {}
      /\ \A r \in Req : kind[r] = "none" /\ pc[r] = "new"
  BY DEF ConfirmInit, Init
<1>3. ConfirmTypeOK
  <2>1. 0 \in 0..MaxToken /\ 0 \in 0..issued
    BY <1>2, SessionsAssumption, SMT
  <2> QED BY <1>1, <2>1 DEF ConfirmInit, ConfirmTypeOK, Core, ClickPC
<1>4. ClicksInv /\ ConfinedInv /\ SwitchInv
  BY <1>2 DEF ConfirmInit, ClicksInv, ConfinedInv, SwitchInv
<1>5. MailboxInv
  <2>1. 1..issued = {}
    BY <1>2, SMT
  <2> QED BY <1>2, <2>1 DEF MailboxInv, CredentialChange
<1> QED BY <1>1, <1>3, <1>4, <1>5 DEF ConfirmInv

LEMMA ConfirmNextInv == ConfirmInv /\ [ConfirmNext]_allVars => ConfirmInv'
<1> SUFFICES ASSUME ConfirmInv, [ConfirmNext]_allVars PROVE ConfirmInv'
  OBVIOUS
<1>1. CASE [Next]_vars /\ UNCHANGED clickVars
  BY <1>1, NextClicks, NextMailbox, NextConfined, NextSwitch DEF ConfirmInv
<1>2. ASSUME NEW c \in Click, NEW u \in User, Follow(c, u) PROVE ConfirmInv'
  BY <1>2, FollowStep
<1>3. ASSUME NEW c \in Click, ServeClick(c) PROVE ConfirmInv'
  BY <1>3, LoadRowStep, EnableRowStep, AskStep, ConfirmStep, StartSessionStep DEF ServeClick
<1>4. ASSUME NEW c \in Click, CrashClick(c) PROVE ConfirmInv'
  BY <1>4, CrashClickStep
<1> QED BY <1>1, <1>2, <1>3, <1>4 DEF ConfirmNext, allVars

\* However many accounts, requests, tokens and openings of a link there are, and whatever
\* their interleaving, the inductive invariant holds.
THEOREM ConfirmInvariance == ConfirmSpec => []ConfirmInv
BY ConfirmInitInv, ConfirmNextInv, PTL DEF ConfirmSpec

\* Type correctness, of the whitelist and the requests beside the clicks too.
THEOREM ConfirmTypeCorrect == ConfirmSpec => []ConfirmTypeOK
<1>1. ConfirmInv => ConfirmTypeOK
  BY DEF ConfirmInv
<1> QED BY <1>1, ConfirmInvariance, PTL

\* While verification is mandatory, no session of an unconfirmed account can be renewed
\* unless the link mailed to its address was opened.
THEOREM UnconfirmedNeedsLinkHolds == ConfirmSpec => []UnconfirmedNeedsLink
<1>1. ConfirmInv => UnconfirmedNeedsLink
  BY DEF ConfirmInv, Core, TypeOK, MailboxInv, Opened, UnconfirmedNeedsLink
<1> QED BY <1>1, ConfirmInvariance, PTL

\* The view's unlocked write is all that can bring a rotated or revoked token back: the
\* session of every such token is that of a row a click has written.
THEOREM OnlyClicksResurrectHolds == ConfirmSpec => []OnlyClicksResurrect
<1>1. ConfirmInv => OnlyClicksResurrect
  BY DEF ConfirmInv, ConfinedInv, Touched, OnlyClicksResurrect
<1> QED BY <1>1, ConfirmInvariance, PTL

\* A link followed to its end leaves the account confirmed, and no row of it switched off but
\* those inserted after the view had looked and those behind the row it took, whatever was
\* rotated, revoked or deleted meanwhile.
THEOREM ClickTurnsOnHolds == ConfirmSpec => []ClickTurnsOn
<1>1. ConfirmInv => ClickTurnsOn
  BY DEF ConfirmInv, SwitchInv, ClickTurnsOn
<1> QED BY <1>1, ConfirmInvariance, PTL

=============================================================================
