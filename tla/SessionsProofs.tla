--------------------------- MODULE SessionsProofs ---------------------------
(***************************************************************************)
(* Proofs about Sessions: its inductive invariant, the safety properties   *)
(* it implies, and that it implements SessionStore.                        *)
(***************************************************************************)
EXTENDS Sessions, TLAPS

USE SessionsAssumption

-----------------------------------------------------------------------------
\* The initial states satisfy the inductive invariant.
LEMMA InitIInv == Init => IInv
<1> SUFFICES ASSUME Init PROVE IInv
  OBVIOUS
<1> USE DEF Init
<1>1. TypeOK
  BY SMT DEF TypeOK, Token, PC, Kind, Standing
<1>2. TokensInv /\ RequestsInv /\ LockInv /\ DeleteInv /\ AccountsCleared
  BY SMT DEF TokensInv, RequestsInv, LockInv, DeleteInv, AccountsCleared, AccountCleared, Holding,
             CredentialChange
<1>3. OneTokenPerSession /\ SpentStaysDead /\ ClosedStaysClosed /\ SessionsCleared
  BY DEF OneTokenPerSession, SpentStaysDead, ClosedStaysClosed, SessionsCleared,
         Store!OneTokenPerSession, Store!SpentStaysDead, Store!ClosedStaysClosed
<1> QED BY <1>1, <1>2, <1>3 DEF IInv

-----------------------------------------------------------------------------
(* The part of the invariant that does not depend on which rows exist, so  *)
(* that it holds beside other writers of the whitelist too.                *)

\* The rows a DELETE saw stay until it removes them, and are those of its account.
SnapInv ==
  \A r \in Req : pc[r] = "apply" =>
    snap[r] \subseteq live /\ \A t \in snap[r] : owner[t] = subj[r]

Core == TypeOK /\ TokensInv /\ RequestsInv /\ LockInv /\ SnapInv

\* What inserting a row adds to the tokens, and that it leaves the others alone.
LEMMA InsertFacts ==
  ASSUME TypeOK, TokensInv, NEW n \in Token, NEW s \in {n} \cup 1..issued, NEW u \in User,
         NEW c \in Nat, Insert(n, s, u, c),
         s # n => session[s] = s /\ owner[s] = u
  PROVE  /\ issued \in Nat /\ n = issued + 1 /\ issued' = n /\ n \in Nat
         /\ n \notin 1..issued /\ 1..issued' = (1..issued) \cup {n}
         /\ issued' \in 0..MaxToken
         /\ session' \in [Token -> 0..MaxToken]
         /\ owner' \in [Token -> User \cup {NoUser}]
         /\ credential' \in [Token -> Nat]
         /\ session'[n] = s /\ owner'[n] = u
         /\ \A t \in 1..issued : session'[t] = session[t] /\ owner'[t] = owner[t]
         /\ \A t \in 1..issued : session[t] \in 1..issued /\ session[t] # n
         /\ \A t \in 1..issued' :
              /\ session'[t] \in 1..t
              /\ session'[session'[t]] = session'[t]
              /\ owner'[t] \in User
              /\ owner'[session'[t]] = owner'[t]
<1>1. issued \in Nat /\ n = issued + 1 /\ issued' = n /\ n \in Nat /\ n \in 1..MaxToken
      /\ issued' \in 0..MaxToken
  BY SMT DEF TypeOK, Insert, Token
<1>2. n \notin 1..issued /\ 1..issued' = (1..issued) \cup {n} /\ 1..issued \subseteq Token
  BY <1>1, SMT DEF Token
<1>3. /\ session' \in [Token -> 0..MaxToken]
      /\ owner' \in [Token -> User \cup {NoUser}]
      /\ credential' \in [Token -> Nat]
  BY <1>1, <1>2, SMT DEF TypeOK, Insert, Token
<1>4. session'[n] = s /\ owner'[n] = u
  BY SMT DEF TypeOK, Insert
<1>5. \A t \in 1..issued : session'[t] = session[t] /\ owner'[t] = owner[t]
  BY <1>2, SMT DEF TypeOK, Insert
<1>6. \A t \in 1..issued : session[t] \in 1..issued /\ session[t] # n
  BY <1>1, SMT DEF TokensInv
<1>7. ASSUME NEW t \in 1..issued'
      PROVE  /\ session'[t] \in 1..t
             /\ session'[session'[t]] = session'[t]
             /\ owner'[t] \in User
             /\ owner'[session'[t]] = owner'[t]
  <2>1. CASE t \in 1..issued
    BY <2>1, <1>5, <1>6 DEF TokensInv
  <2>2. CASE t = n /\ s = n
    BY <2>2, <1>1, <1>4, SMT
  <2>3. CASE t = n /\ s # n
    <3>1. s \in 1..issued /\ session'[s] = s /\ owner'[s] = u
      BY <2>3, <1>5
    <3> QED BY <2>3, <3>1, <1>1, <1>4, SMT
  <2> QED BY <1>2, <2>1, <2>2, <2>3
<1> QED BY <1>1, <1>2, <1>3, <1>4, <1>5, <1>6, <1>7

\* A request that arrives disturbs nothing: it only has to be about a token and an
\* account that exist.
LEMMA CoreArrive ==
  ASSUME Core, NEW r \in Req, NEW k \in Kind, NEW u \in User, NEW t \in 0..issued,
         NEW sc \in {"none", "session", "user"}, NEW next \in PC,
         Arrive(r, k, u, t, sc, next),
         k \in CredentialChange => sc = "user",
         next \in {"mint", "save", "patch", "claim", "await"},
         next = "save" => k \in CredentialChange,
         next = "claim" => k = "refresh" /\ sc = "none",
         next = "await" => sc # "none",
         next # "await" => sc # "session",
         (next = "claim" \/ sc = "session") => t \in 1..issued /\ owner[t] = u,
         standing' \in [User -> Standing],
         UNCHANGED <<verified, password, changes, expired, undone>>
  PROVE  Core'
<1> USE DEF Arrive, storeVars
<1>1. TypeOK'
  <2>1. /\ pc' \in [Req -> PC] /\ kind' \in [Req -> Kind]
        /\ subj' \in [Req -> User \cup {NoUser}]
        /\ scope' \in [Req -> {"none", "session", "user"}]
    BY DEF Core, TypeOK
  <2>2. tok' \in [Req -> 0..MaxToken]
    BY SMT DEF Core, TypeOK
  <2>3. ver' \in [Req -> Nat] /\ was' \in [Req -> Standing] /\ upto' \in [Req -> 0..issued']
    BY DEF Core, TypeOK, Standing
  <2> QED BY <2>1, <2>2, <2>3 DEF Core, TypeOK
<1>2. TokensInv'
  BY DEF Core, TokensInv
<1>3. RequestsInv'
  BY SMT DEF Core, RequestsInv, TypeOK
<1>4. LockInv' /\ SnapInv'
  BY SMT DEF Core, LockInv, SnapInv, TypeOK, Holding, PC
<1> QED BY <1>1, <1>2, <1>3, <1>4 DEF Core

LEMMA CoreSave ==
  ASSUME Core, NEW r \in Req, SavePassword(r) \/ SaveProfile(r)
  PROVE  Core'
<1> USE DEF storeVars, reqVars
<1>1. CASE SavePassword(r)
  <2> USE <1>1 DEF SavePassword
  <2>1. TypeOK'
    BY SMT DEF Core, TypeOK, RequestsInv, PC, Holding, Ended, Standing
  <2>2. TokensInv' /\ RequestsInv'
    BY SMT DEF Core, TokensInv, RequestsInv, TypeOK
  <2>3. LockInv' /\ SnapInv'
    BY SMT DEF Core, LockInv, SnapInv, TypeOK, Holding
  <2> QED BY <2>1, <2>2, <2>3 DEF Core
<1>2. CASE SaveProfile(r)
  <2> USE <1>2 DEF SaveProfile
  <2>1. TypeOK'
    BY SMT DEF Core, TypeOK, RequestsInv, PC, Holding, Ended
  <2>2. TokensInv' /\ RequestsInv'
    BY SMT DEF Core, TokensInv, RequestsInv, TypeOK
  <2>3. LockInv' /\ SnapInv'
    BY SMT DEF Core, LockInv, SnapInv, TypeOK, Holding
  <2> QED BY <2>1, <2>2, <2>3 DEF Core
<1> QED BY <1>1, <1>2

LEMMA CoreMint ==
  ASSUME Core, NEW r \in Req, Mint(r)
  PROVE  Core'
<1> PICK n \in Token : /\ Insert(n, n, subj[r], ver[r])
                       /\ live' = live \cup {n}
                       /\ disabled' = IF kind[r] = "signup" /\ Mandatory
                                        THEN disabled \cup {n} ELSE disabled
                       /\ leaked' \subseteq leaked \cup {n}
  BY DEF Mint
<1>0. /\ pc[r] = "mint"
      /\ pc' = [pc EXCEPT ![r] = "done"]
      /\ UNCHANGED <<spent, closed, accountVars, lock, reqVars, floor>>
  BY DEF Mint
<1> USE <1>0 DEF accountVars, reqVars
<1>1. subj[r] \in User /\ ver[r] \in Nat
  BY SMT DEF Core, TypeOK, RequestsInv
<1>2. /\ issued \in Nat /\ n = issued + 1 /\ issued' = n /\ n \in Nat
      /\ n \notin 1..issued /\ 1..issued' = (1..issued) \cup {n}
      /\ issued' \in 0..MaxToken
      /\ session' \in [Token -> 0..MaxToken]
      /\ owner' \in [Token -> User \cup {NoUser}]
      /\ credential' \in [Token -> Nat]
      /\ \A t \in 1..issued : session'[t] = session[t] /\ owner'[t] = owner[t]
  BY <1>1, InsertFacts DEF Core
<1>3. TypeOK'
  BY <1>2, SMT DEF Core, TypeOK, PC, Ended
<1>4. TokensInv'
  BY <1>1, <1>2, InsertFacts DEF Core, TokensInv
<1>5. RequestsInv'
  BY <1>2, SMT DEF Core, TypeOK, RequestsInv
<1>6. LockInv'
  BY SMT DEF Core, TypeOK, LockInv, Holding
<1>7. SnapInv'
  <2> SUFFICES ASSUME NEW q \in Req, pc'[q] = "apply"
               PROVE  snap[q] \subseteq live' /\ \A t \in snap[q] : owner'[t] = subj[q]
    BY DEF SnapInv
  <2>1. /\ pc[q] = "apply" /\ snap[q] \subseteq live /\ live \subseteq 1..issued
        /\ \A t \in snap[q] : owner[t] = subj[q]
    BY SMT DEF Core, TypeOK, SnapInv
  <2> QED BY <1>2, <2>1
<1> QED BY <1>3, <1>4, <1>5, <1>6, <1>7 DEF Core

LEMMA CoreLock ==
  ASSUME Core, NEW r \in Req, Lock(r)
  PROVE  Core'
<1> USE DEF Lock, storeVars, accountVars, reqVars
<1>1. TypeOK'
  <2>1. pc' \in [Req -> PC] /\ lock' \in [User -> Req \cup {NoReq}]
    BY DEF Core, TypeOK, PC, Holding
  <2> QED BY <2>1 DEF Core, TypeOK
<1>2. TokensInv' /\ RequestsInv'
  BY SMT DEF Core, TokensInv, RequestsInv, TypeOK
<1>3. LockInv' /\ SnapInv'
  BY SMT DEF Core, LockInv, SnapInv, RequestsInv, TypeOK, Holding
<1> QED BY <1>1, <1>2, <1>3 DEF Core

\* The token a rotation deletes is of no running DELETE: that would hold the same row lock.
LEMMA CoreRotate ==
  ASSUME Core, NEW r \in Req, Rotate(r)
  PROVE  Core'
<1> DEFINE t == tok[r]
<1> USE DEF accountVars
<1>0. /\ pc[r] = "rotate"
      /\ lock' = [lock EXCEPT ![subj[r]] = NoReq]
      /\ UNCHANGED <<disabled, closed, leaked, accountVars, kind, subj, tok, snap, ver, was, floor,
                     upto>>
  BY DEF Rotate, Unlock
<1>1. /\ t \in 1..issued /\ owner[t] = subj[r] /\ subj[r] \in User
      /\ lock[subj[r]] = r /\ issued \in Nat /\ kind[r] = "refresh"
      /\ scope[r] # "session"
  BY <1>0, SMT DEF Core, RequestsInv, LockInv, Holding, TypeOK
<1>2. \A q \in Req : pc[q] = "apply" => subj[q] # subj[r] /\ t \notin snap[q]
  BY <1>0, <1>1, SMT DEF Core, LockInv, SnapInv, Holding
<1>3. LockInv'
  <2>1. \A q \in Req \ {r} : pc'[q] = pc[q]
    BY SMT DEF Rotate, Core, TypeOK
  <2>2. pc'[r] \notin Holding
    BY SMT DEF Rotate, Core, TypeOK, Holding
  <2> QED BY <1>0, <1>1, <2>1, <2>2, SMT DEF Core, TypeOK, LockInv, Holding, RequestsInv
<1>4. CASE Verdict(t, subj[r]) = "accepted"
  <2>1. PICK n \in Token : /\ Insert(n, session[t], subj[r], credential[t])
                           /\ live' = (live \ {t}) \cup {n}
                           /\ spent' = spent \cup {t}
                           /\ pc' = [pc EXCEPT ![r] = "done"]
                           /\ scope' = scope
    BY <1>4 DEF Rotate
  <2> DEFINE s == session[t]
  <2>3. s \in 1..issued /\ session[s] = s /\ owner[s] = subj[r] /\ credential[t] \in Nat
    BY <1>1, SMT DEF Core, TypeOK, TokensInv, Token
  <2>4. /\ issued \in Nat /\ n = issued + 1 /\ issued' = n /\ n \in Nat
        /\ n \notin 1..issued /\ 1..issued' = (1..issued) \cup {n}
        /\ issued' \in 0..MaxToken
        /\ session' \in [Token -> 0..MaxToken]
        /\ owner' \in [Token -> User \cup {NoUser}]
        /\ credential' \in [Token -> Nat]
        /\ \A x \in 1..issued : session'[x] = session[x] /\ owner'[x] = owner[x]
    BY <1>1, <2>1, <2>3, InsertFacts DEF Core
  <2>5. TypeOK'
    <3>1. /\ pc' \in [Req -> PC] /\ lock' \in [User -> Req \cup {NoReq}]
          /\ scope' \in [Req -> {"none", "session", "user"}]
      BY <1>0, <2>1 DEF Core, TypeOK, PC, Ended
    <3>2. /\ live' \subseteq 1..issued' /\ disabled' \subseteq 1..issued'
          /\ spent' \subseteq 1..issued' /\ closed' \subseteq 1..issued'
          /\ expired' \subseteq 1..issued' /\ leaked' \subseteq 1..issued'
      BY <1>0, <1>1, <2>1, <2>4 DEF Core, TypeOK
    <3> QED BY <1>0, <2>4, <3>1, <3>2 DEF Core, TypeOK
  <2>6. TokensInv'
    BY <1>0, <1>1, <2>1, <2>3, <2>4, InsertFacts DEF Core, TokensInv
  <2>7. RequestsInv'
    BY <1>0, <1>1, <2>1, <2>4, SMT DEF Core, TypeOK, RequestsInv
  <2>8. SnapInv'
    <3> SUFFICES ASSUME NEW q \in Req, pc'[q] = "apply"
                 PROVE  snap[q] \subseteq live' /\ \A x \in snap[q] : owner'[x] = subj[q]
      BY <1>0, <2>1 DEF SnapInv
    <3>1. /\ pc[q] = "apply" /\ snap[q] \subseteq live /\ live \subseteq 1..issued
          /\ \A x \in snap[q] : owner[x] = subj[q]
      BY <2>1, SMT DEF Core, TypeOK, SnapInv
    <3> QED BY <1>2, <2>1, <2>4, <3>1
  <2> QED BY <1>3, <2>5, <2>6, <2>7, <2>8 DEF Core
<1>5. CASE Verdict(t, subj[r]) # "accepted"
  <2>1. /\ UNCHANGED <<issued, session, owner, credential, live, spent>>
        /\ \/ scope' = scope /\ pc' = [pc EXCEPT ![r] = "done"]
           \/ /\ pc' = [pc EXCEPT ![r] = "await"]
              /\ \E s \in {"session", "user"} : scope' = [scope EXCEPT ![r] = s]
    BY <1>5 DEF Rotate
  <2>2. TypeOK'
    BY <1>0, <1>1, <2>1, SMT DEF Core, TypeOK, PC, Ended
  <2>3. TokensInv' /\ RequestsInv'
    BY <1>0, <1>1, <2>1, SMT DEF Core, TypeOK, TokensInv, RequestsInv, CredentialChange
  <2>4. SnapInv'
    BY <1>0, <2>1, SMT DEF Core, TypeOK, SnapInv
  <2> QED BY <1>3, <2>2, <2>3, <2>4 DEF Core
<1> QED BY <1>4, <1>5

LEMMA CoreDelete ==
  ASSUME Core, NEW r \in Req, Delete(r)
  PROVE  Core'
<1>0. /\ pc[r] = "delete"
      /\ snap' = [snap EXCEPT ![r] = live \cap Targets(r)]
      /\ upto' = IF scope[r] = "user" THEN [upto EXCEPT ![r] = issued] ELSE upto
      /\ UNCHANGED <<storeVars, accountVars, kind, subj, tok, scope, ver, was, floor>>
  BY DEF Delete
<1> USE DEF storeVars, accountVars
<1>1. \/ /\ kind[r] = "logout" /\ live \cap Targets(r) = {}
         /\ lock' = [lock EXCEPT ![subj[r]] = NoReq]
         /\ pc' = [pc EXCEPT ![r] = "done"]
      \/ lock' = lock /\ pc' = [pc EXCEPT ![r] = "apply"]
  BY DEF Delete, Unlock
<1>2. subj[r] \in User /\ lock[subj[r]] = r
  BY <1>0 DEF Core, TypeOK, RequestsInv, LockInv, Holding
<1>3. TypeOK'
  <2>1. snap' \in [Req -> SUBSET Token]
    <3>1. live \cap Targets(r) \in SUBSET Token
      BY SMT DEF Core, TypeOK, Token, Targets
    <3> QED BY <1>0, <3>1 DEF Core, TypeOK
  <2>2. pc' \in [Req -> PC] /\ lock' \in [User -> Req \cup {NoReq}]
    BY <1>1, <1>2 DEF Core, TypeOK, PC, Ended, Holding
  <2>3. upto' \in [Req -> 0..issued']
    BY <1>0, SMT DEF Core, TypeOK
  <2> QED BY <1>0, <2>1, <2>2, <2>3 DEF Core, TypeOK
<1>4. TokensInv'
  BY <1>0 DEF Core, TokensInv
<1>5. RequestsInv'
  BY <1>0, <1>1 DEF Core, RequestsInv, TypeOK
<1>6. LockInv'
  <2>1. CASE lock' = lock /\ pc' = [pc EXCEPT ![r] = "apply"]
    BY <1>0, <1>2, <2>1 DEF Core, LockInv, TypeOK, Holding
  <2>2. CASE /\ lock' = [lock EXCEPT ![subj[r]] = NoReq]
             /\ pc' = [pc EXCEPT ![r] = "done"]
    BY <1>0, <1>2, <2>2 DEF Core, LockInv, TypeOK, Holding
  <2> QED BY <1>1, <2>1, <2>2
<1>7. SnapInv'
  <2>1. ASSUME NEW t \in live \cap Targets(r)
        PROVE  owner[t] = subj[r]
    <3>1. CASE scope[r] = "session"
      <4>1. session[t] = session[tok[r]] /\ tok[r] \in 1..issued /\ t \in 1..issued
            /\ owner[tok[r]] = subj[r]
        BY <3>1 DEF Targets, Core, RequestsInv
      <4> QED BY <4>1 DEF Core, TokensInv
    <3>2. CASE scope[r] # "session"
      BY <3>2 DEF Targets
    <3> QED BY <3>1, <3>2
  <2>2. snap'[r] = live \cap Targets(r)
    BY <1>0 DEF Core, TypeOK
  <2>3. \A q \in Req \ {r} : snap'[q] = snap[q] /\ pc'[q] = pc[q]
    BY <1>0, <1>1 DEF Core, TypeOK
  <2> QED BY <1>0, <2>1, <2>2, <2>3 DEF Core, SnapInv
<1> QED BY <1>3, <1>4, <1>5, <1>6, <1>7 DEF Core

LEMMA CoreApply ==
  ASSUME Core, NEW r \in Req, Apply(r)
  PROVE  Core'
<1>0. /\ pc[r] = "apply"
      /\ live' = live \ snap[r]
      /\ closed' = closed \cup {session[t] : t \in snap[r]}
      /\ snap' = [snap EXCEPT ![r] = {}]
      /\ lock' = [lock EXCEPT ![subj[r]] = NoReq]
      /\ pc' = [pc EXCEPT ![r] = IF kind[r] \in CredentialChange THEN "mint" ELSE "done"]
      /\ floor' = IF kind[r] \in CredentialChange /\ floor[subj[r]] < ver[r]
                    THEN [floor EXCEPT ![subj[r]] = ver[r]] ELSE floor
      /\ UNCHANGED <<issued, session, owner, disabled, spent, credential, leaked, accountVars,
                     kind, subj, tok, scope, ver, was, upto>>
  BY DEF Apply, Unlock
<1> USE DEF accountVars
<1>1. /\ subj[r] \in User /\ lock[subj[r]] = r /\ live \subseteq 1..issued
      /\ snap[r] \subseteq live /\ \A t \in snap[r] : owner[t] = subj[r]
  BY <1>0 DEF Core, TypeOK, RequestsInv, LockInv, SnapInv, Holding
<1>2. closed' \subseteq 1..issued
  <2>1. \A t \in 1..issued : session[t] \in 1..issued
    BY SMT DEF Core, TypeOK, TokensInv
  <2>2. closed \subseteq 1..issued /\ issued' = issued
    BY <1>0 DEF Core, TypeOK
  <2>3. {session[t] : t \in snap[r]} \subseteq 1..issued
    BY <1>1, <2>1
  <2> QED BY <1>0, <2>2, <2>3
<1>3. TypeOK'
  <2>1. /\ snap' \in [Req -> SUBSET Token] /\ floor' \in [User -> Nat]
        /\ lock' \in [User -> Req \cup {NoReq}]
    BY <1>0, <1>1 DEF Core, TypeOK
  <2>2. pc' \in [Req -> PC]
    BY <1>0 DEF Core, TypeOK, PC, Ended
  <2> QED BY <1>0, <1>1, <1>2, <2>1, <2>2 DEF Core, TypeOK
<1>4. TokensInv'
  BY <1>0, <1>2 DEF Core, TokensInv
<1>5. RequestsInv'
  BY <1>0 DEF Core, RequestsInv, TypeOK
<1>6. LockInv'
  BY <1>0, <1>1 DEF Core, LockInv, TypeOK, Holding
<1>7. SnapInv'
  <2> SUFFICES ASSUME NEW q \in Req, pc'[q] = "apply"
               PROVE  snap'[q] \subseteq live' /\ \A t \in snap'[q] : owner[t] = subj[q]
    BY <1>0 DEF SnapInv
  <2>1. q # r /\ pc[q] = "apply" /\ snap'[q] = snap[q]
    BY <1>0 DEF Core, TypeOK
  <2>2. subj[q] # subj[r]
    BY <1>1, <2>1 DEF Core, LockInv, Holding
  <2> QED BY <1>0, <1>1, <2>1, <2>2 DEF Core, SnapInv
<1> QED BY <1>3, <1>4, <1>5, <1>6, <1>7 DEF Core

LEMMA CoreCrash ==
  ASSUME Core, NEW r \in Req, Crash(r)
  PROVE  Core'
<1>0. /\ pc[r] # "new"
      /\ pc' = [pc EXCEPT ![r] = "crashed"]
      /\ lock' = IF pc[r] \in Holding THEN [lock EXCEPT ![subj[r]] = NoReq] ELSE lock
      /\ UNCHANGED <<storeVars, accountVars, reqVars, floor>>
  BY DEF Crash, Unlock
<1> USE DEF storeVars, accountVars, reqVars
<1>1. subj[r] \in User
  BY <1>0 DEF Core, RequestsInv
<1>2. TypeOK'
  <2>1. pc' \in [Req -> PC] /\ lock' \in [User -> Req \cup {NoReq}]
    BY <1>0, <1>1 DEF Core, TypeOK, PC, Ended
  <2> QED BY <1>0, <2>1 DEF Core, TypeOK
<1>3. TokensInv' /\ RequestsInv'
  BY <1>0 DEF Core, TokensInv, RequestsInv, TypeOK
<1>4. LockInv' /\ SnapInv'
  BY <1>0, <1>1 DEF Core, LockInv, SnapInv, TypeOK, Holding
<1> QED BY <1>2, <1>3, <1>4 DEF Core

LEMMA CoreAccount ==
  ASSUME Core, UNCHANGED <<storeVars, verified, password, changes, undone, lock, pc, reqVars,
                           floor>>,
         standing' \in [User -> Standing],
         expired' \subseteq 1..issued
  PROVE  Core'
<1> USE DEF storeVars, reqVars
<1>1. TypeOK'
  BY DEF Core, TypeOK
<1>2. TokensInv' /\ RequestsInv' /\ LockInv' /\ SnapInv'
  BY DEF Core, TokensInv, RequestsInv, LockInv, SnapInv
<1> QED BY <1>1, <1>2 DEF Core

LEMMA CoreOfInvariant == IInv => Core
BY DEF IInv, Core, DeleteInv, SnapInv

\* No step of a request, and nothing that happens to an account, disturbs it.
LEMMA CoreNext == Core /\ [Next]_vars => Core'
<1> SUFFICES ASSUME Core, [Next]_vars PROVE Core'
  OBVIOUS
<1> USE DEF accountVars
<1>t. /\ standing \in [User -> Standing]
      /\ issued \in 0..MaxToken
      /\ expired \subseteq 1..issued
      /\ \A t \in 1..issued : t \in 0..issued /\ owner[t] \in User
  BY DEF Core, TypeOK, TokensInv
<1>1. ASSUME NEW r \in Req, NEW u \in User, Login(r, u) PROVE Core'
  BY <1>1, <1>t, CoreArrive DEF Login, Kind, PC, CredentialChange
<1>2. ASSUME NEW r \in Req, NEW u \in User, Signup(r, u) PROVE Core'
  <2>1. standing' \in [User -> Standing]
    BY <1>2, <1>t DEF Signup, Standing
  <2> QED BY <1>2, <1>t, <2>1, CoreArrive DEF Signup, Kind, PC, CredentialChange
<1>3. ASSUME NEW r \in Req, NEW u \in User, LogoutAll(r, u) PROVE Core'
  BY <1>3, <1>t, CoreArrive DEF LogoutAll, Kind, PC, CredentialChange
<1>4. ASSUME NEW r \in Req, NEW u \in User, Change(r, u) PROVE Core'
  BY <1>4, <1>t, CoreArrive DEF Change, Kind, PC, CredentialChange
<1>5. ASSUME NEW r \in Req, NEW u \in User, Reset(r, u) PROVE Core'
  BY <1>5, <1>t, CoreArrive DEF Reset, Kind, PC, CredentialChange
<1>6. ASSUME NEW r \in Req, NEW u \in User, LoadProfile(r, u) PROVE Core'
  BY <1>6, <1>t, CoreArrive DEF LoadProfile, Kind, PC, CredentialChange
<1>7. ASSUME NEW r \in Req, NEW t \in Token, Refresh(r, t) PROVE Core'
  <2>1. t \in 1..issued /\ t \in 0..issued /\ owner[t] \in User
    BY <1>7, <1>t, SMT DEF Refresh, Token
  <2> QED BY <1>7, <1>t, <2>1, CoreArrive DEF Refresh, Kind, PC, CredentialChange
<1>8. ASSUME NEW r \in Req, NEW t \in Token, Logout(r, t) PROVE Core'
  <2>1. t \in 1..issued /\ t \in 0..issued /\ owner[t] \in User
    BY <1>8, <1>t, SMT DEF Logout, Token
  <2> QED BY <1>8, <1>t, <2>1, CoreArrive DEF Logout, Kind, PC, CredentialChange
<1>9. ASSUME NEW r \in Req, Serve(r) PROVE Core'
  BY <1>9, CoreSave, CoreMint, CoreLock, CoreRotate, CoreDelete, CoreApply DEF Serve
<1>10. ASSUME NEW r \in Req, Crash(r) PROVE Core'
  BY <1>10, CoreCrash
<1>11. ASSUME NEW u \in User, Deactivate(u) PROVE Core'
  <2>1. standing' \in [User -> Standing]
    BY <1>11, <1>t DEF Deactivate, Standing
  <2> QED BY <1>11, <1>t, <2>1, CoreAccount DEF Deactivate
<1>12. ASSUME NEW s \in Token, Expire(s) PROVE Core'
  <2>1. s \in 1..issued
    <3>1. PICK t \in 1..issued : s = session[t]
      BY <1>12 DEF Expire
    <3> QED BY <3>1, SMT DEF Core, TypeOK, TokensInv
  <2> QED BY <1>12, <1>t, <2>1, CoreAccount DEF Expire
<1>13. CASE UNCHANGED vars
  BY <1>13, <1>t, CoreAccount DEF vars
<1> QED BY <1>1, <1>2, <1>3, <1>4, <1>5, <1>6, <1>7, <1>8, <1>9, <1>10, <1>11, <1>12,
          <1>13
       DEF Next, Others

-----------------------------------------------------------------------------
(* What depends on them: the whole invariant.                              *)

\* A step of request r leaves AccountsCleared to r, if a token that joins an account is of a
\* session that no other request has to remove.
LEMMA OthersCleared ==
  ASSUME IInv, NEW r \in Req, AccountCleared(r)',
         \A q \in Req \ {r} :
            /\ pc'[q] = pc[q] /\ scope'[q] = scope[q] /\ snap'[q] = snap[q]
            /\ subj'[q] = subj[q] /\ upto'[q] = upto[q],
         \A t \in live' :
            \/ t \in live /\ owner'[t] = owner[t] /\ session'[t] = session[t]
            \/ session'[t] \in Nat /\ session'[t] > issued
            \/ \E x \in live :
                 /\ owner'[t] = owner[x] /\ session'[t] = session[x]
                 /\ \A q \in Req : pc[q] = "apply" => x \notin snap[q]
  PROVE  AccountsCleared'
<1> SUFFICES ASSUME NEW q \in Req \ {r} PROVE AccountCleared(q)'
  BY DEF AccountsCleared
<1>1. AccountCleared(q) /\ upto[q] \in 0..issued /\ issued \in Nat
  BY DEF IInv, TypeOK, AccountsCleared
<1>2. upto'[q] # 0 => pc'[q] \in {"apply", "mint"} \cup Ended
  BY <1>1 DEF AccountCleared
<1> SUFFICES ASSUME pc'[q] # "crashed", scope'[q] = "user", NEW t \in live',
                    owner'[t] = subj'[q]
             PROVE  session'[t] > upto'[q] \/ (pc'[q] = "apply" /\ t \in snap'[q])
  BY <1>2 DEF AccountCleared
<1>3. CASE t \in live /\ owner'[t] = owner[t] /\ session'[t] = session[t]
  BY <1>1, <1>3 DEF AccountCleared
<1>4. CASE session'[t] \in Nat /\ session'[t] > issued
  BY <1>1, <1>4
<1>5. CASE \E x \in live : /\ owner'[t] = owner[x] /\ session'[t] = session[x]
                            /\ \A p \in Req : pc[p] = "apply" => x \notin snap[p]
  BY <1>1, <1>5 DEF AccountCleared
<1> QED BY <1>3, <1>4, <1>5

\* A request that arrives disturbs nothing: it only has to be about a token and an
\* account that exist.
LEMMA ArriveStep ==
  ASSUME IInv, NEW r \in Req, NEW k \in Kind, NEW u \in User, NEW t \in 0..issued,
         NEW sc \in {"none", "session", "user"}, NEW next \in PC,
         Arrive(r, k, u, t, sc, next),
         k \in CredentialChange => sc = "user",
         next \in {"mint", "save", "patch", "claim", "await"},
         next = "save" => k \in CredentialChange,
         next = "claim" => k = "refresh" /\ sc = "none",
         next = "await" => sc # "none",
         next # "await" => sc # "session",
         (next = "claim" \/ sc = "session") => t \in 1..issued /\ owner[t] = u,
         standing' \in [User -> Standing],
         UNCHANGED <<verified, password, changes, expired, undone>>
  PROVE  IInv'
<1>c. Core'
  BY CoreArrive, CoreOfInvariant
<1> USE DEF Arrive, storeVars
<1>4. DeleteInv'
  BY SMT DEF IInv, DeleteInv, TypeOK, Holding, PC
<1>5. OneTokenPerSession' /\ SpentStaysDead' /\ ClosedStaysClosed'
  BY DEF IInv, OneTokenPerSession, SpentStaysDead, ClosedStaysClosed,
         Store!OneTokenPerSession, Store!SpentStaysDead, Store!ClosedStaysClosed
<1>6. SessionsCleared'
  BY SMT DEF IInv, SessionsCleared, TypeOK
<1>7. AccountsCleared'
  <2>1. upto[r] = 0
    BY DEF IInv, AccountsCleared, AccountCleared, Ended
  <2>2. \A t0 \in live : t0 \in 1..issued /\ session[t0] > 0
    BY SMT DEF IInv, TypeOK, TokensInv
  <2>3. AccountCleared(r)'
    BY <2>1, <2>2, SMT DEF AccountCleared
  <2> QED BY <2>3, OthersCleared DEF IInv, TypeOK
<1> QED BY <1>c, <1>4, <1>5, <1>6, <1>7 DEF IInv, Core

-----------------------------------------------------------------------------
\* The steps of a request, one lemma each.

\* The password is written: no whitelist row is touched.
LEMMA SavePasswordStep ==
  ASSUME IInv, NEW r \in Req, SavePassword(r)
  PROVE  IInv'
<1>c. Core'
  BY CoreSave, CoreOfInvariant
<1> USE DEF SavePassword, storeVars
<1>3. DeleteInv'
  BY SMT DEF IInv, DeleteInv, TypeOK, Holding
<1>4. OneTokenPerSession' /\ SpentStaysDead' /\ ClosedStaysClosed'
  BY DEF IInv, OneTokenPerSession, SpentStaysDead, ClosedStaysClosed,
         Store!OneTokenPerSession, Store!SpentStaysDead, Store!ClosedStaysClosed
<1>5. SessionsCleared'
  BY SMT DEF IInv, SessionsCleared, TypeOK, RequestsInv
<1>6. AccountsCleared'
  <2>1. AccountCleared(r)'
    BY SMT DEF IInv, TypeOK, TokensInv, AccountsCleared, AccountCleared, Ended
  <2> QED BY <2>1, OthersCleared DEF IInv, TypeOK
<1> QED BY <1>c, <1>3, <1>4, <1>5, <1>6 DEF IInv, Core

\* A profile is written back: the account goes back to what it was, and no row is touched.
LEMMA SaveProfileStep ==
  ASSUME IInv, NEW r \in Req, SaveProfile(r)
  PROVE  IInv'
<1>c. Core'
  BY CoreSave, CoreOfInvariant
<1> USE DEF SaveProfile, storeVars, reqVars
<1>3. DeleteInv'
  BY SMT DEF IInv, DeleteInv, TypeOK, Holding
<1>4. OneTokenPerSession' /\ SpentStaysDead' /\ ClosedStaysClosed'
  BY DEF IInv, OneTokenPerSession, SpentStaysDead, ClosedStaysClosed,
         Store!OneTokenPerSession, Store!SpentStaysDead, Store!ClosedStaysClosed
<1>5. SessionsCleared'
  BY SMT DEF IInv, SessionsCleared, TypeOK, RequestsInv
<1>6. AccountsCleared'
  <2>1. AccountCleared(r)'
    BY SMT DEF IInv, TypeOK, TokensInv, AccountsCleared, AccountCleared, Ended
  <2> QED BY <2>1, OthersCleared DEF IInv, TypeOK
<1> QED BY <1>c, <1>3, <1>4, <1>5, <1>6 DEF IInv, Core

\* A new session: its token is fresh, so it belongs to no session seen before.
LEMMA MintStep ==
  ASSUME IInv, NEW r \in Req, Mint(r)
  PROVE  IInv'
<1>c. Core'
  BY CoreMint, CoreOfInvariant
<1> PICK n \in Token : /\ Insert(n, n, subj[r], ver[r])
                       /\ live' = live \cup {n}
                       /\ disabled' = IF kind[r] = "signup" /\ Mandatory
                                        THEN disabled \cup {n} ELSE disabled
                       /\ leaked' \subseteq leaked \cup {n}
  BY DEF Mint
<1>0. /\ pc[r] = "mint"
      /\ pc' = [pc EXCEPT ![r] = "done"]
      /\ UNCHANGED <<spent, closed, accountVars, lock, reqVars, floor>>
  BY DEF Mint
<1> USE <1>0 DEF accountVars, reqVars
<1>1. subj[r] \in User /\ ver[r] \in Nat
  BY SMT DEF IInv, TypeOK, RequestsInv
<1>2. /\ issued \in Nat /\ n = issued + 1 /\ issued' = n /\ n \in Nat
      /\ n \notin 1..issued /\ 1..issued' = (1..issued) \cup {n}
      /\ issued' \in 0..MaxToken
      /\ session' \in [Token -> 0..MaxToken]
      /\ owner' \in [Token -> User \cup {NoUser}]
      /\ credential' \in [Token -> Nat]
      /\ session'[n] = n /\ owner'[n] = subj[r]
      /\ \A t \in 1..issued : session'[t] = session[t] /\ owner'[t] = owner[t]
      /\ \A t \in 1..issued : session[t] \in 1..issued /\ session[t] # n
  BY <1>1, InsertFacts DEF IInv
<1>7. DeleteInv'
  <2> SUFFICES ASSUME NEW q \in Req, pc'[q] = "apply"
               PROVE  /\ snap[q] \subseteq live'
                      /\ \A t \in snap[q] : owner'[t] = subj[q]
                      /\ scope[q] = "session" =>
                           \A t \in live' : session'[t] = session'[tok[q]] => t \in snap[q]
    BY DEF DeleteInv
  <2>1. /\ pc[q] = "apply" /\ snap[q] \subseteq live /\ live \subseteq 1..issued
        /\ \A t \in snap[q] : owner[t] = subj[q]
        /\ scope[q] = "session" =>
              /\ tok[q] \in 1..issued
              /\ \A t \in live : session[t] = session[tok[q]] => t \in snap[q]
    BY SMT DEF IInv, TypeOK, DeleteInv, RequestsInv
  <2> QED BY <1>2, <2>1
<1>8. OneTokenPerSession' /\ SpentStaysDead' /\ ClosedStaysClosed'
  BY <1>2 DEF IInv, TypeOK, OneTokenPerSession, SpentStaysDead,
     ClosedStaysClosed, Store!OneTokenPerSession, Store!SpentStaysDead,
     Store!ClosedStaysClosed
<1>9. SessionsCleared'
  <2> SUFFICES ASSUME NEW q \in Req, pc'[q] = "done", scope[q] = "session", NEW t \in live'
               PROVE  session'[t] # session'[tok[q]]
    BY DEF SessionsCleared
  <2>1. pc[q] = "done" /\ tok[q] \in 1..issued /\ live \subseteq 1..issued
    BY SMT DEF IInv, TypeOK, RequestsInv
  <2>2. \A x \in live : session[x] # session[tok[q]]
    BY <2>1 DEF IInv, SessionsCleared
  <2> QED BY <1>2, <2>1, <2>2
<1>10. AccountsCleared'
  <2>1. \A t \in live' : \/ t \in live /\ owner'[t] = owner[t] /\ session'[t] = session[t]
                         \/ t = n /\ session'[t] \in Nat /\ session'[t] > issued
    BY <1>2, SMT DEF IInv, TypeOK
  <2>2. upto[r] \in 0..issued /\ AccountCleared(r)
    BY DEF IInv, TypeOK, AccountsCleared
  <2>3. AccountCleared(r)'
    BY <1>2, <2>1, <2>2, SMT DEF AccountCleared, Ended, IInv, TypeOK
  <2> QED BY <2>1, <2>3, OthersCleared DEF IInv, TypeOK
<1> QED BY <1>c, <1>7, <1>8, <1>9, <1>10 DEF IInv, Core

\* The row lock changes hands only when it is free.
LEMMA LockStep ==
  ASSUME IInv, NEW r \in Req, Lock(r)
  PROVE  IInv'
<1>c. Core'
  BY CoreLock, CoreOfInvariant
<1> USE DEF Lock, storeVars, accountVars, reqVars
<1>3. DeleteInv'
  BY SMT DEF IInv, DeleteInv, RequestsInv, TypeOK, Holding
<1>4. OneTokenPerSession' /\ SpentStaysDead' /\ ClosedStaysClosed'
  BY DEF IInv, OneTokenPerSession, SpentStaysDead, ClosedStaysClosed,
         Store!OneTokenPerSession, Store!SpentStaysDead, Store!ClosedStaysClosed
<1>5. SessionsCleared'
  BY SMT DEF IInv, SessionsCleared, TypeOK
<1>6. AccountsCleared'
  <2>1. AccountCleared(r)'
    BY SMT DEF IInv, TypeOK, AccountsCleared, AccountCleared, Ended
  <2> QED BY <2>1, OthersCleared DEF IInv, TypeOK
<1> QED BY <1>c, <1>3, <1>4, <1>5, <1>6 DEF IInv, Core

\* A rotation.  The successor joins the session of the token it replaces, and no DELETE
\* about that session is running: its request would hold the same row lock.
LEMMA RotateStep ==
  ASSUME IInv, NEW r \in Req, Rotate(r)
  PROVE  IInv'
<1>c. Core'
  BY CoreRotate, CoreOfInvariant
<1> DEFINE t == tok[r]
<1> USE DEF accountVars
<1>0. /\ pc[r] = "rotate"
      /\ lock' = [lock EXCEPT ![subj[r]] = NoReq]
      /\ UNCHANGED <<disabled, closed, leaked, accountVars, kind, subj, tok, snap, ver, was, floor,
                     upto>>
  BY DEF Rotate, Unlock
<1>1. /\ t \in 1..issued /\ owner[t] = subj[r] /\ subj[r] \in User
      /\ lock[subj[r]] = r /\ issued \in Nat /\ kind[r] = "refresh"
      /\ scope[r] # "session"
  BY <1>0, SMT DEF IInv, RequestsInv, LockInv, Holding, TypeOK
<1>2. \A q \in Req : pc[q] = "apply" => subj[q] # subj[r]
  BY <1>0, <1>1, SMT DEF IInv, LockInv, Holding
<1>4. CASE Verdict(t, subj[r]) = "accepted"
  <2>1. PICK n \in Token : /\ Insert(n, session[t], subj[r], credential[t])
                           /\ live' = (live \ {t}) \cup {n}
                           /\ spent' = spent \cup {t}
                           /\ pc' = [pc EXCEPT ![r] = "done"]
                           /\ scope' = scope
    BY <1>4 DEF Rotate
  <2>2. t \in live
    BY <1>4 DEF Verdict
  <2> DEFINE s == session[t]
  <2>3. s \in 1..issued /\ session[s] = s /\ owner[s] = subj[r] /\ credential[t] \in Nat
    BY <1>1, SMT DEF IInv, TypeOK, TokensInv, Token
  <2>4. /\ issued \in Nat /\ n = issued + 1 /\ issued' = n /\ n \in Nat
        /\ n \notin 1..issued /\ 1..issued' = (1..issued) \cup {n}
        /\ issued' \in 0..MaxToken
        /\ session' \in [Token -> 0..MaxToken]
        /\ owner' \in [Token -> User \cup {NoUser}]
        /\ credential' \in [Token -> Nat]
        /\ session'[n] = s /\ owner'[n] = subj[r]
        /\ \A x \in 1..issued : session'[x] = session[x] /\ owner'[x] = owner[x]
        /\ \A x \in 1..issued : session[x] \in 1..issued /\ session[x] # n
    BY <1>1, <2>1, <2>3, InsertFacts DEF IInv
  <2>8. DeleteInv'
    <3> SUFFICES ASSUME NEW q \in Req, pc'[q] = "apply"
                 PROVE  /\ snap[q] \subseteq live'
                        /\ \A x \in snap[q] : owner'[x] = subj[q]
                        /\ scope[q] = "session" =>
                             \A x \in live' :
                               session'[x] = session'[tok[q]] => x \in snap[q]
      BY <1>0, <2>1 DEF DeleteInv
    <3>1. /\ pc[q] = "apply" /\ snap[q] \subseteq live /\ live \subseteq 1..issued
          /\ \A x \in snap[q] : owner[x] = subj[q]
          /\ scope[q] = "session" =>
                /\ tok[q] \in 1..issued /\ owner[tok[q]] = subj[q]
                /\ \A x \in live : session[x] = session[tok[q]] => x \in snap[q]
      BY <2>1, SMT DEF IInv, TypeOK, DeleteInv, RequestsInv
    <3>2. subj[q] # subj[r] /\ t \notin snap[q]
      BY <1>1, <1>2, <3>1
    <3>3. scope[q] = "session" => session[tok[q]] # s
      BY <2>3, <3>1, <3>2 DEF IInv, TokensInv
    <3> QED BY <2>1, <2>4, <3>1, <3>2, <3>3
  <2>9. OneTokenPerSession' /\ SpentStaysDead' /\ ClosedStaysClosed'
    <3>1. live \subseteq 1..issued /\ spent \subseteq 1..issued
      BY DEF IInv, TypeOK
    <3>2. OneTokenPerSession'
      <4>1. \A x, y \in live : session[x] = session[y] => x = y
        BY DEF IInv, OneTokenPerSession, Store!OneTokenPerSession
      <4>2. \A x \in live \ {t} : session'[x] = session[x] /\ session[x] # s
        BY <2>2, <2>4, <3>1, <4>1
      <4>3. \A x \in live' : x = n \/ x \in live \ {t}
        BY <2>1
      <4> QED BY <2>4, <4>1, <4>2, <4>3 DEF OneTokenPerSession, Store!OneTokenPerSession
    <3>3. SpentStaysDead'
      BY <1>1, <2>1, <2>4, <3>1 DEF IInv, SpentStaysDead, Store!SpentStaysDead
    <3>4. ClosedStaysClosed'
      <4>1. s \notin closed /\ \A x \in live : session[x] \notin closed
        BY <2>2 DEF IInv, ClosedStaysClosed, Store!ClosedStaysClosed
      <4> QED BY <1>0, <2>1, <2>4, <3>1, <4>1 DEF ClosedStaysClosed, Store!ClosedStaysClosed
    <3> QED BY <3>2, <3>3, <3>4
  <2>10. SessionsCleared'
    <3> SUFFICES ASSUME NEW q \in Req, pc'[q] = "done", scope[q] = "session",
                        NEW x \in live'
                 PROVE  session'[x] # session'[tok[q]]
      BY <1>0, <2>1 DEF SessionsCleared
    <3>1. pc[q] = "done" /\ tok[q] \in 1..issued /\ live \subseteq 1..issued
      BY <1>1, <2>1, SMT DEF IInv, TypeOK, RequestsInv
    <3>2. \A y \in live : session[y] # session[tok[q]]
      BY <2>1, <3>1 DEF IInv, SessionsCleared
    <3> QED BY <2>1, <2>2, <2>4, <3>1, <3>2
  <2>11. AccountsCleared'
    <3>1. upto[r] = 0 /\ upto'[r] = 0
      BY <1>0 DEF IInv, AccountsCleared, AccountCleared, Ended
    <3>2. \A x \in live' : x \in 1..issued' /\ session'[x] > 0
      BY <1>c, SMT DEF Core, TypeOK, TokensInv
    <3>3. AccountCleared(r)'
      BY <3>1, <3>2 DEF AccountCleared
    <3>4. \A x \in live' : \/ x \in live /\ owner'[x] = owner[x] /\ session'[x] = session[x]
                           \/ x = n
      BY <2>1, <2>4 DEF IInv, TypeOK
    <3>5. \A q \in Req : pc[q] = "apply" => t \notin snap[q]
      BY <1>1, <1>2 DEF IInv, DeleteInv
    <3>6. owner'[n] = owner[t] /\ session'[n] = session[t] /\ t \in live
      BY <1>1, <2>2, <2>4
    <3>7. \A q \in Req \ {r} :
            /\ pc'[q] = pc[q] /\ scope'[q] = scope[q] /\ snap'[q] = snap[q]
            /\ subj'[q] = subj[q] /\ upto'[q] = upto[q]
      BY <1>0, <2>1 DEF IInv, TypeOK
    <3> QED BY <3>3, <3>4, <3>5, <3>6, <3>7, OthersCleared
  <2> QED BY <1>c, <2>8, <2>9, <2>10, <2>11 DEF IInv, Core
<1>5. CASE Verdict(t, subj[r]) # "accepted"
  <2>1. /\ UNCHANGED <<issued, session, owner, credential, live, spent>>
        /\ \/ scope' = scope /\ pc' = [pc EXCEPT ![r] = "done"]
           \/ /\ pc' = [pc EXCEPT ![r] = "await"]
              /\ \E s \in {"session", "user"} : scope' = [scope EXCEPT ![r] = s]
    BY <1>5 DEF Rotate
  <2>4. DeleteInv'
    BY <1>0, <2>1, SMT DEF IInv, TypeOK, DeleteInv
  <2>5. OneTokenPerSession' /\ SpentStaysDead' /\ ClosedStaysClosed'
    BY <1>0, <2>1 DEF IInv, OneTokenPerSession, SpentStaysDead, ClosedStaysClosed,
       Store!OneTokenPerSession, Store!SpentStaysDead, Store!ClosedStaysClosed
  <2>6. SessionsCleared'
    BY <1>0, <1>1, <2>1, SMT DEF IInv, TypeOK, SessionsCleared
  <2>7. AccountsCleared'
    <3>1. upto[r] = 0 /\ upto'[r] = 0
      BY <1>0 DEF IInv, AccountsCleared, AccountCleared, Ended
    <3>2. \A x \in live' : x \in 1..issued' /\ session'[x] > 0
      BY <1>c, SMT DEF Core, TypeOK, TokensInv
    <3>3. AccountCleared(r)'
      BY <3>1, <3>2 DEF AccountCleared
    <3>4. \A q \in Req \ {r} :
            /\ pc'[q] = pc[q] /\ scope'[q] = scope[q] /\ snap'[q] = snap[q]
            /\ subj'[q] = subj[q] /\ upto'[q] = upto[q]
      BY <1>0, <2>1 DEF IInv, TypeOK
    <3> QED BY <2>1, <3>3, <3>4, OthersCleared
  <2> QED BY <1>c, <2>4, <2>5, <2>6, <2>7 DEF IInv, Core
<1> QED BY <1>4, <1>5

\* The DELETE begins: what it saw is all there is to remove.
LEMMA DeleteStep ==
  ASSUME IInv, NEW r \in Req, Delete(r)
  PROVE  IInv'
<1>c. Core'
  BY CoreDelete, CoreOfInvariant
<1>0. /\ pc[r] = "delete"
      /\ snap' = [snap EXCEPT ![r] = live \cap Targets(r)]
      /\ upto' = IF scope[r] = "user" THEN [upto EXCEPT ![r] = issued] ELSE upto
      /\ UNCHANGED <<storeVars, accountVars, kind, subj, tok, scope, ver, was, floor>>
  BY DEF Delete
<1> USE DEF storeVars, accountVars
<1>1. \/ /\ kind[r] = "logout" /\ live \cap Targets(r) = {}
         /\ lock' = [lock EXCEPT ![subj[r]] = NoReq]
         /\ pc' = [pc EXCEPT ![r] = "done"]
      \/ lock' = lock /\ pc' = [pc EXCEPT ![r] = "apply"]
  BY DEF Delete, Unlock
<1>2. subj[r] \in User /\ lock[subj[r]] = r
  BY <1>0 DEF IInv, TypeOK, RequestsInv, LockInv, Holding
<1>7. DeleteInv'
  <2>1. ASSUME scope[r] = "session"
        PROVE  \A t \in live : session[t] = session[tok[r]] => t \in live \cap Targets(r)
    BY <2>1 DEF IInv, TypeOK, Targets
  <2>2. ASSUME NEW t \in live \cap Targets(r)
        PROVE  owner[t] = subj[r]
    <3>1. CASE scope[r] = "session"
      <4>1. session[t] = session[tok[r]] /\ tok[r] \in 1..issued /\ t \in 1..issued
            /\ owner[tok[r]] = subj[r]
        BY <3>1 DEF Targets, IInv, RequestsInv
      <4> QED BY <4>1 DEF IInv, TokensInv
    <3>2. CASE scope[r] # "session"
      BY <3>2 DEF Targets
    <3> QED BY <3>1, <3>2
  <2>3. snap'[r] = live \cap Targets(r)
    BY <1>0 DEF IInv, TypeOK
  <2>4. \A q \in Req \ {r} : snap'[q] = snap[q] /\ pc'[q] = pc[q]
    BY <1>0, <1>1 DEF IInv, TypeOK
  <2> QED BY <1>0, <2>1, <2>2, <2>3, <2>4 DEF IInv, DeleteInv
<1>8. OneTokenPerSession' /\ SpentStaysDead' /\ ClosedStaysClosed'
  BY <1>0 DEF IInv, OneTokenPerSession, SpentStaysDead, ClosedStaysClosed,
         Store!OneTokenPerSession, Store!SpentStaysDead, Store!ClosedStaysClosed
<1>9. SessionsCleared'
  <2>1. ASSUME live \cap Targets(r) = {}, scope[r] = "session"
        PROVE  \A t \in live : session[t] # session[tok[r]]
    BY <2>1 DEF IInv, TypeOK, Targets
  <2>2. \A q \in Req \ {r} : pc'[q] = pc[q]
    BY <1>1 DEF IInv, TypeOK
  <2>3. pc'[r] = "done" => live \cap Targets(r) = {}
    BY <1>1 DEF IInv, TypeOK
  <2> QED BY <1>0, <2>1, <2>2, <2>3 DEF IInv, SessionsCleared
<1>10. AccountsCleared'
  <2>1. snap'[r] = live \cap Targets(r) /\ pc'[r] \in {"done", "apply"}
        /\ (pc'[r] = "done" => live \cap Targets(r) = {})
    BY <1>0, <1>1 DEF IInv, TypeOK
  <2>2. scope[r] = "user" =>
          \A t \in live : owner[t] = subj[r] => t \in live \cap Targets(r)
    BY DEF IInv, TypeOK, Targets
  <2>3. AccountCleared(r)'
    BY <1>0, <2>1, <2>2 DEF AccountCleared, Ended
  <2>4. \A q \in Req \ {r} :
          /\ pc'[q] = pc[q] /\ scope'[q] = scope[q] /\ snap'[q] = snap[q]
          /\ subj'[q] = subj[q] /\ upto'[q] = upto[q]
    BY <1>0, <1>1 DEF IInv, TypeOK
  <2> QED BY <1>0, <2>3, <2>4, OthersCleared
<1> QED BY <1>c, <1>7, <1>8, <1>9, <1>10 DEF IInv, Core

\* The DELETE ends.  Every row it saw is still there, so it leaves no live token in the
\* sessions it was about.
LEMMA ApplyStep ==
  ASSUME IInv, NEW r \in Req, Apply(r)
  PROVE  IInv'
<1>c. Core'
  BY CoreApply, CoreOfInvariant
<1>0. /\ pc[r] = "apply"
      /\ live' = live \ snap[r]
      /\ closed' = closed \cup {session[t] : t \in snap[r]}
      /\ snap' = [snap EXCEPT ![r] = {}]
      /\ lock' = [lock EXCEPT ![subj[r]] = NoReq]
      /\ pc' = [pc EXCEPT ![r] = IF kind[r] \in CredentialChange THEN "mint" ELSE "done"]
      /\ floor' = IF kind[r] \in CredentialChange /\ floor[subj[r]] < ver[r]
                    THEN [floor EXCEPT ![subj[r]] = ver[r]] ELSE floor
      /\ UNCHANGED <<issued, session, owner, disabled, spent, credential, leaked, accountVars,
                     kind, subj, tok, scope, ver, was, upto>>
  BY DEF Apply, Unlock
<1> USE DEF accountVars
<1>1. /\ subj[r] \in User /\ lock[subj[r]] = r /\ live \subseteq 1..issued
      /\ snap[r] \subseteq live /\ \A t \in snap[r] : owner[t] = subj[r]
      /\ scope[r] = "session" => \A t \in live : session[t] = session[tok[r]] => t \in snap[r]
  BY <1>0 DEF IInv, TypeOK, RequestsInv, LockInv, DeleteInv, Holding
<1>2. closed' \subseteq 1..issued
  <2>1. \A t \in 1..issued : session[t] \in 1..issued
    BY SMT DEF IInv, TypeOK, TokensInv
  <2>2. closed \subseteq 1..issued /\ issued' = issued
    BY <1>0 DEF IInv, TypeOK
  <2>3. {session[t] : t \in snap[r]} \subseteq 1..issued
    BY <1>1, <2>1
  <2> QED BY <1>0, <2>2, <2>3
<1>7. DeleteInv'
  <2> SUFFICES ASSUME NEW q \in Req, pc'[q] = "apply"
               PROVE  /\ snap'[q] \subseteq live'
                      /\ \A t \in snap'[q] : owner[t] = subj[q]
                      /\ scope[q] = "session" =>
                           \A t \in live' : session[t] = session[tok[q]] => t \in snap'[q]
    BY <1>0 DEF DeleteInv
  <2>1. q # r /\ pc[q] = "apply" /\ snap'[q] = snap[q]
    BY <1>0 DEF IInv, TypeOK
  <2>2. subj[q] # subj[r]
    BY <1>1, <2>1 DEF IInv, LockInv, Holding
  <2> QED BY <1>0, <1>1, <2>1, <2>2 DEF IInv, DeleteInv
<1>8. OneTokenPerSession' /\ SpentStaysDead'
  BY <1>0 DEF IInv, OneTokenPerSession, SpentStaysDead,
         Store!OneTokenPerSession, Store!SpentStaysDead
<1>9. ClosedStaysClosed'
  BY <1>0, <1>1 DEF IInv, OneTokenPerSession, ClosedStaysClosed,
         Store!OneTokenPerSession, Store!ClosedStaysClosed
<1>10. SessionsCleared'
  <2>1. \A q \in Req \ {r} : pc'[q] = pc[q]
    BY <1>0 DEF IInv, TypeOK
  <2> QED BY <1>0, <1>1, <2>1 DEF IInv, SessionsCleared
<1>11. AccountsCleared'
  <2>1. AccountCleared(r) /\ pc'[r] \in {"mint", "done"}
    BY <1>0 DEF IInv, TypeOK, AccountsCleared
  <2>2. AccountCleared(r)'
    BY <1>0, <2>1 DEF AccountCleared, Ended
  <2>3. \A q \in Req \ {r} :
          /\ pc'[q] = pc[q] /\ scope'[q] = scope[q] /\ snap'[q] = snap[q]
          /\ subj'[q] = subj[q] /\ upto'[q] = upto[q]
    BY <1>0 DEF IInv, TypeOK
  <2> QED BY <1>0, <2>2, <2>3, OthersCleared
<1> QED BY <1>c, <1>7, <1>8, <1>9, <1>10, <1>11 DEF IInv, Core

\* A crash gives back the lock and changes no row.
LEMMA CrashStep ==
  ASSUME IInv, NEW r \in Req, Crash(r)
  PROVE  IInv'
<1>c. Core'
  BY CoreCrash, CoreOfInvariant
<1>0. /\ pc[r] # "new"
      /\ pc' = [pc EXCEPT ![r] = "crashed"]
      /\ lock' = IF pc[r] \in Holding THEN [lock EXCEPT ![subj[r]] = NoReq] ELSE lock
      /\ UNCHANGED <<storeVars, accountVars, reqVars, floor>>
  BY DEF Crash, Unlock
<1> USE DEF storeVars, accountVars, reqVars
<1>1. subj[r] \in User
  BY <1>0 DEF IInv, RequestsInv
<1>4. DeleteInv'
  BY <1>0, <1>1 DEF IInv, DeleteInv, TypeOK, Holding
<1>5. OneTokenPerSession' /\ SpentStaysDead' /\ ClosedStaysClosed'
  BY <1>0 DEF IInv, OneTokenPerSession, SpentStaysDead, ClosedStaysClosed,
         Store!OneTokenPerSession, Store!SpentStaysDead, Store!ClosedStaysClosed
<1>6. SessionsCleared'
  BY <1>0 DEF IInv, SessionsCleared, TypeOK
<1>7. AccountsCleared'
  <2>1. AccountCleared(r)'
    BY <1>0 DEF IInv, TypeOK, AccountCleared, Ended
  <2> QED BY <1>0, <2>1, OthersCleared DEF IInv, TypeOK
<1> QED BY <1>c, <1>4, <1>5, <1>6, <1>7 DEF IInv, Core

\* The accounts change on their own: neither the rows nor the requests are touched.
LEMMA AccountStep ==
  ASSUME IInv, UNCHANGED <<storeVars, verified, password, changes, undone, lock, pc, reqVars,
                           floor>>,
         standing' \in [User -> Standing],
         expired' \subseteq 1..issued
  PROVE  IInv'
<1>c. Core'
  BY CoreAccount, CoreOfInvariant
<1> USE DEF storeVars, reqVars
<1>2. DeleteInv' /\ AccountsCleared'
  BY DEF IInv, TokensInv, RequestsInv, LockInv, DeleteInv, AccountsCleared, AccountCleared
<1>3. OneTokenPerSession' /\ SpentStaysDead' /\ ClosedStaysClosed' /\ SessionsCleared'
  BY DEF IInv, OneTokenPerSession, SpentStaysDead, ClosedStaysClosed, SessionsCleared,
         Store!OneTokenPerSession, Store!SpentStaysDead, Store!ClosedStaysClosed
<1> QED BY <1>c, <1>2, <1>3 DEF IInv, Core

-----------------------------------------------------------------------------
\* Every step preserves the inductive invariant.
LEMMA NextIInv == IInv /\ [Next]_vars => IInv'
<1> SUFFICES ASSUME IInv, [Next]_vars PROVE IInv'
  OBVIOUS
<1> USE DEF accountVars
<1>t. /\ standing \in [User -> Standing]
      /\ issued \in 0..MaxToken
      /\ expired \subseteq 1..issued
      /\ \A t \in 1..issued : t \in 0..issued /\ owner[t] \in User
  BY DEF IInv, TypeOK, TokensInv
<1>1. ASSUME NEW r \in Req, NEW u \in User, Login(r, u) PROVE IInv'
  BY <1>1, <1>t, ArriveStep DEF Login, Kind, PC, CredentialChange
<1>2. ASSUME NEW r \in Req, NEW u \in User, Signup(r, u) PROVE IInv'
  <2>1. standing' \in [User -> Standing]
    BY <1>2, <1>t DEF Signup, Standing
  <2> QED BY <1>2, <1>t, <2>1, ArriveStep DEF Signup, Kind, PC, CredentialChange
<1>3. ASSUME NEW r \in Req, NEW u \in User, LogoutAll(r, u) PROVE IInv'
  BY <1>3, <1>t, ArriveStep DEF LogoutAll, Kind, PC, CredentialChange
<1>4. ASSUME NEW r \in Req, NEW u \in User, Change(r, u) PROVE IInv'
  BY <1>4, <1>t, ArriveStep DEF Change, Kind, PC, CredentialChange
<1>12. ASSUME NEW r \in Req, NEW u \in User, Reset(r, u) PROVE IInv'
  BY <1>12, <1>t, ArriveStep DEF Reset, Kind, PC, CredentialChange
<1>13. ASSUME NEW r \in Req, NEW u \in User, LoadProfile(r, u) PROVE IInv'
  BY <1>13, <1>t, ArriveStep DEF LoadProfile, Kind, PC, CredentialChange
<1>5. ASSUME NEW r \in Req, NEW t \in Token, Refresh(r, t) PROVE IInv'
  <2>1. t \in 1..issued /\ t \in 0..issued /\ owner[t] \in User
    BY <1>5, <1>t, SMT DEF Refresh, Token
  <2> QED BY <1>5, <1>t, <2>1, ArriveStep DEF Refresh, Kind, PC, CredentialChange
<1>6. ASSUME NEW r \in Req, NEW t \in Token, Logout(r, t) PROVE IInv'
  <2>1. t \in 1..issued /\ t \in 0..issued /\ owner[t] \in User
    BY <1>6, <1>t, SMT DEF Logout, Token
  <2> QED BY <1>6, <1>t, <2>1, ArriveStep DEF Logout, Kind, PC, CredentialChange
<1>7. ASSUME NEW r \in Req, Serve(r) PROVE IInv'
  BY <1>7, SavePasswordStep, SaveProfileStep, MintStep, LockStep, RotateStep, DeleteStep,
     ApplyStep DEF Serve
<1>8. ASSUME NEW r \in Req, Crash(r) PROVE IInv'
  BY <1>8, CrashStep
<1>9. ASSUME NEW u \in User, Deactivate(u) PROVE IInv'
  <2>1. standing' \in [User -> Standing]
    BY <1>9, <1>t DEF Deactivate, Standing
  <2> QED BY <1>9, <1>t, <2>1, AccountStep DEF Deactivate
<1>10. ASSUME NEW s \in Token, Expire(s) PROVE IInv'
  <2>1. s \in 1..issued
    <3>1. PICK t \in 1..issued : s = session[t]
      BY <1>10 DEF Expire
    <3> QED BY <3>1, SMT DEF IInv, TypeOK, TokensInv
  <2> QED BY <1>10, <1>t, <2>1, AccountStep DEF Expire
<1>11. CASE UNCHANGED vars
  BY <1>11, <1>t, AccountStep DEF vars
<1> QED BY <1>1, <1>2, <1>3, <1>4, <1>5, <1>6, <1>7, <1>8, <1>9, <1>10, <1>11, <1>12,
          <1>13
       DEF Next, Others

\* The inductive invariant holds in every reachable state, however many accounts,
\* requests and tokens there are.
THEOREM Invariance == Spec => []IInv
BY InitIInv, NextIInv, PTL DEF Spec

\* Type correctness.
THEOREM TypeCorrect == Spec => []TypeOK
<1>1. IInv => TypeOK
  BY DEF IInv
<1> QED BY <1>1, Invariance, PTL

\* Rotations and revocations of user_sessions_lock leave a session with one token that
\* can be rotated next, at most.
THEOREM OneToken == Spec => []OneTokenPerSession
<1>1. IInv => OneTokenPerSession
  BY DEF IInv
<1> QED BY <1>1, Invariance, PTL

\* A rotated refresh token is never accepted again.
THEOREM ConsumedOnce == Spec => []SpentStaysDead
<1>1. IInv => SpentStaysDead
  BY DEF IInv
<1> QED BY <1>1, Invariance, PTL

\* No token of a session survives a revocation that deleted a row of it.
THEOREM RevocationIsFinal == Spec => []ClosedStaysClosed
<1>1. IInv => ClosedStaysClosed
  BY DEF IInv
<1> QED BY <1>1, Invariance, PTL

\* After /logout/ has answered, and after a replay was turned down, the session is dead;
\* after /logout-all/ and a password change, so is every session older than the request.
THEOREM LogoutIsFinal == Spec => []RevocationTookEffect
<1>1. IInv => RevocationTookEffect
  BY DEF IInv, RevocationTookEffect, SessionsCleared, AccountsCleared, AccountCleared
<1> QED BY <1>1, Invariance, PTL

-----------------------------------------------------------------------------
\* A session opened before the latest revocation of its account and still live was minted
\* late.
LateMintInv ==
  \A t \in live : credential[t] < floor[owner[t]] => session[t] \in leaked

\* While the DELETE of a credential change runs, a session opened with an earlier password
\* is either among the rows it saw or was minted beside it.
PendingInv ==
  \A q \in Req : pc[q] = "apply" /\ kind[q] \in CredentialChange =>
    \A t \in live : owner[t] = subj[q] /\ credential[t] < ver[q] =>
      t \in snap[q] \/ session[t] \in leaked

\* A step that opens no session and moves no floor keeps both.
LEMMA LateUnmoved ==
  ASSUME LateMintInv, PendingInv, NEW r \in Req,
         UNCHANGED <<session, owner, credential, live, leaked, floor, kind, subj, snap>>,
         \A q \in Req : pc'[q] = "apply" => pc[q] = "apply" /\ ver'[q] = ver[q]
  PROVE  LateMintInv' /\ PendingInv'
BY DEF LateMintInv, PendingInv

LEMMA LateNext ==
  IInv /\ LateMintInv /\ PendingInv /\ [Next]_vars
    => LateMintInv' /\ PendingInv'
<1> SUFFICES ASSUME IInv, LateMintInv, PendingInv, [Next]_vars
             PROVE  LateMintInv' /\ PendingInv'
  OBVIOUS
<1> USE DEF storeVars
<1>t. /\ live \subseteq 1..issued /\ issued \in Nat
      /\ \A t \in 1..issued : session[t] \in 1..issued /\ owner[t] \in User
      /\ \A t \in Token : credential[t] \in Nat
      /\ \A q \in Req : ver[q] \in Nat
      /\ \A u \in User : floor[u] \in Nat
  BY SMT DEF IInv, TypeOK, TokensInv
<1>1. ASSUME NEW r \in Req, NEW k, NEW u, NEW t, NEW sc, NEW next \in PC \ {"apply"},
             Arrive(r, k, u, t, sc, next)
      PROVE  LateMintInv' /\ PendingInv'
  <2>1. \A q \in Req : pc'[q] = "apply" =>
          pc[q] = "apply" /\ ver'[q] = ver[q] /\ kind'[q] = kind[q] /\ subj'[q] = subj[q]
    BY <1>1 DEF Arrive, IInv, TypeOK
  <2>2. UNCHANGED <<session, owner, credential, live, leaked, floor, snap>>
    BY <1>1 DEF Arrive
  <2> QED BY <2>1, <2>2 DEF LateMintInv, PendingInv
<1>2. ASSUME NEW r \in Req, SavePassword(r) PROVE LateMintInv' /\ PendingInv'
  <2>1. \A q \in Req : pc'[q] = "apply" => pc[q] = "apply" /\ ver'[q] = ver[q]
    BY <1>2 DEF SavePassword, IInv, TypeOK
  <2> QED BY <1>2, <2>1, LateUnmoved DEF SavePassword
<1>3. ASSUME NEW r \in Req, SaveProfile(r) \/ Lock(r) \/ Crash(r)
      PROVE  LateMintInv' /\ PendingInv'
  <2>1. \A q \in Req : pc'[q] = "apply" => pc[q] = "apply" /\ ver'[q] = ver[q]
    BY <1>3 DEF SaveProfile, Lock, Crash, reqVars, IInv, TypeOK
  <2>2. UNCHANGED <<storeVars, reqVars, floor>>
    BY <1>3 DEF SaveProfile, Lock, Crash
  <2> QED BY <2>1, <2>2, LateUnmoved DEF reqVars
<1>4. ASSUME NEW r \in Req, Mint(r) PROVE LateMintInv' /\ PendingInv'
  <2>1. PICK n \in Token : /\ Insert(n, n, subj[r], ver[r])
                           /\ live' = live \cup {n}
                           /\ leaked' = IF Late(r) THEN leaked \cup {n} ELSE leaked
    BY <1>4 DEF Mint
  <2>2. /\ subj[r] \in User /\ UNCHANGED <<reqVars, floor>>
        /\ \A q \in Req : pc'[q] = "apply" => pc[q] = "apply"
    BY <1>4, SMT DEF Mint, IInv, TypeOK, RequestsInv
  <2>3. /\ session'[n] = n /\ owner'[n] = subj[r] /\ n \notin 1..issued
        /\ \A t \in 1..issued : session'[t] = session[t] /\ owner'[t] = owner[t]
    BY <2>1, <2>2, <1>t, InsertFacts DEF IInv
  <2>4. /\ credential'[n] = ver[r]
        /\ \A t \in 1..issued : credential'[t] = credential[t]
    BY <2>1, <2>3, <1>t DEF Insert, IInv, TypeOK
  <2>5. \A t \in live : session'[t] = session[t] /\ owner'[t] = owner[t]
                          /\ credential'[t] = credential[t] /\ t # n
    BY <1>t, <2>3, <2>4
  <2>6. LateMintInv'
    BY <2>1, <2>2, <2>3, <2>4, <2>5 DEF LateMintInv, Late
  <2>7. PendingInv'
    BY <2>1, <2>2, <2>3, <2>4, <2>5 DEF PendingInv, Late, reqVars
  <2> QED BY <2>6, <2>7
<1>5. ASSUME NEW r \in Req, Rotate(r) PROVE LateMintInv' /\ PendingInv'
  <2> DEFINE t == tok[r]
  <2>1. /\ t \in 1..issued /\ owner[t] = subj[r] /\ subj[r] \in User
        /\ \A q \in Req : pc[q] = "apply" => subj[q] # subj[r]
    BY <1>5, SMT DEF Rotate, IInv, RequestsInv, LockInv, Holding
  <2>2. /\ UNCHANGED <<leaked, kind, subj, snap, ver, floor>>
        /\ \A q \in Req : pc'[q] = "apply" => pc[q] = "apply"
    BY <1>5, SMT DEF Rotate, IInv, TypeOK
  <2>3. CASE Verdict(t, subj[r]) # "accepted"
    <3>1. UNCHANGED <<session, owner, credential, live>>
      BY <1>5, <2>3 DEF Rotate
    <3> QED BY <2>2, <3>1, LateUnmoved
  <2>4. CASE Verdict(t, subj[r]) = "accepted"
    <3>1. PICK n \in Token : Insert(n, session[t], subj[r], credential[t])
                             /\ live' = (live \ {t}) \cup {n}
      BY <1>5, <2>4 DEF Rotate
    <3>2. t \in live /\ t \in Token /\ session[t] \in 1..issued
          /\ session[session[t]] = session[t] /\ owner[session[t]] = subj[r]
      BY <2>1, <2>4, SMT DEF Verdict, IInv, TokensInv, TypeOK, Token
    <3>3. /\ session'[n] = session[t] /\ owner'[n] = subj[r] /\ n \notin 1..issued
          /\ \A x \in 1..issued : session'[x] = session[x] /\ owner'[x] = owner[x]
      BY <2>1, <3>1, <3>2, <1>t, InsertFacts DEF IInv
    <3>4. /\ credential'[n] = credential[t]
          /\ \A x \in 1..issued : credential'[x] = credential[x]
      BY <3>1, <3>3, <1>t DEF Insert, IInv, TypeOK
    <3>5. \A x \in live' : \/ x = n
                           \/ /\ x \in live /\ session'[x] = session[x]
                              /\ owner'[x] = owner[x] /\ credential'[x] = credential[x]
      BY <1>t, <3>1, <3>3, <3>4
    <3>6. LateMintInv'
      BY <2>1, <2>2, <3>2, <3>3, <3>4, <3>5 DEF LateMintInv
    <3>7. PendingInv'
      BY <2>1, <2>2, <3>2, <3>3, <3>4, <3>5 DEF PendingInv
    <3> QED BY <3>6, <3>7
  <2> QED BY <2>3, <2>4
<1>6. ASSUME NEW r \in Req, Delete(r) PROVE LateMintInv' /\ PendingInv'
  <2>1. /\ snap' = [snap EXCEPT ![r] = live \cap Targets(r)]
        /\ UNCHANGED <<storeVars, kind, subj, tok, scope, ver, floor>>
        /\ \A q \in Req \ {r} : pc'[q] = pc[q] /\ snap'[q] = snap[q]
        /\ snap'[r] = live \cap Targets(r)
    BY <1>6 DEF Delete, IInv, TypeOK
  <2>2. kind[r] \in CredentialChange =>
          \A t \in live : owner[t] = subj[r] => t \in snap'[r]
    BY <1>t, <2>1 DEF IInv, RequestsInv, Targets
  <2> QED BY <2>1, <2>2 DEF LateMintInv, PendingInv
<1>7. ASSUME NEW r \in Req, Apply(r) PROVE LateMintInv' /\ PendingInv'
  <2>1. /\ pc[r] = "apply" /\ live' = live \ snap[r] /\ subj[r] \in User
        /\ floor' = IF kind[r] \in CredentialChange /\ floor[subj[r]] < ver[r]
                       THEN [floor EXCEPT ![subj[r]] = ver[r]] ELSE floor
        /\ UNCHANGED <<session, owner, credential, leaked, kind, subj, ver>>
        /\ \A q \in Req \ {r} : pc'[q] = pc[q] /\ snap'[q] = snap[q]
        /\ pc'[r] # "apply"
    BY <1>7 DEF Apply, IInv, TypeOK, RequestsInv
  <2>2. PendingInv'
    BY <2>1 DEF PendingInv
  <2>3. ASSUME NEW t \in live', credential[t] < floor'[owner[t]]
        PROVE  session[t] \in leaked
    <3>1. CASE floor'[owner[t]] = floor[owner[t]]
      BY <2>1, <2>3, <3>1 DEF LateMintInv
    <3>2. CASE /\ kind[r] \in CredentialChange /\ floor[subj[r]] < ver[r]
               /\ owner[t] = subj[r]
      <4>1. floor'[owner[t]] = ver[r]
        BY <2>1, <3>2 DEF IInv, TypeOK
      <4> QED BY <2>1, <2>3, <3>2, <4>1 DEF PendingInv
    <3> QED BY <2>1, <3>1, <3>2, <1>t DEF IInv, TypeOK
  <2> QED BY <2>1, <2>2, <2>3 DEF LateMintInv
<1>8. CASE UNCHANGED <<storeVars, lock, pc, reqVars, floor>>
  BY <1>8 DEF LateMintInv, PendingInv, reqVars
<1>9. CASE \E r \in Req, u \in User : \/ Login(r, u) \/ Signup(r, u) \/ LogoutAll(r, u)
                                      \/ Change(r, u) \/ LoadProfile(r, u) \/ Reset(r, u)
  BY <1>1, <1>9 DEF Login, Signup, LogoutAll, Change, LoadProfile, Reset, PC, Holding, Ended
<1>10. CASE \E r \in Req, t \in Token : Refresh(r, t) \/ Logout(r, t)
  BY <1>1, <1>10 DEF Refresh, Logout, PC, Holding, Ended
<1> QED BY <1>2, <1>3, <1>4, <1>5, <1>6, <1>7, <1>8, <1>9, <1>10
       DEF Next, Others, Serve, Deactivate, Expire, vars

\* The latest password of an account was revoked for, or a request that set it is still to
\* come to that.
LatestInv ==
  \A u \in User :
    /\ floor[u] <= changes[u]
    /\ \A q \in Req : subj[q] = u /\ kind[q] \in CredentialChange => ver[q] <= changes[u]
    /\ LogoutOnPasswordChange /\ floor[u] < changes[u] =>
         \E q \in Req : Unrevoked(q, u) /\ ver[q] = changes[u]

\* A step of r that sets no password and commits no revocation keeps it.
LEMMA LatestUnmoved ==
  ASSUME IInv, LatestInv, NEW r \in Req,
         UNCHANGED <<changes, floor>>,
         \A q \in Req \ {r} : /\ pc'[q] = pc[q] /\ kind'[q] = kind[q] /\ subj'[q] = subj[q]
                             /\ ver'[q] = ver[q],
         kind'[r] \in CredentialChange =>
           ver'[r] = 0 \/ (ver'[r] = ver[r] /\ kind'[r] = kind[r] /\ subj'[r] = subj[r]),
         \A u \in User : Unrevoked(r, u) => Unrevoked(r, u)' /\ ver'[r] = ver[r]
  PROVE  LatestInv'
<1> SUFFICES ASSUME NEW u \in User
             PROVE  /\ floor[u] <= changes[u]
                    /\ \A q \in Req : subj'[q] = u /\ kind'[q] \in CredentialChange =>
                         ver'[q] <= changes[u]
                    /\ LogoutOnPasswordChange /\ floor[u] < changes[u] =>
                         \E q \in Req : Unrevoked(q, u)' /\ ver'[q] = changes[u]
  BY DEF LatestInv
<1>1. changes[u] \in Nat
  BY DEF IInv, TypeOK
<1>2. \A q \in Req : subj'[q] = u /\ kind'[q] \in CredentialChange => ver'[q] <= changes[u]
  <2> SUFFICES ASSUME NEW q \in Req, subj'[q] = u, kind'[q] \in CredentialChange
               PROVE  ver'[q] <= changes[u]
    OBVIOUS
  <2>1. CASE q = r /\ ver'[r] = 0
    BY <1>1, <2>1
  <2>2. CASE ~ (q = r /\ ver'[r] = 0)
    <3>1. ver'[q] = ver[q] /\ kind'[q] = kind[q] /\ subj'[q] = subj[q]
      BY <2>2
    <3> QED BY <3>1 DEF LatestInv
  <2> QED BY <2>1, <2>2
<1>3. ASSUME NEW q \in Req, Unrevoked(q, u) PROVE Unrevoked(q, u)' /\ ver'[q] = ver[q]
  BY <1>3 DEF Unrevoked
<1> QED BY <1>2, <1>3 DEF LatestInv

LEMMA LatestNext == IInv /\ LatestInv /\ [Next]_vars => LatestInv'
<1> SUFFICES ASSUME IInv, LatestInv, [Next]_vars PROVE LatestInv'
  OBVIOUS
<1> USE DEF accountVars, reqVars
<1>t. /\ \A q \in Req : ver[q] \in Nat
      /\ \A u \in User : floor[u] \in Nat /\ changes[u] \in Nat
  BY DEF IInv, TypeOK
<1>1. ASSUME NEW r \in Req, NEW k, NEW u, NEW t, NEW sc, NEW next \in PC,
             Arrive(r, k, u, t, sc, next), UNCHANGED changes,
             k \in CredentialChange => next \notin {"mint", "patch"}
      PROVE  LatestInv'
  <2>1. /\ pc[r] = "new" /\ UNCHANGED floor
        /\ \A q \in Req \ {r} : /\ pc'[q] = pc[q] /\ kind'[q] = kind[q]
                               /\ subj'[q] = subj[q] /\ ver'[q] = ver[q]
        /\ kind'[r] = k /\ (k \in CredentialChange => ver'[r] = 0)
    BY <1>1 DEF Arrive, IInv, TypeOK
  <2>2. \A v \in User : ~ Unrevoked(r, v)
    BY <2>1 DEF Unrevoked
  <2> QED BY <1>1, <2>1, <2>2, LatestUnmoved
<1>2. ASSUME NEW r \in Req, SavePassword(r) PROVE LatestInv'
  <2> DEFINE u == subj[r]
  <2>1. /\ u \in User /\ kind[r] \in CredentialChange /\ pc[r] = "save"
        /\ changes'[u] = changes[u] + 1
        /\ \A v \in User \ {u} : changes'[v] = changes[v]
        /\ ver'[r] = changes[u] + 1
        /\ UNCHANGED <<kind, subj, floor>>
        /\ \A q \in Req \ {r} : pc'[q] = pc[q] /\ ver'[q] = ver[q]
        /\ LogoutOnPasswordChange => pc'[r] = "await"
    BY <1>2 DEF SavePassword, IInv, TypeOK, RequestsInv
  <2>2. ASSUME NEW v \in User \ {u}
        PROVE  /\ floor[v] <= changes'[v]
               /\ \A q \in Req : subj[q] = v /\ kind[q] \in CredentialChange =>
                    ver'[q] <= changes'[v]
               /\ LogoutOnPasswordChange /\ floor[v] < changes'[v] =>
                    \E q \in Req : Unrevoked(q, v)' /\ ver'[q] = changes'[v]
    BY <2>1 DEF LatestInv, Unrevoked
  <2>3. /\ floor[u] <= changes'[u]
        /\ \A q \in Req : subj[q] = u /\ kind[q] \in CredentialChange => ver'[q] <= changes'[u]
    <3>1. floor[u] <= changes[u] /\ changes[u] <= changes[u] + 1
      BY <1>t, <2>1 DEF LatestInv
    <3>2. \A q \in Req \ {r} : subj[q] = u /\ kind[q] \in CredentialChange => ver[q] <= changes[u]
      BY <2>1 DEF LatestInv
    <3> QED BY <1>t, <2>1, <3>1, <3>2
  <2>4. LogoutOnPasswordChange => Unrevoked(r, u)' /\ ver'[r] = changes'[u]
    <3>1. floor[u] < changes[u] + 1
      BY <1>t, <2>1 DEF LatestInv
    <3> QED BY <2>1, <3>1 DEF Unrevoked
  <2> QED BY <2>1, <2>2, <2>3, <2>4 DEF LatestInv
<1>3. ASSUME NEW r \in Req,
             SaveProfile(r) \/ Mint(r) \/ Lock(r) \/ Rotate(r) \/ Delete(r) \/ Crash(r)
      PROVE  LatestInv'
  <2>1. UNCHANGED <<changes, floor, kind, subj, ver>>
    BY <1>3 DEF SaveProfile, Mint, Lock, Rotate, Delete, Crash
  <2>2. \A q \in Req \ {r} : pc'[q] = pc[q]
    BY <1>3 DEF SaveProfile, Mint, Lock, Rotate, Delete, Crash, IInv, TypeOK
  <2>3. ASSUME NEW u \in User, Unrevoked(r, u) PROVE Unrevoked(r, u)'
    <3>1. pc'[r] \in {"await", "delete", "apply", "crashed"}
      BY <1>3, <2>3 DEF SaveProfile, Mint, Lock, Rotate, Delete, Crash, Unrevoked,
         CredentialChange, IInv, TypeOK
    <3> QED BY <2>1, <2>3, <3>1 DEF Unrevoked
  <2> QED BY <2>1, <2>2, <2>3, LatestUnmoved
<1>4. ASSUME NEW r \in Req, Apply(r) PROVE LatestInv'
  <2> DEFINE u == subj[r]
  <2>1. /\ u \in User /\ UNCHANGED <<changes, kind, subj, ver>>
        /\ \A q \in Req \ {r} : pc'[q] = pc[q]
        /\ \A v \in User \ {u} : floor'[v] = floor[v]
        /\ kind[r] \notin CredentialChange => floor' = floor
        /\ kind[r] \in CredentialChange =>
             floor'[u] = IF floor[u] < ver[r] THEN ver[r] ELSE floor[u]
    BY <1>4 DEF Apply, IInv, TypeOK, RequestsInv
  <2>2. CASE kind[r] \notin CredentialChange
    <3>1. \A v \in User : ~ Unrevoked(r, v)
      BY <2>2 DEF Unrevoked
    <3> QED BY <2>1, <2>2, <3>1, LatestUnmoved
  <2>3. CASE kind[r] \in CredentialChange
    <3>1. ver[r] <= changes[u] /\ floor[u] <= changes[u]
      BY <2>1, <2>3 DEF LatestInv
    <3>2. floor'[u] <= changes[u] /\ floor[u] <= floor'[u] /\ ver[r] <= floor'[u]
      BY <1>t, <2>1, <2>3, <3>1
    <3>3. ASSUME NEW v \in User, LogoutOnPasswordChange, floor'[v] < changes[v]
          PROVE  \E q \in Req : Unrevoked(q, v)' /\ ver[q] = changes[v]
      <4>1. floor'[v] \in Nat
        BY <1>t, <2>1, <2>3
      <4>2. floor[v] < changes[v]
        <5>1. CASE v = u
          BY <1>t, <3>2, <3>3, <4>1, <5>1
        <5>2. CASE v # u
          BY <2>1, <3>3, <5>2
        <5> QED BY <5>1, <5>2
      <4>3. PICK q \in Req : Unrevoked(q, v) /\ ver[q] = changes[v]
        BY <3>3, <4>2 DEF LatestInv
      <4>4. q # r
        <5>1. CASE v = u
          BY <1>t, <3>2, <3>3, <4>1, <4>3, <5>1
        <5>2. CASE v # u
          BY <4>3, <5>2 DEF Unrevoked
        <5> QED BY <5>1, <5>2
      <4> QED BY <2>1, <3>3, <4>3, <4>4 DEF Unrevoked
    <3>4. \A v \in User : floor'[v] <= changes[v]
      BY <2>1, <3>2 DEF LatestInv
    <3> QED BY <2>1, <3>3, <3>4 DEF LatestInv
  <2> QED BY <2>2, <2>3
<1>5. CASE UNCHANGED <<changes, pc, kind, subj, ver, floor>>
  BY <1>5 DEF LatestInv, Unrevoked
<1>6. CASE \E r \in Req, u \in User : \/ Login(r, u) \/ Signup(r, u) \/ LogoutAll(r, u)
                                      \/ Change(r, u) \/ LoadProfile(r, u) \/ Reset(r, u)
  BY <1>1, <1>6 DEF Login, Signup, LogoutAll, Change, LoadProfile, Reset, PC, Holding, Ended,
     CredentialChange
<1>7. CASE \E r \in Req, t \in Token : Refresh(r, t) \/ Logout(r, t)
  BY <1>1, <1>7 DEF Refresh, Logout, PC, Holding, Ended, CredentialChange
<1> QED BY <1>2, <1>3, <1>4, <1>5, <1>6, <1>7
       DEF Next, Others, Serve, Deactivate, Expire, vars

\* However requests interleave, a session opened with a password that was replaced is live
\* only if it was minted once the DELETE that ends the others had begun, or if that DELETE is
\* still to come or died with its process.
THEOREM SurvivorsExplainedHolds == Spec => []SurvivorsExplained
<1>1. Init => LateMintInv /\ PendingInv /\ LatestInv
  BY DEF Init, LateMintInv, PendingInv, LatestInv
<1>2. IInv /\ LateMintInv /\ LatestInv => SurvivorsExplained
  <2> SUFFICES ASSUME IInv, LateMintInv, LatestInv, LogoutOnPasswordChange, NEW t \in live,
                      credential[t] < changes[owner[t]], session[t] \notin leaked
               PROVE  credential[t] >= floor[owner[t]] /\ \E q \in Req : Unrevoked(q, owner[t])
    BY DEF SurvivorsExplained
  <2>1. /\ owner[t] \in User /\ credential[t] \in Nat
        /\ floor[owner[t]] \in Nat /\ changes[owner[t]] \in Nat
    BY SMT DEF IInv, TypeOK, TokensInv, Token
  <2>2. credential[t] >= floor[owner[t]]
    BY <2>1 DEF LateMintInv
  <2>3. floor[owner[t]] < changes[owner[t]]
    BY <2>1, <2>2
  <2> QED BY <2>1, <2>2, <2>3 DEF LatestInv
<1> QED BY <1>1, <1>2, LateNext, LatestNext, Invariance, PTL DEF Spec

-----------------------------------------------------------------------------
\* Every step of the whitelist is a step of the abstract store, or none of its concern.
LEMMA StepRefines == IInv /\ [Next]_vars => [Store!StoreNext]_Store!storeVars
<1> SUFFICES ASSUME IInv, [Next]_vars, ~ UNCHANGED Store!storeVars
             PROVE  Store!StoreNext
  OBVIOUS
<1> USE DEF Store!storeVars
<1>1. \E r \in Req : Mint(r) \/ Rotate(r) \/ Apply(r)
  BY DEF Next, Others, vars, storeVars, Login, Signup, LogoutAll, Change, Reset, Refresh,
         Logout, LoadProfile, Arrive, Serve, SavePassword, SaveProfile, Lock, Delete, Crash,
         Deactivate, Expire
<1>2. ASSUME NEW r \in Req, Mint(r) PROVE Store!Open
  BY <1>2 DEF Mint, Insert, Store!Open, Store!Issue, Store!Token, Token
<1>3. ASSUME NEW r \in Req, Rotate(r) PROVE Store!Exchange
  <2> DEFINE t == tok[r]
  <2>1. Verdict(t, subj[r]) = "accepted"
    BY <1>3 DEF Rotate
  <2>2. t \in live
    BY <2>1 DEF Verdict
  <2>3. PICK n \in Token : Insert(n, session[t], subj[r], credential[t])
                           /\ live' = (live \ {t}) \cup {n}
    BY <1>3, <2>1 DEF Rotate
  <2>4. spent' = spent \cup {t} /\ closed' = closed
    BY <1>3, <2>1 DEF Rotate
  <2> QED BY <2>2, <2>3, <2>4 DEF Insert, Store!Exchange, Store!Issue, Store!Token, Token
<1>4. ASSUME NEW r \in Req, Apply(r) PROVE Store!Close
  <2> DEFINE S == {session[t] : t \in snap[r]}
  <2>1. /\ live' = live \ snap[r] /\ closed' = closed \cup S
        /\ UNCHANGED <<issued, session, spent>>
    BY <1>4 DEF Apply
  <2>2. snap[r] \subseteq live /\ live \subseteq 1..issued
    BY <1>4 DEF Apply, IInv, DeleteInv, TypeOK
  <2>3. S \in SUBSET (1..issued)
    <3>1. \A t \in 1..issued : session[t] \in 1..issued
      BY SMT DEF IInv, TypeOK, TokensInv
    <3> QED BY <2>2, <3>1
  <2>4. live \ snap[r] = {t \in live : session[t] \notin S}
    BY <2>2 DEF IInv, OneTokenPerSession, Store!OneTokenPerSession
  <2> QED BY <2>1, <2>3, <2>4 DEF Store!Close
<1> QED BY <1>1, <1>2, <1>3, <1>4 DEF Store!StoreNext

\* user_sessions_lock makes rotations and revocations atomic: the requests, interleaved
\* statement by statement, implement the abstract store.
THEOREM Refinement == Spec => ImplementsStore
<1>1. Init => Store!StoreInit
  BY DEF Init, Store!StoreInit, Store!Token, Token
<1> QED BY <1>1, StepRefines, Invariance, PTL DEF Spec, ImplementsStore, Store!StoreSpec

=============================================================================
