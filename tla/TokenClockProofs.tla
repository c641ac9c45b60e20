--------------------------- MODULE TokenClockProofs ---------------------------
(***************************************************************************)
(* The invariants of TokenClock, for every choice of the lifetimes, any    *)
(* resolution of the clock and any number of requests; and that of Claims, *)
(* for any roles, attributes and values of them and any number of          *)
(* rotations.                                                              *)
(***************************************************************************)
EXTENDS Claims, WellFoundedInduction, FiniteSetTheorems, TLAPS

\* The only whitelisted row is that of the newest token: a rotation replaces the row it
\* finds, and a login opens the session once.
Newest == rows \subseteq {issued}

\* A login that is under way has the session to itself; requests with a token follow it.
Opener ==
  /\ \A r \in Req : pc[r] \in {"load", "open"} =>
       issued = 0 /\ \A q \in Req \ {r} : pc[q] = "idle"
  /\ \A r \in Req : pc[r] = "rotate" => tok[r] \in 1..issued
  /\ \A r \in Req : pc[r] = "close" => issued # 0

\* Once a token of the session has a start, all later ones have the same, and none is
\* promised a longer life than the session.
OneDeadline ==
  \A t \in 1..issued : start[t] # -1 =>
    /\ \A u \in t..issued : start[u] = start[t]
    /\ settings.session # NoLimit =>
         exp[t] <= start[t] + settings.session /\ accessExp[t] <= start[t] + settings.session

\* A row is never older than the claims of its token, the rows of successors are younger,
\* and a rotation reads the account when it stores the row.
StoredAfter ==
  \A t \in 1..issued :
    /\ Instant(exp[t]) <= created[t] + Instant(settings.refresh)
    /\ Instant(accessExp[t]) <= created[t] + Instant(settings.access)
    /\ \A u \in t..issued : created[t] <= created[u]
    /\ t # 1 => read[t] = created[t]

\* A session that was purged or closed has no row any more, and gets none: a rotation needs
\* one, and a login opens another session.
Over ==
  /\ purged # {} =>
       /\ rows = {} /\ issued # 0
       /\ \A t \in purged : Instant(exp[t]) <= now
       /\ \A t \in 1..issued : Instant(accessExp[t]) <= now
  /\ closed # -1 => rows = {} /\ issued # 0 /\ \A t \in 1..issued : created[t] <= closed

ClockInv == ClockTypeOK /\ Newest /\ Opener /\ OneDeadline /\ StoredAfter /\ Over

-----------------------------------------------------------------------------
\* What a claim loses of an instant is less than a second, and a lifetime of whole seconds
\* is added to a claim as to the instant it names.
LEMMA EpochType == ASSUME NEW t \in Nat PROVE Epoch(t) \in Nat
  BY ClockAssumption, SMT DEF Epoch

LEMMA InstantType == ASSUME NEW s \in Int PROVE Instant(s) \in Int
  BY ClockAssumption, SMT DEF Instant

LEMMA EpochBefore == ASSUME NEW t \in Nat PROVE Instant(Epoch(t)) <= t
  BY ClockAssumption, SMT DEF Epoch, Instant

LEMMA EpochAfter == ASSUME NEW t \in Nat PROVE t < Instant(Epoch(t) + 1)
  BY ClockAssumption, SMT DEF Epoch, Instant

LEMMA InstantMonotone ==
  ASSUME NEW s \in Int, NEW t \in Int, s <= t PROVE Instant(s) <= Instant(t)
  BY ClockAssumption, SMT DEF Instant

LEMMA InstantSum ==
  ASSUME NEW s \in Int, NEW t \in Int PROVE Instant(s + t) = Instant(s) + Instant(t)
  BY ClockAssumption, SMT DEF Instant

\* A lifetime in force is one of the choices.
LEMMA LifetimeType ==
  ASSUME settings \in Lifetimes
  PROVE  /\ settings.refresh \in Nat /\ settings.access \in Nat
         /\ settings.session \in Nat \/ settings.session = NoLimit
  BY ClockAssumption

\* A capped exp is no later than it was, and than the deadline of the session.
LEMMA CappedFacts ==
  ASSUME settings \in Lifetimes, NEW e \in Nat, NEW s \in Nat
  PROVE  /\ Capped(e, s) \in Nat /\ Capped(e, s) <= e
         /\ settings.session # NoLimit => Capped(e, s) <= s + settings.session
  BY LifetimeType DEF Capped, Smaller

\* An exp that is computed from an instant t counts from no later than t.
LEMMA ClaimFacts ==
  ASSUME settings \in Lifetimes, NEW t \in Nat, NEW s \in Nat, NEW life \in Nat
  PROVE  /\ Capped(Epoch(t) + life, s) \in Nat
         /\ Instant(Capped(Epoch(t) + life, s)) <= t + Instant(life)
         /\ settings.session # NoLimit => Capped(Epoch(t) + life, s) <= s + settings.session
  <1> DEFINE e == Epoch(t) + life
  <1>1. Epoch(t) \in Nat
    BY EpochType
  <1>2. e \in Nat
    BY <1>1
  <1> HIDE DEF e
  <1>3. Capped(e, s) \in Nat /\ Capped(e, s) <= e
    BY <1>2, CappedFacts
  <1>4. Instant(Capped(e, s)) <= Instant(e)
    BY <1>2, <1>3, InstantMonotone
  <1>5. Instant(e) = Instant(Epoch(t)) + Instant(life)
    BY <1>1, InstantSum DEF e
  <1>6. Instant(Epoch(t)) <= t
    BY EpochBefore
  <1>7. /\ Instant(e) \in Int /\ Instant(Epoch(t)) \in Int /\ Instant(life) \in Int
        /\ Instant(Capped(e, s)) \in Int
    BY <1>1, <1>2, <1>3, InstantType
  <1>8. Instant(Capped(e, s)) <= t + Instant(life)
    BY <1>4, <1>5, <1>6, <1>7
  <1>9. settings.session # NoLimit => Capped(e, s) <= s + settings.session
    BY <1>2, CappedFacts
  <1> QED
    BY <1>3, <1>8, <1>9 DEF e

\* What the claims of a token and the times of its row are.
LEMMA TokenType ==
  ASSUME ClockTypeOK, NEW t \in 1..issued
  PROVE  /\ exp[t] \in Nat /\ Instant(exp[t]) \in Int
         /\ accessExp[t] \in Nat /\ Instant(accessExp[t]) \in Int
         /\ created[t] \in 0..now /\ read[t] \in 0..now /\ start[t] \in Nat \cup {-1}
  <1>1. t \in Token
    BY ClockAssumption DEF ClockTypeOK, Token
  <1>2. exp[t] \in Nat /\ accessExp[t] \in Nat
    BY <1>1 DEF ClockTypeOK, Claim
  <1>3. created[t] \in 0..now /\ read[t] \in 0..now /\ start[t] \in Nat \cup {-1}
    BY <1>1 DEF ClockTypeOK
  <1> QED
    BY <1>2, <1>3, InstantType

-----------------------------------------------------------------------------
LEMMA ClockInitInv == ClockInit => ClockInv
  <1> SUFFICES ASSUME ClockInit PROVE ClockInv
    OBVIOUS
  <1>1. settings.refresh \in Nat /\ settings.access \in Nat
    BY LifetimeType DEF ClockInit
  <1>2. ClockTypeOK
    <2>1. issued \in 0..MaxToken /\ rows \subseteq 1..issued /\ now \in Time /\ cutoff \in 0..now
      BY ClockAssumption DEF ClockInit, Time
    <2>2. /\ start \in [Token -> Nat \cup {-1}] /\ exp \in Claim /\ accessExp \in Claim
          /\ created \in [Token -> 0..now] /\ read \in [Token -> 0..now]
      BY <1>1, <2>1 DEF ClockInit, Claim
    <2>3. /\ pc \in [Req -> ClockPC] /\ tok \in [Req -> 0..issued]
          /\ at \in [Req -> 0..now] /\ loaded \in [Req -> 0..now]
      BY <2>1 DEF ClockInit, ClockPC
    <2> QED
      BY <2>1, <2>2, <2>3 DEF ClockInit, ClockTypeOK
  <1>3. Newest /\ Opener /\ Over /\ OneDeadline
    BY ClockAssumption DEF ClockInit, Newest, Opener, Over, OneDeadline, Token
  <1>4. StoredAfter
    <2> SUFFICES ASSUME NEW t \in 1..issued PROVE
                   /\ Instant(exp[t]) <= created[t] + Instant(settings.refresh)
                   /\ Instant(accessExp[t]) <= created[t] + Instant(settings.access)
                   /\ \A u \in t..issued : created[t] <= created[u]
                   /\ t # 1 => read[t] = created[t]
      BY DEF StoredAfter
    <2>1. issued \in 0..MaxToken
      BY <1>2 DEF ClockTypeOK
    <2>2. t \in Token /\ \A u \in t..issued : u \in Token
      BY <2>1, ClockAssumption DEF Token
    <2>3. /\ exp[t] = settings.refresh /\ accessExp[t] = settings.access
          /\ created[t] = 0 /\ read[t] = 0 /\ \A u \in t..issued : created[u] = 0
      BY <2>2 DEF ClockInit
    <2> QED
      BY <1>1, <2>3, InstantType
  <1> QED
    BY <1>2, <1>3, <1>4 DEF ClockInv
\* A login or a rotation that stores a row, in a session that neither was closed nor purged,
\* of which the tokens that have a start have this one.
LEMMA IssueFacts ==
  ASSUME ClockInv, NEW t \in 0..now, NEW s \in Nat, NEW old, NEW seen \in 0..now,
         Issue(t, s, old, seen), rows \subseteq {old}, issued = 0 \/ seen = now,
         \A u \in 1..issued : start[u] # -1 => start[u] = s,
         closed = -1, purged = {},
         settings' = settings, now' = now, closed' = closed, purged' = purged
  PROVE  /\ issued' = issued + 1 /\ issued' \in 1..MaxToken
         /\ start' \in [Token -> Nat \cup {-1}] /\ exp' \in Claim /\ accessExp' \in Claim
         /\ created' \in [Token -> 0..now] /\ read' \in [Token -> 0..now]
         /\ Newest' /\ OneDeadline' /\ StoredAfter' /\ Over'
  <1> DEFINE n == issued + 1
             E == Capped(Epoch(t) + settings.refresh, s)
             A == Capped(Epoch(t) + settings.access, s)
  <1>1. /\ n \in Token /\ issued' = n /\ rows' = {n}
        /\ start' = [start EXCEPT ![n] = s] /\ exp' = [exp EXCEPT ![n] = E]
        /\ accessExp' = [accessExp EXCEPT ![n] = A] /\ read' = [read EXCEPT ![n] = seen]
        /\ created' = [created EXCEPT ![n] = now]
    BY DEF Issue
  <1>2. /\ issued \in Nat /\ now \in Nat /\ t \in Nat /\ settings \in Lifetimes
        /\ settings.refresh \in Nat /\ settings.access \in Nat
        /\ settings.session \in Nat \/ settings.session = NoLimit
    BY LifetimeType DEF ClockInv, ClockTypeOK, Time
  <1>3. /\ E \in Nat /\ Instant(E) <= t + Instant(settings.refresh)
        /\ settings.session # NoLimit => E <= s + settings.session
    BY <1>2, ClaimFacts
  <1>4. /\ A \in Nat /\ Instant(A) <= t + Instant(settings.access)
        /\ settings.session # NoLimit => A <= s + settings.session
    BY <1>2, ClaimFacts
  <1> HIDE DEF E, A
  <1>5. /\ start \in [Token -> Nat \cup {-1}] /\ exp \in Claim /\ accessExp \in Claim
        /\ created \in [Token -> 0..now] /\ read \in [Token -> 0..now]
    BY DEF ClockInv, ClockTypeOK
  <1>6. issued' = issued + 1 /\ issued' \in 1..MaxToken
    BY <1>1, <1>2 DEF Token
  <1>7. /\ start' \in [Token -> Nat \cup {-1}] /\ exp' \in Claim /\ accessExp' \in Claim
        /\ created' \in [Token -> 0..now] /\ read' \in [Token -> 0..now]
    BY <1>1, <1>2, <1>3, <1>4, <1>5 DEF Claim
  <1>8. /\ start'[n] = s /\ exp'[n] = E /\ accessExp'[n] = A /\ created'[n] = now
        /\ read'[n] = seen
    BY <1>1, <1>5 DEF Claim
  <1>9. \A u \in 1..issued :
          /\ u \in Token /\ u # n
          /\ start'[u] = start[u] /\ exp'[u] = exp[u] /\ accessExp'[u] = accessExp[u]
          /\ created'[u] = created[u] /\ read'[u] = read[u]
    <2> SUFFICES ASSUME NEW u \in 1..issued
                 PROVE  /\ u \in Token /\ u # n
                        /\ start'[u] = start[u] /\ exp'[u] = exp[u]
                        /\ accessExp'[u] = accessExp[u]
                        /\ created'[u] = created[u] /\ read'[u] = read[u]
      OBVIOUS
    <2>1. u \in Token /\ u # n
      BY <1>1, <1>2, ClockAssumption DEF Token
    <2> QED
      BY <1>1, <1>5, <2>1 DEF Claim
  <1>10. \A u \in 1..n : u = n \/ u \in 1..issued
    BY <1>2
  <1>11. \A u \in 1..issued : \A v \in u..n : v = n \/ v \in u..issued
    BY <1>2
  <1>12. Newest'
    BY <1>1 DEF Newest
  <1>13. OneDeadline'
    <2>1. ASSUME NEW u \in 1..issued, start[u] # -1
          PROVE  /\ \A v \in u..n : start'[v] = start'[u]
                 /\ settings.session # NoLimit =>
                      /\ exp'[u] <= start'[u] + settings.session
                      /\ accessExp'[u] <= start'[u] + settings.session
      <3>1. start[u] = s
        BY <2>1
      <3>2. \A v \in u..issued : start[v] = start[u] /\ v \in 1..issued
        BY <2>1, <1>2 DEF ClockInv, OneDeadline
      <3>3. \A v \in u..n : start'[v] = start'[u]
        BY <3>1, <3>2, <1>8, <1>9, <1>11
      <3> QED
        BY <3>3, <2>1, <1>9 DEF ClockInv, OneDeadline
    <2>2. /\ \A v \in n..n : start'[v] = start'[n]
          /\ settings.session # NoLimit =>
               /\ exp'[n] <= start'[n] + settings.session
               /\ accessExp'[n] <= start'[n] + settings.session
      BY <1>2, <1>3, <1>4, <1>8
    <2>3. ASSUME NEW u \in 1..n, start'[u] # -1
          PROVE  /\ \A v \in u..n : start'[v] = start'[u]
                 /\ settings.session # NoLimit =>
                      /\ exp'[u] <= start'[u] + settings.session
                      /\ accessExp'[u] <= start'[u] + settings.session
      BY <2>1, <2>2, <2>3, <1>9, <1>10
    <2> QED
      BY <2>3, <1>1 DEF OneDeadline
  <1>14. StoredAfter'
    <2>1. ASSUME NEW u \in 1..issued
          PROVE  /\ Instant(exp'[u]) <= created'[u] + Instant(settings.refresh)
                 /\ Instant(accessExp'[u]) <= created'[u] + Instant(settings.access)
                 /\ \A v \in u..n : created'[u] <= created'[v]
                 /\ u # 1 => read'[u] = created'[u]
      <3>1. \A v \in u..issued : v \in 1..issued /\ created[u] <= created[v]
        BY <1>2 DEF ClockInv, StoredAfter
      <3>2. created[u] <= now
        BY <1>2, <1>5, <1>9
      <3>3. \A v \in u..n : created'[u] <= created'[v]
        BY <3>1, <3>2, <1>8, <1>9, <1>11
      <3> QED
        BY <3>3, <1>9 DEF ClockInv, StoredAfter
    <2>2. /\ Instant(exp'[n]) <= created'[n] + Instant(settings.refresh)
          /\ Instant(accessExp'[n]) <= created'[n] + Instant(settings.access)
          /\ \A v \in n..n : created'[n] <= created'[v]
          /\ n # 1 => read'[n] = created'[n]
      <3>1. /\ Instant(E) \in Int /\ Instant(A) \in Int
            /\ Instant(settings.refresh) \in Int /\ Instant(settings.access) \in Int
        BY <1>2, <1>3, <1>4, InstantType
      <3>2. Instant(E) <= now + Instant(settings.refresh)
        BY <3>1, <1>2, <1>3
      <3>3. Instant(A) <= now + Instant(settings.access)
        BY <3>1, <1>2, <1>4
      <3>4. n # 1 => seen = now
        BY <1>2
      <3>5. \A v \in n..n : v = n
        BY <1>2
      <3> QED
        BY <3>2, <3>3, <3>4, <3>5, <1>2, <1>8
    <2> QED
      BY <2>1, <2>2, <1>1, <1>10 DEF StoredAfter, Instant
  <1>15. Over'
    BY DEF Over
  <1> QED
    BY <1>6, <1>7, <1>12, <1>13, <1>14, <1>15
\* A step that stores no row leaves the claims of the session as they are.
LEMMA NothingIssued ==
  ASSUME ClockInv, rows' \subseteq rows,
         UNCHANGED <<settings, issued, start, exp, accessExp, read, created>>
  PROVE  Newest' /\ OneDeadline' /\ StoredAfter'
  BY DEF ClockInv, Newest, OneDeadline, StoredAfter, Instant

\* An end of the session: there are no rows any more, and none were created since.
LEMMA CloseFacts ==
  ASSUME ClockInv, CloseSession, issued # 0
  PROVE  Newest' /\ OneDeadline' /\ StoredAfter' /\ Over' /\ closed' \in {-1} \cup 0..now
  <1>1. rows' = {} /\ UNCHANGED <<settings, now, issued, start, exp, accessExp, read, created,
                                  purged>>
    BY DEF CloseSession
  <1>2. Newest' /\ OneDeadline' /\ StoredAfter'
    BY <1>1, NothingIssued
  <1>3. closed' = IF closed = -1 THEN now ELSE closed
    BY DEF CloseSession
  <1>4. issued \in 1..MaxToken /\ now \in Nat /\ created \in [Token -> 0..now]
        /\ closed \in {-1} \cup 0..now
    BY DEF ClockInv, ClockTypeOK, Time
  <1>5. \A t \in 1..issued : created[t] <= now
    BY <1>4, ClockAssumption DEF Token
  <1>6. closed' \in {-1} \cup 0..now /\ \A t \in 1..issued : created[t] <= closed'
    BY <1>3, <1>4, <1>5 DEF ClockInv, Over
  <1>7. Over'
    BY <1>1, <1>6 DEF ClockInv, Over, Instant
  <1> QED
    BY <1>2, <1>6, <1>7

\* Every step of the module preserves the invariant.
LEMMA ClockNextInv == ClockInv /\ [ClockNext]_clockVars => ClockInv'
  <1> SUFFICES ASSUME ClockInv, [ClockNext]_clockVars PROVE ClockInv'
    OBVIOUS
  <1> USE DEF sessionVars, clockReqVars, purgeVars, clockHistVars
  <1>0. /\ settings \in Lifetimes /\ now \in Nat /\ now <= MaxTime /\ issued \in Nat
        /\ settings.refresh \in Nat /\ settings.access \in Nat
        /\ pc \in [Req -> ClockPC] /\ tok \in [Req -> 0..issued]
        /\ at \in [Req -> 0..now] /\ loaded \in [Req -> 0..now]
        /\ start \in [Token -> Nat \cup {-1}] /\ created \in [Token -> 0..now]
    BY LifetimeType DEF ClockInv, ClockTypeOK, Time
  \* What is left to show of a step of a request that leaves the session alone.
  <1>1. ASSUME UNCHANGED <<settings, now, sessionVars, clockHistVars>>
        PROVE  Newest' /\ OneDeadline' /\ StoredAfter' /\ Over'
    <2>1. Newest' /\ OneDeadline' /\ StoredAfter'
      BY <1>1, NothingIssued
    <2>2. Over'
      BY <1>1 DEF ClockInv, Over, Instant
    <2> QED
      BY <2>1, <2>2
  <1>2. ASSUME NEW r \in Req, Load(r) PROVE ClockInv'
    <2>1. ClockTypeOK' /\ Opener'
      BY <1>0, <1>2 DEF Load, Proceed, ClockInv, ClockTypeOK, Opener, ClockPC
    <2> QED
      BY <1>1, <1>2, <2>1 DEF Load, ClockInv
  <1>3. ASSUME NEW r \in Req, Begin(r) PROVE ClockInv'
    <2>1. ClockTypeOK' /\ Opener'
      BY <1>0, <1>3 DEF Begin, Proceed, ClockInv, ClockTypeOK, Opener, ClockPC
    <2> QED
      BY <1>1, <1>3, <2>1 DEF Begin, ClockInv
  <1>4. ASSUME NEW r \in Req, Open(r) PROVE ClockInv'
    <2>1. /\ pc[r] = "open" /\ issued = 0 /\ Issue(at[r], Epoch(at[r]), 0, loaded[r])
          /\ UNCHANGED <<settings, now, purgeVars, clockHistVars>>
      BY <1>4 DEF Open, Release, Proceed, ClockInv, Opener
    <2>2. rows = {} /\ closed = -1 /\ purged = {}
      BY <2>1 DEF ClockInv, ClockTypeOK, Over
    <2>3. at[r] \in 0..now /\ loaded[r] \in 0..now /\ Epoch(at[r]) \in Nat
      BY <1>0, EpochType
    <2>4. /\ issued' = issued + 1 /\ issued' \in 1..MaxToken
          /\ start' \in [Token -> Nat \cup {-1}] /\ exp' \in Claim /\ accessExp' \in Claim
          /\ created' \in [Token -> 0..now] /\ read' \in [Token -> 0..now]
          /\ Newest' /\ OneDeadline' /\ StoredAfter' /\ Over'
      BY <2>1, <2>2, <2>3, IssueFacts
    <2>5. Opener'
      BY <1>0, <1>4, <2>1 DEF Open, Release, Proceed, ClockInv, Opener
    <2>6. ClockTypeOK'
      <3>1. /\ pc' \in [Req -> ClockPC] /\ tok' \in [Req -> 0..issued']
            /\ at' \in [Req -> 0..now] /\ loaded' \in [Req -> 0..now]
        BY <1>0, <1>4, <2>4 DEF Open, Release, Proceed, ClockPC
      <3>2. rows' \subseteq 1..issued' /\ purged' \subseteq 1..issued'
        BY <2>1, <2>2, <2>4 DEF Newest
      <3> QED
        BY <2>1, <2>4, <3>1, <3>2 DEF ClockInv, ClockTypeOK
    <2> QED
      BY <2>4, <2>5, <2>6 DEF ClockInv
  <1>5. ASSUME NEW r \in Req, NEW t \in Token, Present(r, t) PROVE ClockInv'
    <2>1. Opener'
      BY <1>0, <1>5 DEF Present, Proceed, ClockInv, Opener
    <2>2. ClockTypeOK'
      BY <1>0, <1>5 DEF Present, Proceed, ClockInv, ClockTypeOK, ClockPC
    <2> QED
      BY <1>1, <1>5, <2>1, <2>2 DEF Present, ClockInv
  <1>6. ASSUME NEW r \in Req, Rotate(r) PROVE ClockInv'
    <2> DEFINE t == tok[r]
               s == IF start[t] = -1 THEN Epoch(at[r]) ELSE start[t]
    <2>1. /\ pc[r] = "rotate" /\ t \in rows /\ Issue(at[r], s, t, now)
          /\ UNCHANGED <<settings, now, purgeVars, clockHistVars>>
      BY <1>6 DEF Rotate, Release, Proceed
    <2>2. t = issued /\ t \in 1..issued /\ t \in Token /\ rows \subseteq {t}
      BY <2>1, ClockAssumption DEF ClockInv, ClockTypeOK, Newest, Token
    <2>3. closed = -1 /\ purged = {}
      BY <2>1 DEF ClockInv, Over
    <2>4. at[r] \in 0..now /\ s \in Nat
      BY <1>0, <2>2, EpochType
    <2>5. \A u \in 1..issued : start[u] # -1 => start[u] = s
      <3> SUFFICES ASSUME NEW u \in 1..issued, start[u] # -1 PROVE start[u] = s
        OBVIOUS
      <3>1. t \in u..issued
        BY <1>0, <2>2
      <3>2. start[t] = start[u]
        BY <3>1 DEF ClockInv, OneDeadline
      <3> QED
        BY <3>2
    <2> HIDE DEF s
    <2>6. /\ issued' = issued + 1 /\ issued' \in 1..MaxToken
          /\ start' \in [Token -> Nat \cup {-1}] /\ exp' \in Claim /\ accessExp' \in Claim
          /\ created' \in [Token -> 0..now] /\ read' \in [Token -> 0..now]
          /\ Newest' /\ OneDeadline' /\ StoredAfter' /\ Over'
      BY <1>0, <2>1, <2>2, <2>3, <2>4, <2>5, IssueFacts
    <2>7. Opener'
      BY <1>0, <1>6, <2>2, <2>6 DEF Rotate, Release, Proceed, ClockInv, Opener
    <2>8. ClockTypeOK'
      <3>1. /\ pc' \in [Req -> ClockPC] /\ tok' \in [Req -> 0..issued']
            /\ at' \in [Req -> 0..now] /\ loaded' \in [Req -> 0..now]
        BY <1>0, <1>6, <2>6 DEF Rotate, Release, Proceed, ClockPC
      <3>2. rows' \subseteq 1..issued' /\ purged' \subseteq 1..issued'
        BY <2>1, <2>3, <2>6 DEF Newest
      <3> QED
        BY <2>1, <2>6, <3>1, <3>2 DEF ClockInv, ClockTypeOK
    <2> QED
      BY <2>6, <2>7, <2>8 DEF ClockInv
  <1>7. ASSUME NEW r \in Req, Reject(r) PROVE ClockInv'
    <2>1. ClockTypeOK' /\ Opener'
      BY <1>0, <1>7 DEF Reject, Release, Proceed, ClockInv, ClockTypeOK, Opener, ClockPC
    <2> QED
      BY <1>1, <1>7, <2>1 DEF Reject, ClockInv
  <1>8. ASSUME NEW r \in Req, Close(r) PROVE ClockInv'
    <2>1. issued # 0 /\ CloseSession
      BY <1>8 DEF Close, Release, Proceed, ClockInv, Opener
    <2>2. Newest' /\ OneDeadline' /\ StoredAfter' /\ Over' /\ closed' \in {-1} \cup 0..now
      BY <2>1, CloseFacts
    <2>3. ClockTypeOK' /\ Opener'
      BY <1>0, <1>8, <2>2
      DEF Close, CloseSession, Release, Proceed, ClockInv, ClockTypeOK, Opener, ClockPC
    <2> QED
      BY <2>2, <2>3 DEF ClockInv
  <1>9. CASE Logout
    <2>1. Newest' /\ OneDeadline' /\ StoredAfter' /\ Over' /\ closed' \in {-1} \cup 0..now
      BY <1>0, <1>9, CloseFacts DEF Logout
    <2>2. ClockTypeOK' /\ Opener'
      BY <1>0, <1>9, <2>1 DEF Logout, CloseSession, ClockInv, ClockTypeOK, Opener
    <2> QED
      BY <2>1, <2>2 DEF ClockInv
  <1>10. CASE StartPurge
    <2>1. ClockTypeOK' /\ Opener'
      BY <1>0, <1>10 DEF StartPurge, ClockInv, ClockTypeOK, Opener
    <2> QED
      BY <1>1, <1>10, <2>1 DEF StartPurge, ClockInv
  <1>11. CASE PurgeTokens
    <2>1. ClockTypeOK' /\ Opener'
      BY <1>0, <1>11 DEF PurgeTokens, ClockInv, ClockTypeOK, Opener
    <2> QED
      BY <1>1, <1>11, <2>1 DEF PurgeTokens, ClockInv
  <1>12. CASE PurgeSessions
    <2> DEFINE old == {t \in rows : created[t] < cutoff - Instant(SessionRetention)}
    <2>1. /\ rows' = rows \ old /\ purged' = purged \cup old
          /\ purging' = "idle" /\ cutoff' = 0
          /\ UNCHANGED <<settings, now, issued, start, exp, accessExp, read, created,
                         clockReqVars, closed>>
      BY <1>12 DEF PurgeSessions
    <2>2. old \subseteq rows
      OBVIOUS
    <2>3. Newest' /\ OneDeadline' /\ StoredAfter'
      BY <2>1, <2>2, NothingIssued
    <2>4. rows \subseteq 1..issued /\ rows \subseteq {issued} /\ cutoff \in 0..now
      BY DEF ClockInv, ClockTypeOK, Newest
    \* The row that is removed is the only one, and it is younger than all claims are.
    <2>5. ASSUME NEW t \in old
          PROVE  /\ rows' = {} /\ issued # 0 /\ Instant(exp[t]) <= now
                 /\ \A u \in 1..issued : Instant(accessExp[u]) <= now
      <3>1. t = issued /\ issued # 0 /\ rows' = {} /\ t \in 1..issued
        <4>1. t \in rows
          OBVIOUS
        <4>2. t = issued /\ t \in 1..issued /\ rows \subseteq {t}
          BY <2>4, <4>1
        <4>3. rows' = {}
          BY <2>1, <4>2
        <4> QED
          BY <1>0, <4>2, <4>3
      <3>2. /\ SessionRetention \in Nat
            /\ settings.refresh <= SessionRetention /\ settings.access <= SessionRetention
        BY <1>0 DEF SessionRetention, Larger
      <3>3. /\ Instant(settings.refresh) <= Instant(SessionRetention)
            /\ Instant(settings.access) <= Instant(SessionRetention)
        BY <1>0, <3>2, InstantMonotone
      <3>4. /\ Instant(SessionRetention) \in Int /\ Instant(settings.refresh) \in Int
            /\ Instant(settings.access) \in Int
        BY <1>0, <3>2, InstantType
      <3>5. created[t] \in Nat /\ cutoff \in Nat /\ cutoff <= now
        BY <1>0, <2>4, <3>1, ClockAssumption DEF ClockInv, ClockTypeOK, Token
      <3>6. created[t] < cutoff - Instant(SessionRetention)
        OBVIOUS
      <3> HIDE DEF old
      <3>7. Instant(exp[t]) <= now
        <4>1. exp[t] \in Nat /\ Instant(exp[t]) \in Int
          BY <3>1, TokenType DEF ClockInv
        <4>2. Instant(exp[t]) <= created[t] + Instant(settings.refresh)
          BY <3>1 DEF ClockInv, StoredAfter
        <4> QED
          BY <1>0, <3>3, <3>4, <3>5, <3>6, <4>1, <4>2
      <3>8. ASSUME NEW u \in 1..issued PROVE Instant(accessExp[u]) <= now
        <4>1. accessExp[u] \in Nat /\ Instant(accessExp[u]) \in Int /\ created[u] \in Nat
          BY <1>0, TokenType DEF ClockInv
        <4>2. created[u] <= created[t]
          BY <1>0, <3>1 DEF ClockInv, StoredAfter
        <4>3. Instant(accessExp[u]) <= created[u] + Instant(settings.access)
          BY DEF ClockInv, StoredAfter
        <4> QED
          BY <1>0, <3>3, <3>4, <3>5, <3>6, <4>1, <4>2, <4>3
      <3> QED
        BY <3>1, <3>7, <3>8
    <2>6. Over'
      <3>1. CASE old = {}
        BY <2>1, <3>1 DEF ClockInv, Over, Instant
      <3>2. ASSUME NEW t \in old PROVE Over'
        <4>1. purged = {} /\ closed = -1 /\ old \subseteq {t}
          BY <2>4 DEF ClockInv, Over
        <4> HIDE DEF old
        <4> QED
          BY <2>1, <2>5, <3>2, <4>1 DEF Over, Instant
      <3> QED
        BY <3>1, <3>2
    <2>7. rows' \subseteq 1..issued /\ purged' \subseteq 1..issued
      BY <2>1, <2>2, <2>4 DEF ClockInv, ClockTypeOK
    <2> HIDE DEF old
    <2>8. cutoff' \in 0..now
      BY <1>0, <2>1
    <2>9. ClockTypeOK' /\ Opener'
      BY <1>0, <2>1, <2>7, <2>8 DEF ClockInv, ClockTypeOK, Opener
    <2> QED
      BY <2>3, <2>6, <2>9 DEF ClockInv
  <1>13. CASE Tick
    <2>1. now' = now + 1 /\ now' \in Time
          /\ UNCHANGED <<settings, sessionVars, clockReqVars, purgeVars, clockHistVars>>
      BY <1>0, <1>13, ClockAssumption DEF Tick, Time
    <2>2. Newest' /\ OneDeadline' /\ StoredAfter'
      BY <2>1, NothingIssued
    <2>3. \A t \in 1..issued : Instant(exp[t]) \in Int /\ Instant(accessExp[t]) \in Int
      BY TokenType DEF ClockInv
    <2>4. purged \subseteq 1..issued
      BY DEF ClockInv, ClockTypeOK
    <2>5. Over'
      BY <1>0, <2>1, <2>3, <2>4 DEF ClockInv, Over
    <2>6. ClockTypeOK' /\ Opener'
      BY <1>0, <2>1 DEF ClockInv, ClockTypeOK, Opener
    <2> QED
      BY <2>2, <2>5, <2>6 DEF ClockInv
  <1>14. CASE UNCHANGED clockVars
    <2>1. ClockTypeOK' /\ Opener'
      BY <1>14 DEF clockVars, ClockInv, ClockTypeOK, Opener
    <2> QED
      BY <1>1, <1>14, <2>1 DEF clockVars, ClockInv
  <1> QED
    BY <1>2, <1>3, <1>4, <1>5, <1>6, <1>7, <1>8, <1>9, <1>10, <1>11, <1>12, <1>13, <1>14
    DEF ClockNext
LEMMA ClockInvariant == ClockSpec => []ClockInv
  BY ClockInitInv, ClockNextInv, PTL DEF ClockSpec

-----------------------------------------------------------------------------
\* No exp is beyond the deadline that any earlier token of the session has set.
LEMMA DeadlineKept == ClockInv => NothingOutlivesSession
  <1> SUFFICES ASSUME ClockInv, settings.session # NoLimit,
                      NEW t \in 1..issued, NEW u \in 1..issued, start[t] # -1, t <= u
               PROVE  /\ exp[u] <= start[t] + settings.session
                      /\ accessExp[u] <= start[t] + settings.session
    BY DEF NothingOutlivesSession
  <1>1. u \in t..issued
    BY DEF ClockInv, ClockTypeOK
  <1>2. start[u] = start[t]
    BY <1>1 DEF ClockInv, OneDeadline
  <1> QED
    BY <1>2 DEF ClockInv, OneDeadline

\* What the purge of sessions removed is expired, and so is every access token.
LEMMA PurgedIsDead == ClockInv => PurgeEndsNothing
  <1> SUFFICES ASSUME ClockInv PROVE PurgeEndsNothing
    OBVIOUS
  <1>1. now \in Nat /\ purged \subseteq 1..issued
    BY DEF ClockInv, ClockTypeOK, Time
  <1>2. \A t \in 1..issued : Instant(exp[t]) \in Int /\ Instant(accessExp[t]) \in Int
    BY TokenType DEF ClockInv
  <1> QED
    BY <1>1, <1>2 DEF ClockInv, Over, PurgeEndsNothing, Alive

\* An access token of a closed session was handed out before it was closed.
LEMMA ClosedIsExposed == ClockInv => ExposureBounded
  <1> SUFFICES ASSUME ClockInv, closed # -1, NEW t \in 1..issued, NEW check \in BOOLEAN,
                      Honoured(t, check)
               PROVE  ~ check /\ now < closed + Instant(settings.access)
    BY DEF ExposureBounded
  <1>1. rows = {} /\ created[t] <= closed
    BY DEF ClockInv, Over
  <1>2. ~ check /\ Instant(accessExp[t]) > now
    BY <1>1 DEF Honoured, SessionActive, Alive
  <1>3. Instant(accessExp[t]) <= created[t] + Instant(settings.access)
    BY DEF ClockInv, StoredAfter
  <1>4. /\ now \in Nat /\ closed \in Nat /\ created[t] \in Nat
        /\ Instant(accessExp[t]) \in Int /\ Instant(settings.access) \in Int
    BY TokenType, LifetimeType, InstantType DEF ClockInv, ClockTypeOK, Time
  <1> QED
    BY <1>1, <1>2, <1>3, <1>4

\* An access token lives from when its row was stored, which is when a rotation has read the
\* account.
LEMMA PrivilegesAreRead == ClockInv => PrivilegesFade
  <1> SUFFICES ASSUME ClockInv, NEW t \in 1..issued, NEW c \in 0..now,
                      read[t] <= c, Alive(accessExp[t])
               PROVE  now < Larger(c, IF t = 1 THEN created[t] ELSE c)
                              + Instant(settings.access)
    BY DEF PrivilegesFade
  <1>1. Instant(accessExp[t]) <= created[t] + Instant(settings.access)
    BY DEF ClockInv, StoredAfter
  <1>2. /\ now \in Nat /\ created[t] \in Nat
        /\ Instant(accessExp[t]) \in Int /\ Instant(settings.access) \in Int
    BY TokenType, LifetimeType, InstantType DEF ClockInv, ClockTypeOK, Time
  <1>3. created[t] <= Larger(c, IF t = 1 THEN created[t] ELSE c)
    BY <1>2 DEF ClockInv, StoredAfter, Larger
  <1>4. Larger(c, IF t = 1 THEN created[t] ELSE c) \in Int
    BY <1>2 DEF Larger
  <1> QED
    BY <1>1, <1>2, <1>3, <1>4 DEF Alive

\* A row that is old enough to be purged is that of a dead token, but for the second that
\* Django's count of a link's age loses.
LEMMA PurgedIsUseless == ClockInv => PurgeTakesNothingGood
  <1> SUFFICES ASSUME ClockInv, NEW kind \in Kind, NEW stored \in 0..now,
                      NEW made \in 0..stored, Old(kind, stored), Usable(kind, made, stored)
               PROVE  kind = "link" /\ now < made + Instant(LinkLife + 1)
    BY DEF PurgeTakesNothingGood
  <1>1. /\ now \in Nat /\ cutoff \in 0..now /\ settings.access \in Nat /\ made \in Nat
        /\ made <= stored /\ stored \in Nat
    BY LifetimeType DEF ClockInv, ClockTypeOK, Time
  <1>2. stored < cutoff - Instant(Retention(kind))
    BY DEF Old
  <1>3. Epoch(made) \in Nat /\ Epoch(now) \in Nat
    BY <1>1, EpochType
  <1>4. CASE kind = "link"
    <2>1. Epoch(now) <= Epoch(made) + LinkLife
      BY <1>3, <1>4, ClockAssumption DEF Usable
    <2>2. now < Instant(Epoch(now) + 1)
      BY <1>1, EpochAfter
    <2>3. Instant(Epoch(now) + 1) <= Instant(Epoch(made) + (LinkLife + 1))
      BY <1>3, <2>1, InstantMonotone, ClockAssumption
    <2>4. Instant(Epoch(made) + (LinkLife + 1)) = Instant(Epoch(made)) + Instant(LinkLife + 1)
      BY <1>3, InstantSum, ClockAssumption
    <2>5. Instant(Epoch(made)) <= made
      BY <1>1, EpochBefore
    <2>6. /\ Instant(Epoch(now) + 1) \in Int /\ Instant(Epoch(made)) \in Int
          /\ Instant(LinkLife + 1) \in Int /\ Instant(Epoch(made) + (LinkLife + 1)) \in Int
      BY <1>3, InstantType, ClockAssumption
    <2> QED
      BY <1>1, <1>4, <2>2, <2>3, <2>4, <2>5, <2>6
  <1>5. CASE kind = "capability"
    <2>1. Instant(Epoch(made) + settings.access) > now /\ Retention(kind) = settings.access
      BY <1>5 DEF Usable, Alive, Retention
    <2>2. Instant(Epoch(made) + settings.access)
            = Instant(Epoch(made)) + Instant(settings.access)
      <3>1. Epoch(made) \in Int /\ settings.access \in Int
        BY <1>1, <1>3
      <3> QED
        BY <3>1, InstantSum, Zenon
    <2>3. Instant(Epoch(made)) <= made
      BY <1>1, EpochBefore
    <2>4. /\ Instant(Epoch(made) + settings.access) \in Int /\ Instant(Epoch(made)) \in Int
          /\ Instant(settings.access) \in Int
      BY <1>1, <1>3, InstantType
    <2> QED
      BY <1>1, <1>2, <2>1, <2>2, <2>3, <2>4
  <1>6. CASE kind = "row"
    <2>1. stored >= now - Instant(RowLife) /\ Retention(kind) = RowLife
      BY <1>6 DEF Usable, Retention
    <2>2. Instant(RowLife) \in Int
      BY InstantType, ClockAssumption
    <2> QED
      BY <1>1, <1>2, <2>1, <2>2
  <1> QED
    BY <1>4, <1>5, <1>6 DEF Kind

-----------------------------------------------------------------------------
\* Type correctness of TokenClock.
THEOREM ClockTypeCorrect == ClockSpec => []ClockTypeOK
  BY ClockInvariant, PTL DEF ClockInv

\* However a session is rotated, no token of it outlives the deadline set with its first
\* start (cap_exp_to_session and the session_iat that a rotation carries over).
THEOREM NothingOutlivesSessionHolds == ClockSpec => []NothingOutlivesSession
  BY ClockInvariant, DeadlineKept, PTL

\* The purge of old sessions changes no answer (session_retention is the larger of the two
\* lifetimes, and its cutoff is taken from the clock).
THEOREM PurgeEndsNothingHolds == ClockSpec => []PurgeEndsNothing
  BY ClockInvariant, PurgedIsDead, PTL

\* A revocation leaves an access token at most one access token lifetime, and none where the
\* session is checked.
THEOREM ExposureBoundedHolds == ClockSpec => []ExposureBounded
  BY ClockInvariant, ClosedIsExposed, PTL

\* A change of the account is followed within one access token lifetime, but by the login
\* that had loaded the account before (sync_user_claims).
THEOREM PrivilegesFadeHolds == ClockSpec => []PrivilegesFade
  BY ClockInvariant, PrivilegesAreRead, PTL

\* The purge of single-use tokens takes none that is still good, but a link in the last
\* second of its life (expired and the retentions of purge.py).
THEOREM PurgeTakesNothingGoodHolds == ClockSpec => []PurgeTakesNothingGood
  BY ClockInvariant, PurgedIsUseless, PTL

-----------------------------------------------------------------------------
(* What the claims are.                                                    *)

\* What of an account is found for the attributes of a map.
Found(map, u) == {n \in DOMAIN map : u.value[map[n]] # Missing}

\* The claims are those of the account, but for what else may be among them.
Says(claims, map, u) ==
  /\ claims["jti"] = "own"
  /\ claims["role"] = GetUserRole(u)
  /\ claims["email_verified"] = u.verified
  /\ \A n \in Found(map, u) \ RESERVED_CLAIMS : claims[n] = u.value[map[n]]

\* The claims of a login, and those of a rotation.
LEMMA LoginClaims ==
  ASSUME NEW map \in AttributeMaps, NEW u
  PROVE  /\ DOMAIN ForUser(map, u) = RESERVED_CLAIMS \cup Found(map, u)
         /\ Says(ForUser(map, u), map, u)
<1> DEFINE base == SetEmailVerified(SetUserRole([jti |-> "own"], u), u)
<1>1. /\ DOMAIN base = RESERVED_CLAIMS /\ base["jti"] = "own"
      /\ base["role"] = GetUserRole(u) /\ base["email_verified"] = u.verified
  BY DEF SetEmailVerified, SetUserRole, Claiming, RESERVED_CLAIMS
<1> HIDE DEF base
<1>2. ForUser(map, u) = SetUserAttributes(base, map, u)
  BY DEF ForUser, base
<1> QED BY <1>1, <1>2 DEF Says, SetUserAttributes, Found, RESERVED_CLAIMS

LEMMA RotationClaims ==
  ASSUME NEW map \in AttributeMaps, NEW u, NEW claims, "jti" \in DOMAIN claims, claims["jti"] = "own"
  PROVE  /\ DOMAIN SyncUserClaims(claims, map, u) =
              RESERVED_CLAIMS \cup (DOMAIN claims \ (DOMAIN map \cup RESERVED_CLAIMS))
                              \cup Found(map, u)
         /\ Says(SyncUserClaims(claims, map, u), map, u)
<1> DEFINE dropped == DOMAIN map \ RESERVED_CLAIMS
           kept == [n \in DOMAIN claims \ dropped |-> claims[n]]
           base == SetEmailVerified(SetUserRole(kept, u), u)
<1>1. /\ DOMAIN kept = DOMAIN claims \ dropped
      /\ "jti" \in DOMAIN kept /\ kept["jti"] = "own"
  BY DEF RESERVED_CLAIMS
<1> HIDE DEF kept
<1>2. /\ DOMAIN base = DOMAIN kept \cup {"role", "email_verified"}
      /\ base["jti"] = "own"
      /\ base["role"] = GetUserRole(u) /\ base["email_verified"] = u.verified
  BY <1>1 DEF SetEmailVerified, SetUserRole, Claiming
<1>3. DOMAIN base = RESERVED_CLAIMS \cup (DOMAIN claims \ (DOMAIN map \cup RESERVED_CLAIMS))
  BY <1>1, <1>2 DEF RESERVED_CLAIMS
<1> HIDE DEF base
<1>4. SyncUserClaims(claims, map, u) = SetUserAttributes(base, map, u)
  BY DEF SyncUserClaims, base, kept
<1> QED BY <1>2, <1>3, <1>4 DEF Says, SetUserAttributes, Found, RESERVED_CLAIMS

-----------------------------------------------------------------------------
(* What the tokens of a session say, one after the other.                  *)

\* The claims of the n-th token, of those of the one before it.
Telling(n, old, k, u, v, before, after) ==
  LET map == IF n <= k THEN before ELSE after
      user == IF n <= k THEN u ELSE v
  IN  IF n = 1 THEN ForUser(map, user) ELSE SyncUserClaims(old, map, user)

\* f is the claims of the first t tokens.
Tells(f, t, k, u, v, before, after) ==
  f = [n \in 1..t |-> Telling(n, f[n - 1], k, u, v, before, after)]

\* However many tokens there are, they have claims: the first number without would have a
\* predecessor that has.
LEMMA SomethingTold ==
  ASSUME NEW k, NEW u, NEW v, NEW before, NEW after
  PROVE  \A t \in Nat : \E f : Tells(f, t, k, u, v, before, after)
<1> DEFINE Untold == {t \in Nat : ~ \E f : Tells(f, t, k, u, v, before, after)}
<1> SUFFICES ASSUME Untold # {} PROVE FALSE
  OBVIOUS
<1>1. PICK t \in Untold : \A x \in Untold : ~ <<x, t>> \in OpToRel(<, Nat)
  BY NatLessThanWellFounded, WFMin
<1>2. CASE t = 0
  <2>1. 1..0 = {}
    BY SMT
  <2>2. Tells([n \in 1..0 |-> 0], 0, k, u, v, before, after)
    BY <2>1 DEF Tells
  <2> QED BY <1>1, <1>2, <2>2
<1>3. CASE t # 0
  <2>0. t \in Nat
    BY <1>1
  <2>1. t - 1 \in Nat /\ t - 1 < t /\ t \in Nat
    BY <2>0, <1>3, SMT
  <2>2. PICK g : Tells(g, t - 1, k, u, v, before, after)
    <3>1. <<t - 1, t>> \in OpToRel(<, Nat)
      BY <2>1 DEF OpToRel
    <3>2. t - 1 \notin Untold
      BY <1>1, <3>1
    <3> QED BY <2>1, <3>2
  <2> DEFINE f == [n \in 1..t |-> IF n = t THEN Telling(t, g[t - 1], k, u, v, before, after)
                                          ELSE g[n]]
  <2>3. ASSUME NEW n \in 1..t
        PROVE  f[n] = Telling(n, f[n - 1], k, u, v, before, after)
    <3>1. n = 1 \/ (n - 1 \in 1..t /\ n - 1 # t)
      BY <2>1, SMT
    <3>2. CASE n = t
      <4>1. n = 1 \/ f[n - 1] = g[t - 1]
        BY <3>1, <3>2
      <4> QED BY <3>2, <4>1 DEF Telling
    <3>3. CASE n # t
      <4>1. n \in 1..(t - 1)
        BY <2>1, <3>3, SMT
      <4>2. f[n] = Telling(n, g[n - 1], k, u, v, before, after)
        BY <2>2, <3>3, <4>1 DEF Tells
      <4>3. n = 1 \/ f[n - 1] = g[n - 1]
        BY <3>1
      <4> QED BY <4>2, <4>3 DEF Telling
    <3> QED BY <3>2, <3>3
  <2> HIDE DEF f
  <2>4. f = [n \in 1..t |-> f[n]]
    BY DEF f
  <2>5. Tells(f, t, k, u, v, before, after)
    BY <2>3, <2>4 DEF Tells
  <2> QED BY <1>1, <2>5
<1> QED BY <1>2, <1>3

\* The t-th token tells what the definition of Told says it does.
LEMMA ToldBuilt ==
  ASSUME NEW t \in Nat \ {0}, NEW k, NEW u, NEW v, NEW before, NEW after
  PROVE  \E f : /\ Told(t, k, u, v, before, after) = f[t]
                /\ \A n \in 1..t : f[n] = Telling(n, f[n - 1], k, u, v, before, after)
<1> DEFINE f == CHOOSE g : Tells(g, t, k, u, v, before, after)
<1>1. Told(t, k, u, v, before, after) = f[t]
  BY DEF Told, Tells, Telling
<1>2. Tells(f, t, k, u, v, before, after)
  BY SomethingTold
<1>3. \A n \in 1..t : f[n] = Telling(n, f[n - 1], k, u, v, before, after)
  BY <1>2 DEF Tells
<1> QED BY <1>1, <1>3

\* What every token of a session says: it has an own number, and no claims but those it
\* manages and those of the names that are or were configured.
Wellformed(claims, before, after) ==
  /\ DOMAIN claims \subseteq RESERVED_CLAIMS \cup DOMAIN before \cup DOMAIN after
  /\ "jti" \in DOMAIN claims /\ claims["jti"] = "own"

LEMMA TellingWellformed ==
  ASSUME NEW k, NEW u, NEW v, NEW before \in AttributeMaps, NEW after \in AttributeMaps,
         NEW n, NEW old, n = 1 \/ Wellformed(old, before, after)
  PROVE  Wellformed(Telling(n, old, k, u, v, before, after), before, after)
<1>1. ASSUME NEW map \in {before, after}, NEW user
      PROVE  /\ Wellformed(ForUser(map, user), before, after)
             /\ Wellformed(old, before, after) =>
                  Wellformed(SyncUserClaims(old, map, user), before, after)
  <2>1. map \in AttributeMaps /\ Found(map, user) \subseteq DOMAIN map
    BY DEF Found
  <2>2. Wellformed(ForUser(map, user), before, after)
    <3>1. /\ DOMAIN ForUser(map, user) = RESERVED_CLAIMS \cup Found(map, user)
          /\ ForUser(map, user)["jti"] = "own"
      BY <2>1, LoginClaims DEF Says
    <3>2. DOMAIN map \subseteq DOMAIN before \cup DOMAIN after
      BY <1>1
    <3> QED BY <2>1, <3>1, <3>2 DEF Wellformed, RESERVED_CLAIMS
  <2>3. ASSUME Wellformed(old, before, after)
        PROVE  Wellformed(SyncUserClaims(old, map, user), before, after)
    <3>0. "jti" \in DOMAIN old /\ old["jti"] = "own"
      BY <2>3 DEF Wellformed
    <3>a. map \in AttributeMaps
      BY <2>1
    <3>b. DOMAIN SyncUserClaims(old, map, user) =
            RESERVED_CLAIMS \cup (DOMAIN old \ (DOMAIN map \cup RESERVED_CLAIMS))
                            \cup Found(map, user)
      BY <3>0, <3>a, RotationClaims
    <3>1. SyncUserClaims(old, map, user)["jti"] = "own"
      BY <3>0, <3>a, RotationClaims DEF Says
    <3>2. DOMAIN map \subseteq DOMAIN before \cup DOMAIN after
      BY <1>1
    <3> QED BY <2>1, <2>3, <3>b, <3>1, <3>2 DEF Wellformed, RESERVED_CLAIMS
  <2> QED BY <2>2, <2>3
<1> QED BY <1>1 DEF Telling

\* The claims of one token are well formed if those of its predecessor are: there is no first
\* token whose are not.
LEMMA AllWellformed ==
  ASSUME NEW t \in Nat, NEW k, NEW u, NEW v,
         NEW before \in AttributeMaps, NEW after \in AttributeMaps, NEW f,
         \A n \in 1..t : f[n] = Telling(n, f[n - 1], k, u, v, before, after)
  PROVE  \A n \in 1..t : Wellformed(f[n], before, after)
<1> DEFINE Bad == {n \in 1..t : ~ Wellformed(f[n], before, after)}
<1> SUFFICES ASSUME Bad # {} PROVE FALSE
  OBVIOUS
<1>1. Bad \subseteq Nat
  BY SMT
<1>2. PICK n \in Bad : \A x \in Bad : ~ <<x, n>> \in OpToRel(<, Nat)
  BY <1>1, NatLessThanWellFounded, WFMin
<1>a. n \in 1..t
  BY <1>2
<1> HIDE DEF Bad
<1>3. n \in 1..t /\ n \in Nat /\ (n = 1 \/ (n - 1 \in 1..t /\ n - 1 \in Nat /\ n - 1 < n))
  BY <1>a, SMT
<1>4. n = 1 \/ Wellformed(f[n - 1], before, after)
  <2> SUFFICES ASSUME n # 1 PROVE n - 1 \notin Bad
    BY <1>3 DEF Bad
  <2>1. <<n - 1, n>> \in OpToRel(<, Nat)
    BY <1>3 DEF OpToRel
  <2> QED BY <1>2, <2>1
<1>5. f[n] = Telling(n, f[n - 1], k, u, v, before, after)
  BY <1>a
<1>6. Wellformed(f[n], before, after)
  <2> DEFINE old == f[n - 1]
  <2>1. f[n] = Telling(n, old, k, u, v, before, after) /\ (n = 1 \/ Wellformed(old, before, after))
    BY <1>4, <1>5
  <2> HIDE DEF old
  <2> QED BY <2>1, TellingWellformed
<1> QED BY <1>2, <1>6 DEF Bad

\* In an installation that the start-up check is silent about, an account that is staff or a
\* superuser has the role its flags stand for: the constraints of JAUser see to it, and
\* without a role field the flags are all there is.
LEMMA PrivilegedRole ==
  ASSUME NEW field \in Field, CheckRoleField(field) = "silent", NEW v \in Users(field),
         v.staff \/ v.super
  PROVE  GetUserRole(v) = RoleFromStaffFlags(v)
         /\ RoleFromStaffFlags(v) \in {STAFF_CODE, SUPER_USER_CODE}
<1>1. v \in User /\ v.staff \in BOOLEAN /\ v.super \in BOOLEAN
  BY DEF Users, User
<1>2. RoleFromStaffFlags(v) \in {STAFF_CODE, SUPER_USER_CODE}
  BY <1>1 DEF RoleFromStaffFlags
<1>3. field \in {"none", "integer"}
  BY DEF Field, CheckRoleField
<1>4. CASE v.role = RoleAtCreation(field, v.staff, v.super, NoRole)
  <2>1. v.role = NoRole \/ v.role = RoleFromStaffFlags(v)
    BY <1>3, <1>4 DEF RoleAtCreation, Held, RoleFromStaffFlags
  <2> QED BY <1>2, <2>1 DEF GetUserRole
<1>5. CASE v.role = NoRole \/ Constrained(v)
  BY <1>1, <1>5 DEF GetUserRole, Constrained, RoleFromStaffFlags
<1> QED BY <1>2, <1>4, <1>5 DEF Users

\* A token whose claims were read after the change says what the account is by then, and
\* what a login would say, but for the names that are not configured any more.
LEMMA ReadTellsOf ==
  ASSUME NEW field \in Field, CheckRoleField(field) = "silent",
         NEW v \in Users(field), NEW before \in AttributeMaps, NEW after \in AttributeMaps,
         NEW claims, NEW old,
         \/ claims = ForUser(after, v)
         \/ claims = SyncUserClaims(old, after, v) /\ Wellformed(old, before, after)
  PROVE  TellsOf(claims, v, before, after)
<1> DEFINE leftover == DOMAIN before \ (DOMAIN after \cup RESERVED_CLAIMS)
           login == ForUser(after, v)
           own == RESERVED_CLAIMS \cup Found(after, v)
<1>1. DOMAIN login = own /\ Says(login, after, v)
  BY LoginClaims
<1>2. Found(after, v) \subseteq DOMAIN after
  BY DEF Found
<1>3. Says(claims, after, v) /\ own \subseteq DOMAIN claims /\ DOMAIN claims \ leftover = own
  <2>1. CASE claims = login
    BY <1>1, <1>2, <2>1
  <2>2. CASE claims = SyncUserClaims(old, after, v) /\ Wellformed(old, before, after)
    <3>1. "jti" \in DOMAIN old /\ old["jti"] = "own"
      BY <2>2 DEF Wellformed
    <3>2. Says(claims, after, v)
      BY <2>2, <3>1, RotationClaims
    <3>3. DOMAIN claims = RESERVED_CLAIMS
             \cup (DOMAIN old \ (DOMAIN after \cup RESERVED_CLAIMS)) \cup Found(after, v)
      BY <2>2, <3>1, RotationClaims
    <3>4. DOMAIN old \subseteq RESERVED_CLAIMS \cup DOMAIN before \cup DOMAIN after
      BY <2>2 DEF Wellformed
    <3> QED BY <1>2, <3>2, <3>3, <3>4 DEF RESERVED_CLAIMS
  <2> QED BY <2>1, <2>2
<1>4. {"role", "email_verified"} \subseteq DOMAIN claims
  BY <1>3 DEF RESERVED_CLAIMS
<1>5. claims["role"] = GetUserRole(v) /\ claims["email_verified"] = v.verified
  BY <1>3 DEF Says
<1>6. IsEmailVerified(claims) <=> v.verified
  BY <1>4, <1>5 DEF IsEmailVerified
<1>7. ASSUME v.staff \/ v.super
      PROVE  /\ claims["role"] = RoleFromStaffFlags(v)
             /\ HasPermission(claims, {}) /\ RegisterUsers(claims, AllowedByDefault)
  <2>1. /\ GetUserRole(v) = RoleFromStaffFlags(v)
        /\ RoleFromStaffFlags(v) \in {STAFF_CODE, SUPER_USER_CODE}
    BY <1>7, PrivilegedRole
  <2> QED BY <1>4, <1>5, <2>1 DEF HasPermission, RegisterUsers, HasPermissionStaffExcluded,
                                  AllowedByDefault
<1>8. [n \in DOMAIN claims \ leftover |-> claims[n]] = login
  <2>1. \A n \in own : claims[n] = login[n]
    BY <1>1, <1>3 DEF Says, RESERVED_CLAIMS
  <2>2. login = [n \in DOMAIN login |-> login[n]]
    BY DEF ForUser, SetUserAttributes
  <2> HIDE DEF login, own
  <2> QED BY <1>1, <1>3, <2>1, <2>2
<1> QED BY <1>6, <1>7, <1>8 DEF TellsOf

\* So does every token but those whose claims were read before it.
LEMMA LaterTokensTell ==
  ASSUME NEW t \in Token, NEW k \in 0..(t - 1)
  PROVE  UpToDate[t][k]
<1>0. t \in Nat \ {0} /\ t \in 1..t /\ k \in 0..MaxToken /\ ~ (t <= k) /\ k \in Nat
  BY ClockAssumption DEF Token
<1>1. ASSUME NEW field \in {f \in Field : CheckRoleField(f) = "silent"},
             NEW u \in Users(field), NEW v \in Users(field),
             NEW before \in AttributeMaps, NEW after \in AttributeMaps
      PROVE  TellsOf(Told(t, k, u, v, before, after), v, before, after)
  <2>1. PICK f : /\ Told(t, k, u, v, before, after) = f[t]
                 /\ \A n \in 1..t : f[n] = Telling(n, f[n - 1], k, u, v, before, after)
    BY <1>0, ToldBuilt
  <2>2. \A n \in 1..t : Wellformed(f[n], before, after)
    BY <1>0, <2>1, AllWellformed
  <2> DEFINE claims == f[t]
             old == f[t - 1]
  <2>3. claims = Telling(t, old, k, u, v, before, after)
    BY <1>0, <2>1
  <2>4. t = 1 \/ Wellformed(old, before, after)
    <3>1. t = 1 \/ t - 1 \in 1..t
      BY <1>0
    <3> QED BY <2>2, <3>1
  <2> HIDE DEF claims, old
  <2>5. \/ claims = ForUser(after, v)
        \/ claims = SyncUserClaims(old, after, v) /\ Wellformed(old, before, after)
    BY <1>0, <2>3, <2>4 DEF Telling
  <2>6. TellsOf(claims, v, before, after)
    BY <2>5, ReadTellsOf
  <2> QED BY <2>1, <2>6 DEF claims
<1> QED BY <1>0, <1>1 DEF UpToDate

\* Of the tokens up to one whose claims were read after an instant, not all were read by then.
LEMMA ReadByThen ==
  ASSUME NEW t \in Nat \ {0}, NEW c \in Nat, read \in [Token -> Nat], t \in Token, read[t] > c
  PROVE  Cardinality({n \in 1..t : read[n] <= c}) \in 0..(t - 1)
<1> DEFINE early == {n \in 1..t : read[n] <= c}
<1>1. early \subseteq 1..(t - 1)
  <2> SUFFICES ASSUME NEW n \in early PROVE n \in 1..(t - 1)
    OBVIOUS
  <2>1. n \in 1..t /\ n # t
    BY DEF Token
  <2> HIDE DEF early
  <2> QED BY <2>1
<1>2. IsFiniteSet(1..(t - 1)) /\ Cardinality(1..(t - 1)) = t - 1
  <2>1. 1 \in Int /\ t - 1 \in Int /\ t - 1 >= 0
    OBVIOUS
  <2>2. Cardinality(1..(t - 1)) = IF 1 > t - 1 THEN 0 ELSE (t - 1) - 1 + 1
    BY <2>1, FS_Interval
  <2> QED BY <2>1, <2>2, FS_Interval
<1> HIDE DEF early
<1>3. Cardinality(early) \in Nat /\ Cardinality(early) <= t - 1
  BY <1>1, <1>2, FS_Subset, FS_CardinalityType
<1> QED BY <1>3 DEF early

\* An access token that still works an access token lifetime after a change was given claims
\* that were read after it, and so were all later ones.
LEMMA OldTokensAreGone == ClockInv => ClaimsFollow
<1> SUFFICES ASSUME ClockInv, NEW t \in 1..issued, NEW c \in 0..now, Alive(accessExp[t]),
                    now >= Larger(c, IF t = 1 THEN created[t] ELSE c) + Instant(settings.access)
             PROVE  UpToDate[t][Cardinality({n \in 1..t : read[n] <= c})]
  BY DEF ClaimsFollow
<1>0. /\ ClockTypeOK /\ MaxToken \in Nat
      /\ now \in Nat /\ issued \in 0..MaxToken /\ read \in [Token -> 0..now]
  BY ClockAssumption DEF ClockInv, ClockTypeOK, Time
<1>1. /\ now \in Nat /\ c \in Nat /\ t \in Nat \ {0} /\ t \in Token
      /\ read \in [Token -> Nat] /\ read[t] \in Nat
  <2>1. t \in Nat \ {0} /\ t \in Token
    BY <1>0 DEF Token
  <2>2. 0..now \subseteq Nat
    BY <1>0
  <2> QED BY <1>0, <2>1, <2>2
<1>2. /\ Larger(c, IF t = 1 THEN created[t] ELSE c) \in Int
      /\ Instant(settings.access) \in Int
  BY <1>1, TokenType, LifetimeType, InstantType DEF ClockInv, ClockTypeOK, Larger
<1>3. PrivilegesFade
  BY PrivilegesAreRead
<1>4. ~ (now < Larger(c, IF t = 1 THEN created[t] ELSE c) + Instant(settings.access))
  BY <1>1, <1>2
<1>5. ~ (read[t] <= c)
  BY <1>3, <1>4 DEF PrivilegesFade
<1>6. Cardinality({n \in 1..t : read[n] <= c}) \in 0..(t - 1)
  BY <1>1, <1>5, ReadByThen
<1> QED BY <1>1, <1>6, LaterTokensTell

\* What the tokens say follows the account: an access token lifetime after a change of it, or
\* after a login that was under way is done, every access token that works has the role, the
\* confirmed address and the attributes the account has by now, whatever the roles and
\* attributes of the installation and however many rotations lie between (sync_user_claims).
THEOREM ClaimsFollowHolds == ClockSpec => []ClaimsFollow
  BY ClockInvariant, OldTokensAreGone, PTL

=============================================================================
