---------------------------- MODULE SessionStore ----------------------------
(***************************************************************************)
(* What the refresh-token whitelist promises, with every operation atomic: *)
(* a session is opened with one refresh token, a live token is exchanged   *)
(* for its successor, and a set of sessions is closed for good.  The       *)
(* detailed specification with requests, row locks and DELETE statements   *)
(* is Sessions, which implements this one.                                 *)
(*                                                                         *)
(* Tokens are numbered in the order they are issued, so that the number    *)
(* plays the part of the primary key of the whitelist row.  A session is   *)
(* named by the token that opened it.                                      *)
(***************************************************************************)
EXTENDS Naturals

CONSTANT MaxToken    \* bound: how many refresh tokens are ever issued

VARIABLES
  issued,     \* how many tokens were issued so far
  session,    \* the session each token belongs to, 0 when it is not issued yet
  live,       \* the tokens whose whitelist row exists
  spent,      \* the tokens that were exchanged for a successor
  closed      \* the sessions that were closed

storeVars == <<issued, session, live, spent, closed>>

Token == 1..MaxToken

\* A new token of session s enters the whitelist.
Issue(t, s) ==
  /\ issued < MaxToken
  /\ t = issued + 1
  /\ issued' = t
  /\ session' = [session EXCEPT ![t] = s]

StoreInit ==
  /\ issued = 0
  /\ session = [t \in Token |-> 0]
  /\ live = {}
  /\ spent = {}
  /\ closed = {}

\* An account is given a session of its own, unrelated to the earlier ones.
Open ==
  \E t \in Token :
    /\ Issue(t, t)
    /\ live' = live \cup {t}
    /\ UNCHANGED <<spent, closed>>

\* A live token is consumed and its successor takes its place.
Exchange ==
  \E t \in live, n \in Token :
    /\ Issue(n, session[t])
    /\ live' = (live \ {t}) \cup {n}
    /\ spent' = spent \cup {t}
    /\ UNCHANGED closed

\* Some of the sessions opened so far are closed, all at once.
Close ==
  \E S \in SUBSET (1..issued) :
    /\ live' = {t \in live : session[t] \notin S}
    /\ closed' = closed \cup S
    /\ UNCHANGED <<issued, session, spent>>

StoreNext == Open \/ Exchange \/ Close

StoreSpec == StoreInit /\ [][StoreNext]_storeVars

-----------------------------------------------------------------------------
\* The promises of the store.

\* A session has at most one refresh token that can be exchanged.
OneTokenPerSession ==
  \A t, u \in live : session[t] = session[u] => t = u

\* A token that was exchanged is never accepted again.
SpentStaysDead == live \cap spent = {}

\* No token of a closed session is accepted.
ClosedStaysClosed == \A t \in live : session[t] \notin closed

\* A session that has been left without a live token never gets one again.
NeverReopened ==
  [][\A s \in 1..issued :
        (\A t \in live : session[t] # s) => (\A t \in live' : session'[t] # s)]_storeVars

=============================================================================
