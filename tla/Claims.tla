-------------------------------- MODULE Claims --------------------------------
(***************************************************************************)
(* What the tokens of a session say about its account when the account     *)
(* changes under it: module TokenClock has the instants at which it was    *)
(* read, module Roles what was made of it.                                 *)
(***************************************************************************)
EXTENDS TokenClock, Roles, FiniteSets

\* What the t-th token of a session says when the account was u and the configured
\* attributes were those of before, and the change to v and after came once k tokens had
\* been given their claims.
Told(t, k, u, v, before, after) ==
  LET claims[n \in 1..t] ==
        LET map == IF n <= k THEN before ELSE after
            user == IF n <= k THEN u ELSE v
        IN  IF n = 1 THEN ForUser(map, user) ELSE SyncUserClaims(claims[n - 1], map, user)
  IN  claims[t]

\* It says what a token of a login would say now, except that it keeps an attribute whose
\* name is not configured any more.  And an account that is staff or a superuser by now has
\* the role its flags stand for, with a role field as without, and passes the permissions
\* that are for it.
TellsOf(claims, v, before, after) ==
  LET leftover == DOMAIN before \ (DOMAIN after \cup RESERVED_CLAIMS) IN
  /\ [n \in DOMAIN claims \ leftover |-> claims[n]] = ForUser(after, v)
  /\ IsEmailVerified(claims) <=> v.verified
  /\ v.staff \/ v.super =>
       /\ claims["role"] = RoleFromStaffFlags(v)
       /\ HasPermission(claims, {}) /\ RegisterUsers(claims, AllowedByDefault)

\* The same of every change in an installation that the start-up check is silent about.
UpToDate ==
  [t \in Token |-> [k \in 0..MaxToken |->
     \A field \in {f \in Field : CheckRoleField(f) = "silent"} :
       \A u, v \in Users(field), before, after \in AttributeMaps :
         TellsOf(Told(t, k, u, v, before, after), v, before, after)]]

\* tokens.py, sync_user_claims: "privilege changes take effect on the next refresh".  An
\* access token lifetime after a change of the account - or after a login that was under
\* way is done - every access token that still works says what the account is by now.
ClaimsFollow ==
  \A t \in 1..issued, c \in 0..now :
    Alive(accessExp[t])
      /\ now >= Larger(c, IF t = 1 THEN created[t] ELSE c) + Instant(settings.access) =>
    UpToDate[t][Cardinality({n \in 1..t : read[n] <= c})]

=============================================================================
