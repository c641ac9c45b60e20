-------------------------------- MODULE Roles --------------------------------
(***************************************************************************)
(* What a token says about its account, and what the permissions make of   *)
(* it: where the role of an account comes from (roles.py, models.py), how  *)
(* role, email_verified and the configured attributes get into the claims  *)
(* and follow the account at a rotation (tokens.py), which role fields the *)
(* start-up check lets pass (checks.py), and who is let in                 *)
(* (permissions.py).  All of it are functions of their arguments; when     *)
(* they are called is the subject of module TokenClock, and module Claims  *)
(* puts the two together.                                                  *)
(***************************************************************************)
EXTENDS Integers

CONSTANTS
  ProjectRole,    \* the role codes a project adds to those of the library
  NoRole,         \* stands for a role that is None or not there at all
  Attribute,      \* claim names a project configures
  Path,           \* where the value of such a claim is found, from the account
  Value,          \* the values found there
  Missing         \* stands for none

STAFF_CODE == 1000
SUPER_USER_CODE == 900
USER_CODE == 0
Code == {USER_CODE, SUPER_USER_CODE, STAFF_CODE} \cup ProjectRole

ASSUME RolesAssumption ==
  /\ ProjectRole \subseteq Nat /\ NoRole \notin Int
  /\ Missing \notin Value
  /\ {"jti", "role", "email_verified"} \cap Attribute = {}

\* The role field of the user model, if it has one.
Field == {"none", "integer", "text", "relation"}

\* check_role_field.
CheckRoleField(field) ==
  CASE field = "relation" -> "error"
    [] field = "text" -> "warning"
    [] field \in {"none", "integer"} -> "silent"

\* What the field holds once a code was assigned to it: text is no number, whatever it reads.
Held(field, code) == IF field = "text" THEN -(code + 1) ELSE code

-----------------------------------------------------------------------------
\* The staff flag is looked at first.
RoleFromStaffFlags(u) ==
  CASE u.staff -> STAFF_CODE
    [] ~ u.staff /\ u.super -> SUPER_USER_CODE
    [] ~ u.staff /\ ~ u.super -> USER_CODE

GetUserRole(u) == IF u.role = NoRole THEN RoleFromStaffFlags(u) ELSE u.role

\* UserManager.create_user and create_superuser: the role of a new account with these flags,
\* for which the caller names a role, or NoRole.  The second is a case of the first, as it
\* sets both flags and turns down every role but STAFF_CODE.
RoleAtCreation(field, staff, super, role) ==
  CASE field = "none" -> NoRole
    [] field # "none" /\ role # NoRole -> Held(field, role)
    [] field # "none" /\ role = NoRole ->
         Held(field, RoleFromStaffFlags([staff |-> staff, super |-> super]))

\* The check constraints of JAUser.
Constrained(u) ==
  /\ u.staff => u.role = STAFF_CODE
  /\ ~ u.staff /\ u.super => u.role = SUPER_USER_CODE

\* What the claims are read from.
User ==
  [staff : BOOLEAN, super : BOOLEAN, role : Code \cup {NoRole} \cup {Held("text", c) : c \in Code},
   verified : BOOLEAN, value : [Path -> Value \cup {Missing}]]

\* The accounts of an installation: those that the manager creates, those of a nullable field
\* left empty, and with JAUser whatever the database admits.
Users(field) ==
  {u \in User :
     \/ u.role = RoleAtCreation(field, u.staff, u.super, NoRole)
     \/ field = "integer" /\ (u.role = NoRole \/ (u.role \in Code /\ Constrained(u)))}

-----------------------------------------------------------------------------
\* The claims that a token manages itself; jti stands for those that say nothing about the
\* account.
RESERVED_CLAIMS == {"jti", "role", "email_verified"}

\* JWT_ALLAUTH_USER_ATTRIBUTES: the names may be those of reserved claims, but role is refused.
AttributeMaps == UNION {[names -> Path] : names \in SUBSET (Attribute \cup {"jti"})}

\* The payload with a claim set.
Claiming(claims, name, value) ==
  [n \in DOMAIN claims \cup {name} |-> IF n = name THEN value ELSE claims[n]]

SetUserRole(claims, u) == Claiming(claims, "role", GetUserRole(u))

SetEmailVerified(claims, u) == Claiming(claims, "email_verified", u.verified)

\* set_user_attributes: what is missing is left out, and what is there already stays.
SetUserAttributes(claims, map, u) ==
  LET added == {n \in DOMAIN map \ DOMAIN claims : u.value[map[n]] # Missing}
  IN  [n \in DOMAIN claims \cup added |->
         IF n \in added THEN u.value[map[n]] ELSE claims[n]]

\* for_user.
ForUser(map, u) ==
  SetUserAttributes(SetEmailVerified(SetUserRole([jti |-> "own"], u), u), map, u)

\* Mutant of SyncUserClaims: the old attributes are not dropped first.
SyncUserClaimsOver(claims, map, u) ==
  SetUserAttributes(SetEmailVerified(SetUserRole(claims, u), u), map, u)

\* sync_user_claims.
SyncUserClaims(claims, map, u) ==
  LET dropped == DOMAIN map \ RESERVED_CLAIMS
      kept == [n \in DOMAIN claims \ dropped |-> claims[n]]
  IN  SetUserAttributes(SetEmailVerified(SetUserRole(kept, u), u), map, u)

-----------------------------------------------------------------------------
\* BasePermission, BasePermissionStaffExcluded and IsEmailVerified.
HasPermission(claims, accepted) ==
  "role" \in DOMAIN claims /\ claims["role"] \in accepted \cup {STAFF_CODE, SUPER_USER_CODE}

HasPermissionStaffExcluded(claims, accepted) ==
  "role" \in DOMAIN claims /\ claims["role"] \in accepted

IsEmailVerified(claims) == "email_verified" \in DOMAIN claims /\ claims["email_verified"]

\* RegisterUsersPermission, with JWT_ALLAUTH_REGISTRATION_ALLOWED_ROLES or without.
RegisterUsers(claims, allowed) == HasPermissionStaffExcluded(claims, allowed)
AllowedByDefault == {STAFF_CODE, SUPER_USER_CODE}

=============================================================================
