------------------------------ MODULE MCAccounts ------------------------------
(* Two requests at once, three accounts one after another, two provider accounts. *)
EXTENDS Accounts, TLC

Symmetry == Permutations(Req) \cup Permutations(Account) \cup Permutations(Provider)

\* Every way in is open, but a second factor may come between, or logins are not stamped.
Challenged(p) ==
  /\ p.registration.INVITATIONS /\ SelfRegistrationEnabled(p.registration)
  /\ VerificationEnabled(p.verification)
  /\ IF VerificationIsMandatory(p.verification)
     THEN ~ p.UPDATE_LAST_LOGIN /\ p.mode # "disabled"
     ELSE p.UPDATE_LAST_LOGIN /\ p.mode = "required"

\* The verification and registration settings vary together under the defaults of the other
\* two; administrators who manage the registration invite, whatever INVITATIONS says.
Projects ==
  {p \in [verification : Verification, registration : Registration,
          UPDATE_LAST_LOGIN : BOOLEAN, mode : Mode] :
     /\ ~ (p.registration.INVITATIONS /\ p.registration.ADMIN_MANAGED_REGISTRATION)
     /\ Challenged(p) \/ (p.UPDATE_LAST_LOGIN /\ p.mode = "disabled")}

\* There is staff in the projects that do not invite, who signed up like everybody else.
FewStaff ==
  appointed # {} =>
    ~ InvitationsEnabled(registration) /\ \A a \in appointed : origin[a] = "signup"
=============================================================================
