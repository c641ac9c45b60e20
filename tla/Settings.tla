------------------------------- MODULE Settings -------------------------------
(***************************************************************************)
(* What the settings of a project amount to: apps.py reconciles the two    *)
(* that speak of e-mail verification at start-up and refuses what the      *)
(* library cannot honour; utils.py answers the questions that the          *)
(* endpoints and the routes ask.                                           *)
(***************************************************************************)
EXTENDS FiniteSets

VERIFICATION_METHODS == {"mandatory", "optional", "none"}

\* EMAIL_VERIFICATION and ACCOUNT_EMAIL_VERIFICATION as a project writes them.
Configured == VERIFICATION_METHODS \cup {"True", "False", "other"}
Declared == VERIFICATION_METHODS \cup {"unset", "other"}

\* _resolve_email_verification: the method, or "rejected".
ResolveEmailVerification(configured, declared) ==
  CASE configured \in VERIFICATION_METHODS -> configured
    [] configured = "other" -> "rejected"
    [] configured = "False" -> "none"
    [] configured = "True" /\ declared = "unset" -> "mandatory"
    [] configured = "True" /\ declared = "other" -> "rejected"
    [] configured = "True" /\ declared \in VERIFICATION_METHODS -> declared

\* Mutant of DefaultAllauth: the boolean is left as it was written.
DefaultAllauthApart(configured, declared) ==
  LET method == ResolveEmailVerification(configured, declared) IN
  [EMAIL_VERIFICATION |-> configured \notin {"none", "False"},
   ACCOUNT_EMAIL_VERIFICATION |-> method]

\* _default_allauth: what everything reads from then on.
DefaultAllauth(configured, declared) ==
  LET method == ResolveEmailVerification(configured, declared) IN
  [EMAIL_VERIFICATION |-> method # "none", ACCOUNT_EMAIL_VERIFICATION |-> method]

\* The settings of the projects that start.
Verification ==
  {DefaultAllauth(cd[1], cd[2]) :
     cd \in {x \in Configured \X Declared : ResolveEmailVerification(x[1], x[2]) # "rejected"}}

\* JWT_ALLAUTH_INVITATIONS and JWT_ALLAUTH_ADMIN_MANAGED_REGISTRATION.
Registration == [INVITATIONS : BOOLEAN, ADMIN_MANAGED_REGISTRATION : BOOLEAN]

-----------------------------------------------------------------------------
\* The same names in utils.py.
VerificationEnabled(v) == v.EMAIL_VERIFICATION

VerificationIsMandatory(v) ==
  v.EMAIL_VERIFICATION /\ v.ACCOUNT_EMAIL_VERIFICATION = "mandatory"

InvitationsEnabled(g) == g.INVITATIONS \/ g.ADMIN_MANAGED_REGISTRATION

SelfRegistrationEnabled(g) == ~ g.ADMIN_MANAGED_REGISTRATION

\* allauth mails a link to a new account unless its own setting says none.
LinkIsMailed(v) == v.ACCOUNT_EMAIL_VERIFICATION # "none"

\* registration/urls.py, account_confirm_email: an invitation is a link, too.
LinkIsRouted(v, g) == InvitationsEnabled(g) \/ VerificationEnabled(v)

=============================================================================
