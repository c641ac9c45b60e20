---------------------------- MODULE MCInvitations ----------------------------
EXTENDS Invitations, TLC

\* Visits are interchangeable, and so are requests.
Clients == Permutations(Visit) \cup Permutations(Setter)
=============================================================================
