------------------------- MODULE MCEmailConfirmation -------------------------
EXTENDS EmailConfirmation
=============================================================================
