----------------------------- MODULE MCMFALogin -----------------------------
EXTENDS MFALogin
=============================================================================
