--------------------------- MODULE MCCredentials ---------------------------
EXTENDS Credentials, TLC

\* Request slots, reset requests and openings of a link are interchangeable.
Interchangeable == Permutations(Req) \cup Permutations(Mail) \cup Permutations(Visit)
=============================================================================
