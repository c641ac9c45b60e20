----------------------------- MODULE MCSessions -----------------------------
EXTENDS Sessions, TLC

\* The request slots are interchangeable.
Slots == Permutations(Req)
=============================================================================
