----------------------------- MODULE MCTokenClock -----------------------------
EXTENDS Claims, TLC

\* The request slots are interchangeable.
Slots == Permutations(Req)

\* Access tokens live shorter than refresh tokens or longer, and sessions end or do not.
Orders == [refresh : {1, 2}, access : {1, 2}, session : {2, NoLimit}]
Unequal == {l \in Orders : l.refresh # l.access}
=============================================================================
