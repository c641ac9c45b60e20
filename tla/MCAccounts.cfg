SPECIFICATION AccountsSpec
CONSTANTS
  Project <- Projects
  Req = {r1, r2}
  Account = {a1, a2, a3}
  NoAccount = NoAccount
  Provider = {p1, p2}
  NoProvider = NoProvider
SYMMETRY Symmetry
CONSTRAINT FewStaff
INVARIANTS
  AccountsTypeOK
  EnteredIsClaimed
  LinkNeedsProof
  KeepsAWayIn
  NoSignUpIsStranded
