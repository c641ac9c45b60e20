SPECIFICATION EnrolSpec
CONSTANTS
  Req = {r1, r2, r3}
  NoReq = NoReq
  Challenge = {c1, c2}
  NoChallenge = NoChallenge
SYMMETRY Symmetry
INVARIANTS
  EnrolTypeOK
  BootstrapOnce
  HalfEnrolled
  OldSecretsEnd
PROPERTIES
  ConfirmedStays
