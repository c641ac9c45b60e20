SPECIFICATION MFASpec
CONSTANTS
  Req = {r1, r2}
  Challenge = {c1, c2}
  NoChallenge = NoChallenge
  ChallengeMax = 2
  UserMax = 3
  MaxAge = 2
  Window = 1
INVARIANTS
  LimitIsExact
