SPECIFICATION MFAFairSpec
CONSTANTS
  Req = {r1, r2}
  Challenge = {c1, c2}
  NoChallenge = NoChallenge
  ChallengeMax = 2
  UserMax = 2
  MaxAge = 2
  Window = 1
INVARIANTS
  MFATypeOK
  ChallengeBudget
  AccountBudget
PROPERTIES
  LockoutEnds
