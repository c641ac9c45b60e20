SPECIFICATION ClockSpec
CONSTANTS
  Req = {r1, r2}
  Second = 2
  Lifetimes <- Unequal
  NoLimit = NoLimit
  LinkLife = 1
  RowLife = 1
  MaxToken = 3
  MaxTime = 5
  ProjectRole = {7}
  NoRole = NoRole
  Attribute = {"area"}
  Path = {"area.id"}
  Value = {1}
  Missing = Missing
INVARIANTS
  ClockTypeOK
  NothingOutlivesSession
  PurgeEndsNothing
  ExposureBounded
  PrivilegesFade
  PurgeTakesNothingGood
  ClaimsFollow
SYMMETRY Slots
