SPECIFICATION Spec
CONSTANTS
  User = {u}
  Req = {r1, r2, r3, r4}
  NoUser = NoUser
  NoReq = NoReq
  Mandatory = TRUE
  LogoutOnPasswordChange = TRUE
  MaxPassword = 1
  MaxToken = 4
INVARIANTS
  TypeOK
  OneTokenPerSession
  SpentStaysDead
  SurvivorsExplained
  RevocationTookEffect
PROPERTIES
  ImplementsStore
SYMMETRY Slots
CHECK_DEADLOCK FALSE
