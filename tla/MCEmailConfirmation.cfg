SPECIFICATION ConfirmFairSpec
CONSTANTS
  User = {u}
  Req = {r1, r2}
  Click = {c1, c2}
  NoUser = NoUser
  NoReq = NoReq
  Mandatory = TRUE
  LogoutOnPasswordChange = TRUE
  SessionOnVerification = TRUE
  MaxPassword = 1
  MaxToken = 4
INVARIANTS
  ConfirmTypeOK
  UnconfirmedNeedsLink
  OnlyClicksResurrect
  ClickTurnsOn
PROPERTIES
  EveryRequestEnds
CHECK_DEADLOCK FALSE
