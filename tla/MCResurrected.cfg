SPECIFICATION ConfirmSpec
CONSTANTS
  User = {u}
  Req = {r1, r2}
  Click = {c1}
  NoUser = NoUser
  NoReq = NoReq
  Mandatory = FALSE
  LogoutOnPasswordChange = TRUE
  SessionOnVerification = FALSE
  MaxPassword = 1
  MaxToken = 3
INVARIANTS
  SpentStaysDead
CHECK_DEADLOCK FALSE
