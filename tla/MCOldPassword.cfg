SPECIFICATION Spec
CONSTANTS
  User = {u}
  Req = {r1, r2, r3}
  NoUser = NoUser
  NoReq = NoReq
  Mandatory = TRUE
  LogoutOnPasswordChange = TRUE
  MaxPassword = 1
  MaxToken = 4
INVARIANTS
  OldPasswordOpensNothing
CHECK_DEADLOCK FALSE
