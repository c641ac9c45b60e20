SPECIFICATION CredSpec
CONSTANTS
  User = {u}
  Req = {r1, r2}
  Mail = {m1, m2}
  Visit = {v1, v2, v3}
  NoUser = NoUser
  NoReq = NoReq
  NoMail = NoMail
  NoVisit = NoVisit
  Mandatory = TRUE
  LogoutOnPasswordChange = TRUE
  MaxPassword = 2
  MaxToken = 2
INVARIANTS
  CredTypeOK
  LatestOnly
  RevocationTakesResets
PROPERTIES
  ImplementsTickets
SYMMETRY Interchangeable
CHECK_DEADLOCK FALSE
