SPECIFICATION InviteSpec
CONSTANTS
  Visit = {v1, v2, v3}
  Setter = {s1, s2}
  NoVisit = NoVisit
INVARIANTS
  InviteTypeOK
  LatestClick
  PasswordEndsInvitation
  NoDeadEnd
SYMMETRY Clients
