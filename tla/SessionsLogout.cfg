\* db.c:260: a logout removes the session.
SPECIFICATION Spec
CONSTANTS
  Workers = {w1}
  Ids = {s1}
  None = None
  Timeout = 1
  Period = 1
  M = 8
  Ipv4Only = TRUE
  LogoutUsed = TRUE
  MaxTime = 3
  MaxQuiet = 0
PROPERTIES
  LogoutRemovesSession
