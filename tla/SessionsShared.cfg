\* Two workers: one sweeps while the other uses sessions.
SPECIFICATION Spec
CONSTANTS
  Workers = {w1, w2}
  Ids = {s1, s2}
  None = None
  Timeout = 1
  Period = 1
  M = 8
  Ipv4Only = TRUE
  LogoutUsed = FALSE
  MaxTime = 3
  MaxQuiet = 0
SYMMETRY Symmetry
INVARIANTS
  OnlyLateSessionsAreCut
  TableIsOpen
  NoConnectionLost
