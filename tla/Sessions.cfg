\* One worker: sessions expire when they should, and only then.
SPECIFICATION Spec
CONSTANTS
  Workers = {w1}
  Ids = {s1, s2}
  None = None
  Timeout = 2
  Period = 1
  M = 14
  Ipv4Only = FALSE
  LogoutUsed = TRUE
  MaxTime = 15
  MaxQuiet = 1
SYMMETRY Symmetry
INVARIANTS
  UseIsOpen
PROPERTIES
  NoEarlyExpiry
  SweepIsComplete
  ServedFresh
