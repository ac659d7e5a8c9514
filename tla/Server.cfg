\* Two clients; streams of their real length.
SPECIFICATION FairSpec
CONSTANTS
  Clients = {c1, c2}
  Requests <- MCRequests
  Null = Null
INVARIANTS
  ApiHasRecord
  RedirectIsForRoot
PROPERTIES
  StreamsEnd
