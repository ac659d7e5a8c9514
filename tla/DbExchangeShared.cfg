\* Two workers on one session: libpq keeps the connection consistent, and
\* every request is answered.
SPECIFICATION FairSpec
CONSTANTS
  Workers = {w1, w2}
  Replies <- FewReplies
  MaxRequests = 2
  MaxOut = 1
INVARIANTS
  IdleMeansDrained
  NoOlderRows
PROPERTIES
  EveryRequestAnswered
