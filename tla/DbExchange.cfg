\* One worker at a time: what a session's requests rely on.
SPECIFICATION Spec
CONSTANTS
  Workers = {w1}
  Replies <- MCReplies
  MaxRequests = 3
  MaxOut = 2
INVARIANTS
  TypeOK
  BodyIsOwnAnswer
  StatusMatchesAnswer
  BodyIsFramed
PROPERTIES
  WedgedForGood
  ImplementsService
