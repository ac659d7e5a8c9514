\* Every servlet, every class of parameter and entity.
SPECIFICATION Spec
CONSTANTS
  Scripts <- Servlets
  Types <- AllTypes
  Unlisted = {"other"}
INVARIANTS
  RoutedAsDeclared
  QueryNeedsSession
  ReadsOnlyItsQuery
  OneBody
  KeptOnlyByRefusals
