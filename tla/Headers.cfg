\* Up to 26 headers and four kinds of entity, values of Authorization in and out of order.
SPECIFICATION Spec
CONSTANTS
  Requests <- MCRequests
  NoColon = NoColon
INVARIANTS
  FaultsAreTwo
  HeadIsRead
  ArtifactsAreTheirs
