\* Two sessions, two collections, two documents of two members; what the bytes
\* of a pointer read as is one of the fields.
SPECIFICATION Spec
CONSTANTS
  Sessions = {s1, s2}
  Words = {"w", "v"}
  Ids = {i1, i2}
  Fields = {"a", "b"}
  Given <- MCGiven
  Bytes = {"a"}
  Contents <- MCContents
  Patches <- MCPatches
  Names = {"n"}
  Missing = Missing
  Null = Null
  NoRow = NoRow
  NoStatement = NoStatement
SYMMETRY Symmetry
INVARIANTS
  CollectionIsWhole
  DeadStayDead
PROPERTIES
  LostOnlyToOverlap
