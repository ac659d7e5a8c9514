\* Three nodes, three names, one label, up to three edges.
SPECIFICATION Spec
CONSTANTS
  Nodes = {u1, u2, u3}
  Names = {n1, n2, n3}
  Labels = {"%"}
  NoName = NoName
  Absent = Absent
  Null = Null
  NotGiven = NotGiven
  MaxPairs = 2
  MaxEdges = 3
SYMMETRY Symmetry
INVARIANTS
  TypeOK
  TraverseListsWalks
  NearestFirst
  NothingFromNull
