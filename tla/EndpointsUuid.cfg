\* graph.c:86, utils.c:149-150: nodes can be asked for by uuid.
SPECIFICATION Spec
CONSTANTS
  Scripts = {"graph"}
  Types <- NoTypes
  Unlisted = {}
INVARIANTS
  UuidIsAccepted
