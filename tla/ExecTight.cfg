SPECIFICATION Spec
CONSTANTS
  PageSize = 32
  PhEnt = 4
  ShEnt = 4
  ShAlign = 4
  UndoSize = 20
  UndoAlign = 4
  MaxPrelinks = 1
  Originals <- TightOriginals
  Requests <- MCRequests
INVARIANT Recognised
CHECK_DEADLOCK FALSE
