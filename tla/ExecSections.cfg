SPECIFICATION Spec
CONSTANTS
  PageSize = 32
  PhEnt = 4
  ShEnt = 4
  ShAlign = 4
  UndoSize = 20
  UndoAlign = 4
  MaxPrelinks = 2
  Originals <- MCOriginals
  Requests <- MCRequests
INVARIANTS
  OwnChecks
  Recognised
  SectionsKept
  ImageConsistent
  FileConsistent
  Verifies
CHECK_DEADLOCK FALSE
