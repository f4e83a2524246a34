CONSTANTS
  a = a
  b = b
  x = x
  y = y
  Lib = {a, b}
  Exe = {x, y}
  DepLists <- SmallDepLists
  Slots = {1, 2}
  Modes <- AllModes
  MaxRuns = 3
  MaxEvents = 1
SPECIFICATION MCSpec
INVARIANTS
  TypeOK
  WrittenUpToDate
  LibrariesUpToDate
  CacheSlots
  Undone
  Acyclic
  QuickSound
PROPERTIES
  Idempotent
