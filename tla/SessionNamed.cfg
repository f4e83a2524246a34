CONSTANTS
  a = a
  b = b
  x = x
  y = y
  Lib = {a, b}
  Exe = {x, y}
  DepLists <- SmallDepLists
  Slots = {1, 2}
  Modes <- NamedModes
  MaxRuns = 2
  MaxEvents = 1
SPECIFICATION MCSpec
INVARIANTS
  CacheSlots
