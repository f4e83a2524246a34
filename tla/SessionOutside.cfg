CONSTANTS
  a = a
  b = b
  x = x
  y = y
  Lib = {a, b}
  Exe = {x, y}
  DepLists <- SmallDepLists
  Slots = {1, 2}
  Modes <- ExceptModes
  MaxRuns = 2
  MaxEvents = 0
SPECIFICATION MCSpec
INVARIANTS
  NoAbort
