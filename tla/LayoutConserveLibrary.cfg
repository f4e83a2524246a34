CONSTANTS
  l1 = l1
  l2 = l2
  l3 = l3
  x1 = x1
  x2 = x2
  Lib = {l1, l2, l3}
  Exe = {x1}
  Fake = Fake
  PAGE = 2
  GAP = 1
  MMAP_BASE = 4
  MMAP_END = 14
  ForcePrelink = FALSE
  ConserveMemory = TRUE
  Random = FALSE
  LibTypes = {"DYN"}
  ExeTypes = {"EXEC"}
  DepLists <- AllDepLists
  Bases = {0, 4, 6}
  Sizes = {1, 2}
SPECIFICATION MCSpec
INVARIANTS
  PresentTogetherDisjoint
