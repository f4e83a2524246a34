CONSTANTS
  l1 = l1
  l2 = l2
  l3 = l3
  x1 = x1
  x2 = x2
  Lib = {l1, l2, l3}
  Exe = {x1, x2}
  Fake = Fake
  PAGE = 2
  GAP = 1
  MMAP_BASE = 4
  MMAP_END = 12
  ForcePrelink = TRUE
  ConserveMemory = TRUE
  Random = TRUE
  LibTypes = {"DYN", "CACHE_DYN"}
  ExeTypes = {"EXEC", "CACHE_EXEC"}
  DepLists <- SharingDepLists
  Bases = {0, 4, 7, 8}
  Sizes = {1, 3}
SPECIFICATION MCSpec
INVARIANTS
  DependenciesDisjoint
  ListSorted
  SlotsMatchFiles
