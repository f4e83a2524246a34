CONSTANTS
  Archs = {"x86_64", "x32", "i386", "s390", "s390x", "sh", "alpha", "ppc", "ppc_bss", "ppc64", "sparc", "sparc64",
           "arm", "mips", "mips64"}
  Bases = {300000, 400000}
  Addends = {0, 4}
  Slots = {0, 2}
SPECIFICATION Spec
CHECK_DEADLOCK FALSE
INVARIANTS
  TransparentMoved
