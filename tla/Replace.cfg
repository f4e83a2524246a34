CONSTANTS
  h1 = h1
  h2 = h2
  u1 = u1
  u2 = u2
  Links = {h1, h2}
  Orig = Orig
  New = New
  Upgrades = {u1, u2}
  NoFile = NoFile
  Options <- AllOptions
SPECIFICATION Spec
INVARIANTS
  TypeOK
  NeverPartial
  LinkRecoverable
  HardlinksRedone
  NoTemporary
  ChangedKept
  DryRunKept
PROPERTIES
  ImplementsAtomic
