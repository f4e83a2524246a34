SPECIFICATION Spec
CONSTANTS
  Funs <- MCFuns
  TableNames <- MCTableNames
  Families <- MCFamilies
  SizeLimit = 3
INVARIANTS
  ProgramUnchanged
  RedundantRemoved
