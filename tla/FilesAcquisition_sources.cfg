CONSTANTS
  base = base
  d1 = d1
  d2 = d2
  f1 = f1
  f2 = f2
  l1 = l1
  nothing = nothing
  Base = base
  Dir <- MCDir
  File <- MCFile
  Other <- MCOther
  Names <- MCNames
  Nothing = nothing
  Tree <- MCTree
  Selections <- MCSelections
  Sizes <- MCSizes
  MaxFileBytes = 2
  MaxBytes = 3
  MaxFiles = 2
  MaxDepth = 1
  MaxChanges = 3
SPECIFICATION Spec
INVARIANTS FilesInv CopiedIsOneVersion
PROPERTIES DirectoryIsWhole SourceIsTheValidated
CHECK_DEADLOCK FALSE
