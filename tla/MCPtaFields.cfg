SPECIFICATION FairSpec
CONSTANTS
  p = p
  q = q
  o = o
  f = f
  Base = {p, q, o}
  ProjElem = {f}
  DepthCap = 1
  MaxPathLen = 2
  Loc <- AbstractLoc
  Suffix <- FieldPath
  Project <- ProjectLoc
  Inputs <- FieldInputs
INVARIANTS
  TypeOK
  WorklistMirrored
  NoLostWork
PROPERTIES
  ImplementsAndersen
  Terminates
