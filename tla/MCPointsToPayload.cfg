SPECIFICATION Spec
CONSTANTS
  None = None
  Index = Index
  Deref = Deref
  Variant = Variant
  DepthCap = 8
  MaxUpvarFields = 3
  MaxTemps = 60
  MaxDepth = 3
  Programs <- Payloads
  LeafPathsOf <- LeafPaths
INVARIANTS
  LocalsCovered
