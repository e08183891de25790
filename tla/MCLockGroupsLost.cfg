SPECIFICATION Spec
CONSTANTS
  Crates <- CratesAnalysed
  Base = {}
  ProjElem = {"f0", "f1"}
  DepthCap = 8
  MaxPathLen = 8
INVARIANT LocksShareAPlace
