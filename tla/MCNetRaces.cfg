SPECIFICATION Spec
CONSTANT
  Programs <- MergedSitesPrograms
INVARIANT
  RacesReported
\* The analysed programs may deadlock.
CHECK_DEADLOCK FALSE
