SPECIFICATION Spec
CONSTANT
  Programs <- AllPrograms
INVARIANTS
  ExpectationsHold
  NetMissesNoStep
  NetAllowsOnlyProgram
  MarkingMirrorsThreads
  RacesAreConcurrent
  RegularAreAlike
\* The analysed programs may deadlock, and the run ends with their main thread.
CHECK_DEADLOCK FALSE
