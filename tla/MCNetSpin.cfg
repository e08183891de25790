SPECIFICATION Spec
CONSTANT
  Programs <- SpinPrograms
INVARIANT
  OperationsNeverBlock
\* The analysed programs may deadlock.
CHECK_DEADLOCK FALSE
