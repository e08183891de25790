SPECIFICATION Spec
CONSTANT
  Programs <- WaitPrograms
INVARIANT
  ForwardsNeverBlock
\* The analysed programs may deadlock.
CHECK_DEADLOCK FALSE
