SPECIFICATION ReportSpec
CONSTANTS
  a = a
  b = b
  none = none
  Node <- States
  Lock = {a, b}
  NoLock = none
  Graphs <- SmallGraphs
INVARIANTS
  TypeOK
  PathIsSimple
  ReportsAreDeadlocks
  OneWayCyclesReported
  PathIsShortest
  HoldersNamed
PROPERTY
  Terminates
