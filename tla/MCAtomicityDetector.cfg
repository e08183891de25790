SPECIFICATION Spec
CONSTANTS
  StateGraphs <- Graphs
  MaxStates = 60
  MaxDepth = 8
INVARIANTS MemoryMirrorsTrace WitnessesReal ViolationsFound
