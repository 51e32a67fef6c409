SPECIFICATION Spec
CONSTANTS
  N = 3
  Threads = 2
  Paths <- MCPaths
  Archives <- ThreeFiles
  Flags <- NoForce
  Befores <- NothingThere
  Absent = Absent
  MaxRuns = 1
  Hazards = {}
INVARIANTS WholeTree
