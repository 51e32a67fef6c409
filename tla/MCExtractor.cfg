SPECIFICATION FairSpec
CONSTANTS
  N = 3
  Threads = 2
  Paths <- MCPaths
  Archives <- MCArchives
  Flags <- MCFlags
  Befores <- MCBefores
  Absent = Absent
  MaxRuns = 2
  Hazards = {"dir", "open", "sum", "write"}
INVARIANTS TypeOK PoolBounded DoneMeansSettled RestoredIntact VerifiedIsHonest
PROPERTIES RestoresTree Terminates
