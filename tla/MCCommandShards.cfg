SPECIFICATION Spec
CONSTANTS
  Commands <- MCCommands
  Names <- MCNames
  DefaultName <- MCDefault
  None = None
  CountRange = 256
  SizeRange = 4
  MaxRuns = 3
  MaxFaults = 1
  MaxMoves = 1
INVARIANT MendsShards
