SPECIFICATION FairSpec
CONSTANTS
  Commands <- MCCommands
  Names <- MCNames
  DefaultName <- MCDefault
  None = None
  CountRange = 256
  SizeRange = 4
  MaxRuns = 3
  MaxFaults = 1
  MaxMoves = 1
INVARIANTS TypeOK SuccessMeansWritten FecDecodes ReadsWhatIsThere PartIsNoticed NoTempLeft OneDrawer
PROPERTIES KeepsArchives Terminates
