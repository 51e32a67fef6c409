SPECIFICATION Spec
CONSTANTS
  N = 2
  Regular = {1, 2}
  Checksums = TRUE
  NoCompress = FALSE
  DoForce = TRUE
  FailOnChange = FALSE
  FileRetries = 3
  BlockSize = 2
  MaxComp = 1
  Sizes = {1}
  MaxChanges = 0
  Hazards = {"error"}
  Nothing = Nothing
INVARIANTS ForceIgnoresReadErrors
