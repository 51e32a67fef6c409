SPECIFICATION Spec
CONSTANTS
  N = 2
  Regular = {1, 2}
  Checksums = TRUE
  NoCompress = FALSE
  DoForce = FALSE
  FailOnChange = FALSE
  FileRetries = 2
  BlockSize = 2
  MaxComp = 1
  Sizes = {1}
  MaxChanges = 2
  Hazards = {"write"}
  Nothing = Nothing
INVARIANTS ChangedFilesAreSkipped
