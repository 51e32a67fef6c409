SPECIFICATION FairSpec
CONSTANTS
  N = 2
  Regular = {1, 2}
  Checksums = FALSE
  NoCompress = FALSE
  DoForce = FALSE
  FailOnChange = FALSE
  FileRetries = 0
  BlockSize = 2
  MaxComp = 2
  Sizes = {0, 3}
  MaxChanges = 2
  Hazards = {"write", "replace", "remove", "error", "output"}
  Nothing = Nothing
INVARIANTS KeptIntact
PROPERTIES Terminates
