SPECIFICATION Spec
CONSTANTS
  N = 3
  Regular = {1, 3}
  Checksums = TRUE
  NoCompress = TRUE
  DoForce = TRUE
  FailOnChange = FALSE
  FileRetries = 2
  BlockSize = 1
  MaxComp = 1
  Sizes = {1, 2}
  MaxChanges = 2
  Hazards = {"write", "replace", "remove", "error", "output"}
  Nothing = Nothing

PROPERTIES TakesSnapshots
INVARIANTS PositionAgrees
