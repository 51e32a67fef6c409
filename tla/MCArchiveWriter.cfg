SPECIFICATION Spec
CONSTANTS
  N = 2
  Regular = {1, 2}
  Checksums = TRUE
  NoCompress = FALSE
  DoForce = FALSE
  FailOnChange = FALSE
  FileRetries = 2
  BlockSize = 2
  MaxComp = 2
  Sizes = {1, 3}
  MaxChanges = 2
  Hazards = {"write", "replace", "output"}
  Nothing = Nothing
INVARIANTS TypeOK KeptIntact AcceptedOnlyAtTheEnd AttemptsBounded
