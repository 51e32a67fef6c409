SPECIFICATION Spec
CONSTANTS
  Cell = {a, b}
  BufSize = 2
  MaxWrite = 3
  MaxSize = 4
INVARIANTS TypeOK CloseMeansSaved
PROPERTIES ImplementsFile NothingAfterError
CHECK_DEADLOCK FALSE
