SPECIFICATION Spec
CONSTANTS
  run = run
  other = other
  none = none
  i1 = i1
  i2 = i2
  Records <- SomeRecords
  NoId = none
  NoRecord = NoRecord
  Importers = {i1, i2}
  Readers = {c1}
  Limit = 2
SYMMETRY Symmetry
INVARIANTS OneHistory PagesTileTheSnapshot
PROPERTY ImplementsRevisionLog
CHECK_DEADLOCK FALSE
