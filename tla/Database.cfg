SPECIFICATION Spec
CONSTANTS
  Files = {p, q, temp}
  Temp = temp
  Records = {1, 2}
  MaxBlocks = 4
  MaxBase = 2
  BlockSize = 7
  RecordSize = 3
  MaxLoads = 2
  Free = Free
CHECK_DEADLOCK FALSE
INVARIANT TypeOK
INVARIANT LoadedIsConcatenation
PROPERTY GrowsByRecords
PROPERTY FragmentsKept
PROPERTY KeepsDiscipline
