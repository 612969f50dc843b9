SPECIFICATION Spec
CONSTANTS
  Nodes = {n1, n2, n3, n4}
  Entries = {a, b}
  NULL = NULL
  Freed = Freed
SYMMETRY AddressSymmetry
INVARIANT TypeOK
INVARIANT WellLinked
PROPERTY OperationsOnQueue
