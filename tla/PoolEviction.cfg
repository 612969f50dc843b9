SPECIFICATION Spec
CONSTANTS
  Files = {f}
  MaxBlocks = 3
  Contents = {0, 1}
  Zero = 0
  Size = 1
  Descriptors = {3}
  MaxOpenFiles = 2
  Handles = {h1, h2}
  None = None
  Free = Free
CHECK_DEADLOCK FALSE
INVARIANT QueuedAreResident
