SPECIFICATION Spec
CONSTANTS
  Files = {f, g}
  MaxBlocks = 2
  Contents = {0, 1}
  Zero = 0
  Size = 2
  Descriptors = {3, 4}
  MaxOpenFiles = 2
  Handles = {h1, h2}
  None = None
  Free = Free
INVARIANT TypeOK
INVARIANT NamesCurrent
INVARIANT PoolExact
INVARIANT CacheCoherent
INVARIANT NoFault
PROPERTY ImplementsDevice
