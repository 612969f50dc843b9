SPECIFICATION JoinsSpec
CONSTANTS
  Files = {f, g}
  MaxBlocks = 6
  Contents = {0}
  Zero = 0
  Size = 7
  FirstBlock = 3
  SelfJoins = "hashed"
INVARIANT JoinsTypeOK
INVARIANT AllReleased
INVARIANT PoolExact
INVARIANT NoFault
INVARIANT NestedFits
