SPECIFICATION Spec
CONSTANTS
  Nodes = {a, b}
  MaxConns = 4
  MaxRead = 2
  FragmentCount = 4
  MaxTime = 2
  MaxCrashes = 1
  Mortal = "anyone"
  OneByOne = "no"
SYMMETRY PeerSymmetry
CHECK_DEADLOCK FALSE
INVARIANT TypeOK
INVARIANT SlotsInRange
INVARIANT IdsAccurate
INVARIANT PingsInStep
PROPERTY SeniorityRespected
