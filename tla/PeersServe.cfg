SPECIFICATION FairSpec
CONSTANTS
  Nodes = {a, b}
  MaxConns = 4
  MaxRead = 1
  FragmentCount = 4
  MaxTime = 3
  MaxCrashes = 1
  Mortal = "followers"
  OneByOne = "yes"
INVARIANT FragmentsCovered
PROPERTY EventuallyServes
