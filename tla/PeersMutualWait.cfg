SPECIFICATION FairSpec
CONSTANTS
  Nodes = {a, b}
  MaxConns = 4
  MaxRead = 1
  FragmentCount = 4
  MaxTime = 2
  MaxCrashes = 0
  Mortal = "anyone"
  OneByOne = "no"
CHECK_DEADLOCK FALSE
PROPERTY SomeoneLeads
