SPECIFICATION SessionsSpec
CONSTANTS
  Nodes = {a, b, c, d}
  Leader = a
  Pinging = {}
  Connected = {k}
  MaxConns = 12
  MaxRead = 1
  FragmentCount = 4
  MaxTime = 4
  MaxCrashes = 2
  Mortal = "followers"
  OneByOne = "yes"
  Clients = {k}
  Queries = {q1}
  Long = {}
  Overlap = "no"
  MaxSessions = 1
  MaxQueries = 1
  MaxTroubles = 2
CHECK_DEADLOCK FALSE
INVARIANT AnswerComplete
INVARIANT DealsInRange
INVARIANT FragmentsCovered
