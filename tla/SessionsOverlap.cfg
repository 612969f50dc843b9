SPECIFICATION SessionsSpec
CONSTANTS
  Nodes = {a, b}
  Leader = a
  Connected = {k}
  Pinging = {a}
  MaxConns = 2
  MaxRead = 2
  FragmentCount = 4
  MaxTime = 2
  MaxCrashes = 0
  Mortal = "followers"
  OneByOne = "yes"
  Clients = {k}
  Queries = {q1}
  Long = {}
  Overlap = "yes"
  MaxSessions = 1
  MaxQueries = 1
  MaxTroubles = 0
INVARIANT AnswerComplete
