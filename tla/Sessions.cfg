SPECIFICATION FairSessionsSpec
CONSTANTS
  Nodes = {a, b}
  Leader = a
  Pinging = {a}
  Connected = {}
  MaxConns = 4
  MaxRead = 1
  FragmentCount = 4
  MaxTime = 3
  MaxCrashes = 1
  Mortal = "followers"
  OneByOne = "yes"
  Clients = {k}
  Queries = {q1, q2}
  Long = {q2}
  Overlap = "no"
  MaxSessions = 3
  MaxQueries = 2
  MaxTroubles = 1
CHECK_DEADLOCK FALSE
INVARIANT SessionsTypeOK
INVARIANT AnswerComplete
INVARIANT FragmentsCovered
PROPERTY StableWhileQueried
PROPERTY ShowsItsAnswer
PROPERTY QueriesAnswered
