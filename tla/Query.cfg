SPECIFICATION Spec
CONSTANTS
  Schema <- MCSchema
  IntMax = 15
  Queries <- MCQueries
  Databases <- MCDatabases
INVARIANT TypeOK
INVARIANT SaidIsParsed
INVARIANT OnlyCutQueriesFault
INVARIANT StepRight
INVARIANT AnswerRight
