SPECIFICATION Spec
CONSTANTS
  Files <- MCFiles
  Begins <- MCBegins
  Ends <- MCEnds
  TokensOf <- MCTokens
INVARIANTS
  ProgramMeansSource
  DataMeansSource
  LinkageMeansSource
CHECK_DEADLOCK FALSE
