SPECIFICATION SearchSpec
CONSTANTS
  q1 = q1
  q2 = q2
  Queries <- MCQueries
  MaxSearches = 2
INVARIANT HitsAnswerTheQuery
CHECK_DEADLOCK FALSE
