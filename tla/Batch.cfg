SPECIFICATION Spec
CONSTANTS
  Files = {1, 2, 3}
  MaxThreads = 3
  MaxFlows = 2
INVARIANTS
  OkCountsAreTrue
  StopsAtFirstFailure
PROPERTIES
  BatchEnds
