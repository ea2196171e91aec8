SPECIFICATION Spec
CONSTANTS
  Handler = {h1, h2}
  Courses <- TwoItems
  MaxAttempts = 2
  MaxGeneration = 3
  MaxEvaluations = 2
  MaxCrashes = 2
SYMMETRY Handlers
CHECK_DEADLOCK FALSE
INVARIANTS
  CompletedIsEarned
  EarnedIsCompleted
  InOrder
  NoStaleFailure
