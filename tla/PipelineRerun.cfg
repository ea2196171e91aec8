SPECIFICATION PipelineSpec
CONSTANTS
  Worker = {w1, w2}
  Caller = {c1, c2}
  PIPELINE_STEPS <- TwoSteps
  MAX_ATTEMPTS = 1
  MaxGeneration = 2
  MaxRetries = 0
  MaxCrashes = 0
SYMMETRY Alike
CHECK_DEADLOCK FALSE
INVARIANTS
  OneStarter
PROPERTIES
  EvaluationNeverRegresses
