SPECIFICATION FairPipelineSpec
CONSTANTS
  Worker = {w1, w2}
  Caller = {c1}
  PIPELINE_STEPS <- TwoSteps
  MAX_ATTEMPTS = 2
  MaxGeneration = 1
  MaxRetries = 1
  MaxCrashes = 1
CHECK_DEADLOCK FALSE
INVARIANTS
  DoneMeansDone
  AnnouncedOncePerRun
PROPERTIES
  EventuallyAnalyzed
