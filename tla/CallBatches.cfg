SPECIFICATION Spec
CONSTANTS
  Worker = {w1, w2}
  Target <- Targets
  Phone <- PhoneOf
  Upload = {u1, u2}
  Concurrency = 1
  MaxDue = 1
  MaxCrashes = 2
SYMMETRY Alike
CHECK_DEADLOCK FALSE
INVARIANTS
  CalledOnce
  CompletedIsSettled
  Driven
PROPERTIES
  CancelStops
