SPECIFICATION Spec
CONSTANTS
  Request = {r1, r2, r3}
  MaxUses = 2
  Limit = 1
  MaxFaults = 1
  None = None
SYMMETRY Requests
CHECK_DEADLOCK FALSE
INVARIANTS
  UsesAreStarts
  AttemptsAreLimited
  OneAnswer
