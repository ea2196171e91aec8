SPECIFICATION FairWebhookSpec
CONSTANTS
  Worker = {w1, w2}
  Caller = {c1}
  Event = {e1}
  MAX_ATTEMPTS = 2
  DISABLE_AFTER = 1
  MaxManual = 1
  MaxCrashes = 1
CHECK_DEADLOCK FALSE
INVARIANTS
  AttemptSentOnce
  FailuresAreCounted
PROPERTIES
  EveryEventIsDispatched
  EveryDeliveryIsTried
