SPECIFICATION FairSpec
CONSTANTS
  Handler = {h1, h2}
  Reports = {"IN_CALL", "COMPLETED", "FAILED"}
  Utterance = {u1}
  MaxCrashes = 1
  Null = Null
CHECK_DEADLOCK FALSE
INVARIANTS
  HeldIsNotCancelled
  HeldIsBilled
PROPERTIES
  MeetingsImplementLifecycle
  MeetingEnds
