SPECIFICATION LiveLinkSpec
CONSTANTS
  Tabs = {t1}
  Durables = {"pause", "resume", "other"}
  OutboxLimit = 1
  MaxTrouble = 3
  MaxInputs = 2
CHECK_DEADLOCK FALSE
INVARIANTS
  Delivered
  TranscriptIsWhole
  LinkAgrees
