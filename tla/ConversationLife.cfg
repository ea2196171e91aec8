SPECIFICATION FairConversationSpec
CONSTANTS
  Moves = {"speak", "type", "pause", "end", "close", "drop", "restart", "timer"}
  AllowBargeIn = TRUE
  MAX_LLM_FAILURES = 2
  MaxInputs = 2
  MaxReplies = 2
  MaxChunks = 1
CHECK_DEADLOCK FALSE
INVARIANTS
  LastWord
PROPERTIES
  CloseIsNotPutOff
