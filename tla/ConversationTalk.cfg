SPECIFICATION ConversationSpec
CONSTANTS
  Moves = {"speak", "type", "upload", "playback", "pause", "drop", "restart", "error"}
  AllowBargeIn = TRUE
  MAX_LLM_FAILURES = 2
  MaxInputs = 2
  MaxReplies = 2
  MaxChunks = 2
CHECK_DEADLOCK FALSE
INVARIANTS
  OneVoice
  FreshReplies
  HeardIsKept
  NothingForgotten
