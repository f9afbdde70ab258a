CONSTANTS
  MaxInbox = 2
  MaxAttempts = 1
  MaxControls = 0
  MaxCrashes = 0
  IsRoot = TRUE
  Replies = {"stop", "ask"}
  Faults = {}
SPECIFICATION Spec
INVARIANTS QuestionStaysAnswerable
CHECK_DEADLOCK FALSE
