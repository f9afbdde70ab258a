CONSTANTS
  MaxInbox = 1
  MaxAttempts = 2
  MaxControls = 0
  MaxCrashes = 1
  IsRoot = FALSE
  Replies = {"stop", "read"}
  Faults = {}
SPECIFICATION Spec
INVARIANTS ApplicationStarts
CHECK_DEADLOCK FALSE
