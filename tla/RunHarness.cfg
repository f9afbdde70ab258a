CONSTANTS
  MaxInbox = 3
  MaxAttempts = 2
  MaxControls = 2
  MaxCrashes = 1
  IsRoot = TRUE
  Replies = {"stop", "read", "control", "bound", "export", "ask", "protected", "failed", "unknown", "cancelled", "lost", "throw"}
  Faults = {"quote", "tool", "stale_plan"}
SPECIFICATION MCSpec
INVARIANTS RunSafety
PROPERTIES SettledOnce NothingAfterTheEnd ImplementsMailbox CalmMessagesAreServed StoppedRunReleasesTask CalmRestartsRecover
CHECK_DEADLOCK FALSE
