SPECIFICATION FairSpec
CONSTANTS
  Roots = {"r1", "r2"}
  Children = {"a"}
  Rights = {"tools", "page"}
  Essential = {"tools"}
  Topics = {"page"}
  Uses = {"page"}
  MaxInbox = 1
  MaxCalls = 2
  MaxSubtree = 3
  MaxUser = 1
  MaxCrashes = 1
  Steps <- Map
  Concurrency = 2
CHECK_DEADLOCK FALSE
INVARIANTS OnlyRecoveryOrphans ProgramsEndWithTheirChild
PROPERTIES CallsBelowReturn
