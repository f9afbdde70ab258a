SPECIFICATION Spec
CONSTANTS
  Roots = {"r1"}
  Children = {"a", "b"}
  Rights = {"tools", "page"}
  Essential = {"tools"}
  Topics = {"page"}
  Uses = {"page"}
  MaxInbox = 1
  MaxCalls = 2
  MaxSubtree = 3
  MaxUser = 2
  MaxCrashes = 0
  Steps <- OneCall
  Concurrency = 2
CHECK_DEADLOCK FALSE
INVARIANTS AuthorityNarrows
PROPERTIES PausedTreesRest
