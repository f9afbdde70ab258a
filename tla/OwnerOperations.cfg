SPECIFICATION ScheduledSpec
CONSTANTS
  o1 = o1
  Operations <- MCOperations
  Kinds <- AllKinds
  OverwriteExisting = FALSE
  MaxCrashes = 1
  Events <- AllEvents
INVARIANTS SucceededOutputsExist PaidWorkIsAccounted
PROPERTIES LocalCancellationWins RequestedCancellationsEnd OpenCallsReturn
CHECK_DEADLOCK FALSE
