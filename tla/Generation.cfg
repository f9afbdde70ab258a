CONSTANTS
  o1 = o1  o2 = o2
  Operations = {o1, o2}
  Unpriced = Unpriced
  Unlimited = Unlimited
  Quotes = {1}
  Ceiling = 1
  MaxGenerations = 2
  Charges = {0, 2}
  MaxCrashes = 1
  Events = {"clock", "edit", "cancel", "loss", "vague"}
SPECIFICATION MCSpec
CHECK_DEADLOCK FALSE
INVARIANTS LedgerFollowsAttempt SpendIsCovered
PROPERTIES NeverSubmitsCancelled ImplementsAccount CancellationDrains
